-------------------------------- MODULE Outbox --------------------------------
(***************************************************************************)
(* Critical domain events of one member: SqlAlchemyUnitOfWork.commit,      *)
(* the in-memory bus and the OutboxDispatcher.                             *)
(*                                                                         *)
(*   infrastructure/db/unit_of_work.py   data and outbox row, one commit   *)
(*   infrastructure/events/outbox.py     the background dispatcher         *)
(*   infrastructure/events/in_memory_bus.py                                *)
(*   infrastructure/discord/cogs/relationship.py   the role on Discord     *)
(*   api/container.py                    the panel's own, empty bus        *)
(*                                                                         *)
(* Event e is the change that gives the member role e; the row lock on the *)
(* profile makes the changes commit one after another. A publisher is the  *)
(* use case that committed an event (numbered like it) or the dispatcher.  *)
(* Definitions marked "mutant" are bugs the runs must notice.              *)
(***************************************************************************)
EXTENDS Integers, FiniteSets

CONSTANTS
    Events,          \* the role changes, 1, 2, ...
    PanelEvents,     \* those a use case of the panel process commits
    Unregistered,    \* those whose type the dispatcher's registry lacks
    Subscribers,     \* the handlers that the bot's cogs subscribe
    RoleSync,        \* the one that gives the Discord role
    HandlersMayFail, \* may a handler end in an exception?
    BatchSize,       \* OutboxDispatcher._BATCH
    MaxCrashes       \* bound on crashes

ASSUME OutboxAssumption ==
    /\ Events \subseteq Nat \ {0} /\ IsFiniteSet(Events)
    /\ PanelEvents \subseteq Events /\ Unregistered \subseteq Events
    /\ RoleSync \in Subscribers
    /\ HandlersMayFail \in BOOLEAN
    /\ BatchSize \in Nat \ {0} /\ MaxCrashes \in Nat

Process == {"bot", "panel"}
Dispatcher == 0
Publisher == Events \cup {Dispatcher}

HomeOf(p) == IF p \in PanelEvents THEN "panel" ELSE "bot"

VARIABLES
    row,       \* outbox row: absent, unpublished, published, dead (attempts used up)
    role,      \* the member's role by the database, 0 at first
    shown,     \* the member's role on Discord
    up,        \* which processes run
    publishing,\* the event a publisher is handing to the bus, 0 if none
    left,      \* the handlers of that event that have not run yet
    unmarked,  \* published, but not yet marked in the database
    batch,     \* rows the dispatcher selected and has still to publish
    rejected,  \* rows of the batch with an unknown type
    received,  \* history: the handlers that have been handed an event
    crashes    \* bound: crashes so far

dispatch == <<batch, rejected>>
vars == <<row, role, shown, up, publishing, left, unmarked, dispatch, received, crashes>>

Init ==
    /\ row = [e \in Events |-> "absent"]
    /\ role = 0 /\ shown = 0
    /\ up = Process
    /\ publishing = [p \in Publisher |-> 0]
    /\ left = [p \in Publisher |-> {}]
    /\ unmarked = [p \in Publisher |-> {}]
    /\ batch = {} /\ rejected = {}
    /\ received = [e \in Events |-> {}]
    /\ crashes = 0

(* Handlers of the bus in the process of publisher p: the cogs run only in *)
(* the bot, nobody subscribes in the panel.                                *)
SubscribersAt(p) == IF HomeOf(p) = "bot" THEN Subscribers ELSE {}

Publish(p, e) ==
    /\ publishing' = [publishing EXCEPT ![p] = e]
    /\ left' = [left EXCEPT ![p] = SubscribersAt(p)]

(* The first commit: the profile and its outbox row, or neither.           *)
Commit(e) ==
    /\ HomeOf(e) \in up
    /\ row[e] = "absent" /\ \A d \in Events : d < e => row[d] # "absent"
    /\ row' = [row EXCEPT ![e] = "unpublished"]
    /\ role' = e
    /\ Publish(e, e)
    /\ UNCHANGED <<shown, up, unmarked, dispatch, received, crashes>>

(* A handler runs; the bus swallows its exception.                         *)
Handle(p, s) ==
    /\ s \in left[p]
    /\ left' = [left EXCEPT ![p] = @ \ {s}]
    /\ received' = [received EXCEPT ![publishing[p]] = @ \cup {s}]
    /\ \E ok \in {TRUE, ~HandlersMayFail} :
        shown' = IF s = RoleSync /\ ok THEN publishing[p] ELSE shown
    /\ UNCHANGED <<row, role, up, publishing, unmarked, dispatch, crashes>>

EagerlyDone(p) == publishing[p] # 0 \* mutant
HandlersDone(p) == publishing[p] # 0 /\ left[p] = {}

(* bus.publish returns.                                                    *)
Published(p) ==
    /\ HandlersDone(p)
    /\ unmarked' = [unmarked EXCEPT ![p] = @ \cup {publishing[p]}]
    /\ publishing' = [publishing EXCEPT ![p] = 0]
    /\ UNCHANGED <<row, role, shown, up, left, dispatch, received, crashes>>

(* The second commit of the unit of work.                                  *)
MarkPublished(e) ==
    /\ unmarked[e] # {}
    /\ row' = [row EXCEPT ![e] = "published"]
    /\ unmarked' = [unmarked EXCEPT ![e] = {}]
    /\ UNCHANGED <<role, shown, up, publishing, left, dispatch, received, crashes>>

(***************************************************************************)
(* The dispatcher: one transaction over the whole batch.                   *)
(***************************************************************************)
Lowest(S) == {e \in S : Cardinality({d \in S : d < e}) < BatchSize}

Busy == publishing[Dispatcher] # 0 \/ unmarked[Dispatcher] # {} \/ batch \cup rejected # {}

NothingUnpublished == {} \* mutant
Unpublished == {e \in Events : row[e] = "unpublished"}

Select ==
    /\ "bot" \in up /\ ~Busy
    /\ Unpublished # {}
    /\ batch' = Lowest(Unpublished)
    /\ UNCHANGED <<row, role, shown, up, publishing, left, unmarked, rejected, received, crashes>>

PublishNext ==
    /\ publishing[Dispatcher] = 0
    /\ \E e \in batch :
        /\ \A d \in batch : e <= d
        /\ batch' = batch \ {e}
        /\ IF e \in Unregistered
           THEN rejected' = rejected \cup {e} /\ UNCHANGED <<publishing, left>>
           ELSE Publish(Dispatcher, e) /\ UNCHANGED rejected
    /\ UNCHANGED <<row, role, shown, up, unmarked, received, crashes>>

CommitBatch ==
    /\ publishing[Dispatcher] = 0 /\ batch = {} /\ Busy
    /\ row' = [e \in Events |->
        IF e \in unmarked[Dispatcher] THEN "published"
        ELSE IF e \in rejected /\ row[e] = "unpublished" THEN "dead" ELSE row[e]]
    /\ unmarked' = [unmarked EXCEPT ![Dispatcher] = {}]
    /\ rejected' = {}
    /\ UNCHANGED <<role, shown, up, publishing, left, batch, received, crashes>>

(***************************************************************************)
(* Faults.                                                                 *)
(***************************************************************************)
Crash(x) ==
    /\ x \in up /\ crashes < MaxCrashes
    /\ crashes' = crashes + 1
    /\ up' = up \ {x}
    /\ LET Lost(p) == HomeOf(p) = x IN
        /\ publishing' = [p \in Publisher |-> IF Lost(p) THEN 0 ELSE publishing[p]]
        /\ left' = [p \in Publisher |-> IF Lost(p) THEN {} ELSE left[p]]
        /\ unmarked' = [p \in Publisher |-> IF Lost(p) THEN {} ELSE unmarked[p]]
    /\ IF x = "bot" THEN batch' = {} /\ rejected' = {} ELSE UNCHANGED dispatch
    /\ UNCHANGED <<row, role, shown, received>>

Restart(x) ==
    /\ x \notin up
    /\ up' = up \cup {x}
    /\ UNCHANGED <<row, role, shown, publishing, left, unmarked, dispatch, received, crashes>>

Work(p) == Published(p) \/ \E s \in Subscribers : Handle(p, s)
Dispatch == Select \/ PublishNext \/ CommitBatch

Next ==
    \/ \E e \in Events : Commit(e) \/ MarkPublished(e)
    \/ \E p \in Publisher : Work(p)
    \/ Dispatch
    \/ \E x \in Process : Crash(x) \/ Restart(x)

Spec == Init /\ [][Next]_vars

-----------------------------------------------------------------------------
(* Every variable has its type; handlers are pending only while an event   *)
(* is being published, and a process that is down publishes nothing.       *)
TypeOK ==
    /\ row \in [Events -> {"absent", "unpublished", "published", "dead"}]
    /\ role \in Events \cup {0} /\ shown \in Events \cup {0}
    /\ up \subseteq Process
    /\ publishing \in [Publisher -> Events \cup {0}]
    /\ left \in [Publisher -> SUBSET Subscribers]
    /\ unmarked \in [Publisher -> SUBSET Events]
    /\ batch \subseteq Events /\ rejected \subseteq Events
    /\ received \in [Events -> SUBSET Subscribers]
    /\ crashes \in Nat
    /\ \A p \in Publisher :
        /\ left[p] # {} => publishing[p] # 0
        /\ HomeOf(p) \notin up => publishing[p] = 0 /\ unmarked[p] = {}
    /\ "bot" \notin up => batch = {} /\ rejected = {}

(* At least once: an event the bot committed is not marked published       *)
(* before every subscriber has been handed it, across crashes and races    *)
(* between a use case and the dispatcher.                                  *)
HandedBeforeMarked ==
    \A e \in Events \ PanelEvents : row[e] = "published" => Subscribers \subseteq received[e]

(* A committed event of the bot reaches every subscriber, however often    *)
(* the bot crashes between commit and publish.                             *)
EventuallyHanded ==
    \A e \in Events \ (PanelEvents \cup Unregistered) :
        row[e] = "unpublished" ~> Subscribers \subseteq received[e]
=============================================================================
