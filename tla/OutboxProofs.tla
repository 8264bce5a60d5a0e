----------------------------- MODULE OutboxProofs -----------------------------
(* Proofs about Outbox, for every set of events and subscribers, and about *)
(* GuildSettings, for every number of rows, jobs, faults and writes.       *)
EXTENDS MCData, FiniteSetTheorems, TLAPS

LEMMA PublisherFacts ==
    /\ Dispatcher \in Publisher /\ Events \subseteq Publisher
    /\ Dispatcher \notin Events /\ 0 \notin Events
    /\ HomeOf(Dispatcher) = "bot"
    /\ \A e \in Events \ PanelEvents : HomeOf(e) = "bot"
  BY OutboxAssumption DEF Publisher, Dispatcher, HomeOf

(* What a publisher of the bot owes: the handlers it has still to run are  *)
(* all that an event misses, and it marks only what everybody was handed.  *)
Owed ==
    /\ \A p \in Events : publishing[p] \in {0, p} /\ unmarked[p] \subseteq {p}
    /\ \A p \in Publisher : HomeOf(p) = "bot" =>
        /\ publishing[p] # 0 => Subscribers \subseteq received[publishing[p]] \cup left[p]
        /\ \A e \in unmarked[p] : Subscribers \subseteq received[e]

HandedInv == Owed /\ HandedBeforeMarked

(* Every variable keeps its type, handlers are pending only while an event *)
(* is being published, and a process that is down publishes nothing.       *)
THEOREM TypeCorrect == Spec => []TypeOK
<1>1. Init => TypeOK
  BY PublisherFacts DEF Init, TypeOK, Process, HomeOf
<1>2. TypeOK /\ [Next]_vars => TypeOK'
  <2> SUFFICES ASSUME TypeOK, [Next]_vars PROVE TypeOK'
    OBVIOUS
  <2> USE PublisherFacts DEF TypeOK, dispatch
  <2>1. ASSUME NEW e \in Events, Commit(e) PROVE TypeOK'
    BY <2>1 DEF Commit, Publish, SubscribersAt
  <2>2. ASSUME NEW e \in Events, MarkPublished(e) PROVE TypeOK'
    BY <2>2 DEF MarkPublished
  <2>3. ASSUME NEW p \in Publisher, Published(p) PROVE TypeOK'
    BY <2>3 DEF Published, HandlersDone
  <2>4. ASSUME NEW p \in Publisher, NEW s \in Subscribers, Handle(p, s) PROVE TypeOK'
    BY <2>4 DEF Handle
  <2>5. CASE Select
    BY <2>5 DEF Select, Lowest, Unpublished
  <2>6. CASE PublishNext
    <3>1. PICK e \in batch : PublishNext!2!(e)
      BY <2>6 DEF PublishNext
    <3>2. "bot" \in up
      OBVIOUS
    <3> QED
      BY <2>6, <3>1, <3>2 DEF PublishNext, Publish, SubscribersAt
  <2>7. CASE CommitBatch
    BY <2>7 DEF CommitBatch
  <2>8. ASSUME NEW x \in Process, Crash(x) PROVE TypeOK'
    BY <2>8 DEF Crash, Process
  <2>9. ASSUME NEW x \in Process, Restart(x) PROVE TypeOK'
    BY <2>9 DEF Restart
  <2>10. CASE UNCHANGED vars
    BY <2>10 DEF vars
  <2> QED
    BY <2>1, <2>2, <2>3, <2>4, <2>5, <2>6, <2>7, <2>8, <2>9, <2>10
       DEF Next, Work, Dispatch
<1> QED
  BY <1>1, <1>2, PTL DEF Spec

-----------------------------------------------------------------------------
(* At least once: an event the bot committed is marked published only      *)
(* after every subscriber was handed it, whatever crashes and whoever      *)
(* publishes it, the use case or the dispatcher.                           *)
THEOREM AtLeastOnce == Spec => []HandedBeforeMarked
<1>1. Init => HandedInv
  BY PublisherFacts DEF Init, HandedInv, Owed, HandedBeforeMarked
<1>2. TypeOK /\ HandedInv /\ [Next]_vars => HandedInv'
  <2> SUFFICES ASSUME TypeOK, HandedInv, [Next]_vars PROVE HandedInv'
    OBVIOUS
  <2> USE PublisherFacts DEF TypeOK, HandedInv, Owed, HandedBeforeMarked, dispatch
  <2>1. ASSUME NEW e \in Events, Commit(e) PROVE HandedInv'
    BY <2>1 DEF Commit, Publish, SubscribersAt
  <2>2. ASSUME NEW e \in Events, MarkPublished(e) PROVE HandedInv'
    BY <2>2 DEF MarkPublished
  <2>3. ASSUME NEW p \in Publisher, Published(p) PROVE HandedInv'
    <3>1. UNCHANGED <<row, left, received>> /\ publishing[p] # 0 /\ left[p] = {}
      BY <2>3 DEF Published, HandlersDone
    <3>2. HomeOf(p) = "bot" => Subscribers \subseteq received[publishing[p]]
      BY <3>1
    <3>3. publishing' = [publishing EXCEPT ![p] = 0]
      BY <2>3 DEF Published
    <3>4. ASSUME NEW q \in Publisher, HomeOf(q) = "bot", NEW e \in unmarked'[q]
          PROVE  Subscribers \subseteq received'[e]
      <4>1. e \in unmarked[q] \/ (q = p /\ e = publishing[p])
        BY <2>3 DEF Published
      <4> QED
        BY <3>1, <3>2, <3>4, <4>1
    <3>5. ASSUME NEW q \in Events
          PROVE  publishing'[q] \in {0, q} /\ unmarked'[q] \subseteq {q}
      BY <2>3, <3>1, <3>3 DEF Published
    <3>6. ASSUME NEW q \in Publisher, HomeOf(q) = "bot", publishing'[q] # 0
          PROVE  Subscribers \subseteq received'[publishing'[q]] \cup left'[q]
      BY <3>1, <3>3, <3>6
    <3>7. Owed'
      BY <3>4, <3>5, <3>6
    <3>8. HandedBeforeMarked'
      BY <3>1
    <3> QED
      BY <3>7, <3>8
  <2>4. ASSUME NEW p \in Publisher, NEW s \in Subscribers, Handle(p, s) PROVE HandedInv'
    <3>1. \A e \in Events : received[e] \subseteq received'[e] /\ received'[e] \subseteq Subscribers
      BY <2>4 DEF Handle
    <3>2. publishing[p] \in Events => s \in received'[publishing[p]]
      BY <2>4 DEF Handle
    <3>3. UNCHANGED <<publishing, unmarked, row>> /\ left' = [left EXCEPT ![p] = @ \ {s}]
      BY <2>4 DEF Handle
    <3>4. ASSUME NEW q \in Publisher, HomeOf(q) = "bot", publishing[q] # 0
          PROVE  Subscribers \subseteq received'[publishing[q]] \cup left'[q]
      <4>1. publishing[q] \in Events /\ Subscribers \subseteq received[publishing[q]] \cup left[q]
        BY <3>4
      <4> QED
        BY <4>1, <3>1, <3>2, <3>3
    <3>5. ASSUME NEW e \in Events, Subscribers \subseteq received[e] PROVE Subscribers \subseteq received'[e]
      BY <3>1, <3>5
    <3>6. ASSUME NEW q \in Publisher, HomeOf(q) = "bot", NEW e \in unmarked'[q]
          PROVE  Subscribers \subseteq received'[e]
      <4>1. e \in unmarked[q] /\ e \in Events
        BY <3>3, <3>6
      <4>2. Subscribers \subseteq received[e]
        BY <3>6, <4>1
      <4> QED
        BY <3>5, <4>1, <4>2
    <3>7. HandedBeforeMarked'
      BY <3>3, <3>5
    <3>8. Owed'
      BY <3>3, <3>4, <3>6
    <3> QED
      BY <3>7, <3>8
  <2>5. CASE Select
    BY <2>5 DEF Select
  <2>6. CASE PublishNext
    <3>1. PICK e \in batch : PublishNext!2!(e)
      BY <2>6 DEF PublishNext
    <3> QED
      BY <2>6, <3>1 DEF PublishNext, Publish, SubscribersAt
  <2>7. CASE CommitBatch
    BY <2>7 DEF CommitBatch
  <2>8. ASSUME NEW x \in Process, Crash(x) PROVE HandedInv'
    BY <2>8 DEF Crash, Process
  <2>9. ASSUME NEW x \in Process, Restart(x) PROVE HandedInv'
    BY <2>9 DEF Restart
  <2>10. CASE UNCHANGED vars
    BY <2>10 DEF vars
  <2> QED
    BY <2>1, <2>2, <2>3, <2>4, <2>5, <2>6, <2>7, <2>8, <2>9, <2>10
       DEF Next, Work, Dispatch
<1>3. HandedInv => HandedBeforeMarked
  BY DEF HandedInv
<1> QED
  BY <1>1, <1>2, <1>3, TypeCorrect, PTL DEF Spec

-----------------------------------------------------------------------------
(* While publishers do not overlap, nobody but the use case that committed *)
(* an event publishes it, and it has the role of the database in hand      *)
(* until Discord shows it.                                                 *)
Sync(p) == publishing[p] = p /\ RoleSync \in left[p]

Apart == ~Overlap /\ ~Active(Dispatcher)
OwnEvents ==
    /\ \A e \in Events : row[e] = "unpublished" => Active(e)
    /\ \A e \in Events : publishing[e] # 0 => publishing[e] = e /\ role = e
Showing == shown = role \/ \E e \in Events : Sync(e)
RoleInv == ~disturbed => Apart /\ OwnEvents /\ Showing

LEMMA RoleStep == TypeOK /\ RoleInv /\ [MCNext]_mcVars => RoleInv'
<1> SUFFICES ASSUME TypeOK, RoleInv, [MCNext]_mcVars, ~disturbed'
             PROVE  Apart' /\ OwnEvents' /\ Showing'
  BY DEF RoleInv
<1>t. /\ publishing \in [Publisher -> Events \cup {0}] /\ left \in [Publisher -> SUBSET Subscribers]
      /\ unmarked \in [Publisher -> SUBSET Events] /\ row \in [Events -> {"absent", "unpublished", "published", "dead"}]
      /\ \A p \in Publisher : left[p] # {} => publishing[p] # 0
      /\ Events \subseteq Publisher /\ Dispatcher \in Publisher /\ 0 \notin Events /\ Dispatcher = 0
      /\ RoleSync \in Subscribers
  BY OutboxAssumption DEF TypeOK, Publisher, Dispatcher
<1>1. CASE UNCHANGED mcVars
  <2>1. disturbed' = disturbed /\ UNCHANGED <<row, role, shown, publishing, left, unmarked, batch, rejected>>
    BY <1>1 DEF mcVars, vars, dispatch
  <2> QED  BY <2>1 DEF RoleInv, Apart, Overlap, Active, OwnEvents, Showing, Sync
<1>2. CASE MCNext
  <2>1. /\ Next /\ ~disturbed /\ ~Overlap' /\ ~(crashes' > 0) /\ ~HandlerFails /\ ~PanelCommits
    <3>1. Next /\ disturbed' = (disturbed \/ Overlap' \/ crashes' > 0 \/ HandlerFails \/ PanelCommits)
      BY <1>2 DEF MCNext
    <3> QED  BY <3>1
  <2>2. /\ ~Overlap /\ ~Active(Dispatcher) /\ Showing
        /\ \A e \in Events : row[e] = "unpublished" => Active(e)
        /\ \A e \in Events : publishing[e] # 0 => publishing[e] = e /\ role = e
    BY <2>1 DEF RoleInv, Apart, OwnEvents
  <2>3. /\ batch = {} /\ rejected = {} /\ publishing[0] = 0 /\ unmarked[0] = {} /\ left[0] = {}
    BY <2>2, <1>t DEF Active
  <2>4. \A e \in Events : Active(e) = (publishing[e] # 0 \/ unmarked[e] # {})
    BY <1>t DEF Active
  <2>5. ASSUME NEW e \in Events, Commit(e) PROVE Apart' /\ OwnEvents' /\ Showing'
    <3>1. /\ row' = [row EXCEPT ![e] = "unpublished"] /\ role' = e
          /\ publishing' = [publishing EXCEPT ![e] = e]
          /\ left' = [left EXCEPT ![e] = SubscribersAt(e)]
          /\ row[e] = "absent" /\ UNCHANGED <<shown, unmarked, batch, rejected>>
      BY <2>5 DEF Commit, Publish, dispatch
    <3>2. e \notin PanelEvents
      <4>1. row'[e] # row[e]
        BY <3>1, <1>t
      <4> QED  BY <4>1, <2>1 DEF PanelCommits
    <3>3. publishing'[e] = e /\ RoleSync \in left'[e] /\ e # 0
      BY <3>1, <3>2, <1>t DEF SubscribersAt, HomeOf
    <3>4. \A d \in Events : d # e => /\ publishing'[d] = publishing[d] /\ row'[d] = row[d]
      BY <3>1, <1>t
    <3>5. \A d \in Events : d # e => publishing'[d] = 0
      BY <2>1, <3>3, <1>t DEF Overlap, Active
    <3>6. ~Active(Dispatcher)'
      BY <2>3, <3>1, <1>t DEF Active
    <3>7. OwnEvents'
      <4>1. \A d \in Events : row'[d] = "unpublished" => (publishing'[d] # 0 \/ unmarked'[d] # {})
        BY <2>2, <2>4, <3>1, <3>3, <3>4, ZenonT(60)
      <4>2. \A d \in Events : (publishing'[d] # 0 \/ unmarked'[d] # {}) => Active(d)'
        BY <1>t DEF Active
      <4>3. \A d \in Events : publishing'[d] # 0 => publishing'[d] = d /\ role' = d
        BY <3>1, <3>3, <3>5
      <4> QED  BY <4>1, <4>2, <4>3 DEF OwnEvents
    <3> QED  BY <2>1, <3>3, <3>6, <3>7 DEF Apart, Showing, Sync
  <2>6. ASSUME NEW p \in Publisher, NEW s \in Subscribers, Handle(p, s)
        PROVE  Apart' /\ OwnEvents' /\ Showing'
    <3>1. /\ s \in left[p] /\ left' = [left EXCEPT ![p] = @ \ {s}]
          /\ s # RoleSync => shown' = shown
          /\ UNCHANGED <<row, role, publishing, unmarked, batch, rejected>>
      BY <2>6 DEF Handle, dispatch
    <3>2. p \in Events /\ publishing[p] = p /\ role = p
      BY <3>1, <2>2, <2>3, <1>t DEF Publisher
    <3>3. OwnEvents' /\ Apart'
      BY <3>1, <2>1, <2>2 DEF OwnEvents, Active, Apart
    <3>4. Showing'
      <4>1. CASE s = RoleSync
        <5>1. RoleSync \in left[p] /\ RoleSync \notin left'[p]
          BY <4>1, <3>1, <1>t
        <5>2. shown' = publishing[p]
          BY <5>1, <2>1 DEF HandlerFails
        <5> QED  BY <5>2, <3>1, <3>2 DEF Showing
      <4>2. CASE s # RoleSync
        <5>1. \A e \in Events : Sync(e) => Sync(e)'
          BY <4>2, <3>1, <1>t DEF Sync
        <5> QED  BY <4>2, <5>1, <3>1, <2>2 DEF Showing
      <4> QED  BY <4>1, <4>2
    <3> QED  BY <3>3, <3>4
  <2>7. ASSUME NEW p \in Publisher, Published(p) PROVE Apart' /\ OwnEvents' /\ Showing'
    <3>1. /\ publishing[p] # 0 /\ left[p] = {}
          /\ unmarked' = [unmarked EXCEPT ![p] = @ \cup {publishing[p]}]
          /\ publishing' = [publishing EXCEPT ![p] = 0]
          /\ UNCHANGED <<row, role, shown, left, batch, rejected>>
      BY <2>7 DEF Published, HandlersDone, dispatch
    <3>2. p \in Events
      BY <3>1, <2>3, <1>t DEF Publisher
    <3>3. \A e \in Events : e # p => publishing'[e] = publishing[e] /\ unmarked'[e] = unmarked[e]
      BY <3>1, <3>2, <1>t
    <3>4. publishing'[p] = 0 /\ unmarked'[p] # {}
      BY <3>1, <3>2, <1>t
    <3>5. ~Active(Dispatcher)'
      BY <2>3, <3>1, <3>2, <1>t DEF Active
    <3>6. OwnEvents'
      <4>1. \A d \in Events : row'[d] = "unpublished" => (publishing'[d] # 0 \/ unmarked'[d] # {})
        BY <2>2, <2>4, <3>1, <3>3, <3>4
      <4>2. \A d \in Events : (publishing'[d] # 0 \/ unmarked'[d] # {}) => Active(d)'
        BY <1>t DEF Active
      <4>3. \A d \in Events : publishing'[d] # 0 => publishing'[d] = d /\ role' = d
        BY <2>2, <3>1, <3>3, <3>4
      <4> QED  BY <4>1, <4>2, <4>3 DEF OwnEvents
    <3>7. Showing'
      <4>1. \A e \in Events : ~Sync(e)
        BY <2>2, <3>1, <3>2, <1>t DEF Overlap, Active, Sync
      <4> QED  BY <4>1, <2>2, <3>1 DEF Showing
    <3> QED  BY <2>1, <3>5, <3>6, <3>7 DEF Apart
  <2>8. ASSUME NEW e \in Events, MarkPublished(e) PROVE Apart' /\ OwnEvents' /\ Showing'
    <3>1. /\ row' = [row EXCEPT ![e] = "published"] /\ unmarked' = [unmarked EXCEPT ![e] = {}]
          /\ UNCHANGED <<role, shown, publishing, left, batch, rejected>>
      BY <2>8 DEF MarkPublished, dispatch
    <3>2. ~Active(Dispatcher)'
      BY <2>3, <3>1, <1>t DEF Active
    <3>3. OwnEvents'
      <4>1. \A d \in Events : row'[d] = "unpublished" => (publishing'[d] # 0 \/ unmarked'[d] # {})
        BY <2>2, <2>4, <3>1, <1>t
      <4>2. \A d \in Events : (publishing'[d] # 0 \/ unmarked'[d] # {}) => Active(d)'
        BY <1>t DEF Active
      <4> QED  BY <4>1, <4>2, <3>1, <2>2 DEF OwnEvents
    <3>4. Showing'
      BY <3>1, <2>2 DEF Showing, Sync
    <3> QED  BY <2>1, <3>2, <3>3, <3>4 DEF Apart
  <2>9. ASSUME Select PROVE Apart' /\ OwnEvents' /\ Showing'
    <3>1. /\ Unpublished # {} /\ batch' = Lowest(Unpublished)
          /\ UNCHANGED <<row, role, shown, publishing, left, unmarked, rejected>>
      BY <2>9 DEF Select
    <3>2. PICK e \in Events : row[e] = "unpublished"
      BY <3>1 DEF Unpublished
    <3>3. Active(e)' /\ e # 0
      BY <2>2, <2>4, <3>1, <3>2, <1>t DEF Active
    <3>4. ~Active(Dispatcher)'
      BY <2>1, <3>3, <1>t DEF Overlap
    <3>5. batch' = {}
      BY <3>4 DEF Active
    <3> QED
      BY <2>1, <2>2, <2>3, <3>1, <3>4, <3>5 DEF Apart, Active, OwnEvents, Showing, Sync
  <2>10. ~PublishNext /\ ~CommitBatch
    BY <2>3 DEF PublishNext, CommitBatch, Busy, Dispatcher
  <2>11. ASSUME NEW x \in Process PROVE ~Crash(x)
    <3>1. crashes \in Nat
      BY DEF TypeOK
    <3> QED  BY <3>1, <2>1 DEF Crash
  <2>12. ASSUME NEW x \in Process, Restart(x) PROVE Apart' /\ OwnEvents' /\ Showing'
    <3>1. UNCHANGED <<row, role, shown, publishing, left, unmarked, batch, rejected>>
      BY <2>12 DEF Restart, dispatch
    <3> QED  BY <3>1, <2>1, <2>2 DEF Apart, Active, OwnEvents, Showing, Sync
  <2> QED
    BY <2>1, <2>5, <2>6, <2>7, <2>8, <2>9, <2>10, <2>11, <2>12 DEF Next, Work, Dispatch
<1> QED  BY <1>1, <1>2

(* MCData.LatestRoleShownUndisturbed: as long as no process crashed, no    *)
(* handler failed, no two publishers were at work at once and the panel    *)
(* committed nothing, Discord shows the role that the database computes    *)
(* whenever every event has been published and none is under way.          *)
THEOREM RoleShown == MCInit /\ [][MCNext]_mcVars => []LatestRoleShownUndisturbed
<1>1. MCInit => RoleInv
  <2> SUFFICES ASSUME MCInit PROVE Apart /\ OwnEvents /\ Showing
    BY DEF RoleInv
  <2>1. /\ row = [e \in Events |-> "absent"] /\ shown = role
        /\ publishing = [p \in Publisher |-> 0] /\ unmarked = [p \in Publisher |-> {}]
        /\ batch = {} /\ rejected = {}
    BY DEF MCInit, Init
  <2>2. \A p \in Publisher : ~Active(p)
    BY <2>1 DEF Active
  <2>3. Events \subseteq Publisher /\ Dispatcher \in Publisher
    BY DEF Publisher
  <2> QED
    BY <2>1, <2>2, <2>3 DEF Apart, Overlap, OwnEvents, Showing
<1>2. RoleInv => LatestRoleShownUndisturbed
  <2> SUFFICES ASSUME Showing, Quiet PROVE shown = role
    BY DEF RoleInv, LatestRoleShownUndisturbed
  <2>1. \A e \in Events : publishing[e] = 0 /\ e # 0
    BY OutboxAssumption DEF Quiet
  <2> QED
    BY <2>1 DEF Showing, Sync
<1>3. MCInit => Init
  BY DEF MCInit
<1>4. [MCNext]_mcVars => [Next]_vars
  BY DEF MCNext, mcVars
<1> QED
  BY <1>1, <1>2, <1>3, <1>4, RoleStep, TypeCorrect, PTL DEF Spec

-----------------------------------------------------------------------------
(* The copies of a table (NotifiedCache), as GuildSettings uses them.      *)
(* The row that is written.                                                *)
T == Settings!Target
Of(p) == Settings!JobsOf(p)

(* What a job is, whatever races.                                          *)
JobKinds == {"notified", "own", "resync"}
IsJob(j) ==
    /\ j = [proc |-> j.proc, slot |-> j.slot, kind |-> j.kind, at |-> j.at,
            rows |-> j.rows, news |-> j.news]
    /\ j.kind \in JobKinds /\ T \in j.rows
    /\ j.kind = "own" => j.at = "apply"

SettingsTypes ==
    /\ db = [r \in Rows |-> db[r]] /\ db[T] = [c \in {Low, High} |-> db[T][c]]
    /\ copy = [p \in Process |-> copy[p]] /\ memo = [p \in Process |-> memo[p]]
    /\ link \in [Process -> {"up", "sync", "down"}]
    /\ \A j \in jobs : IsJob(j)

(* A copy to which no two changes have raced: what is under way is a       *)
(* reload of everything, or a task for one NOTIFY with or without the      *)
(* writer's own change beside it.                                          *)
OneChange(p) ==
    /\ \A i, j \in Of(p) : i.kind = j.kind => i = j
    /\ \A j \in Of(p) : j.kind = "resync" <=> link[p] = "sync"
    /\ link[p] = "sync" => Of(p) # {}

(* What has been read is still so, ...                                     *)
StillSo(p) ==
    \A j \in Of(p) : j.at = "apply" =>
        /\ j.kind = "notified" /\ link[p] = "up" => j.news[T] = db[T]
        /\ j.kind = "own" /\ link[p] = "up" =>
              \A c \in DOMAIN j.news[T] : j.news[T][c] = db[T][c]
        /\ j.kind = "resync" =>
              j.news[T] = [c \in Settings!Present(db[T]) |-> db[T][c]]

(* ... and where nothing will be read the copy is right already.           *)
Right(p) ==
    /\ link[p] = "up" /\ (\A j \in Of(p) : j.kind # "notified") => copy[p][T] = db[T]
    /\ link[p] = "sync" => copy[p][T] = Settings!NoRow /\ memo[p] = {}
    /\ Settings!ModelIsOverlay(p)

Followed(p) == OneChange(p) /\ StillSo(p) /\ Right(p)
CopyInv == \A p \in Process \ raced : Followed(p)

(* A write under way was checked against what its writer's copy had.       *)
WriterTypes ==
    /\ pc \in [{"w1", "w2"} -> {"idle", "look", "save"}]
    /\ part = [w \in {"w1", "w2"} |-> part[w]] /\ basis = [w \in {"w1", "w2"} |-> basis[w]]
    /\ found = [w \in {"w1", "w2"} |-> found[w]]
    /\ \A w \in {"w1", "w2"} : DOMAIN part[w] \subseteq {Low, High}
Checked ==
    \A w \in {"w1", "w2"} : pc[w] # "idle" =>
        Settings!Valid(Settings!Merge(part[w], basis[w]))
WriteInv == WriterTypes /\ Checked /\ Settings!StoredIsValidSeen

LEMMA TargetIsRow == T \in Rows
  BY DataAssumption DEF T, Settings!Target

LEMMA SameCount == \A S : Settings!Cardinality(S) = Cardinality(S)
  BY DEF Settings!Cardinality, Cardinality

LEMMA FourOfThree == ASSUME NEW x, NEW y, NEW z  PROVE ~({1, 2, 3, 4} \subseteq {x, y, z})
  OBVIOUS

LEMMA LeastIn ==
  ASSUME NEW S, S \subseteq Nat \ {0}, S \cap {1, 2, 3, 4} # {}
  PROVE  Settings!Min(S) \in S
<1>1. \E x \in S : \A y \in S : x =< y
  <2>1. CASE 1 \in S
    BY <2>1
  <2>2. CASE 1 \notin S /\ 2 \in S
    BY <2>2
  <2>3. CASE 1 \notin S /\ 2 \notin S /\ 3 \in S
    BY <2>3
  <2>4. CASE 1 \notin S /\ 2 \notin S /\ 3 \notin S
    BY <2>4
  <2> QED  BY <2>1, <2>2, <2>3, <2>4
<1> QED  BY <1>1 DEF Settings!Min

(* A job with its answer in hand.                                          *)
LEMMA HoldingIs ==
  ASSUME NEW p, NEW slot, NEW kind, NEW at, NEW rows, NEW news, NEW n
  PROVE  Settings!Holding([proc |-> p, slot |-> slot, kind |-> kind, at |-> at,
                           rows |-> rows, news |-> news], n)
           = [proc |-> p, slot |-> slot, kind |-> kind, at |-> "apply",
              rows |-> rows, news |-> n]
<1> DEFINE a == [proc |-> p, slot |-> slot, kind |-> kind, at |-> at,
                 rows |-> rows, news |-> news]
           b == [proc |-> p, slot |-> slot, kind |-> kind, at |-> "apply",
                 rows |-> rows, news |-> news]
           new == [proc |-> p, slot |-> slot, kind |-> kind, at |-> "apply",
                   rows |-> rows, news |-> n]
<1>1. [a EXCEPT !.at = "apply"] = b
  OBVIOUS
<1>2. [b EXCEPT !.news = n] = new
  OBVIOUS
<1>3. [a EXCEPT !.at = "apply", !.news = n] = [[a EXCEPT !.at = "apply"] EXCEPT !.news = n]
  OBVIOUS
<1> HIDE DEF a, b, new
<1>4. [a EXCEPT !.at = "apply", !.news = n] = new
  BY <1>1, <1>2, <1>3
<1>5. Settings!Holding(a, n) = new
  BY <1>4 DEF Settings!Holding
<1> QED  BY <1>5 DEF a, new

LEMMA Answered ==
  ASSUME NEW j, NEW n, IsJob(j)
  PROVE  /\ Settings!Holding(j, n) = [proc |-> j.proc, slot |-> j.slot, kind |-> j.kind,
                                      at |-> "apply", rows |-> j.rows, news |-> n]
         /\ IsJob(Settings!Holding(j, n))
<1>1. Settings!Holding(j, n) = [proc |-> j.proc, slot |-> j.slot, kind |-> j.kind,
                                at |-> "apply", rows |-> j.rows, news |-> n]
  <2> DEFINE r == [proc |-> j.proc, slot |-> j.slot, kind |-> j.kind, at |-> j.at,
                   rows |-> j.rows, news |-> j.news]
  <2>1. j = r
    BY DEF IsJob
  <2>2. Settings!Holding(r, n) = [proc |-> j.proc, slot |-> j.slot, kind |-> j.kind,
                                  at |-> "apply", rows |-> j.rows, news |-> n]
    BY HoldingIs
  <2> HIDE DEF r
  <2> QED  BY <2>1, <2>2
<1> QED  BY <1>1 DEF IsJob

LEMMA ReaderIs ==
  ASSUME NEW p, NEW rows, NEW kind
  PROVE  Settings!Reader(p, rows, kind) =
           [proc |-> p, slot |-> Settings!FreeSlot(p), kind |-> kind, at |-> "select",
            rows |-> rows, news |-> [r \in rows |-> Settings!NoRow]]
  BY DEF Settings!Reader

LEMMA OwnPartIs ==
  ASSUME NEW p, NEW new
  PROVE  Settings!OwnPart(p, T, new) =
           [proc |-> p, slot |-> Settings!SecondSlot(p), kind |-> "own", at |-> "apply",
            rows |-> {T}, news |-> [x \in {T} |-> new]]
<1>1. Settings!OwnReader(p, T) =
        [proc |-> p, slot |-> Settings!SecondSlot(p), kind |-> "own", at |-> "select",
         rows |-> {T}, news |-> [r \in {T} |-> Settings!NoRow]]
  BY ReaderIs DEF Settings!OwnReader
<1> QED  BY <1>1, HoldingIs DEF Settings!OwnPart

(* Two jobs at most are under way.                                         *)
LEMMA Two ==
  ASSUME NEW p, OneChange(p), \A j \in Of(p) : IsJob(j), Of(p) # {}
  PROVE  \E a \in Of(p), b \in Of(p) :
            Of(p) = {a, b} /\ Cardinality(Of(p)) = IF a = b THEN 1 ELSE 2
<1>1. PICK a \in Of(p), b \in Of(p) : Of(p) = {a, b}
  <2>1. PICK a \in Of(p) : TRUE
    OBVIOUS
  <2>2. CASE Of(p) = {a}
    BY <2>2
  <2>3. CASE Of(p) # {a}
    <3>1. PICK b \in Of(p) : b # a
      BY <2>1, <2>3
    <3>2. \A c \in Of(p) : c = a \/ c = b
      BY <2>1, <3>1 DEF OneChange, IsJob, JobKinds
    <3> QED  BY <2>1, <3>1, <3>2
  <2> QED  BY <2>2, <2>3
<1>2. Cardinality(Of(p)) = IF a = b THEN 1 ELSE 2
  <2>1. CASE a = b
    BY <1>1, <2>1, FS_Singleton
  <2>2. CASE a # b
    <3>1. IsFiniteSet({a}) /\ Cardinality({a}) = 1
      BY FS_Singleton
    <3>2. Of(p) = {a} \cup {b}
      BY <1>1
    <3> QED  BY <2>2, <3>1, <3>2, FS_AddElement
  <2> QED  BY <2>1, <2>2
<1> QED  BY <1>1, <1>2

LEMMA CountOf ==
  ASSUME NEW p, OneChange(p), \A j \in Of(p) : IsJob(j), Of(p) # {}
  PROVE  Settings!Cardinality(Of(p)) \in Nat
  BY Two, SameCount

(* A slot is found for another one.                                        *)
LEMMA SlotFound ==
  ASSUME NEW p, OneChange(p), \A j \in Of(p) : IsJob(j), Of(p) # {}
  PROVE  /\ Settings!Cardinality(Of(p)) < MaxJobs =>
              Settings!FreeSlot(p) \notin {j.slot : j \in Of(p)}
         /\ Settings!Cardinality(Of(p)) < MaxJobs - 1 =>
              Settings!SecondSlot(p) \notin {j.slot : j \in Of(p)}
<1> DEFINE Used == {j.slot : j \in Of(p)}
<1>1. PICK a \in Of(p), b \in Of(p) :
         Of(p) = {a, b} /\ Cardinality(Of(p)) = IF a = b THEN 1 ELSE 2
  BY Two
<1>2. Used = {a.slot, b.slot}
  BY <1>1
<1>3. Cardinality(Of(p)) = IF a = b THEN 1 ELSE 2
  BY <1>1
<1> HIDE DEF Used
<1>4. MaxJobs \in Nat
  BY DataAssumption
<1>5. ASSUME Settings!Cardinality(Of(p)) < MaxJobs
      PROVE  Settings!FreeSlot(p) \notin Used
  <2> DEFINE S == 1 .. MaxJobs \ Used
  <2>1. S \subseteq Nat \ {0} /\ S \cap {1, 2, 3, 4} # {}
    <3>1. CASE a = b
      BY <1>2, <1>3, <1>4, <1>5, <3>1, SameCount
    <3>2. CASE a # b
      BY <1>2, <1>3, <1>4, <1>5, <3>2, SameCount
    <3> QED  BY <3>1, <3>2
  <2>2. Settings!Min(S) \in S
    BY <2>1, LeastIn
  <2> QED  BY <2>2 DEF Settings!FreeSlot, Used, Of
<1>6. ASSUME Settings!Cardinality(Of(p)) < MaxJobs - 1
      PROVE  Settings!SecondSlot(p) \notin Used
  <2> DEFINE f == Settings!FreeSlot(p)
             S == 1 .. MaxJobs \ (Used \cup {f})
  <2> HIDE DEF f
  <2>1. S \subseteq Nat \ {0} /\ S \cap {1, 2, 3, 4} # {}
    <3>1. CASE a = b
      <4>1. Used = {a.slot} /\ MaxJobs > 2
        BY <1>2, <1>3, <1>4, <1>6, <3>1, SameCount
      <4> QED  BY <1>4, <4>1
    <3>2. CASE a # b
      <4>1. Used = {a.slot, b.slot} /\ MaxJobs > 3
        BY <1>2, <1>3, <1>4, <1>6, <3>2, SameCount
      <4>2. {1, 2, 3, 4} \subseteq 1 .. MaxJobs
        BY <1>4, <4>1
      <4>3. ~({1, 2, 3, 4} \subseteq {a.slot, b.slot, f})
        BY FourOfThree
      <4>4. S \cap {1, 2, 3, 4} # {}
        BY <4>1, <4>2, <4>3, Zenon
      <4> QED  BY <1>4, <4>4
    <3> QED  BY <3>1, <3>2
  <2>2. Settings!Min(S) \in S
    BY <2>1, LeastIn
  <2> QED  BY <2>2 DEF Settings!SecondSlot, Used, Of, f
<1> QED  BY <1>5, <1>6 DEF Used

(* Steps that leave the copy of q, and what is to be done to it, alone.    *)
LEMMA Untouched ==
  ASSUME NEW q \in Process, Followed(q), Of(q)' = Of(q), copy'[q] = copy[q],
         link'[q] = link[q], memo'[q] = memo[q],
         link[q] = "down" \/ db'[T] = db[T]
  PROVE  Followed(q)'
<1>1. OneChange(q)'
  BY DEF Followed, OneChange
<1>2. \A j \in Of(q) : j.kind = "resync" <=> link[q] = "sync"
  BY DEF Followed, OneChange
<1>3. StillSo(q)'
  <2>1. CASE db'[T] = db[T]
    BY <2>1 DEF Followed, StillSo, Settings!Present
  <2>2. CASE link[q] = "down"
    BY <1>2, <2>2 DEF Followed, StillSo
  <2> QED  BY <2>1, <2>2
<1>4. Settings!ModelIsOverlay(q)'
  BY SMTT(30) DEF Followed, Right, Settings!ModelIsOverlay, Settings!Overlay, Settings!Target
<1>5. Right(q)'
  <2>1. CASE db'[T] = db[T]
    BY <1>4, <2>1 DEF Followed, Right
  <2>2. CASE link[q] = "down"
    BY <1>4, <2>2 DEF Followed, Right
  <2> QED  BY <2>1, <2>2
<1> QED  BY <1>1, <1>3, <1>5 DEF Followed

(* A change that reaches q while another is under way races with it.       *)
LEMMA Alone ==
  ASSUME NEW q \in Process, NEW n, ~Settings!Races(q), n \in jobs', n.proc = q, T \in n.rows,
         \A j \in jobs : IsJob(j), n.slot \notin {j.slot : j \in Of(q)}
  PROVE  Of(q) = {}
<1>1. SUFFICES ASSUME NEW i \in Of(q)  PROVE FALSE
  OBVIOUS
<1>2. n \notin jobs /\ \A k \in Of(q) : k.slot # n.slot
  BY DEF Of, Settings!JobsOf
<1>3. i \in jobs /\ T \in i.rows \cap n.rows
  BY <1>1 DEF Of, Settings!JobsOf, IsJob
<1> QED  BY <1>1, <1>2, <1>3 DEF Settings!Races, Of

(* The jobs a commit adds for q are alone, or they race.                   *)
Task(q) == Settings!Reader(q, {T}, "notified")
Own(q, mine) == Settings!OwnPart(q, T, mine)
LEMMA NewJobs ==
  ASSUME NEW q \in Process, NEW mine, NEW more,
         SettingsTypes, Followed(q), ~Settings!Races(q), Settings!HasRoom,
         more \subseteq {Task(q), Own(q, mine)}, Of(q)' = Of(q) \cup more,
         copy' = copy, link' = link, memo' = memo,
         link[q] = "up" /\ Own(q, mine) \in more =>
            \A c \in DOMAIN mine : mine[c] = db'[T][c],
         link[q] # "down" /\ Task(q) \notin more => db'[T] = db[T]
  PROVE  Followed(q)'
<1>1. Task(q) = [proc |-> q, slot |-> Settings!FreeSlot(q), kind |-> "notified",
                 at |-> "select", rows |-> {T}, news |-> [r \in {T} |-> Settings!NoRow]]
  BY ReaderIs DEF Task
<1>2. Own(q, mine) = [proc |-> q, slot |-> Settings!SecondSlot(q), kind |-> "own",
                      at |-> "apply", rows |-> {T}, news |-> [x \in {T} |-> mine]]
  BY OwnPartIs DEF Own
<1>3. CASE more = {}
  BY <1>3, Untouched
<1>4. CASE more # {}
  <2>1. Of(q) = {}
    <3>1. SUFFICES ASSUME Of(q) # {}  PROVE FALSE
      OBVIOUS
    <3>2. \A j \in Of(q) : IsJob(j)
      BY DEF SettingsTypes, Of, Settings!JobsOf
    <3>3. Settings!Cardinality(Of(q)) < MaxJobs - 1
      BY DEF Settings!HasRoom, Of
    <3>4. Settings!Cardinality(Of(q)) \in Nat
      BY <3>1, <3>2, CountOf DEF Followed
    <3>5. /\ Settings!FreeSlot(q) \notin {j.slot : j \in Of(q)}
          /\ Settings!SecondSlot(q) \notin {j.slot : j \in Of(q)}
      BY <3>1, <3>2, <3>3, <3>4, SlotFound, DataAssumption DEF Followed
    <3>6. PICK n \in more : TRUE
      BY <1>4
    <3>7. n \in jobs'
      BY <3>6 DEF Of, Settings!JobsOf
    <3>8. n.proc = q /\ T \in n.rows /\ n.slot \notin {j.slot : j \in Of(q)}
      BY <1>1, <1>2, <3>5, <3>6
    <3> QED  BY <3>1, <3>7, <3>8, Alone DEF SettingsTypes
  <2>2. link[q] \in {"up", "down"}
    BY <2>1 DEF SettingsTypes, Followed, OneChange
  <2>3. Of(q)' = more
    BY <2>1
  <2>4. OneChange(q)'
    BY <1>1, <1>2, <2>2, <2>3, SMTT(30) DEF OneChange
  <2>5. StillSo(q)'
    BY <1>1, <1>2, <2>2, <2>3, SMTT(30) DEF StillSo
  <2>6. Settings!ModelIsOverlay(q)'
    BY ZenonT(60) DEF Followed, Right, Settings!ModelIsOverlay, Settings!Overlay, Settings!Target
  <2>7. Right(q)'
    <3>1. link[q] = "up" => copy[q][T] = db[T]
      BY <2>1 DEF Followed, Right
    <3>2. link[q] = "up" /\ (\A j \in more : j.kind # "notified") => db'[T] = db[T]
      BY <1>1
    <3> QED  BY <2>2, <2>3, <2>6, <3>1, <3>2 DEF Right
  <2> QED  BY <2>4, <2>5, <2>7 DEF Followed
<1> QED  BY <1>3, <1>4

(* What a commit adds to the jobs of q.                                    *)
LEMMA AddedJobs ==
  ASSUME NEW q \in Process, NEW h \in Process, NEW mine, NEW new, NEW heard,
         Settings!Commit(T, new, heard, {Own(h, mine)}),
         heard = {} \/ heard = Settings!Heard(T)
  PROVE  Of(q)' = Of(q)
            \cup ((IF heard # {} /\ link[q] # "down" THEN {Task(q)} ELSE {})
                  \cup (IF q = h THEN {Own(q, mine)} ELSE {}))
<1>1. jobs' = jobs \cup heard \cup {Own(h, mine)}
  BY DEF Settings!Commit
<1>2. \A p : Task(p).proc = p /\ Own(p, mine).proc = p
  BY ReaderIs, OwnPartIs DEF Task, Own
<1>3. {j \in {Own(h, mine)} : j.proc = q} = IF q = h THEN {Own(q, mine)} ELSE {}
  BY <1>2
<1>4. {j \in heard : j.proc = q} = IF heard # {} /\ link[q] # "down" THEN {Task(q)} ELSE {}
  <2>1. CASE heard = {}
    BY <2>1
  <2>2. CASE heard # {}
    <3>1. heard = {Task(p) : p \in {x \in Process : link[x] # "down"}}
      BY <2>2 DEF Settings!Heard, Task
    <3> QED  BY <1>2, <2>2, <3>1
  <2> QED  BY <2>1, <2>2
<1>5. Of(q)' = Of(q) \cup ({j \in heard : j.proc = q} \cup {j \in {Own(h, mine)} : j.proc = q})
  BY <1>1 DEF Of, Settings!JobsOf
<1> QED  BY <1>3, <1>4, <1>5

(* A commit, whatever is written.                                          *)
LEMMA Committed ==
  ASSUME NEW q \in Process, NEW h \in Process, NEW mine, NEW new, NEW heard,
         SettingsTypes, Followed(q), ~Settings!Races(q),
         Settings!Commit(T, new, heard, {Own(h, mine)}), memo' = memo,
         heard = {} \/ heard = Settings!Heard(T),
         heard = {} /\ link[q] # "down" => db'[T] = db[T],
         q = h => \A c \in DOMAIN mine : mine[c] = db'[T][c]
  PROVE  Followed(q)'
<1> DEFINE more == (IF heard # {} /\ link[q] # "down" THEN {Task(q)} ELSE {})
                   \cup (IF q = h THEN {Own(q, mine)} ELSE {})
<1>1. Of(q)' = Of(q) \cup more
  BY AddedJobs
<1>2. copy' = copy /\ link' = link /\ Settings!HasRoom
  BY DEF Settings!Commit
<1>3. more \subseteq {Task(q), Own(q, mine)}
  OBVIOUS
<1>4. Task(q).kind # Own(q, mine).kind
  BY ReaderIs, OwnPartIs DEF Task, Own
<1>5. Own(q, mine) \in more => q = h
  BY <1>4
<1>6. link[q] # "down" /\ Task(q) \notin more => db'[T] = db[T]
  OBVIOUS
<1> HIDE DEF more
<1> QED  BY <1>1, <1>2, <1>3, <1>5, <1>6, NewJobs

(* Jobs stay jobs, and the table and the copies functions.                 *)
LEMMA CommitTypes ==
  ASSUME NEW h \in Process, NEW mine, NEW new, NEW heard, SettingsTypes,
         Settings!Commit(T, new, heard, {Own(h, mine)}), memo' = memo,
         heard = {} \/ heard = Settings!Heard(T)
  PROVE  SettingsTypes' /\ db'[T] = Settings!Merge(new, db[T])
<1>1. /\ db' = [db EXCEPT ![T] = Settings!Merge(new, @)]
      /\ jobs' = jobs \cup heard \cup {Own(h, mine)}
      /\ copy' = copy /\ link' = link
  BY DEF Settings!Commit
<1>2. db'[T] = Settings!Merge(new, db[T]) /\ db' = [r \in Rows |-> db'[r]]
  BY <1>1, TargetIsRow DEF SettingsTypes
<1>3. db'[T] = [c \in {Low, High} |-> db'[T][c]]
  BY <1>2 DEF Settings!Merge
<1>4. \A p : IsJob(Task(p)) /\ IsJob(Own(p, mine))
  BY ReaderIs, OwnPartIs DEF Task, Own, IsJob, JobKinds
<1>5. \A j \in heard : IsJob(j)
  BY <1>4 DEF Settings!Heard, Task
<1>6. (\A j \in jobs : IsJob(j))'
  BY <1>1, <1>4, <1>5 DEF SettingsTypes, IsJob
<1> QED  BY <1>1, <1>2, <1>3, <1>6 DEF SettingsTypes

(* The two writes.                                                         *)
LEMMA HomeIs == \A w : WriterHome(w) \in Process
  BY DEF WriterHome, Process

LEMMA SaveFollowed ==
  ASSUME NEW q \in Process, NEW w \in {"w1", "w2"}, SettingsTypes, WriterTypes, Followed(q),
         ~Settings!Races(q), Settings!Save(w), WriterHome(w) = q => found[w] = db[T]
  PROVE  Followed(q)'
<1> DEFINE mine == part[w]
           new == Settings!Restrict(part[w], Settings!Dirty(w))
<1>1. Settings!Commit(T, new, Settings!Heard(T), {Own(WriterHome(w), mine)}) /\ memo' = memo
  BY DEF Settings!Save, Settings!EndWrite, T, Own
<1>2. db'[T] = Settings!Merge(new, db[T])
  BY <1>1, CommitTypes, HomeIs
<1>3. ASSUME q = WriterHome(w)  PROVE \A c \in DOMAIN mine : mine[c] = db'[T][c]
  <2> TAKE c \in DOMAIN mine
  <2>1. c \in {Low, High} /\ found[w] = db[T]
    BY <1>3 DEF WriterTypes
  <2>2. db'[T][c] = IF c \in DOMAIN new THEN new[c] ELSE db[T][c]
    BY <1>2, <2>1 DEF Settings!Merge
  <2> QED  BY <2>1, <2>2 DEF Settings!Restrict, Settings!Dirty
<1>4. Settings!Heard(T) = {} => link[q] = "down"
  BY DEF Settings!Heard
<1> HIDE DEF mine, new
<1> QED  BY <1>1, <1>3, <1>4, HomeIs, Committed, ZenonT(60)

LEMMA ResetFollowed ==
  ASSUME NEW q \in Process, NEW w \in {"w1", "w2"}, NEW c \in {Low, High}, SettingsTypes,
         Followed(q), ~Settings!Races(q), Settings!Reset(w, c)
  PROVE  Followed(q)'
<1> DEFINE gone == [x \in {c} |-> Absent]
           heard == IF db[T][c] = Absent THEN {} ELSE Settings!Heard(T)
<1>1. Settings!Commit(T, gone, heard, {Own(WriterHome(w), gone)}) /\ memo' = memo
  BY DEF Settings!Reset, T, Own
<1>2. db'[T] = Settings!Merge(gone, db[T])
  BY <1>1, CommitTypes, HomeIs
<1>3. \A x \in DOMAIN gone : gone[x] = db'[T][x]
  BY <1>2 DEF Settings!Merge
<1>4. db[T][c] = Absent => db'[T] = db[T]
  BY <1>2 DEF Settings!Merge, SettingsTypes
<1>5. heard = {} /\ link[q] # "down" => db'[T] = db[T]
  BY <1>4 DEF Settings!Heard
<1>6. heard = {} \/ heard = Settings!Heard(T)
  OBVIOUS
<1> HIDE DEF gone, heard
<1> QED  BY <1>1, <1>3, <1>5, <1>6, HomeIs, Committed

(* A job of another process.                                               *)
LEMMA OthersJob ==
  ASSUME NEW p, NEW q, p # q, NEW j \in Of(p), NEW n, n.proc = p,
         jobs' = jobs \ {j} \/ jobs' = (jobs \ {j}) \cup {n}
  PROVE  Of(q)' = Of(q)
  BY DEF Of, Settings!JobsOf

LEMMA SelectFollowed ==
  ASSUME NEW q \in Process, NEW p \in Process, NEW j \in Of(p), SettingsTypes, Followed(q),
         Settings!Select(j), memo' = memo
  PROVE  Followed(q)'
<1> DEFINE n == Settings!Holding(j, Settings!News(j))
<1>1. IsJob(j) /\ j \in jobs /\ j.proc = p
  BY DEF SettingsTypes, Of, Settings!JobsOf
<1>2. /\ n = [proc |-> j.proc, slot |-> j.slot, kind |-> j.kind, at |-> "apply",
              rows |-> j.rows, news |-> Settings!News(j)]
      /\ IsJob(n)
  BY <1>1, Answered
<1> HIDE DEF n
<1>3. /\ jobs' = (jobs \ {j}) \cup {n} /\ j.at = "select"
      /\ db' = db /\ copy' = copy /\ link' = link
  BY DEF Settings!Select, n
<1>4. CASE p # q
  <2>1. Of(q)' = Of(q)
    BY <1>1, <1>2, <1>3, <1>4, OthersJob
  <2> QED  BY <1>3, <2>1, Untouched
<1>5. CASE p = q
  <2>1. Of(q)' = (Of(q) \ {j}) \cup {n}
    BY <1>1, <1>2, <1>3, <1>5 DEF Of, Settings!JobsOf
  <2>2. n.kind = j.kind
    BY <1>2
  <2>3. OneChange(q)'
    BY <1>3, <1>5, <2>1, <2>2 DEF Followed, OneChange
  <2>4. StillSo(q)'
    <3>1. j.kind \in {"notified", "resync"}
      BY <1>1, <1>3 DEF IsJob, JobKinds
    <3>2. n.news[T] = IF j.kind = "resync" THEN [c \in Settings!Present(db[T]) |-> db[T][c]]
                      ELSE db[T]
      BY <1>1, <1>2 DEF Settings!News, Settings!Restrict, IsJob
    <3> QED  BY <1>3, <2>1, <2>2, <3>1, <3>2 DEF Followed, StillSo, Settings!Present
  <2>5. Settings!ModelIsOverlay(q)'
    BY <1>3 DEF Followed, Right, Settings!ModelIsOverlay, Settings!Overlay, Settings!Target
  <2>6. Right(q)'
    BY <1>3, <1>5, <2>1, <2>2, <2>5 DEF Followed, Right
  <2> QED  BY <2>3, <2>4, <2>6 DEF Followed
<1> QED  BY <1>4, <1>5

LEMMA CopyFollowed ==
  ASSUME NEW q \in Process, NEW p \in Process, NEW j \in Of(p), SettingsTypes, Followed(q),
         Settings!CopyChanges(j)
  PROVE  Followed(q)'
<1>1. IsJob(j) /\ j \in jobs /\ j.proc = p
  BY DEF SettingsTypes, Of, Settings!JobsOf
<1>2. /\ j.at = "apply" /\ jobs' = jobs \ {j} /\ db' = db
      /\ link' = IF j.kind = "resync" THEN [link EXCEPT ![p] = "up"] ELSE link
      /\ memo' = IF j.kind = "resync" THEN memo ELSE [memo EXCEPT ![p] = {}]
      /\ copy' = [copy EXCEPT ![p] = [r \in Rows |->
                    IF r \in j.rows THEN Settings!Merge(j.news[r], @[r]) ELSE @[r]]]
  BY <1>1 DEF Settings!CopyChanges, Settings!Apply, Settings!Forget
<1>3. CASE p # q
  <2>1. Of(q)' = Of(q)
    BY <1>2, <1>3, <1>1 DEF Of, Settings!JobsOf
  <2> QED  BY <1>2, <1>3, <2>1, Untouched DEF SettingsTypes
<1>4. CASE p = q
  <2>1. Of(q)' = Of(q) \ {j}
    BY <1>2, <1>4 DEF Of, Settings!JobsOf
  <2>2. copy'[q][T] = Settings!Merge(j.news[T], copy[q][T])
    BY <1>1, <1>2, <1>4, TargetIsRow DEF SettingsTypes, IsJob
  <2>3. CASE j.kind = "resync"
    <3>1. link[q] = "sync" /\ Of(q)' = {} /\ link'[q] = "up" /\ memo'[q] = {}
      <4>1. link[q] = "sync" /\ Of(q)' = {}
        BY <1>4, <2>1, <2>3 DEF Followed, OneChange
      <4> QED  BY <1>2, <1>4, <2>3, <4>1 DEF Followed, Right, SettingsTypes
    <3>2. copy'[q][T] = db'[T]
      <4>1. copy[q][T] = Settings!NoRow
        BY <3>1 DEF Followed, Right
      <4>2. j.news[T] = [c \in Settings!Present(db[T]) |-> db[T][c]]
        BY <1>2, <1>4, <2>3 DEF Followed, StillSo
      <4>3. copy'[q][T] = [c \in {Low, High} |-> db[T][c]]
        BY <2>2, <4>1, <4>2 DEF Settings!Merge, Settings!NoRow, Settings!Present
      <4> QED  BY <1>2, <4>3 DEF SettingsTypes
    <3>3. OneChange(q)' /\ StillSo(q)'
      BY <3>1 DEF OneChange, StillSo
    <3>4. Right(q)'
      BY <3>1, <3>2 DEF Right, Settings!ModelIsOverlay
    <3> QED  BY <3>3, <3>4 DEF Followed
  <2>4. CASE j.kind # "resync"
    <3>1. link' = link /\ link[q] # "sync" /\ memo'[q] = {}
      BY <1>2, <1>4, <2>4 DEF Followed, OneChange, SettingsTypes
    <3>2. OneChange(q)'
      BY <2>1, <3>1 DEF Followed, OneChange
    <3>3. StillSo(q)'
      BY <1>2, <2>1, <3>1 DEF Followed, StillSo, Settings!Present
    <3>4. link[q] = "up" /\ (\A i \in Of(q)' : i.kind # "notified") => copy'[q][T] = db'[T]
      <4>1. SUFFICES ASSUME link[q] = "up", \A i \in Of(q)' : i.kind # "notified"
                     PROVE  copy'[q][T] = db[T]
        BY <1>2
      <4>2. CASE j.kind = "notified"
        <5>1. j.news[T] = db[T]
          BY <1>2, <1>4, <4>1, <4>2 DEF Followed, StillSo
        <5>2. copy'[q][T] = [c \in {Low, High} |-> db[T][c]]
          BY <2>2, <5>1 DEF Settings!Merge, SettingsTypes
        <5> QED  BY <5>2 DEF SettingsTypes
      <4>3. CASE j.kind = "own"
        <5>1. copy[q][T] = db[T]
          BY <2>1, <4>1, <4>3 DEF Followed, Right
        <5>2. \A c \in DOMAIN j.news[T] : j.news[T][c] = db[T][c]
          BY <1>2, <1>4, <4>1, <4>3 DEF Followed, StillSo
        <5>3. copy'[q][T] = [c \in {Low, High} |-> db[T][c]]
          BY <2>2, <5>1, <5>2 DEF Settings!Merge
        <5> QED  BY <5>3 DEF SettingsTypes
      <4> QED  BY <1>1, <2>4, <4>2, <4>3 DEF IsJob, JobKinds
    <3>5. Right(q)'
      BY <3>1, <3>4 DEF Right, Settings!ModelIsOverlay
    <3> QED  BY <3>2, <3>3, <3>5 DEF Followed
  <2> QED  BY <2>3, <2>4
<1> QED  BY <1>3, <1>4

LEMMA ReconnectFollowed ==
  ASSUME NEW q \in Process, NEW p \in Process, SettingsTypes, Followed(q),
         ~Settings!Races(q), Settings!Reconnect(p)
  PROVE  Followed(q)'
<1> DEFINE n == Settings!Reader(p, Rows, "resync")
<1>1. /\ n = [proc |-> p, slot |-> Settings!FreeSlot(p), kind |-> "resync", at |-> "select",
              rows |-> Rows, news |-> [r \in Rows |-> Settings!NoRow]]
      /\ IsJob(n)
  BY ReaderIs, TargetIsRow DEF IsJob, JobKinds
<1> HIDE DEF n
<1>2. /\ link[p] = "down" /\ Settings!Cardinality(Of(p)) < MaxJobs
      /\ link' = [link EXCEPT ![p] = "sync"] /\ jobs' = jobs \cup {n} /\ db' = db
      /\ copy' = [copy EXCEPT ![p] = [r \in Rows |-> Settings!NoRow]]
      /\ memo' = [memo EXCEPT ![p] = {}]
  BY DEF Settings!Reconnect, Settings!Connect, Settings!Forget, Of, n
<1>3. CASE p # q
  <2>1. Of(q)' = Of(q)
    BY <1>1, <1>2, <1>3 DEF Of, Settings!JobsOf
  <2> QED  BY <1>2, <1>3, <2>1, Untouched DEF SettingsTypes
<1>4. CASE p = q
  <2>1. Of(q) = {}
    <3>1. SUFFICES ASSUME Of(q) # {}  PROVE FALSE
      OBVIOUS
    <3>2. \A j \in Of(q) : IsJob(j)
      BY DEF SettingsTypes, Of, Settings!JobsOf
    <3>3. Settings!FreeSlot(q) \notin {j.slot : j \in Of(q)}
      BY <1>2, <1>4, <3>1, <3>2, SlotFound DEF Followed
    <3>4. n \in jobs' /\ n.proc = q /\ T \in n.rows /\ n.slot \notin {j.slot : j \in Of(q)}
      BY <1>1, <1>2, <1>4, <3>3, TargetIsRow
    <3> QED  BY <3>1, <3>4, Alone DEF SettingsTypes
  <2>2. Of(q)' = {n}
    BY <1>1, <1>2, <1>4, <2>1 DEF Of, Settings!JobsOf
  <2>3. link'[q] = "sync" /\ copy'[q][T] = Settings!NoRow /\ memo'[q] = {}
    BY <1>2, <1>4, TargetIsRow DEF SettingsTypes
  <2>4. OneChange(q)' /\ StillSo(q)'
    BY <1>1, <2>2, <2>3 DEF OneChange, StillSo
  <2>5. Right(q)'
    BY <2>3 DEF Right, Settings!ModelIsOverlay, Settings!NoRow
  <2> QED  BY <2>4, <2>5 DEF Followed
<1> QED  BY <1>3, <1>4

(* A link that breaks takes nothing with it but tasks, and a process that  *)
(* dies everything.                                                        *)
LEMMA DisconnectFollowed ==
  ASSUME NEW q \in Process, NEW p \in Process, SettingsTypes, Followed(q),
         Settings!Disconnect(p), memo' = memo
  PROVE  Followed(q)'
<1>1. /\ link[p] = "up" /\ link' = [link EXCEPT ![p] = "down"] /\ db' = db /\ copy' = copy
      /\ jobs' \subseteq jobs
  BY DEF Settings!Disconnect
<1>2. p # q => Of(q)' = Of(q)
  BY DEF Settings!Disconnect, Of, Settings!JobsOf
<1>3. CASE p # q
  BY <1>1, <1>2, <1>3, Untouched DEF SettingsTypes
<1>4. CASE p = q
  <2>1. Of(q)' \subseteq Of(q) /\ link'[q] = "down" /\ link[q] = "up"
    BY <1>1, <1>4 DEF Of, Settings!JobsOf, SettingsTypes
  <2>2. OneChange(q)' /\ StillSo(q)'
    BY <2>1 DEF Followed, OneChange, StillSo
  <2>3. Settings!ModelIsOverlay(q)'
    BY <1>1 DEF Followed, Right, Settings!ModelIsOverlay, Settings!Overlay, Settings!Target
  <2>4. Right(q)'
    BY <2>1, <2>3 DEF Right
  <2> QED  BY <2>2, <2>4 DEF Followed
<1> QED  BY <1>3, <1>4

LEMMA ReadFailsFollowed ==
  ASSUME NEW q \in Process, NEW p \in Process, NEW j \in Of(p), SettingsTypes, Followed(q),
         ~Settings!Races(q), Settings!ReadFails(j), memo' = memo
  PROVE  Followed(q)'
<1>1. /\ jobs' = jobs \ {j} /\ db' = db /\ copy' = copy
      /\ link' = IF j.kind = "resync" THEN [link EXCEPT ![p] = "down"] ELSE link
  BY DEF Settings!ReadFails, Of, Settings!JobsOf
<1>2. p # q
  BY DEF Settings!Races, Of
<1>3. Of(q)' = Of(q)
  BY <1>1, <1>2 DEF Of, Settings!JobsOf
<1> QED  BY <1>1, <1>2, <1>3, Untouched DEF SettingsTypes

LEMMA RestartFollowed ==
  ASSUME NEW q \in Process, NEW p \in Process, SettingsTypes, Followed(q), Settings!Restart(p)
  PROVE  Followed(q)'
<1>1. /\ link' = [link EXCEPT ![p] = "down"] /\ db' = db /\ jobs' = jobs \ Of(p)
      /\ copy' = [copy EXCEPT ![p] = [r \in Rows |-> Settings!NoRow]]
      /\ memo' = [memo EXCEPT ![p] = {}]
  BY DEF Settings!Restart, Settings!Reboot, Settings!Forget, Of
<1>2. CASE p # q
  <2>1. Of(q)' = Of(q)
    BY <1>1, <1>2 DEF Of, Settings!JobsOf
  <2> QED  BY <1>1, <1>2, <2>1, Untouched DEF SettingsTypes
<1>3. CASE p = q
  <2>1. Of(q)' = {} /\ link'[q] = "down" /\ memo'[q] = {}
    BY <1>1, <1>3 DEF Of, Settings!JobsOf, SettingsTypes
  <2>2. OneChange(q)' /\ StillSo(q)'
    BY <2>1 DEF OneChange, StillSo
  <2>3. Right(q)'
    BY <2>1 DEF Right, Settings!ModelIsOverlay
  <2> QED  BY <2>2, <2>3 DEF Followed
<1> QED  BY <1>2, <1>3

LEMMA ResolveFollowed ==
  ASSUME NEW q \in Process, NEW p \in Process, SettingsTypes, Followed(q),
         Settings!Resolve(p), ~(q = p /\ link[q] = "sync")
  PROVE  Followed(q)'
<1>1. /\ UNCHANGED <<db, copy, link, jobs>>
      /\ memo' = [memo EXCEPT ![p] = {Settings!Overlay(copy[p][T])}]
  BY DEF Settings!Resolve, Settings!cacheVars, T
<1>2. Of(q)' = Of(q)
  BY <1>1 DEF Of, Settings!JobsOf
<1>3. CASE p # q
  BY <1>1, <1>2, <1>3, Untouched DEF SettingsTypes
<1>4. CASE p = q
  <2>1. OneChange(q)'
    BY <1>1, <1>2 DEF Followed, OneChange
  <2>2. StillSo(q)'
    BY <1>1, <1>2 DEF Followed, StillSo, Settings!Present
  <2>3. Settings!ModelIsOverlay(q)'
    BY <1>1, <1>4 DEF SettingsTypes, Settings!ModelIsOverlay, Settings!Overlay, T,
                      Settings!Target
  <2>4. Right(q)'
    BY <1>1, <1>2, <1>4, <2>3 DEF Followed, Right
  <2> QED  BY <2>1, <2>2, <2>4 DEF Followed
<1> QED  BY <1>3, <1>4

(* Every step leaves jobs jobs.                                            *)
LEMMA TypesKept ==
  ASSUME SettingsTypes, Settings!Next
  PROVE  SettingsTypes'
<1>1. ASSUME db' = db, copy' = [p \in Process |-> copy'[p]],
             memo' = [p \in Process |-> memo'[p]],
             link' \in [Process -> {"up", "sync", "down"}],
             NEW more, jobs' \subseteq jobs \cup more, \A j \in more : IsJob(j)
      PROVE  SettingsTypes'
  <2>1. (\A i \in jobs : IsJob(i))'
    BY <1>1 DEF SettingsTypes, IsJob
  <2> QED  BY <1>1, <2>1 DEF SettingsTypes
<1>2. ASSUME db' = db, copy' = [p \in Process |-> copy'[p]],
             memo' = [p \in Process |-> memo'[p]],
             link' \in [Process -> {"up", "sync", "down"}], jobs' \subseteq jobs
      PROVE  SettingsTypes'
  <2> DEFINE none == {}
  <2>1. jobs' \subseteq jobs \cup none /\ \A j \in none : IsJob(j)
    BY <1>2
  <2> HIDE DEF none
  <2> QED  BY <1>1, <1>2, <2>1
<1>3. ASSUME NEW w \in {"w1", "w2"}, NEW c \in {Low, High}, Settings!Reset(w, c)
      PROVE  SettingsTypes'
  <2> DEFINE gone == [x \in {c} |-> Absent]
             heard == IF db[T][c] = Absent THEN {} ELSE Settings!Heard(T)
  <2>1. /\ Settings!Commit(T, gone, heard, {Own(WriterHome(w), gone)}) /\ memo' = memo
        /\ heard = {} \/ heard = Settings!Heard(T)
    BY <1>3 DEF Settings!Reset, T, Own
  <2> HIDE DEF gone, heard
  <2> QED  BY <2>1, CommitTypes, HomeIs
<1>4. ASSUME NEW w \in {"w1", "w2"}, Settings!Save(w)
      PROVE  SettingsTypes'
  <2>1. /\ memo' = memo
        /\ Settings!Commit(T, Settings!Restrict(part[w], Settings!Dirty(w)),
                           Settings!Heard(T), {Own(WriterHome(w), part[w])})
    BY <1>4 DEF Settings!Save, Settings!EndWrite, T, Own
  <2> QED  BY <2>1, CommitTypes, HomeIs
<1>5. ASSUME UNCHANGED <<db, copy, link, jobs, memo>>  PROVE SettingsTypes'
  BY <1>5, <1>2 DEF SettingsTypes
<1>6. ASSUME NEW w \in {"w1", "w2"},
             (\E new \in {[c \in {Low} |-> 2], [c \in {High} |-> 1], [c \in {Low, High} |-> 1]} :
                 Settings!Begin(w, new)) \/ Settings!Look(w) \/ Settings!SaveFails(w)
      PROVE  SettingsTypes'
  BY <1>5, <1>6 DEF Settings!Begin, Settings!Look, Settings!SaveFails, Settings!EndWrite,
                    Settings!cacheVars
<1>7. ASSUME NEW p \in Process, NEW j \in Of(p), Settings!CopyChanges(j)
      PROVE  SettingsTypes'
  <2>1. j.proc = p
    BY <1>7 DEF Of, Settings!JobsOf
  <2>2. /\ jobs' \subseteq jobs /\ db' = db
        /\ link' = IF j.kind = "resync" THEN [link EXCEPT ![p] = "up"] ELSE link
        /\ memo' = IF j.kind = "resync" THEN memo ELSE [memo EXCEPT ![p] = {}]
        /\ copy' = [copy EXCEPT ![p] = [r \in Rows |->
                      IF r \in j.rows THEN Settings!Merge(j.news[r], @[r]) ELSE @[r]]]
    BY <1>7, <2>1 DEF Settings!CopyChanges, Settings!Apply, Settings!Forget
  <2> QED  BY <1>2, <2>2 DEF SettingsTypes
<1>8. ASSUME NEW p \in Process, NEW j \in Of(p), Settings!Select(j), memo' = memo
      PROVE  SettingsTypes'
  <2> DEFINE n == Settings!Holding(j, Settings!News(j))
  <2>1. IsJob(n)
    BY <1>8, Answered DEF SettingsTypes, Of, Settings!JobsOf
  <2>2. jobs' = (jobs \ {j}) \cup {n} /\ db' = db /\ copy' = copy /\ link' = link
    BY <1>8 DEF Settings!Select
  <2> HIDE DEF n
  <2>3. jobs' \subseteq jobs \cup {n} /\ \A i \in {n} : IsJob(i)
    BY <2>1, <2>2
  <2> QED  BY <1>1, <1>8, <2>2, <2>3 DEF SettingsTypes
<1>9. ASSUME NEW p \in Process, Settings!Reconnect(p)  PROVE SettingsTypes'
  <2> DEFINE n == Settings!Reader(p, Rows, "resync")
  <2>1. IsJob(n)
    BY ReaderIs, TargetIsRow DEF IsJob, JobKinds
  <2>2. /\ jobs' = jobs \cup {n} /\ db' = db /\ link' = [link EXCEPT ![p] = "sync"]
        /\ copy' = [copy EXCEPT ![p] = [r \in Rows |-> Settings!NoRow]]
        /\ memo' = [memo EXCEPT ![p] = {}]
    BY <1>9 DEF Settings!Reconnect, Settings!Connect, Settings!Forget
  <2> HIDE DEF n
  <2>3. jobs' \subseteq jobs \cup {n} /\ \A i \in {n} : IsJob(i)
    BY <2>1, <2>2
  <2> QED  BY <1>1, <2>2, <2>3 DEF SettingsTypes
<1>10. ASSUME NEW p \in Process, Settings!Restart(p)  PROVE SettingsTypes'
  <2>1. /\ link' = [link EXCEPT ![p] = "down"] /\ db' = db /\ jobs' \subseteq jobs
        /\ copy' = [copy EXCEPT ![p] = [r \in Rows |-> Settings!NoRow]]
        /\ memo' = [memo EXCEPT ![p] = {}]
    BY <1>10 DEF Settings!Restart, Settings!Reboot, Settings!Forget
  <2> QED  BY <1>2, <2>1 DEF SettingsTypes
<1>11. ASSUME NEW p \in Process, Settings!Disconnect(p), memo' = memo  PROVE SettingsTypes'
  <2>1. /\ link' = [link EXCEPT ![p] = "down"] /\ db' = db /\ jobs' \subseteq jobs
        /\ copy' = copy
    BY <1>11 DEF Settings!Disconnect
  <2> QED  BY <1>2, <1>11, <2>1 DEF SettingsTypes
<1>12. ASSUME NEW p \in Process, NEW j \in Of(p), Settings!ReadFails(j), memo' = memo
       PROVE  SettingsTypes'
  <2>1. /\ db' = db /\ jobs' \subseteq jobs /\ copy' = copy
        /\ link' = IF j.kind = "resync" THEN [link EXCEPT ![j.proc] = "down"] ELSE link
    BY <1>12 DEF Settings!ReadFails
  <2> QED  BY <1>2, <1>12, <2>1 DEF SettingsTypes
<1>13. ASSUME NEW p, Settings!Resolve(p)  PROVE SettingsTypes'
  <2>1. /\ UNCHANGED <<db, copy, link, jobs>>
        /\ memo' = [memo EXCEPT ![p] = {Settings!Overlay(copy[p][T])}]
    BY <1>13 DEF Settings!Resolve, Settings!cacheVars, T
  <2> QED  BY <1>2, <2>1 DEF SettingsTypes
<1> QED
  BY <1>3, <1>4, <1>6, <1>7, <1>8, <1>9, <1>10, <1>11, <1>12, <1>13
     DEF Settings!Next, Settings!Write, Settings!Goes, Settings!Breaks,
         Settings!settingsVars, Of, Process

(* Every step leaves the copies right that no two changes raced to.        *)
LEMMA CopyStep ==
  ASSUME SettingsTypes, WriterTypes, CopyInv, Settings!MCNext
  PROVE  CopyInv'
<1> SUFFICES ASSUME NEW q \in Process \ raced'  PROVE Followed(q)'
  BY DEF CopyInv, Followed, OneChange, StillSo, Right, Of
<1>1. raced' = raced \cup {p \in Process :
          \/ Settings!Races(p) \/ (link[p] = "sync" /\ Settings!Resolve(p))
          \/ \E w \in {"w1", "w2"} : WriterHome(w) = p /\ Settings!Overtaken(w)}
  BY DEF Settings!MCNext
<1>2. /\ Followed(q) /\ ~Settings!Races(q)
      /\ ~(link[q] = "sync" /\ Settings!Resolve(q))
      /\ \A w \in {"w1", "w2"} : WriterHome(w) = q => ~Settings!Overtaken(w)
  BY <1>1 DEF CopyInv
<1>3. ASSUME UNCHANGED <<db, copy, link, jobs, memo>>  PROVE Followed(q)'
  <2>1. Of(q)' = Of(q)
    BY <1>3 DEF Of, Settings!JobsOf
  <2> QED  BY <1>2, <1>3, <2>1, Untouched
<1>4. ASSUME NEW w \in {"w1", "w2"},
             (\E new \in {[c \in {Low} |-> 2], [c \in {High} |-> 1], [c \in {Low, High} |-> 1]} :
                 Settings!Begin(w, new)) \/ Settings!Look(w) \/ Settings!SaveFails(w)
      PROVE  Followed(q)'
  BY <1>3, <1>4 DEF Settings!Begin, Settings!Look, Settings!SaveFails, Settings!EndWrite,
                    Settings!cacheVars
<1>5. ASSUME NEW w \in {"w1", "w2"}, Settings!Save(w)  PROVE Followed(q)'
  <2>1. WriterHome(w) = q => found[w] = db[T]
    BY <1>2, <1>5 DEF Settings!Overtaken, T
  <2> QED  BY <1>2, <1>5, <2>1, SaveFollowed
<1>6. ASSUME NEW w \in {"w1", "w2"}, NEW c \in {Low, High}, Settings!Reset(w, c)
      PROVE  Followed(q)'
  BY <1>2, <1>6, ResetFollowed
<1>7. ASSUME NEW p \in Process, NEW j \in Of(p), Settings!CopyChanges(j)  PROVE Followed(q)'
  BY <1>2, <1>7, CopyFollowed
<1>8. ASSUME NEW p \in Process, NEW j \in Of(p), Settings!Select(j), memo' = memo
      PROVE  Followed(q)'
  BY <1>2, <1>8, SelectFollowed
<1>9. ASSUME NEW p \in Process, Settings!Reconnect(p)  PROVE Followed(q)'
  BY <1>2, <1>9, ReconnectFollowed
<1>10. ASSUME NEW p \in Process, Settings!Restart(p)  PROVE Followed(q)'
  BY <1>2, <1>10, RestartFollowed
<1>11. ASSUME NEW p \in Process, Settings!Disconnect(p), memo' = memo  PROVE Followed(q)'
  BY <1>2, <1>11, DisconnectFollowed
<1>12. ASSUME NEW p \in Process, NEW j \in Of(p), Settings!ReadFails(j), memo' = memo
       PROVE  Followed(q)'
  BY <1>2, <1>12, ReadFailsFollowed
<1>13. ASSUME NEW p \in Process, Settings!Resolve(p)  PROVE Followed(q)'
  <2>1. ~(q = p /\ link[q] = "sync")
    BY <1>2, <1>13
  <2> QED  BY <1>2, <1>13, <2>1, ResolveFollowed
<1>14. Settings!Next
  BY DEF Settings!MCNext
<1> QED
  BY <1>4, <1>5, <1>6, <1>7, <1>8, <1>9, <1>10, <1>11, <1>12, <1>13, <1>14
     DEF Settings!Next, Settings!Write, Settings!Goes, Settings!Breaks,
         Settings!settingsVars, Of, Process

(* What is written was checked against what is stored, or a write is blind.*)
LEMMA WriteStep ==
  ASSUME SettingsTypes, WriteInv, Settings!MCNext
  PROVE  WriteInv'
<1> DEFINE W == {"w1", "w2"}
           Sets == {[c \in {Low} |-> 2], [c \in {High} |-> 1], [c \in {Low, High} |-> 1]}
<1>1. basis' = [w \in W |-> IF pc[w] = "idle" /\ pc'[w] = "look"
                            THEN copy[WriterHome(w)][T] ELSE basis[w]]
  BY DEF Settings!MCNext, T
<1>2. ~blind' => /\ ~blind
                 /\ \A w \in W : Settings!Save(w) => found[w] = db[T] /\ basis[w] = db[T]
                 /\ \A w \in W, c \in {Low, High} : ~Settings!Reset(w, c)
  BY DEF Settings!MCNext, Settings!Overtaken, T
<1>3. ASSUME UNCHANGED <<pc, part, found>>
      PROVE  WriterTypes' /\ Checked'
  <2>1. \A w \in W : basis'[w] = basis[w]
    BY <1>1, <1>3
  <2>2. WriterTypes'
    BY <1>1, <1>3 DEF WriteInv, WriterTypes
  <2>3. Checked'
    BY <1>3, <2>1 DEF WriteInv, Checked, Settings!Valid, Settings!Overlay, Settings!Merge
  <2> QED  BY <2>2, <2>3
<1>4. ASSUME NEW w \in W, pc' = [pc EXCEPT ![w] = "idle"],
             part' = [part EXCEPT ![w] = <<>>],
             found' = [found EXCEPT ![w] = Settings!NoRow]
      PROVE  WriterTypes' /\ Checked'
  <2>1. DOMAIN <<>> = {}
    OBVIOUS
  <2>2. WriterTypes'
    BY <1>1, <1>4, <2>1 DEF WriteInv, WriterTypes
  <2>3. \A x \in W : pc'[x] # "idle" => pc[x] # "idle" /\ part'[x] = part[x] /\ basis'[x] = basis[x]
    BY <1>1, <1>4 DEF WriteInv, WriterTypes
  <2>4. Checked'
    BY <2>3 DEF WriteInv, Checked, Settings!Valid, Settings!Overlay, Settings!Merge
  <2> QED  BY <2>2, <2>4
<1>5. ASSUME db'[T] = db[T]  PROVE Settings!StoredIsValidSeen'
  BY <1>2, <1>5 DEF WriteInv, Settings!StoredIsValidSeen, Settings!StoredIsValid,
                    Settings!Valid, Settings!Overlay, T, Settings!Target
<1>6. ASSUME NEW w \in W, NEW new \in Sets, Settings!Begin(w, new)  PROVE WriteInv'
  <2>1. /\ pc' = [pc EXCEPT ![w] = "look"] /\ part' = [part EXCEPT ![w] = new]
        /\ found' = found /\ db' = db /\ pc[w] = "idle"
        /\ Settings!Valid(Settings!Merge(new, copy[WriterHome(w)][T]))
    BY <1>6 DEF Settings!Begin, Settings!Accepts, Settings!cacheVars, T
  <2>2. DOMAIN new \subseteq {Low, High}
    BY <1>6
  <2>3. WriterTypes'
    BY <1>1, <2>1, <2>2 DEF WriteInv, WriterTypes
  <2>4. basis'[w] = copy[WriterHome(w)][T] /\ part'[w] = new
    BY <1>1, <2>1 DEF WriteInv, WriterTypes
  <2>5. \A x \in W : x # w =>
           pc'[x] = pc[x] /\ part'[x] = part[x] /\ basis'[x] = basis[x]
    BY <1>1, <2>1 DEF WriteInv, WriterTypes
  <2>6. \A x \in W : pc'[x] # "idle" => Settings!Valid(Settings!Merge(part'[x], basis'[x]))
    BY <2>1, <2>4, <2>5 DEF WriteInv, Checked
  <2>7. Checked'
    BY <2>6 DEF Checked, Settings!Valid, Settings!Overlay, Settings!Merge
  <2> QED  BY <1>5, <2>1, <2>3, <2>7 DEF WriteInv
<1>7. ASSUME NEW w \in W, Settings!Look(w)  PROVE WriteInv'
  <2>1. /\ pc' = [pc EXCEPT ![w] = "save"] /\ pc[w] = "look" /\ part' = part /\ db' = db
        /\ found' = [found EXCEPT ![w] = db[T]]
    BY <1>7 DEF Settings!Look, Settings!cacheVars, T
  <2>2. WriterTypes'
    BY <1>1, <2>1 DEF WriteInv, WriterTypes
  <2>3. \A x \in W : pc'[x] # "idle" => pc[x] # "idle" /\ part'[x] = part[x] /\ basis'[x] = basis[x]
    BY <1>1, <2>1 DEF WriteInv, WriterTypes
  <2>4. Checked'
    BY <2>3 DEF WriteInv, Checked, Settings!Valid, Settings!Overlay, Settings!Merge
  <2> QED  BY <1>5, <2>1, <2>2, <2>4 DEF WriteInv
<1>8. ASSUME NEW w \in W, Settings!SaveFails(w)  PROVE WriteInv'
  BY <1>4, <1>5, <1>8 DEF Settings!SaveFails, Settings!EndWrite, Settings!cacheVars, WriteInv
<1>9. ASSUME NEW w \in W, Settings!Save(w)  PROVE WriteInv'
  <2> DEFINE new == Settings!Restrict(part[w], Settings!Dirty(w))
  <2>1. /\ pc[w] = "save" /\ memo' = memo
        /\ Settings!Commit(T, new, Settings!Heard(T), {Own(WriterHome(w), part[w])})
    BY <1>9 DEF Settings!Save, Settings!EndWrite, T, Own
  <2>2. db'[T] = Settings!Merge(new, db[T])
    BY <2>1, CommitTypes, HomeIs
  <2>3. WriterTypes' /\ Checked'
    BY <1>4, <1>9 DEF Settings!Save, Settings!EndWrite
  <2>4. ASSUME ~blind'  PROVE Settings!Valid(db'[T])
    <3>1. found[w] = db[T] /\ basis[w] = db[T]
      BY <1>2, <1>9, <2>4
    <3>2. Settings!Merge(new, db[T]) = Settings!Merge(part[w], db[T])
      BY <3>1 DEF Settings!Merge, Settings!Restrict, Settings!Dirty
    <3>3. Settings!Valid(Settings!Merge(part[w], basis[w]))
      BY <2>1 DEF WriteInv, Checked
    <3> QED  BY <2>2, <3>1, <3>2, <3>3
  <2>5. Settings!StoredIsValidSeen'
    BY <2>4 DEF Settings!StoredIsValidSeen, Settings!StoredIsValid, Settings!Valid,
                Settings!Overlay, T, Settings!Target
  <2> QED  BY <2>3, <2>5 DEF WriteInv
<1>10. ASSUME NEW w \in W, NEW c \in {Low, High}, Settings!Reset(w, c)  PROVE WriteInv'
  <2>1. blind' /\ UNCHANGED <<pc, part, found>>
    BY <1>2, <1>10 DEF Settings!Reset, Settings!MCNext
  <2>2. Settings!StoredIsValidSeen'
    BY <2>1 DEF Settings!StoredIsValidSeen
  <2> QED  BY <1>3, <2>1, <2>2 DEF WriteInv
<1>11. ASSUME UNCHANGED <<pc, part, found, db>>  PROVE WriteInv'
  BY <1>3, <1>5, <1>11 DEF WriteInv
<1>12. ASSUME NEW p \in Process,
              (\E j \in Of(p) : Settings!CopyChanges(j)) \/ Settings!Reconnect(p)
       PROVE  WriteInv'
  BY <1>11, <1>12 DEF Settings!CopyChanges, Settings!Apply, Settings!Reconnect,
                      Settings!Connect
<1>13. ASSUME NEW p \in Process, UNCHANGED Settings!settingsVars,
              (\E j \in Of(p) : Settings!Select(j) \/ Settings!ReadFails(j))
                  \/ Settings!Disconnect(p)
       PROVE  WriteInv'
  BY <1>11, <1>13 DEF Settings!Select, Settings!ReadFails, Settings!Disconnect,
                      Settings!settingsVars
<1>14. ASSUME NEW p, Settings!Resolve(p)  PROVE WriteInv'
  BY <1>11, <1>14 DEF Settings!Resolve, Settings!cacheVars
<1>15. ASSUME NEW p \in Process, Settings!Restart(p)  PROVE WriteInv'
  <2>1. /\ pc' = [w \in W |-> IF WriterHome(w) = p THEN "idle" ELSE pc[w]]
        /\ part' = [w \in W |-> IF WriterHome(w) = p THEN <<>> ELSE part[w]]
        /\ found' = [w \in W |-> IF WriterHome(w) = p THEN Settings!NoRow ELSE found[w]]
        /\ db' = db
    BY <1>15 DEF Settings!Restart, Settings!Reboot
  <2>2. DOMAIN <<>> = {}
    OBVIOUS
  <2>3. WriterTypes'
    BY <1>1, <2>1, <2>2 DEF WriteInv, WriterTypes
  <2>4. \A x \in W : pc'[x] # "idle" => pc[x] # "idle" /\ part'[x] = part[x] /\ basis'[x] = basis[x]
    BY <1>1, <2>1 DEF WriteInv, WriterTypes
  <2>5. Checked'
    BY <2>4 DEF WriteInv, Checked, Settings!Valid, Settings!Overlay, Settings!Merge
  <2> QED  BY <1>5, <2>1, <2>3, <2>5 DEF WriteInv
<1>16. Settings!Next
  BY DEF Settings!MCNext
<1> QED
  BY <1>6, <1>7, <1>8, <1>9, <1>10, <1>12, <1>13, <1>14, <1>15, <1>16
     DEF Settings!Next, Settings!Write, Settings!Goes, Settings!Breaks, Of

SettingsInv == SettingsTypes /\ CopyInv /\ WriteInv

LEMMA SettingsStart == Settings!MCInit => SettingsInv
<1> SUFFICES ASSUME Settings!MCInit  PROVE SettingsInv
  OBVIOUS
<1>1. PICK start \in Starts : Settings!CacheInit([r \in Rows |-> start])
  BY DEF Settings!MCInit, Settings!Init
<1>2. /\ db = [r \in Rows |-> start] /\ copy = [p \in Process |-> db]
      /\ link = [p \in Process |-> "up"] /\ jobs = {}
  BY <1>1 DEF Settings!CacheInit
<1>3. db[T] = start /\ \A p \in Process : copy[p][T] = start
  BY <1>2, TargetIsRow
<1>4. start \in Settings!Row /\ Settings!Valid(start)
  BY DataAssumption
<1>5. memo = [p \in Process |-> {}] /\ raced = {} /\ ~blind
  BY DEF Settings!MCInit, Settings!Init
<1>6. SettingsTypes
  BY <1>2, <1>3, <1>4, <1>5 DEF SettingsTypes, Settings!Row
<1>7. \A p \in Process : Of(p) = {} /\ link[p] = "up" /\ memo[p] = {}
  BY <1>2, <1>5 DEF Of, Settings!JobsOf
<1>8. CopyInv
  BY <1>3, <1>7 DEF CopyInv, Followed, OneChange, StillSo, Right, Settings!ModelIsOverlay
<1>9. /\ pc = [w \in {"w1", "w2"} |-> "idle"] /\ part = [w \in {"w1", "w2"} |-> <<>>]
      /\ found = [w \in {"w1", "w2"} |-> Settings!NoRow]
      /\ basis = [w \in {"w1", "w2"} |-> Settings!NoRow]
  BY DEF Settings!MCInit, Settings!Init
<1>10. DOMAIN <<>> = {}
  OBVIOUS
<1>11. WriterTypes /\ Checked
  BY <1>9, <1>10 DEF WriterTypes, Checked
<1>12. Settings!StoredIsValidSeen
  BY <1>3, <1>4 DEF Settings!StoredIsValidSeen, Settings!StoredIsValid, T
<1> QED  BY <1>6, <1>8, <1>11, <1>12 DEF SettingsInv, WriteInv

LEMMA SettingsStep == SettingsInv /\ [Settings!MCNext]_(Settings!mcVars) => SettingsInv'
<1>1. ASSUME SettingsInv, Settings!MCNext  PROVE SettingsInv'
  <2>1. SettingsTypes'
    BY <1>1, TypesKept DEF SettingsInv, Settings!MCNext
  <2> QED  BY <1>1, <2>1, CopyStep, WriteStep DEF SettingsInv, WriteInv
<1>2. ASSUME SettingsInv, UNCHANGED Settings!mcVars  PROVE SettingsInv'
  <2>1. UNCHANGED <<db, copy, link, jobs, memo, pc, part, found, raced, basis, blind>>
    BY <1>2 DEF Settings!mcVars, Settings!vars, Settings!cacheVars, Settings!settingsVars
  <2>2. SettingsTypes'
    <3>1. (\A i \in jobs : IsJob(i))'
      BY <1>2, <2>1 DEF SettingsInv, SettingsTypes, IsJob
    <3> QED  BY <1>2, <2>1, <3>1 DEF SettingsInv, SettingsTypes
  <2>3. CopyInv'
    <3> SUFFICES ASSUME NEW q \in Process \ raced'  PROVE Followed(q)'
      BY DEF CopyInv, Followed, OneChange, StillSo, Right, Of
    <3>1. Of(q)' = Of(q) /\ Followed(q)
      BY <1>2, <2>1 DEF Of, Settings!JobsOf, SettingsInv, CopyInv
    <3> QED  BY <2>1, <3>1, Untouched
  <2>4. WriterTypes' /\ Checked'
    BY <1>2, <2>1 DEF SettingsInv, WriteInv, WriterTypes, Checked, Settings!Valid,
                      Settings!Overlay, Settings!Merge
  <2>5. Settings!StoredIsValidSeen'
    BY <1>2, <2>1 DEF SettingsInv, WriteInv, Settings!StoredIsValidSeen,
                      Settings!StoredIsValid, Settings!Valid, Settings!Overlay,
                      Settings!Target
  <2> QED  BY <2>2, <2>3, <2>4, <2>5 DEF SettingsInv, WriteInv
<1> QED  BY <1>1, <1>2

LEMMA SettingsMeaning == SettingsInv => SettingsHold
<1> SUFFICES ASSUME SettingsInv  PROVE SettingsHold
  OBVIOUS
<1>1. ASSUME NEW p \in Process, Settings!Settled(p, T), p \notin raced
      PROVE  Settings!Fresh(p, T) /\ Settings!ModelIsOverlay(p)
  <2>1. Followed(p)
    BY <1>1 DEF SettingsInv, CopyInv
  <2>2. \A j \in Of(p) : T \in j.rows
    BY DEF SettingsInv, SettingsTypes, Of, Settings!JobsOf, IsJob
  <2>3. link[p] = "up" /\ Of(p) = {}
    BY <1>1, <2>2 DEF Settings!Settled, Of
  <2> QED  BY <2>1, <2>3 DEF Followed, Right, Settings!Fresh
<1>2. Settings!CopyFollowsAlone
  BY <1>1 DEF Settings!CopyFollowsAlone, T
<1> QED  BY <1>2 DEF SettingsHold, SettingsInv, WriteInv

(* MCData.SettingsHold: through lost connections, failed reads, restarts   *)
(* and any order in which what is under way ends, a copy of the settings   *)
(* to which no two changes raced agrees with the table once nothing is     *)
(* about to change it, and so does the model built from it; and what is    *)
(* stored is a valid model as long as writes were checked against it.      *)
THEOREM SettingsKept ==
  Settings!MCInit /\ [][Settings!MCNext]_(Settings!mcVars) => []SettingsHold
<1>1. Settings!MCInit => SettingsInv
  BY SettingsStart
<1>2. SettingsInv /\ [Settings!MCNext]_(Settings!mcVars) => SettingsInv'
  BY SettingsStep
<1>3. SettingsInv => SettingsHold
  BY SettingsMeaning
<1> QED  BY <1>1, <1>2, <1>3, PTL

=============================================================================
