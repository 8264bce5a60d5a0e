---------------------------------- MODULE Finds ----------------------------------
(***************************************************************************)
(* Night finds of one server: the bot announces a find with a button, the  *)
(* first member whose visit succeeds takes it into their collection, and   *)
(* items can be given away for points. A walk is a find bought with points.*)
(*                                                                         *)
(*   application/finds/use_cases.py            spawn, claim, gift, walk    *)
(*   infrastructure/discord/cogs/finds.py      announcements, their expiry *)
(*   infrastructure/db/repositories/finds.py   claim_if_free               *)
(*                                                                         *)
(* A visit is one transaction: it reads without locks, then locks the      *)
(* member's profile (get_or_create, SELECT FOR UPDATE). The reads before   *)
(* the lock are one step, as nothing is written between them. What is      *)
(* found and the chances are choices; points are counted in units.         *)
(***************************************************************************)
EXTENDS Integers, FiniteSets

CONSTANTS
    Members, Finds,
    Visits,       \* requests that may be under way at the same time
    Frozen,       \* members whose profile an admin has frozen
    Nobody,
    MaxFaults, MaxVisits \* bounds

VARIABLES
    row,     \* a find's row: "none", "live", or "over" once its time has passed
    owner,   \* claimed_by
    known,   \* finds whose row has the id of their message
    message, \* the announcement: "none", "open" (with its button) or "closed"
    spawning,\* the find that _try_spawn is about to announce or register
    watched, \* finds with an expiry task
    items,   \* rows of user_collections
    tries,   \* rows of find_attempts
    recent,  \* <<kind, member>> whose last attempt is within the cooldown
    points,
    lock,    \* the visit that holds the lock of a profile
    held,    \* the visit that holds the lock of a find's row
    pc, job, \* where a visit is, and what it is about
    up,
    faults,  \* bound: calls to Discord that failed, refused points, crashes
    visits,  \* bound, and the id of the next row a visit writes
    crossed, \* history: members with two visits at the same time
    lost     \* history: announcements nobody will close

rows == <<row, owner, known, items, tries, points>>
locks == <<lock, held>>
history == <<crossed, lost>>
vars == <<rows, message, spawning, watched, recent, locks, pc, job, up, faults, visits, history>>

Prize == 1
Penalty == 1
Cost == 2
NoJob == [kind |-> "none", member |-> Nobody, on |-> Nobody, id |-> 0]

(* Finds of earlier days are over; the bounds may be partly used up.       *)
Init ==
    /\ row \in [Finds -> {"none", "over"}] /\ owner = [f \in Finds |-> Nobody]
    /\ known = {} /\ message = [f \in Finds |-> "none"]
    /\ spawning = Nobody /\ watched = {} /\ items = {} /\ tries = {} /\ recent = {}
    /\ points = [m \in Members |-> Cost]
    /\ lock = [m \in Members |-> Nobody] /\ held = [f \in Finds |-> Nobody]
    /\ pc = [v \in Visits |-> "idle"] /\ job = [v \in Visits |-> NoJob]
    /\ up = TRUE /\ faults \in 0 .. MaxFaults /\ visits \in 0 .. MaxVisits
    /\ crossed = {} /\ lost = {}

Fault == faults < MaxFaults /\ faults' = faults + 1
Active(f) == row[f] = "live" /\ owner[f] = Nobody

-----------------------------------------------------------------------------
(* The bot's loop: a row if none is active, then the announcement, then    *)
(* its id into the row and the expiry task.                                *)
Spawn(f) ==
    /\ up /\ spawning = Nobody /\ row[f] = "none" /\ \A g \in Finds : ~Active(g)
    /\ row' = [row EXCEPT ![f] = "live"]
    /\ spawning' = f
    /\ UNCHANGED <<owner, known, items, tries, points, message, watched, recent, locks, pc,
                   job, up, faults, visits, history>>

Announce ==
    /\ spawning # Nobody /\ message[spawning] = "none"
    /\ message' = [message EXCEPT ![spawning] = "open"]
    /\ UNCHANGED <<rows, spawning, watched, recent, locks, pc, job, up, faults, visits, history>>
AnnounceFails ==
    /\ spawning # Nobody /\ message[spawning] = "none" /\ Fault
    /\ spawning' = Nobody
    /\ UNCHANGED <<rows, message, watched, recent, locks, pc, job, up, visits, history>>

Register ==
    /\ spawning # Nobody /\ message[spawning] = "open"
    /\ known' = known \cup {spawning}
    /\ watched' = watched \cup {spawning}
    /\ spawning' = Nobody
    /\ UNCHANGED <<row, owner, items, tries, points, message, recent, locks, pc, job, up,
                   faults, visits, history>>

(* _close_announcement gives up when Discord refuses.                      *)
Edited(f) ==
    \/ message' = [message EXCEPT ![f] = "closed"] /\ UNCHANGED faults
    \/ UNCHANGED message /\ Fault

TimePasses(f) ==
    /\ row[f] = "live"
    /\ row' = [row EXCEPT ![f] = "over"]
    /\ UNCHANGED <<owner, known, items, tries, points, message, spawning, watched, recent,
                   locks, pc, job, up, faults, visits, history>>

(* _expire_later: the announcement is closed whether or not somebody has   *)
(* claimed the find, if the task knows the message. Its early returns are  *)
(* for a find whose time is not over, and it sleeps until it is.           *)
Expire(f) ==
    /\ f \in watched /\ row[f] = "over"
    /\ watched' = watched \ {f}
    /\ IF f \in known THEN Edited(f) ELSE UNCHANGED <<message, faults>>
    /\ lost' = IF message'[f] = "closed" THEN lost ELSE lost \cup {f}
    /\ UNCHANGED <<rows, spawning, recent, locks, pc, job, up, visits, crossed>>

-----------------------------------------------------------------------------
(* Visits.                                                                 *)
Busy(m) == {v \in Visits : job[v].member = m}
Attempted(m, f) == \E t \in tries : t.member = m /\ t.on = f
Cooling(kind, m) == <<kind, m>> \in recent

(* What the reads before the lock let through: a click on the button of a  *)
(* find, an item the member still has, a walk.                             *)
Lets(kind, m, x) ==
    CASE kind = "claim" -> /\ x \in Finds /\ message[x] = "open" /\ x \in known /\ Active(x)
                           /\ ~Attempted(m, x) /\ ~Cooling("claim", m)
      [] kind = "gift"  -> \E i \in items : i.id = x /\ i.member = m /\ ~i.gifted
      [] kind = "walk"  -> x = 0 /\ ~Cooling("walk", m)

Ask(v, kind, m, x) ==
    /\ up /\ pc[v] = "idle" /\ visits < MaxVisits
    /\ Lets(kind, m, x)
    /\ pc' = [pc EXCEPT ![v] = "lock"]
    /\ visits' = visits + 1
    /\ job' = [job EXCEPT ![v] = [kind |-> kind, member |-> m, on |-> x, id |-> visits']]
    /\ crossed' = IF Busy(m) = {} THEN crossed ELSE crossed \cup {m}
    /\ UNCHANGED <<rows, message, spawning, watched, recent, locks, up, faults, lost>>

Goto(v, label) == pc' = [pc EXCEPT ![v] = label]
Leave(v) ==
    /\ Goto(v, "idle")
    /\ job' = [job EXCEPT ![v] = NoJob]
    /\ lock' = [m \in Members |-> IF lock[m] = v THEN Nobody ELSE lock[m]]
    /\ held' = [f \in Finds |-> IF held[f] = v THEN Nobody ELSE held[f]]

(* get_or_create; a walk that the points do not pay for ends here.         *)
Lock(v) ==
    LET m == job[v].member
        poor == job[v].kind = "walk" /\ points[m] < Cost
    IN  /\ pc[v] = "lock" /\ lock[m] = Nobody
        /\ IF poor THEN Leave(v)
                   ELSE /\ lock' = [lock EXCEPT ![m] = v]
                        /\ Goto(v, "roll") /\ UNCHANGED <<job, held>>
        /\ UNCHANGED <<rows, message, spawning, watched, recent, up, faults, visits, history>>

(* _adjust_points.                                                         *)
Sum(a, b) == IF a + b > 0 THEN a + b ELSE 0
Pay(m, delta) ==
    points' = IF m \in Frozen THEN points ELSE [points EXCEPT ![m] = Sum(@, delta)]
Try(j, won) ==
    /\ tries' = tries \cup {[id |-> j.id, kind |-> j.kind, member |-> j.member, on |-> j.on,
                             won |-> won]}
    /\ recent' = recent \cup {<<j.kind, j.member>>}
Obtain(j) ==
    items' = items \cup {[id |-> j.id, from |-> j.on, member |-> j.member, gifted |-> FALSE]}

Misses(v) ==
    /\ pc[v] = "roll" /\ job[v].kind = "claim"
    /\ Pay(job[v].member, -Penalty) /\ Try(job[v], FALSE) /\ Leave(v)
    /\ UNCHANGED <<row, owner, known, items, message, spawning, watched, up, faults,
                   visits, history>>

(* claim_if_free: the UPDATE waits for a transaction that has the row, and *)
(* then looks at claimed_by again.                                         *)
EvenIfOwned(f) == TRUE  \* mutant
Unowned(f) == owner[f] = Nobody
Takes(v) ==
    /\ pc[v] = "roll" /\ job[v].kind = "claim" /\ held[job[v].on] = Nobody
    /\ IF Unowned(job[v].on)
       THEN /\ held' = [held EXCEPT ![job[v].on] = v]
            /\ Goto(v, "won") /\ UNCHANGED <<job, lock>>
       ELSE Leave(v)
    /\ UNCHANGED <<rows, message, spawning, watched, recent, up, faults, visits, history>>

Wins(v) ==
    /\ pc[v] = "won"
    /\ owner' = [owner EXCEPT ![job[v].on] = job[v].member]
    /\ Pay(job[v].member, Prize) /\ Try(job[v], TRUE) /\ Obtain(job[v])
    /\ Goto(v, "close")
    /\ lock' = [lock EXCEPT ![job[v].member] = Nobody]
    /\ held' = [held EXCEPT ![job[v].on] = Nobody]
    /\ UNCHANGED <<row, known, message, spawning, watched, job, up, faults, visits, history>>

Gives(v) ==
    /\ pc[v] = "roll" /\ job[v].kind = "gift"
    /\ items' = {IF i.id = job[v].on THEN [i EXCEPT !.gifted = TRUE] ELSE i : i \in items}
    /\ Pay(job[v].member, Prize) /\ Leave(v)
    /\ UNCHANGED <<row, owner, known, tries, message, spawning, watched, recent, up,
                   faults, visits, history>>

Walks(v, won) ==
    /\ pc[v] = "roll" /\ job[v].kind = "walk"
    /\ Pay(job[v].member, IF won THEN Prize - Cost ELSE -Cost)
    /\ IF won THEN Obtain(job[v]) ELSE UNCHANGED items
    /\ Try(job[v], won) /\ Leave(v)
    /\ UNCHANGED <<row, owner, known, message, spawning, watched, up, faults, visits, history>>

(* Points that would move the title of the only one: the index refuses the *)
(* new holder and the transaction is rolled back (Relationship).           *)
Gains(v) == pc[v] = "won" \/ (pc[v] = "roll" /\ job[v].kind \in {"gift", "walk"})
Refused(v) ==
    /\ Gains(v) /\ job[v].member \notin Frozen /\ Fault
    /\ Leave(v)
    /\ UNCHANGED <<rows, message, spawning, watched, recent, up, visits, history>>

(* _announce_claim takes the button away.                                  *)
CloseTaken(v) ==
    /\ pc[v] = "close"
    /\ Edited(job[v].on)
    /\ Leave(v)
    /\ UNCHANGED <<rows, spawning, watched, recent, up, visits, history>>

CooldownEnds ==
    /\ recent # {}
    /\ recent' = {}
    /\ UNCHANGED <<rows, message, spawning, watched, locks, pc, job, up, faults, visits, history>>

-----------------------------------------------------------------------------
Crash ==
    /\ up /\ up' = FALSE /\ Fault
    /\ spawning' = Nobody /\ watched' = {}
    /\ pc' = [v \in Visits |-> "idle"] /\ job' = [v \in Visits |-> NoJob]
    /\ lock' = [m \in Members |-> Nobody] /\ held' = [f \in Finds |-> Nobody]
    /\ UNCHANGED <<rows, message, recent, visits, history>>

(* _restore_live_finds.                                                    *)
NoneRestored == {}  \* mutant
Restored == {f \in Finds : Active(f)}
Restart ==
    /\ ~up /\ up' = TRUE
    /\ watched' = Restored
    /\ lost' = lost \cup {f \in Finds : message[f] = "open" /\ ~(Active(f) /\ f \in known)}
    /\ UNCHANGED <<rows, message, spawning, recent, locks, pc, job, faults, visits, crossed>>

Visit(v) ==
    \/ Lock(v) \/ Misses(v) \/ Takes(v) \/ Wins(v) \/ Gives(v) \/ Refused(v) \/ CloseTaken(v)
    \/ \E won \in BOOLEAN : Walks(v, won)
Loop == (\E f \in Finds : Spawn(f)) \/ Announce \/ AnnounceFails \/ Register
Next ==
    \/ Loop
    \/ \E f \in Finds : TimePasses(f) \/ Expire(f)
    \/ \E v \in Visits, m \in Members :
         \/ \E f \in Finds : Ask(v, "claim", m, f)
         \/ \E i \in items : Ask(v, "gift", m, i.id)
         \/ Ask(v, "walk", m, 0)
    \/ \E v \in Visits : Visit(v)
    \/ CooldownEnds \/ Crash \/ Restart

Spec == Init /\ [][Next]_vars

(* Time passes; the loop, the expiry tasks and the requests that have      *)
(* begun go on, and a bot that died is started again.                      *)
Fairness ==
    /\ WF_vars(Announce \/ AnnounceFails) /\ WF_vars(Register) /\ WF_vars(Restart)
    /\ \A f \in Finds : WF_vars(TimePasses(f)) /\ WF_vars(Expire(f))
    /\ \A v \in Visits : WF_vars(Visit(v))

TypeOK ==
    /\ row \in [Finds -> {"none", "live", "over"}] /\ owner \in [Finds -> Members \cup {Nobody}]
    /\ message \in [Finds -> {"none", "open", "closed"}]
    /\ known \cup watched \cup lost \subseteq Finds /\ spawning \in Finds \cup {Nobody}
    /\ points \in [Members -> Nat]
    /\ lock \in [Members -> Visits \cup {Nobody}] /\ held \in [Finds -> Visits \cup {Nobody}]
    /\ pc \in [Visits -> {"idle", "lock", "roll", "won", "close"}]
    /\ crossed \subseteq Members

-----------------------------------------------------------------------------
(* A find goes to one member, and its owner is the one who has the item    *)
(* and the successful attempt, however many press the button at once       *)
(* ("Забирает первый, у кого получилось").                                 *)
OneWinner ==
    \A f \in Finds :
        /\ {i.member : i \in {j \in items : j.from = f}} = {owner[f]} \ {Nobody}
        /\ Cardinality({i \in items : i.from = f}) <= 1
        /\ {t.member : t \in {u \in tries : u.on = f /\ u.won}} = {owner[f]} \ {Nobody}

(* "одна попытка на находку": no member tries the same find twice, unless  *)
(* two of their requests overlap.                                          *)
OneTryAlone ==
    \A m \in Members \ crossed, f \in Finds :
        Cardinality({t \in tries : t.member = m /\ t.on = f}) <= 1

(* Both.                                                                   *)
FairPlay == OneWinner /\ OneTryAlone

(* Every announcement loses its button in the end, although the bot may be *)
(* restarted while it is live, unless Discord refused the edit or the find *)
(* ended, or had not been registered, when the bot died.                   *)
AnnouncementsClose ==
    \A f \in Finds : message[f] = "open" ~> message[f] = "closed" \/ f \in lost
===============================================================================
