------------------------------ MODULE PremiumKeys ------------------------------
(***************************************************************************)
(* Keys that pay for a server's tariff: the activation of a key, what an   *)
(* operator may do in the panel (revoke a batch, take a seat back, grant,  *)
(* start the trial, take a tariff away), and the tariffs themselves, which *)
(* are a NotifiedCache with one column, the day a tariff ends.             *)
(*                                                                         *)
(*   infrastructure/premium_keys/service.py  PremiumKeyService             *)
(*   infrastructure/entitlements.py          EntitlementService            *)
(*   infrastructure/discord/cogs/premium.py  /premium activate, in the bot *)
(*   api/routers/premium_keys.py, entitlements.py   the operator's panel   *)
(*                                                                         *)
(* Days are counted in terms of a key. Signatures and dates of keys are    *)
(* their verdicts: a key is good or it is turned down before any lock.     *)
(***************************************************************************)
EXTENDS NotifiedCache

CONSTANTS
    Sessions,  \* activations that may be under way at once, all of one user
    Keys,      \* good keys
    BatchOf(_),\* the batch a key was issued in
    Seats,     \* how many servers a key is good for
    Limit,     \* attempts_per_hour
    Forever,   \* the end of a tariff that has none (expires_at is NULL)
    Grants,    \* the ends an operator grants
    MaxNow,    \* bound on days that pass
    MaxTries,  \* bound on attempts that are turned down
    MaxBegun,  \* bound on activations that go further
    MaxActs    \* bound on what the operator does

Batches == {BatchOf(k) : k \in Keys}
End == CHOOSE c \in Cols : TRUE
Term == 1
TrialTerm == 1

VARIABLES
    now,     \* today
    tries,   \* attempts the journal has for the last hour
    pc,      \* how far an activation is: "idle", "lock", "seats", "row", "save"
    asked,   \* the key and the server of an activation
    extends, \* the server had a seat when the activation looked
    until,   \* the end it has computed
    hadRow,  \* it has read a row for the server
    lock,    \* the activation that holds the lock of a batch's row
    seats,   \* key_seats: <<key, server>>
    revoked, \* batches with revoked_at
    trials,  \* servers that have had the trial
    begun,   \* bound: activations begun
    strip,   \* servers the operator's request has still to take the tariff from
    acts     \* bound: what the operator has begun

activations == <<pc, asked, extends, until, hadRow>>
vars == <<cacheVars, now, tries, activations, lock, seats, revoked, trials, strip, begun, acts>>

Free == "free"

Init ==
    /\ CacheInit([r \in Rows |-> NoRow])
    /\ now = 0 /\ tries = 0
    /\ pc = [s \in Sessions |-> "idle"]
    /\ asked = [s \in Sessions |-> <<>>]
    /\ extends = [s \in Sessions |-> FALSE]
    /\ until = [s \in Sessions |-> 0]
    /\ hadRow = [s \in Sessions |-> FALSE]
    /\ lock = [b \in Batches |-> Free]
    /\ revoked \in SUBSET Batches
    /\ seats = {} /\ trials = {} /\ strip = {} /\ begun = 0
    /\ acts \in 0 .. MaxActs

Key(s) == asked[s][1]
Server(s) == asked[s][2]
Batch(s) == BatchOf(Key(s))
TakenBy(k) == {g \in Rows : <<k, g>> \in seats}

(* current(): the end of a tariff that is in force by this copy, if any.   *)
InForce(end) == end = Forever \/ (end # Absent /\ end > now)
BaseToday(p, g) == now \* mutant
Base(p, g) ==
    LET end == copy[p][g][End] IN IF InForce(end) /\ end # Forever THEN end ELSE now

Leave(s) ==
    /\ pc' = [pc EXCEPT ![s] = "idle"]
    /\ asked' = [asked EXCEPT ![s] = <<>>]
    /\ extends' = [extends EXCEPT ![s] = FALSE]
    /\ until' = [until EXCEPT ![s] = 0]
    /\ hadRow' = [hadRow EXCEPT ![s] = FALSE]
Unlock(s) == lock' = [b \in Batches |-> IF lock[b] = s THEN Free ELSE lock[b]]
Journal == tries' = tries + 1

(* An attempt above the limit, or with a key that is forged or out of      *)
(* date, leaves nothing but a line in the journal.                         *)
TurnedDown ==
    /\ tries < MaxTries /\ Journal
    /\ UNCHANGED <<cacheVars, now, activations, lock, seats, revoked, trials, strip, begun, acts>>

Activate(s, k, g) ==
    /\ pc[s] = "idle" /\ tries < Limit /\ begun < MaxBegun
    /\ begun' = begun + 1
    /\ pc' = [pc EXCEPT ![s] = "lock"]
    /\ asked' = [asked EXCEPT ![s] = <<k, g>>]
    /\ UNCHANGED <<cacheVars, now, tries, extends, until, hadRow, lock, seats, revoked,
                   trials, strip, acts>>

LockNothing(s) ==  \* mutant
    /\ pc[s] = "lock" /\ Batch(s) \notin revoked
    /\ pc' = [pc EXCEPT ![s] = "seats"]
    /\ UNCHANGED <<cacheVars, now, tries, asked, extends, until, hadRow, lock, seats, revoked,
                   trials, strip, begun, acts>>

(* SELECT ... FOR UPDATE of the batch, and the gate of its revocation.     *)
LockBatch(s) ==
    /\ pc[s] = "lock" /\ lock[Batch(s)] = Free
    /\ IF Batch(s) \in revoked
       THEN Leave(s) /\ Journal /\ UNCHANGED lock
       ELSE /\ pc' = [pc EXCEPT ![s] = "seats"]
            /\ lock' = [lock EXCEPT ![Batch(s)] = s]
            /\ UNCHANGED <<tries, asked, extends, until, hadRow>>
    /\ UNCHANGED <<cacheVars, now, seats, revoked, trials, strip, begun, acts>>

(* The seats of the key are read, and the end computed from the tariff as  *)
(* the bot's copy has it.                                                  *)
IsFull(s) == Server(s) \notin TakenBy(Key(s)) /\ Cardinality(TakenBy(Key(s))) >= Seats
ReadSeats(s) ==
    /\ pc[s] = "seats"
    /\ IF IsFull(s)
       THEN Leave(s) /\ Unlock(s) /\ Journal
       ELSE /\ pc' = [pc EXCEPT ![s] = "row"]
            /\ extends' = [extends EXCEPT ![s] = Server(s) \in TakenBy(Key(s))]
            /\ until' = [until EXCEPT ![s] = Base("bot", Server(s)) + Term]
            /\ UNCHANGED <<tries, asked, hadRow, lock>>
    /\ UNCHANGED <<cacheVars, now, seats, revoked, trials, strip, begun, acts>>

(* upsert_in_session looks whether the server has a row...                 *)
HasRow(g) == db[g][End] # Absent
ReadRow(s) ==
    /\ pc[s] = "row"
    /\ pc' = [pc EXCEPT ![s] = "save"]
    /\ hadRow' = [hadRow EXCEPT ![s] = HasRow(Server(s))]
    /\ UNCHANGED <<cacheVars, now, tries, asked, extends, until, lock, seats, revoked,
                   trials, strip, begun, acts>>

(* ... and the seat, the tariff and the journal are committed together.    *)
(* INSERT of a row that is there now, or UPDATE of one that is gone, fails *)
(* and undoes all three.                                                   *)
NewSeat(s) == IF extends[s] THEN {} ELSE {asked[s]}
Activated(s) ==
    /\ pc[s] = "save" /\ hadRow[s] = HasRow(Server(s))
    /\ Commit(Server(s), [c \in {End} |-> until[s]], Heard(Server(s)),
              {OwnReader("bot", Server(s))})
    /\ seats' = seats \cup NewSeat(s)
    /\ Leave(s) /\ Unlock(s) /\ Journal
    /\ UNCHANGED <<now, revoked, trials, strip, begun, acts>>
ActivationFails(s) ==
    /\ pc[s] = "save" /\ hadRow[s] # HasRow(Server(s))
    /\ Leave(s) /\ Unlock(s)
    /\ UNCHANGED <<cacheVars, now, tries, seats, revoked, trials, strip, begun, acts>>

-----------------------------------------------------------------------------
(* The operator, one request after the other.                              *)
Act == strip = {} /\ acts < MaxActs /\ acts' = acts + 1

HoldersOf(b) == {g \in Rows : \E k \in Keys : BatchOf(k) = b /\ <<k, g>> \in seats}
RevokeBatch(b, hard) ==
    /\ Act /\ lock[b] = Free
    /\ revoked' = revoked \cup {b}
    /\ strip' = IF hard THEN HoldersOf(b) ELSE {}
    /\ UNCHANGED <<cacheVars, now, tries, activations, lock, seats, trials, begun>>
Reactivate(b) ==
    /\ Act /\ lock[b] = Free /\ b \in revoked
    /\ revoked' = revoked \ {b}
    /\ UNCHANGED <<cacheVars, now, tries, activations, lock, seats, trials, begun, strip>>
ReleaseSeat(k, g) ==
    /\ Act /\ <<k, g>> \in seats
    /\ seats' = seats \ {<<k, g>>}
    /\ strip' = {g}
    /\ UNCHANGED <<cacheVars, now, tries, activations, lock, revoked, trials, begun>>

OwnPanel(g, end) == IF "panel" \in Procs THEN {OwnPart("panel", g, [c \in {End} |-> end])} ELSE {}
Put(g, end) == Commit(g, [c \in {End} |-> end], Heard(g), OwnPanel(g, end))
Grant(g, end) ==
    /\ Act /\ Put(g, end)
    /\ UNCHANGED <<now, tries, activations, lock, seats, revoked, trials, begun, strip>>
Trial(g) ==
    /\ Act /\ g \notin trials
    /\ Put(g, now + TrialTerm)
    /\ trials' = trials \cup {g}
    /\ UNCHANGED <<now, tries, activations, lock, seats, revoked, begun, strip>>

(* revoke of a tariff: NOTIFY only if there was one.                       *)
TakeAway(g) ==
    Commit(g, [c \in {End} |-> Absent], IF HasRow(g) THEN Heard(g) ELSE {}, OwnPanel(g, Absent))
Revoke(g) ==
    /\ Act /\ TakeAway(g)
    /\ UNCHANGED <<now, tries, activations, lock, seats, revoked, trials, begun, strip>>
StripOne(g) ==
    /\ g \in strip /\ TakeAway(g)
    /\ strip' = strip \ {g}
    /\ UNCHANGED <<now, tries, activations, lock, seats, revoked, trials, begun, acts>>

(* The request dies between the commits.                                   *)
RequestLost ==
    /\ strip # {} /\ faults < MaxFaults
    /\ strip' = {} /\ faults' = faults + 1
    /\ UNCHANGED <<db, copy, link, jobs, now, tries, activations, lock, seats, revoked,
                   trials, begun, acts>>

-----------------------------------------------------------------------------
Midnight ==
    /\ now < MaxNow /\ now' = now + 1 /\ tries' = 0
    /\ UNCHANGED <<cacheVars, activations, lock, seats, revoked, trials, strip, begun, acts>>

(* What only the copies notice, and the death of the bot, which rolls back *)
(* the transactions of the activations.                                    *)
Caching(p) ==
    /\ \/ \E j \in JobsOf(p) : Select(j) \/ Apply(j) \/ ReadFails(j)
       \/ Disconnect(p) \/ Connect(p)
    /\ UNCHANGED <<now, tries, activations, lock, seats, revoked, trials, strip, begun, acts>>
BotRestarts ==
    /\ Reboot("bot")
    /\ pc' = [s \in Sessions |-> "idle"] /\ asked' = [s \in Sessions |-> <<>>]
    /\ extends' = [s \in Sessions |-> FALSE] /\ until' = [s \in Sessions |-> 0]
    /\ hadRow' = [s \in Sessions |-> FALSE] /\ lock' = [b \in Batches |-> Free]
    /\ UNCHANGED <<now, tries, seats, revoked, trials, strip, begun, acts>>

Redeem(s) == LockBatch(s) \/ ReadSeats(s) \/ ReadRow(s) \/ Activated(s) \/ ActivationFails(s)
Operator ==
    \/ \E b \in Batches : (\E hard \in BOOLEAN : RevokeBatch(b, hard)) \/ Reactivate(b)
    \/ \E k \in Keys, g \in Rows : ReleaseSeat(k, g)
    \/ \E g \in Rows : (\E end \in Grants : Grant(g, end)) \/ Trial(g) \/ Revoke(g) \/ StripOne(g)
    \/ RequestLost
Next ==
    \/ TurnedDown
    \/ \E s \in Sessions : (\E k \in Keys, g \in Rows : Activate(s, k, g)) \/ Redeem(s)
    \/ Operator
    \/ Midnight \/ BotRestarts
    \/ \E p \in Procs : Caching(p)

Spec == Init /\ [][Next]_vars

TypeOK ==
    /\ CacheTypeOK
    /\ now \in 0 .. MaxNow /\ tries \in Nat
    /\ pc \in [Sessions -> {"idle", "lock", "seats", "row", "save"}]
    /\ \A s \in Sessions : asked[s] \in (Keys \X Rows) \cup {<<>>}
    /\ extends \in [Sessions -> BOOLEAN] /\ hadRow \in [Sessions -> BOOLEAN]
    /\ until \in [Sessions -> Nat]
    /\ lock \in [Batches -> Sessions \cup {Free}]
    /\ seats \subseteq Keys \X Rows /\ revoked \subseteq Batches
    /\ trials \subseteq Rows /\ strip \subseteq Rows /\ acts \in 0 .. MaxActs /\ begun \in 0 .. MaxBegun

-----------------------------------------------------------------------------
(* A key never serves more servers than it has seats, however its          *)
(* activations overlap: the lock of the batch covers look and insert.      *)
SeatsWithinKey == \A k \in Keys : Cardinality(TakenBy(k)) <= Seats

(* "срок продлевается, не затирается": an activation adds a whole term to  *)
(* whatever finite tariff is in force (docs/plans/premium-keys.md).        *)
Adds(s) ==
    LET end == db[Server(s)][End] IN
    InForce(end) /\ end # Forever => db'[Server(s)][End] = end + Term
TermsStack == [][\A s \in Sessions : pc[s] = "save" /\ Activated(s) => Adds(s)]_vars
=============================================================================
