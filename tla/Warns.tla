---------------------------------- MODULE Warns ----------------------------------
(***************************************************************************)
(* The warns of one member on one server and the ladder of automatic       *)
(* punishments they lead to.                                               *)
(*                                                                         *)
(*   application/moderation/use_cases.py         WarnUser, ClearWarns      *)
(*   infrastructure/db/repositories/moderation.py  rows of warns and cases *)
(*   infrastructure/discord/cogs/moderation.py   /warn, invites, clearing  *)
(*                                                                         *)
(* A warner is one execution of the use case with the Discord call that    *)
(* follows it. Its transaction inserts, counts, deletes and commits with   *)
(* no lock before the delete, so each statement sees what others have      *)
(* committed by then (READ COMMITTED) and its own row. Definitions marked  *)
(* "mutant" are bugs the runs must notice.                                 *)
(***************************************************************************)
EXTENDS Integers, FiniteSets, Sequences

CONSTANTS
    Warners,     \* warns that may be under way at the same time
    Threshold,   \* warn_threshold
    Escalation,  \* warn_escalation
    MaxWarns,    \* bound on warns given
    MaxClears,   \* bound on uses of clearwarns
    HttpMayFail, \* may a call to Discord fail?
    MaxCrashes   \* bound on crashes

ASSUME WarnsAssumption ==
    /\ Threshold \in Nat \ {0} /\ Escalation \in BOOLEAN
    /\ MaxWarns \in Nat /\ MaxClears \in Nat /\ MaxCrashes \in Nat
    /\ HttpMayFail \in BOOLEAN

Ids == 1..MaxWarns
Steps == 1..3 \* mute, mute three times as long, tempban

VARIABLES
    warns,   \* committed rows of warns
    expired, \* of those, the ones older than warn_expire_days
    cases,   \* committed cases of ESCALATION_CASES: the step each one took
    pc,      \* pc[w]: where the warn of w is
    id,      \* id[w]: the row it inserts
    prior,   \* prior[w]: the punishments it has counted
    gone,    \* gone[w]: the committed rows its DELETE has found
    owed,    \* owed[w]: index of the case it has still to enforce
    applied, \* cases Discord has put into effect
    given,   \* bound and id: warns given
    clears, crashes

table == <<warns, expired, cases>>
bounds == <<given, clears, crashes>>
vars == <<table, pc, id, prior, gone, owed, applied, bounds>>

Init ==
    /\ warns = {} /\ expired = {} /\ cases = <<>>
    /\ pc = [w \in Warners |-> "idle"]
    /\ id = [w \in Warners |-> 0]
    /\ prior = [w \in Warners |-> 0]
    /\ gone = [w \in Warners |-> {}]
    /\ owed = [w \in Warners |-> 0]
    /\ applied = {}
    /\ given = 0 /\ clears = 0 /\ crashes = 0

Goto(w, label) == pc' = [pc EXCEPT ![w] = label]

(* /warn, or an invite that is not the server's own.                       *)
Warn(w) ==
    /\ pc[w] = "idle" /\ given < MaxWarns
    /\ given' = given + 1
    /\ id' = [id EXCEPT ![w] = given']
    /\ Goto(w, "count")
    /\ UNCHANGED <<table, prior, gone, owed, applied, clears, crashes>>

Counted == Cardinality(warns \ expired) + 1

(* The rows inserted and counted: the committed ones and its own.          *)
Count(w) ==
    /\ pc[w] = "count"
    /\ Goto(w, IF Counted < Threshold THEN "keep" ELSE "prior")
    /\ UNCHANGED <<table, id, prior, gone, owed, applied, bounds>>

(* Below the threshold: the row is committed, "none".                      *)
Keep(w) ==
    /\ pc[w] = "keep"
    /\ warns' = warns \cup {id[w]}
    /\ Goto(w, "idle")
    /\ UNCHANGED <<expired, cases, id, prior, gone, owed, applied, bounds>>

OneMore == Len(cases) + 1 \* mutant
OneLess == IF cases = <<>> THEN 0 ELSE Len(cases) - 1 \* mutant
Prior == Len(cases)

CountPrior(w) ==
    /\ pc[w] = "prior"
    /\ prior' = [prior EXCEPT ![w] = Prior]
    /\ Goto(w, "delete")
    /\ UNCHANGED <<table, id, gone, owed, applied, bounds>>

Visible == warns

(* DELETE of every row it sees, its own among them.                        *)
Delete(w) ==
    /\ pc[w] = "delete"
    /\ gone' = [gone EXCEPT ![w] = Visible]
    /\ Goto(w, "commit")
    /\ UNCHANGED <<table, id, prior, owed, applied, bounds>>

Step(n) == IF Escalation THEN (IF n >= 3 THEN 3 ELSE n) ELSE 1

MutesOnly(w) == IF Step(prior[w] + 1) = 3 THEN "idle" ELSE "enforce" \* mutant
AfterCommit(w) == "enforce"

(* The case of the punishment, in the same transaction.                    *)
Punish(w) ==
    /\ pc[w] = "commit"
    /\ warns' = warns \ gone[w]
    /\ expired' = expired \ gone[w]
    /\ cases' = Append(cases, Step(prior[w] + 1))
    /\ owed' = [owed EXCEPT ![w] = Len(cases')]
    /\ gone' = [gone EXCEPT ![w] = {}]
    /\ Goto(w, AfterCommit(w))
    /\ UNCHANGED <<id, prior, applied, bounds>>


(* _enforce_warn: the timeout or the ban; Forbidden or another HTTP error  *)
(* leaves the member unpunished.                                           *)
Enforce(w) ==
    /\ pc[w] = "enforce"
    /\ \/ applied' = applied \cup {owed[w]}
       \/ HttpMayFail /\ UNCHANGED applied
    /\ Goto(w, "idle")
    /\ UNCHANGED <<table, id, prior, gone, owed, bounds>>

(* warn_expire_days pass.                                                  *)
Expire(i) ==
    /\ i \in warns \ expired
    /\ expired' = expired \cup {i}
    /\ UNCHANGED <<warns, cases, pc, id, prior, gone, owed, applied, bounds>>

(* ClearWarnsUseCase, from /clearwarns or the panel.                       *)
Clear ==
    /\ clears < MaxClears /\ warns # {}
    /\ clears' = clears + 1
    /\ warns' = {} /\ expired' = {}
    /\ UNCHANGED <<cases, pc, id, prior, gone, owed, applied, given, crashes>>

(* The bot dies and comes back: open transactions roll back, the calls     *)
(* that should have followed committed ones are not made.                  *)
Crash ==
    /\ crashes < MaxCrashes
    /\ crashes' = crashes + 1
    /\ pc' = [w \in Warners |-> "idle"]
    /\ gone' = [w \in Warners |-> {}]
    /\ UNCHANGED <<table, id, prior, owed, applied, given, clears>>

Execute(w) ==
    Count(w) \/ Keep(w) \/ CountPrior(w) \/ Delete(w) \/ Punish(w) \/ Enforce(w)

Next ==
    \/ \E w \in Warners : Warn(w) \/ Execute(w)
    \/ \E i \in Ids : Expire(i)
    \/ Clear \/ Crash

Spec == Init /\ [][Next]_vars

-----------------------------------------------------------------------------
(* Every variable has its type; a case that is owed or applied exists.     *)
TypeOK ==
    /\ warns \subseteq 1..given /\ expired \subseteq warns
    /\ cases \in Seq(Steps)
    /\ pc \in [Warners -> {"idle", "count", "keep", "prior", "delete", "commit", "enforce"}]
    /\ id \in [Warners -> 0..given]
    /\ prior \in [Warners -> 0..Len(cases)]
    /\ gone \in [Warners -> SUBSET Ids]
    /\ owed \in [Warners -> 0..Len(cases)]
    /\ applied \subseteq 1..Len(cases)
    /\ given \in 0..MaxWarns /\ clears \in 0..MaxClears /\ crashes \in 0..MaxCrashes

(* Whatever overlaps and fails, the ladder is never harsher than the       *)
(* member's record: the n-th punishment takes at most the n-th step, and   *)
(* with escalation off every one is a plain mute.                          *)
NeverTooHarsh == \A n \in DOMAIN cases : cases[n] <= Step(n)

(* Nobody is punished for fewer warns than the threshold: the first        *)
(* punishment needs Threshold warns to have been given.                    *)
FirstNeedsThreshold == cases # <<>> => given >= Threshold

(* "On a relapse longer, then tempban": the ladder is climbed step by      *)
(* step.                                                                   *)
LadderInOrder == \A n \in DOMAIN cases : cases[n] = Step(n)

(* "After a punishment the count starts from zero": every punishment is    *)
(* paid for with Threshold warns of its own.                               *)
EachPaidFor == Len(cases) * Threshold <= given

(* "A punishment is applied to the member": every recorded case is put     *)
(* into effect.                                                            *)
EveryCaseApplied == \A n \in 1..MaxWarns : n <= Len(cases) ~> n \in applied
=============================================================================
