------------------------- MODULE CommandBridgeProofs -------------------------
(* Proofs about CommandBridge, for every set of commands and every bound. *)
EXTENDS CommandBridge, TLAPS

LEMMA WorkerFacts ==
    /\ Listen \in Sweepers /\ Sweep \in Sweepers
    /\ Sweepers \subseteq Worker
    /\ \A c \in Commands : NotifyTask(c) \in Worker /\ NotifyTask(c) \notin Sweepers
    /\ NoCommand \notin Commands
  BY CommandsAssumption, SMT DEF Listen, Sweep, Sweepers, NotifyTask, Worker, NoCommand

LEMMA BatchSubset == ASSUME NEW S PROVE Batch(S) \subseteq S
  BY DEF Batch

-----------------------------------------------------------------------------
(* The strengthening of the properties below. It rests on attempts, which  *)
(* counts the claims of a row and never decreases: a row that was claimed  *)
(* at most once has at most one coroutine executing it.                    *)
InSnapshot(c) == \E s \in Sweepers : \E r \in stale[s] : r.id = c

Unclaimed(c) ==
    attempts[c] = 0 =>
        /\ status[c] \in {"absent", "pending"}
        /\ effects[c] = 0
        /\ ~InSnapshot(c)
        /\ \A w \in Worker : ~Executing(w, c)

ClaimedOnce(c) ==
    attempts[c] <= 1 =>
        /\ effects[c] <= 1
        /\ \A w \in Worker : pc[w] = "exec" /\ cur[w] = c => effects[c] = 0
        /\ \A w, v \in Worker : Executing(w, c) /\ Executing(v, c) => w = v

NeverRequeued(c) ==
    /\ status[c] = "absent" => attempts[c] = 0
    /\ c \in NonIdempotent =>
        /\ attempts[c] <= 1
        /\ status[c] = "pending" => attempts[c] = 0

OnceInv == \A c \in Commands : Unclaimed(c) /\ ClaimedOnce(c) /\ NeverRequeued(c)

(* What the lease adds when no executor outlives it.                       *)
LeaseInv ==
    \A c \in Commands : attempts[c] <= 1 =>
        /\ \A w \in Worker : Executing(w, c) =>
            status[c] = "running" /\ c \notin expired /\ ~InSnapshot(c)
        /\ answer[c] # "none" => status[c] = answer[c]

-----------------------------------------------------------------------------
(* Type correctness: every variable keeps its type, and a coroutine that   *)
(* executes holds the id of a row.                                         *)
THEOREM TypeCorrect == Spec => []TypeOK
<1>1. Init => TypeOK
  <2> SUFFICES ASSUME Init PROVE TypeOK
    OBVIOUS
  <2>1. connected \in BOOLEAN /\ up \in BOOLEAN
    BY Zenon DEF Init
  <2> QED
    BY <2>1, WorkerFacts DEF Init, TypeOK, Status, Terminal
<1>2. TypeOK /\ [Next]_vars => TypeOK'
  <2> SUFFICES ASSUME TypeOK, [Next]_vars PROVE TypeOK'
    OBVIOUS
  <2> USE WorkerFacts DEF TypeOK, row, link, local
  <2>1. ASSUME NEW c \in Commands, Enqueue(c) PROVE TypeOK'
    BY <2>1 DEF Enqueue, Status, Terminal
  <2>2. ASSUME NEW c \in Commands, Answer(c) PROVE TypeOK'
    BY <2>2 DEF Answer
  <2>3. ASSUME NEW c \in Commands, DeliverNotify(c) PROVE TypeOK'
    BY <2>3 DEF DeliverNotify
  <2>4. ASSUME NEW c \in Commands, LeaseExpires(c) PROVE TypeOK'
    BY <2>4 DEF LeaseExpires
  <2>5. ASSUME NEW s \in Sweepers, RecoverRow(s) PROVE TypeOK'
    BY <2>5, SMTT(60) DEF RecoverRow, Recovered, StillRunning, Status, Terminal
  <2>6. ASSUME NEW s \in Sweepers, SelectPending(s) PROVE TypeOK'
    BY <2>6 DEF SelectPending, Batch
  <2>7. ASSUME NEW w \in Worker, Claim(w) PROVE TypeOK'
    BY <2>7, SMTT(60) DEF Claim, Claimable, Status, Terminal
  <2>8. ASSUME NEW w \in Worker, Execute(w) PROVE TypeOK'
    BY <2>8 DEF Execute, Returns, Terminal
  <2>9. ASSUME NEW w \in Worker, Finish(w) PROVE TypeOK'
    BY <2>9 DEF Finish, Status, Terminal
  <2>10. ASSUME NEW w \in Worker, EndWork(w) PROVE TypeOK'
    BY <2>10 DEF EndWork
  <2>11. ASSUME NEW w \in Worker, DatabaseError(w) PROVE TypeOK'
    <3>1. connected' \in BOOLEAN
      BY <2>11, Zenon DEF DatabaseError
    <3>2. notified' \subseteq Commands
      BY <2>11 DEF DatabaseError
    <3>3. stale' \in [Sweepers -> SUBSET [id : Commands, attempts : Nat]]
      BY <2>11 DEF DatabaseError
    <3> QED
      BY <2>11, <3>1, <3>2, <3>3 DEF DatabaseError, Fault
  <2>12. ASSUME NEW s \in Sweepers, StartRecovery(s), connected' \in BOOLEAN,
                notified' \subseteq Commands
         PROVE TypeOK'
    <3>1. StaleRows \subseteq Commands
      BY DEF StaleRows, Batch
    <3>2. stale' \in [Sweepers -> SUBSET [id : Commands, attempts : Nat]]
      BY <2>12, <3>1 DEF StartRecovery
    <3> QED
      BY <2>12, <3>2 DEF StartRecovery
  <2>13. CASE SweepTick
    BY <2>12, <2>13 DEF SweepTick
  <2>14. CASE Reconnect
    BY <2>12, <2>14 DEF Reconnect
  <2>15. CASE Crash
    <3>1. connected' \in BOOLEAN /\ up' \in BOOLEAN
      BY <2>15, Zenon DEF Crash
    <3> QED
      BY <2>15, <3>1 DEF Crash, Fault
  <2>16. CASE Restart
    BY <2>16 DEF Restart
  <2>17. CASE Disconnect
    <3>1. connected' \in BOOLEAN
      BY <2>17, Zenon DEF Disconnect
    <3> QED
      BY <2>17, <3>1 DEF Disconnect, Fault
  <2>18. CASE UNCHANGED vars
    BY <2>18 DEF vars
  <2> QED
    BY <2>1, <2>2, <2>3, <2>4, <2>5, <2>6, <2>7, <2>8, <2>9, <2>10, <2>11, <2>13,
       <2>14, <2>15, <2>16, <2>17, <2>18 DEF Next, Step
<1> QED BY <1>1, <1>2, PTL DEF Spec

-----------------------------------------------------------------------------
LEMMA OnceInvInit == Init => OnceInv
  BY WorkerFacts, CommandsAssumption
     DEF Init, OnceInv, Unclaimed, ClaimedOnce, NeverRequeued, Executing, InSnapshot

LEMMA OnceInvStep == TypeOK /\ TypeOK' /\ OnceInv /\ [Next]_vars => OnceInv'
<1> SUFFICES ASSUME TypeOK, TypeOK', OnceInv, [Next]_vars, NEW c \in Commands
             PROVE  (Unclaimed(c) /\ ClaimedOnce(c) /\ NeverRequeued(c))'
  BY DEF OnceInv
<1> DEFINE Goal == (Unclaimed(c) /\ ClaimedOnce(c) /\ NeverRequeued(c))'
<1>0. Unclaimed(c) /\ ClaimedOnce(c) /\ NeverRequeued(c)
  BY DEF OnceInv
<1> USE WorkerFacts, <1>0
    DEF TypeOK, row, link, local, Unclaimed, ClaimedOnce, NeverRequeued, Executing
<1>1. ASSUME NEW d \in Commands, Enqueue(d) PROVE Goal
  BY <1>1 DEF Enqueue, InSnapshot
<1>2. ASSUME NEW d \in Commands, Answer(d) PROVE Goal
  BY <1>2 DEF Answer, InSnapshot
<1>3. ASSUME NEW d \in Commands, DeliverNotify(d) PROVE Goal
  BY <1>3 DEF DeliverNotify, InSnapshot
<1>4. ASSUME NEW d \in Commands, LeaseExpires(d) PROVE Goal
  BY <1>4 DEF LeaseExpires, InSnapshot
<1>5. ASSUME NEW s \in Sweepers, RecoverRow(s) PROVE Goal
  <2>1. PICK r \in stale[s] : RecoverRow(s)!2!(r)
    BY <1>5 DEF RecoverRow
  <2>2. InSnapshot(r.id) /\ (InSnapshot(c)' => InSnapshot(c))
    BY <2>1 DEF InSnapshot
  <2>3. r.id = c => attempts[c] # 0 /\ (c \in NonIdempotent => Recovered(r) = "failed")
    BY <2>2 DEF Recovered
  <2>4. UNCHANGED <<attempts, effects, pc, cur>>
    BY <1>5 DEF RecoverRow
  <2>5. status'[c] # status[c] => r.id = c /\ status[c] = "running" /\ status'[c] = Recovered(r)
    BY <2>1 DEF StillRunning
  <2>6. Recovered(r) \in {"pending", "failed"}
    BY DEF Recovered
  <2>7. Unclaimed(c)'
    BY <2>2, <2>3, <2>4, <2>5
  <2>8. ClaimedOnce(c)'
    BY <2>4
  <2>9. NeverRequeued(c)'
    BY <2>3, <2>4, <2>5, <2>6
  <2> QED
    BY <2>7, <2>8, <2>9
<1>6. ASSUME NEW s \in Sweepers, SelectPending(s) PROVE Goal
  BY <1>6 DEF SelectPending, InSnapshot
<1>7. ASSUME NEW w \in Worker, Claim(w) PROVE Goal
  <2>1. PICK d \in todo[w] : Claim(w)!2!(d)
    BY <1>7 DEF Claim
  <2>2. UNCHANGED <<stale, effects>> /\ (InSnapshot(c)' => InSnapshot(c))
    BY <1>7 DEF Claim, InSnapshot
  <2>3. CASE d = c /\ Claimable(c)
    <3>1. /\ status' = [status EXCEPT ![c] = "running"]
          /\ attempts' = [attempts EXCEPT ![c] = @ + 1]
          /\ pc' = [pc EXCEPT ![w] = "exec"] /\ cur' = [cur EXCEPT ![w] = c]
      BY <2>1, <2>3
    <3>2. status[c] = "pending" /\ status'[c] = "running" /\ attempts'[c] = attempts[c] + 1
      BY <2>3, <3>1 DEF Claimable
    <3>3. \A v \in Worker : Executing(v, c)' => v = w \/ Executing(v, c)
      BY <3>1
    <3>4. Unclaimed(c)' /\ NeverRequeued(c)'
      BY <3>2
    <3>5. ClaimedOnce(c)'
      BY <2>2, <3>2, <3>3
    <3> QED
      BY <3>4, <3>5
  <2>4. CASE ~(d = c /\ Claimable(c))
    <3>1. status'[c] = status[c] /\ attempts'[c] = attempts[c]
      BY <2>1, <2>4
    <3>2. \A v \in Worker : /\ Executing(v, c)' => Executing(v, c)
                            /\ (pc[v] = "exec" /\ cur[v] = c)' => pc[v] = "exec" /\ cur[v] = c
      BY <1>7, <2>1, <2>4 DEF Claim
    <3> QED
      BY <2>2, <3>1, <3>2
  <2> QED
    BY <2>3, <2>4
<1>8. ASSUME NEW w \in Worker, Execute(w) PROVE Goal
  BY <1>8 DEF Execute, Returns, InSnapshot
<1>9. ASSUME NEW w \in Worker, Finish(w) PROVE Goal
  BY <1>9 DEF Finish, InSnapshot, Terminal
<1>10. ASSUME NEW w \in Worker, EndWork(w) PROVE Goal
  BY <1>10 DEF EndWork, InSnapshot
<1>11. ASSUME NEW w \in Worker, DatabaseError(w) PROVE Goal
  <2>1. InSnapshot(c)' => InSnapshot(c)
    BY <1>11 DEF DatabaseError, InSnapshot
  <2> QED
    BY <1>11, <2>1 DEF DatabaseError
<1>12. ASSUME NEW s \in Sweepers, StartRecovery(s) PROVE Goal
  <2>1. \A d \in StaleRows : d \in Commands /\ status[d] = "running"
    BY BatchSubset DEF StaleRows
  <2>2. attempts[c] = 0 => ~InSnapshot(c)'
    BY <1>12, <2>1 DEF StartRecovery, InSnapshot
  <2> QED
    BY <1>12, <2>2 DEF StartRecovery
<1>13. CASE SweepTick
  BY <1>12, <1>13 DEF SweepTick
<1>14. CASE Reconnect
  BY <1>12, <1>14 DEF Reconnect
<1>15. CASE Crash
  BY <1>15 DEF Crash, InSnapshot
<1>16. CASE Restart
  BY <1>16 DEF Restart, InSnapshot
<1>17. CASE Disconnect
  BY <1>17 DEF Disconnect, InSnapshot
<1>18. CASE UNCHANGED vars
  BY <1>18 DEF vars, InSnapshot
<1> QED
  BY <1>1, <1>2, <1>3, <1>4, <1>5, <1>6, <1>7, <1>8, <1>9, <1>10, <1>11, <1>13,
     <1>14, <1>15, <1>16, <1>17, <1>18 DEF Next, Step

(* Whatever crashes, reconnects, lost NOTIFYs and overlapping sweeps do, a *)
(* command of a non-idempotent type acts on Discord at most once.          *)
THEOREM AtMostOnce == Spec => []NonIdempotentAtMostOnce
<1>1. OnceInv => NonIdempotentAtMostOnce
  BY CommandsAssumption DEF OnceInv, ClaimedOnce, NeverRequeued, NonIdempotentAtMostOnce
<1> QED
  BY <1>1, TypeCorrect, OnceInvInit, OnceInvStep, PTL DEF Spec

-----------------------------------------------------------------------------
LEMMA LeaseInvInit == Init => LeaseInv
  BY WorkerFacts DEF Init, LeaseInv, Executing

LEMMA LeaseInvStep ==
    ASSUME ExecutorsWithinLease
    PROVE  TypeOK /\ TypeOK' /\ OnceInv /\ LeaseInv /\ [Next]_vars => LeaseInv'
<1> SUFFICES ASSUME TypeOK, TypeOK', OnceInv, LeaseInv, [Next]_vars,
                    NEW c \in Commands, (attempts[c] <= 1)'
             PROVE  /\ \A w \in Worker : Executing(w, c)' =>
                        (status[c] = "running" /\ c \notin expired /\ ~InSnapshot(c))'
                    /\ (answer[c] # "none" => status[c] = answer[c])'
  BY DEF LeaseInv
<1> DEFINE Goal ==
      /\ \A w \in Worker : Executing(w, c)' =>
            (status[c] = "running" /\ c \notin expired /\ ~InSnapshot(c))'
      /\ (answer[c] # "none" => status[c] = answer[c])'
<1>0. /\ Unclaimed(c) /\ ClaimedOnce(c) /\ NeverRequeued(c)
      /\ attempts[c] <= 1 =>
            /\ \A w \in Worker : Executing(w, c) =>
                status[c] = "running" /\ c \notin expired /\ ~InSnapshot(c)
            /\ answer[c] # "none" => status[c] = answer[c]
  BY DEF OnceInv, LeaseInv
<1> USE WorkerFacts, <1>0, ExecutorsWithinLease
    DEF TypeOK, row, link, local, Unclaimed, ClaimedOnce, NeverRequeued, Executing, Terminal
<1>1. ASSUME NEW d \in Commands, Enqueue(d) PROVE Goal
  BY <1>1 DEF Enqueue, InSnapshot
<1>2. ASSUME NEW d \in Commands, Answer(d) PROVE Goal
  BY <1>2 DEF Answer, InSnapshot
<1>3. ASSUME NEW d \in Commands, DeliverNotify(d) PROVE Goal
  BY <1>3 DEF DeliverNotify, InSnapshot
<1>4. ASSUME NEW d \in Commands, LeaseExpires(d) PROVE Goal
  BY <1>4 DEF LeaseExpires, InSnapshot
<1>5. ASSUME NEW s \in Sweepers, RecoverRow(s) PROVE Goal
  <2>1. PICK r \in stale[s] : RecoverRow(s)!2!(r)
    BY <1>5 DEF RecoverRow
  <2>2. InSnapshot(r.id) /\ (InSnapshot(c)' => InSnapshot(c))
    BY <2>1 DEF InSnapshot
  <2>3. UNCHANGED <<attempts, answer, pc, cur>>
    BY <1>5 DEF RecoverRow
  <2>4. status'[c] # status[c] => r.id = c /\ status[c] = "running"
    BY <2>1 DEF StillRunning
  <2>5. c \in expired' => c \in expired
    BY <2>1
  <2> QED
    BY <2>2, <2>3, <2>4, <2>5
<1>6. ASSUME NEW s \in Sweepers, SelectPending(s) PROVE Goal
  BY <1>6 DEF SelectPending, InSnapshot
<1>7. ASSUME NEW w \in Worker, Claim(w) PROVE Goal
  <2>1. PICK d \in todo[w] : Claim(w)!2!(d)
    BY <1>7 DEF Claim
  <2>2. UNCHANGED <<stale, answer>>
    BY <1>7 DEF Claim
  <2>3. CASE d = c /\ Claimable(c)
    <3>1. attempts[c] = 0 /\ answer[c] = "none"
      BY <2>1, <2>3, SMTT(60) DEF Claimable
    <3> QED
      BY <2>1, <2>2, <2>3, <3>1 DEF Claimable, InSnapshot
  <2>4. CASE ~(d = c /\ Claimable(c))
    <3>1. UNCHANGED <<status[c], attempts[c]>> /\ (c \in expired' => c \in expired)
      BY <2>1, <2>4 DEF Claimable
    <3>2. \A v \in Worker : Executing(v, c)' => Executing(v, c)
      BY <1>7, <2>1, <2>4 DEF Claim
    <3> QED
      BY <2>2, <3>1, <3>2 DEF InSnapshot
  <2> QED
    BY <2>3, <2>4
<1>8. ASSUME NEW w \in Worker, Execute(w) PROVE Goal
  BY <1>8 DEF Execute, Returns, InSnapshot
<1>9. ASSUME NEW w \in Worker, Finish(w) PROVE Goal
  BY <1>9 DEF Finish, InSnapshot
<1>10. ASSUME NEW w \in Worker, EndWork(w) PROVE Goal
  BY <1>10 DEF EndWork, InSnapshot
<1>11. ASSUME NEW w \in Worker, DatabaseError(w) PROVE Goal
  <2>1. InSnapshot(c)' => InSnapshot(c)
    BY <1>11 DEF DatabaseError, InSnapshot
  <2> QED
    BY <1>11, <2>1 DEF DatabaseError
<1>12. ASSUME NEW s \in Sweepers, StartRecovery(s) PROVE Goal
  <2>1. \A d \in StaleRows : d \in expired
    BY BatchSubset DEF StaleRows
  <2>2. c \notin expired /\ ~InSnapshot(c) => ~InSnapshot(c)'
    BY <1>12, <2>1 DEF StartRecovery, InSnapshot
  <2> QED
    BY <1>12, <2>2 DEF StartRecovery
<1>13. CASE SweepTick
  BY <1>12, <1>13 DEF SweepTick
<1>14. CASE Reconnect
  BY <1>12, <1>14 DEF Reconnect
<1>15. CASE Crash
  BY <1>15 DEF Crash, InSnapshot
<1>16. CASE Restart
  BY <1>16 DEF Restart, InSnapshot
<1>17. CASE Disconnect
  BY <1>17 DEF Disconnect, InSnapshot
<1>18. CASE UNCHANGED vars
  BY <1>18 DEF vars, InSnapshot
<1> QED
  BY <1>1, <1>2, <1>3, <1>4, <1>5, <1>6, <1>7, <1>8, <1>9, <1>10, <1>11, <1>13,
     <1>14, <1>15, <1>16, <1>17, <1>18 DEF Next, Step

(* If no executor outlives its lease, the result the panel showed for a    *)
(* non-idempotent command, or for one that was claimed once, is final.     *)
THEOREM ShownResultIsFinal ==
    ASSUME ExecutorsWithinLease PROVE Spec => []AnswerIsFinal
<1>1. OnceInv /\ LeaseInv => AnswerIsFinal
  BY DEF OnceInv, LeaseInv, NeverRequeued, AnswerIsFinal
<1> QED
  BY <1>1, TypeCorrect, OnceInvInit, OnceInvStep, LeaseInvInit, LeaseInvStep, PTL DEF Spec

-----------------------------------------------------------------------------
(* If no executor outlives its lease, a non-idempotent command is queued,  *)
(* taken and ended once: the bridge implements CommandLifecycle for it.    *)
THEOREM LifecycleImplemented ==
    ASSUME ExecutorsWithinLease PROVE Spec => ImplementsLifecycle
<1> DEFINE job == [c \in NonIdempotent |-> status[c]]
<1>1. Init => Lifecycle!Init
  BY CommandsAssumption DEF Init, Lifecycle!Init
<1>2. TypeOK /\ OnceInv /\ LeaseInv /\ [Next]_vars => [Lifecycle!Next]_job
  <2> SUFFICES ASSUME TypeOK, OnceInv, LeaseInv, [Next]_vars, job' # job
               PROVE  Lifecycle!Next
    OBVIOUS
  <2> USE CommandsAssumption, WorkerFacts
  <2>1. ASSUME NEW c \in Commands, NEW to,
               status' = [status EXCEPT ![c] = to],
               \/ status[c] = "absent" /\ to = "pending"
               \/ status[c] = "pending" /\ to = "running"
               \/ c \in NonIdempotent => status[c] = "running" /\ to \in Terminal
        PROVE  Lifecycle!Next
    <3>1. c \in NonIdempotent /\ job' = [job EXCEPT ![c] = to]
      BY <2>1 DEF TypeOK
    <3> QED
      BY <2>1, <3>1 DEF Lifecycle!Next, Lifecycle!Submit, Lifecycle!Take, Lifecycle!End,
                        Lifecycle!Move, Lifecycle!Ended, Terminal
  <2>2. status' # status
    OBVIOUS
  <2>3. ASSUME NEW c \in Commands, Enqueue(c) PROVE Lifecycle!Next
    BY <2>1, <2>3 DEF Enqueue
  <2>4. ASSUME NEW s \in Sweepers, RecoverRow(s) PROVE Lifecycle!Next
    <3>1. PICK r \in stale[s] : RecoverRow(s)!2!(r)
      BY <2>4 DEF RecoverRow
    <3>2. r.id \in Commands
      BY DEF TypeOK
    <3>3. r.id \in NonIdempotent => Recovered(r) = "failed"
      BY DEF Recovered
    <3> QED
      BY <2>1, <2>2, <3>1, <3>2, <3>3 DEF StillRunning, Terminal
  <2>5. ASSUME NEW w \in Worker, Claim(w) PROVE Lifecycle!Next
    <3>1. PICK c \in todo[w] : Claim(w)!2!(c)
      BY <2>5 DEF Claim
    <3>2. c \in Commands
      BY DEF TypeOK
    <3> QED
      BY <2>1, <2>2, <3>1, <3>2 DEF Claimable, row
  <2>6. ASSUME NEW w \in Worker, Finish(w) PROVE Lifecycle!Next
    <3>1. cur[w] \in Commands /\ outcome[w] \in Terminal
      BY <2>6 DEF Finish, TypeOK
    <3>2. cur[w] \in NonIdempotent => status[cur[w]] = "running"
      BY <2>6, <3>1 DEF Finish, Executing, OnceInv, NeverRequeued, LeaseInv
    <3> QED
      BY <2>1, <2>6, <3>1, <3>2 DEF Finish
  <2>7. ASSUME NEW w \in Worker, Execute(w) \/ EndWork(w) \/ DatabaseError(w)
        PROVE  FALSE
    BY <2>2, <2>7 DEF Execute, EndWork, DatabaseError, row
  <2>8. ASSUME NEW c \in Commands, Answer(c) \/ DeliverNotify(c) \/ LeaseExpires(c)
        PROVE  FALSE
    BY <2>2, <2>8 DEF Answer, DeliverNotify, LeaseExpires, row
  <2>9. ASSUME NEW s \in Sweepers, SelectPending(s) PROVE FALSE
    BY <2>2, <2>9 DEF SelectPending, row
  <2>10. ASSUME SweepTick \/ Reconnect \/ Crash \/ Restart \/ Disconnect PROVE FALSE
    BY <2>2, <2>10 DEF SweepTick, Reconnect, StartRecovery, Crash, Restart, Disconnect, row
  <2>11. CASE UNCHANGED vars
    BY <2>2, <2>11 DEF vars, row
  <2> QED
    BY <2>3, <2>4, <2>5, <2>6, <2>7, <2>8, <2>9, <2>10, <2>11 DEF Next, Step
<1> QED
  BY <1>1, <1>2, TypeCorrect, OnceInvInit, OnceInvStep, LeaseInvInit, LeaseInvStep, PTL
     DEF Spec, ImplementsLifecycle, Lifecycle!Spec
=============================================================================
