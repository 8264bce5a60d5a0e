---------------------------- MODULE CommandBridge ----------------------------
(***************************************************************************)
(* The panel-to-bot command bridge: rows of bot_commands, the NOTIFY that  *)
(* announces a new row, and the bot's coroutines that serve them.          *)
(*                                                                         *)
(*   infrastructure/commands/bridge.py    enqueue, claim, recover, finish  *)
(*   infrastructure/commands/listener.py  the LISTEN loop and the sweep    *)
(*   api/command_client.py                the panel that waits             *)
(*                                                                         *)
(* Every database transaction is one action; coroutines interleave between *)
(* them. A definition marked "mutant" is a bug the runs must notice, not a  *)
(* part of the specification.                                              *)
(* Three kinds of coroutine serve rows: the reconnecting listener and the  *)
(* 20-second sweep, which both run process_pending, and one task per       *)
(* NOTIFY, which runs process.                                             *)
(***************************************************************************)
EXTENDS Integers, FiniteSets

CONSTANTS
    Commands,             \* ids of the rows the panel may insert
    NonIdempotent,        \* those whose command_type is in NON_IDEMPOTENT
    MaxAttempts,          \* DEFAULT_MAX_ATTEMPTS
    BatchLimit,           \* LIMIT of the two SELECTs of a sweep
    ExecutorsWithinLease, \* does every executor end within LEASE_TIMEOUT?
    MaxFaults             \* bound on crashes, disconnects and database errors

ASSUME CommandsAssumption ==
    /\ Commands \subseteq Nat /\ IsFiniteSet(Commands)
    /\ NonIdempotent \subseteq Commands
ASSUME ParametersAssumption ==
    /\ MaxAttempts \in Nat \ {0}
    /\ BatchLimit \in Nat \ {0}
    /\ ExecutorsWithinLease \in BOOLEAN
    /\ MaxFaults \in Nat

Listen == <<"listen", 0>>
Sweep == <<"sweep", 0>>
Sweepers == {Listen, Sweep}
NotifyTask(c) == <<"notify", c>>
Worker == Sweepers \cup {NotifyTask(c) : c \in Commands}

Terminal == {"done", "failed"}
Status == {"absent", "pending", "running"} \cup Terminal

VARIABLES
    status,     \* bot_commands.status, "absent" before the INSERT commits
    attempts,   \* bot_commands.attempts
    expired,    \* rows whose claimed_at is older than the lease
    notified,   \* NOTIFYs sent to the listening connection, not yet delivered
    connected,  \* the listener holds an open LISTEN connection
    up,         \* the bot process runs
    pc,         \* where each coroutine is
    stale,      \* the rows a sweeper's recover_stale has selected
    todo,       \* the ids a coroutine has still to process
    cur,        \* the command a coroutine has claimed
    outcome,    \* what its executor returned
    answer,     \* what the panel told its user, "none" before it sees a result
    effects,    \* history: how often a command acted on Discord
    faults      \* bound: faults injected so far

row == <<status, attempts, expired>>
link == <<notified, connected>>
local == <<pc, stale, todo, cur, outcome>>
vars == <<row, link, up, local, answer, effects, faults>>

NoCommand == -1

Init ==
    /\ status = [c \in Commands |-> "absent"]
    /\ attempts = [c \in Commands |-> 0]
    /\ expired = {}
    /\ notified = {} /\ connected = FALSE /\ up = TRUE
    /\ pc = [w \in Worker |-> "idle"]
    /\ stale = [w \in Sweepers |-> {}]
    /\ todo = [w \in Worker |-> {}]
    /\ cur = [w \in Worker |-> NoCommand]
    /\ outcome = [w \in Worker |-> "none"]
    /\ answer = [c \in Commands |-> "none"]
    /\ effects = [c \in Commands |-> 0]
    /\ faults = 0

(***************************************************************************)
(* The panel.                                                              *)
(***************************************************************************)
(* The INSERT and the NOTIFY commit together; PostgreSQL hands the NOTIFY  *)
(* only to sessions that are listening at that moment.                     *)
Enqueue(c) ==
    /\ status[c] = "absent"
    /\ status' = [status EXCEPT ![c] = "pending"]
    /\ notified' = IF connected THEN notified \cup {c} ELSE notified
    /\ UNCHANGED <<attempts, expired, connected, up, local, answer, effects, faults>>

(* The poll of wait_for_result that finds a terminal status. A panel that  *)
(* reaches its deadline first keeps the answer "none" ("being applied").   *)
Answer(c) ==
    /\ status[c] \in Terminal /\ answer[c] = "none"
    /\ answer' = [answer EXCEPT ![c] = status[c]]
    /\ UNCHANGED <<row, link, up, local, effects, faults>>

(***************************************************************************)
(* The listener and the two sweepers.                                      *)
(***************************************************************************)
(* The first BatchLimit rows of S in id order.                             *)
Batch(S) == {c \in S : Cardinality({d \in S : d < c}) < BatchLimit}

NoStaleRows == {} \* mutant
StaleRows == Batch({c \in Commands : status[c] = "running" /\ c \in expired})

(* recover_stale's SELECT: ids together with the attempts read now.        *)
StartRecovery(s) ==
    /\ pc' = [pc EXCEPT ![s] = "recover"]
    /\ stale' = [stale EXCEPT ![s] = {[id |-> c, attempts |-> attempts[c]] : c \in StaleRows}]
    /\ UNCHANGED <<row, todo, cur, outcome, up, answer, effects, faults>>

(* The timer of _sweep_loop.                                               *)
SweepTick ==
    /\ up /\ pc[Sweep] = "idle"
    /\ StartRecovery(Sweep)
    /\ UNCHANGED link

(* _listen: add_listener, then process_pending.                            *)
Reconnect ==
    /\ up /\ ~connected /\ pc[Listen] = "idle"
    /\ connected' = TRUE
    /\ StartRecovery(Listen)
    /\ UNCHANGED notified

(* _on_notify: a task that processes the one id of the payload.            *)
DeliverNotify(c) ==
    /\ up /\ c \in notified
    /\ notified' = notified \ {c}
    /\ pc' = [pc EXCEPT ![NotifyTask(c)] = "work"]
    /\ todo' = [todo EXCEPT ![NotifyTask(c)] = {c}]
    /\ UNCHANGED <<row, connected, up, stale, cur, outcome, answer, effects, faults>>

(* One iteration of recover_stale: it acts on the attempts of its own      *)
(* SELECT, and only if the row is still running.                           *)
RetriesAll(r) == IF r.attempts >= MaxAttempts THEN "failed" ELSE "pending" \* mutant
Recovered(r) ==
    IF r.id \in NonIdempotent \/ r.attempts >= MaxAttempts THEN "failed" ELSE "pending"

StillRunning(c) == status[c] = "running"

RecoverRow(s) ==
    /\ pc[s] = "recover"
    /\ \E r \in stale[s] :
        /\ \A q \in stale[s] : r.id <= q.id
        /\ stale' = [stale EXCEPT ![s] = @ \ {r}]
        /\ IF StillRunning(r.id)
           THEN /\ status' = [status EXCEPT ![r.id] = Recovered(r)]
                /\ expired' = IF Recovered(r) = "pending" THEN expired \ {r.id} ELSE expired
           ELSE UNCHANGED <<status, expired>>
    /\ UNCHANGED <<attempts, link, up, pc, todo, cur, outcome, answer, effects, faults>>

(* The second SELECT of process_pending.                                   *)
SelectPending(s) ==
    /\ pc[s] = "recover" /\ stale[s] = {}
    /\ pc' = [pc EXCEPT ![s] = "work"]
    /\ todo' = [todo EXCEPT ![s] = Batch({c \in Commands : status[c] = "pending"})]
    /\ UNCHANGED <<row, link, up, stale, cur, outcome, answer, effects, faults>>

(***************************************************************************)
(* process(cmd_id), run by a sweeper for each id in turn and by a task.    *)
(***************************************************************************)
Claimable(c) == status[c] = "pending"

Claim(w) ==
    /\ pc[w] = "work"
    /\ \E c \in todo[w] :
        /\ \A d \in todo[w] : c <= d
        /\ todo' = [todo EXCEPT ![w] = @ \ {c}]
        /\ IF Claimable(c)
           THEN /\ status' = [status EXCEPT ![c] = "running"]
                /\ attempts' = [attempts EXCEPT ![c] = @ + 1]
                /\ expired' = expired \ {c}
                /\ cur' = [cur EXCEPT ![w] = c]
                /\ pc' = [pc EXCEPT ![w] = "exec"]
           ELSE UNCHANGED <<row, cur, pc>>
    /\ UNCHANGED <<link, up, stale, outcome, answer, effects, faults>>

Returns(w, result) == outcome' = [outcome EXCEPT ![w] = result]

(* The executor: a result, a CommandError or another exception; it may     *)
(* have acted on Discord before it failed.                                 *)
Execute(w) ==
    /\ pc[w] = "exec"
    /\ \E result \in Terminal, acted \in BOOLEAN :
        /\ result = "done" => acted
        /\ Returns(w, result)
        /\ effects' = [effects EXCEPT ![cur[w]] = IF acted THEN @ + 1 ELSE @]
    /\ pc' = [pc EXCEPT ![w] = "finish"]
    /\ UNCHANGED <<row, link, up, stale, todo, cur, answer, faults>>

(* _finish writes whatever the row's status is by now.                     *)
Finish(w) ==
    /\ pc[w] = "finish"
    /\ status' = [status EXCEPT ![cur[w]] = outcome[w]]
    /\ pc' = [pc EXCEPT ![w] = "work"]
    /\ cur' = [cur EXCEPT ![w] = NoCommand]
    /\ outcome' = [outcome EXCEPT ![w] = "none"]
    /\ UNCHANGED <<attempts, expired, link, up, stale, todo, answer, effects, faults>>

EndWork(w) ==
    /\ pc[w] = "work" /\ todo[w] = {}
    /\ pc' = [pc EXCEPT ![w] = "idle"]
    /\ UNCHANGED <<row, link, up, stale, todo, cur, outcome, answer, effects, faults>>

(***************************************************************************)
(* Time and faults.                                                        *)
(***************************************************************************)
Executing(w, c) == pc[w] \in {"exec", "finish"} /\ cur[w] = c

(* claimed_at falls behind the cutoff. The comment on the lease says no    *)
(* action takes that long: ExecutorsWithinLease is that assumption.        *)
LeaseExpires(c) ==
    /\ status[c] = "running" /\ c \notin expired
    /\ ExecutorsWithinLease => \A w \in Worker : ~Executing(w, c)
    /\ expired' = expired \cup {c}
    /\ UNCHANGED <<status, attempts, link, up, local, answer, effects, faults>>

Fault == faults < MaxFaults /\ faults' = faults + 1

Crash ==
    /\ up /\ Fault
    /\ up' = FALSE
    /\ connected' = FALSE /\ notified' = {}
    /\ pc' = [w \in Worker |-> "idle"]
    /\ stale' = [w \in Sweepers |-> {}]
    /\ todo' = [w \in Worker |-> {}]
    /\ cur' = [w \in Worker |-> NoCommand]
    /\ outcome' = [w \in Worker |-> "none"]
    /\ UNCHANGED <<row, answer, effects>>

Restart ==
    /\ ~up
    /\ up' = TRUE
    /\ UNCHANGED <<row, link, local, answer, effects, faults>>

(* The LISTEN connection drops: NOTIFYs on their way are lost.             *)
Disconnect ==
    /\ connected /\ Fault
    /\ connected' = FALSE /\ notified' = {}
    /\ UNCHANGED <<row, up, local, answer, effects>>

(* A database error leaves the coroutine: the sweep loop logs it, a task   *)
(* dies, _listen closes its connection.                                    *)
DatabaseError(w) ==
    /\ pc[w] \in {"recover", "work", "finish"} /\ Fault
    /\ pc' = [pc EXCEPT ![w] = "idle"]
    /\ stale' = IF w \in Sweepers THEN [stale EXCEPT ![w] = {}] ELSE stale
    /\ todo' = [todo EXCEPT ![w] = {}]
    /\ cur' = [cur EXCEPT ![w] = NoCommand]
    /\ outcome' = [outcome EXCEPT ![w] = "none"]
    /\ IF w = Listen THEN connected' = FALSE /\ notified' = {} ELSE UNCHANGED link
    /\ UNCHANGED <<row, up, answer, effects>>

Step(w) == Claim(w) \/ Execute(w) \/ Finish(w) \/ EndWork(w)

Next ==
    \/ \E c \in Commands :
        Enqueue(c) \/ Answer(c) \/ DeliverNotify(c) \/ LeaseExpires(c)
    \/ \E s \in Sweepers : RecoverRow(s) \/ SelectPending(s)
    \/ \E w \in Worker : Step(w) \/ DatabaseError(w)
    \/ SweepTick \/ Reconnect
    \/ Crash \/ Restart \/ Disconnect

Spec == Init /\ [][Next]_vars

(* Coroutines are scheduled, timers fire, executors return, leases age and *)
(* the supervisor restarts a bot that died.                                *)
Fairness ==
    /\ \A s \in Sweepers : WF_vars(RecoverRow(s)) /\ WF_vars(SelectPending(s))
    /\ \A w \in Worker : WF_vars(Step(w))
    /\ \A c \in Commands : WF_vars(LeaseExpires(c))
    /\ WF_vars(SweepTick) /\ WF_vars(Restart)

FairSpec == Spec /\ Fairness

-----------------------------------------------------------------------------
(* Every variable has its type, and a claimed command is a row.            *)
TypeOK ==
    /\ status \in [Commands -> Status]
    /\ attempts \in [Commands -> Nat]
    /\ expired \subseteq Commands
    /\ notified \subseteq Commands
    /\ connected \in BOOLEAN /\ up \in BOOLEAN
    /\ pc \in [Worker -> {"idle", "recover", "work", "exec", "finish"}]
    /\ stale \in [Sweepers -> SUBSET [id : Commands, attempts : Nat]]
    /\ todo \in [Worker -> SUBSET Commands]
    /\ cur \in [Worker -> Commands \cup {NoCommand}]
    /\ outcome \in [Worker -> {"none"} \cup Terminal]
    /\ answer \in [Commands -> {"none"} \cup Terminal]
    /\ effects \in [Commands -> Nat]
    /\ faults \in Nat
    /\ \A w \in Worker :
        /\ pc[w] \in {"exec", "finish"} => cur[w] \in Commands
        /\ pc[w] = "finish" => outcome[w] \in Terminal
        /\ pc[w] = "recover" => w \in Sweepers

(* A non-idempotent command (role.create, music.skip, ...) acts on Discord *)
(* at most once, whatever crashes, reconnects and sweeps overlap.          *)
NonIdempotentAtMostOnce == \A c \in NonIdempotent : effects[c] <= 1

(* A result the panel showed to the admin stays the row's result, if the   *)
(* command is non-idempotent or was claimed once: recovery, late NOTIFYs   *)
(* and overlapping sweeps leave it alone.                                  *)
AnswerIsFinal ==
    \A c \in Commands :
        answer[c] # "none" /\ (c \in NonIdempotent \/ attempts[c] <= 1) =>
            status[c] = answer[c]

(* A non-idempotent command implements the lifecycle of CommandLifecycle,  *)
(* provided executors end within their lease.                              *)
Lifecycle == INSTANCE CommandLifecycle WITH
    Jobs <- NonIdempotent,
    job <- [c \in NonIdempotent |-> status[c]]

ImplementsLifecycle == Lifecycle!Spec

(* Durability: every enqueued command ends, although NOTIFYs are lost and  *)
(* the bot dies between claim and finish.                                  *)
EveryCommandEnds ==
    \A c \in Commands : status[c] = "pending" ~> status[c] \in Terminal
=============================================================================
