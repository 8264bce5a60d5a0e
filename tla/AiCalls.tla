---------------------------------- MODULE AiCalls ---------------------------------
(***************************************************************************)
(* Calls to the language model: the queue that limits how many are under   *)
(* way, the circuit breaker, and the chain of retries and the second model *)
(* behind it.                                                              *)
(*                                                                         *)
(*   application/ai_chat/service.py         AIQueue                        *)
(*   infrastructure/ai/circuit_breaker.py   CircuitBreakerAIProvider       *)
(*   infrastructure/ai/resilient.py         retries, fallback              *)
(*                                                                         *)
(* The semaphores of asyncio serve their waiters in order. Failures are    *)
(* counted up to the threshold. When the provider is well it answers; when *)
(* it is ill every attempt fails, and may be repeated or not.              *)
(***************************************************************************)
EXTENDS Naturals, FiniteSets, Sequences, SequencesExt

CONSTANTS
    Callers,
    Behind,    \* of these, the background work; the others answer people
    Decisions, \* of these, the decisions to chime in, which ask the second model
               \* without the breaker
    MaxConcurrent, Threshold,
    Attempts,  \* ai_retry_attempts, of the first model
    Fallbacks  \* attempts of the second model, 0 if there is none

VARIABLES
    pc,       \* "idle", "limit" and "queue" (waiting), "call"
    limit,    \* waiters of the background semaphore
    queue,    \* waiters of the semaphore
    attempt,  \* the attempt a call is at
    state,    \* "CLOSED", "OPEN", "HALF_OPEN"
    failures, \* _failure_count
    cooled,   \* the timeout has passed since the last failure
    well      \* the provider

callVars == <<pc, limit, queue, attempt, state, failures, cooled, well>>

Init ==
    /\ pc = [c \in Callers |-> "idle"] /\ limit = <<>> /\ queue = <<>>
    /\ attempt = [c \in Callers |-> 0]
    /\ state = "CLOSED" /\ failures = 0 /\ cooled = FALSE /\ well \in BOOLEAN

Calling == {c \in Callers : pc[c] = "call"}
Limited == {c \in Behind : pc[c] \in {"queue", "call"}}

BehindLimit == IF MaxConcurrent > 2 THEN MaxConcurrent - 1 ELSE 1

(* AIQueue.run; background work passes its own semaphore first.            *)
Ask(c) ==
    /\ pc[c] = "idle"
    /\ IF c \in Behind
       THEN pc' = [pc EXCEPT ![c] = "limit"] /\ limit' = Append(limit, c) /\ UNCHANGED queue
       ELSE pc' = [pc EXCEPT ![c] = "queue"] /\ queue' = Append(queue, c) /\ UNCHANGED limit
    /\ UNCHANGED <<attempt, state, failures, cooled, well>>

Admit(c) ==
    /\ limit # <<>> /\ c = Head(limit) /\ Cardinality(Limited) < BehindLimit
    /\ limit' = Tail(limit) /\ queue' = Append(queue, c)
    /\ pc' = [pc EXCEPT ![c] = "queue"]
    /\ UNCHANGED <<attempt, state, failures, cooled, well>>

(* _before_call of the breaker, once there is a slot: an open circuit      *)
(* refuses at once; after its timeout it lets through whoever comes.       *)
(* Without a second model a decision asks the first.                       *)
FirstAttempt(c) == IF c \in Decisions /\ Fallbacks > 0 THEN Attempts + 1 ELSE 1
SlotFree == Cardinality(Calling) < MaxConcurrent
Start(c) ==
    /\ queue # <<>> /\ c = Head(queue) /\ SlotFree
    /\ queue' = Tail(queue)
    /\ IF state = "OPEN" /\ ~cooled /\ c \notin Decisions
       THEN pc' = [pc EXCEPT ![c] = "idle"] /\ UNCHANGED <<attempt, state>>
       ELSE /\ pc' = [pc EXCEPT ![c] = "call"]
            /\ attempt' = [attempt EXCEPT ![c] = FirstAttempt(c)]
            /\ state' = IF state = "OPEN" /\ c \notin Decisions THEN "HALF_OPEN" ELSE state
    /\ UNCHANGED <<limit, failures, cooled, well>>

Leaves(c) ==
    /\ pc' = [pc EXCEPT ![c] = "idle"]
    /\ attempt' = [attempt EXCEPT ![c] = 0]

StaysOpen == state  \* mutant
Reset == "CLOSED"

(* An answer, of whichever call the breaker sees, closes the circuit.      *)
Succeed(c) ==
    /\ pc[c] = "call" /\ well
    /\ Leaves(c)
    /\ IF c \in Decisions THEN UNCHANGED <<state, failures>>
                           ELSE state' = Reset /\ failures' = 0
    /\ UNCHANGED <<limit, queue, cooled, well>>

(* The next attempt: of the same model if the error may be repeated, or    *)
(* the first of the second model.                                          *)
LastOf(n) == IF n <= Attempts THEN Attempts ELSE Attempts + Fallbacks
NextAttempt(n, retryable) == IF retryable /\ n < LastOf(n) THEN n + 1 ELSE LastOf(n) + 1

Retry(c, retryable) ==
    /\ pc[c] = "call" /\ ~well
    /\ NextAttempt(attempt[c], retryable) <= Attempts + Fallbacks
    /\ attempt' = [attempt EXCEPT ![c] = NextAttempt(attempt[c], retryable)]
    /\ UNCHANGED <<pc, limit, queue, state, failures, cooled, well>>

Opens == state = "HALF_OPEN" \/ failures + 1 >= Threshold
Fail(c, retryable) ==
    /\ pc[c] = "call" /\ ~well
    /\ NextAttempt(attempt[c], retryable) > Attempts + Fallbacks
    /\ Leaves(c)
    /\ IF c \in Decisions THEN UNCHANGED <<state, failures, cooled>>
       ELSE /\ failures' = IF failures < Threshold THEN failures + 1 ELSE failures
            /\ cooled' = FALSE
            /\ state' = IF Opens THEN "OPEN" ELSE state
    /\ UNCHANGED <<limit, queue, well>>

Cool ==
    /\ failures > 0 /\ ~cooled /\ cooled' = TRUE
    /\ UNCHANGED <<pc, limit, queue, attempt, state, failures, well>>

Sicken == well /\ well' = FALSE /\ UNCHANGED <<pc, limit, queue, attempt, state, failures, cooled>>
Recover == ~well /\ well' = TRUE /\ UNCHANGED <<pc, limit, queue, attempt, state, failures, cooled>>

Respond(c) ==
    Succeed(c) \/ \E retryable \in BOOLEAN : Retry(c, retryable) \/ Fail(c, retryable)

Next ==
    \/ \E c \in Callers : Ask(c) \/ Admit(c) \/ Start(c) \/ Respond(c)
    \/ Cool \/ Sicken \/ Recover

Spec == Init /\ [][Next]_callVars

(* Waiters are served, each attempt ends by its timeout, and time passes.  *)
Fairness ==
    /\ \A c \in Callers :
         WF_callVars(Admit(c)) /\ WF_callVars(Start(c)) /\ WF_callVars(Respond(c))
    /\ WF_callVars(Cool)

TypeOK ==
    /\ pc \in [Callers -> {"idle", "limit", "queue", "call"}]
    /\ IsInjective(queue) /\ ToSet(queue) = {c \in Callers : pc[c] = "queue"}
    /\ IsInjective(limit) /\ ToSet(limit) = {c \in Callers : pc[c] = "limit"}
    /\ attempt \in [Callers -> 0 .. Attempts + Fallbacks]
    /\ state \in {"CLOSED", "OPEN", "HALF_OPEN"} /\ failures \in 0 .. Threshold
    /\ cooled \in BOOLEAN /\ well \in BOOLEAN

-----------------------------------------------------------------------------
(* Every call ends, answered, failed or refused, and once the provider is  *)
(* well for good and people go on asking, the circuit closes for good,     *)
(* however calls that began before and after it opened overlap.            *)
Asked == \E c \in Callers \ Decisions : pc[c] = "queue"
CallsGoThrough ==
    /\ \A c \in Callers : pc[c] # "idle" ~> pc[c] = "idle"
    /\ <>[]well /\ []<>Asked => <>[](state = "CLOSED")
===============================================================================
