------------------------------- MODULE Scheduler -------------------------------
(***************************************************************************)
(* DeferredScheduler (infrastructure/discord/scheduler.py): named one-shot *)
(* timers, each an asyncio task. Cancelling a task only asks it to stop;   *)
(* the task ends at the loop's next turn and its done callback runs after  *)
(* that, so both are actions of their own. Definitions marked "mutant" are *)
(* bugs the runs must notice.                                              *)
(***************************************************************************)
EXTENDS Integers, FiniteSets

CONSTANTS
    Keys,      \* names of timers: "chime:<channel>", "poll:<night>", ...
    Tasks,     \* tasks that may be created
    None,      \* no task
    MaxPerKey  \* bound on schedule calls per key

ASSUME SchedulerAssumption == None \notin Tasks /\ MaxPerKey \in Nat

VARIABLES
    timers,  \* self._timers: the task of each key
    state,   \* state of each task
    keyOf,   \* the key each created task was scheduled for
    started, \* history: tasks whose callback was started
    last,    \* history: the task of the last schedule of a key, unless cancelled
    calls    \* bound: schedule calls per key

history == <<started, last, calls>>
vars == <<timers, state, keyOf, history>>

Live == {"sleeping", "running"}

Init ==
    /\ timers = [k \in Keys |-> None]
    /\ state = [t \in Tasks |-> "unused"]
    /\ keyOf \in [Tasks -> Keys]
    /\ started = {}
    /\ last = [k \in Keys |-> None]
    /\ calls = [k \in Keys |-> 0]

(* task.cancel() of the tasks of S; one that has ended is left alone.      *)
Cancelled(S) ==
    [t \in Tasks |-> IF t \in S /\ state[t] \in Live THEN "cancelling" ELSE state[t]]

CancelsNew(k, t) == [state EXCEPT ![t] = "cancelling"] \* mutant: the calls swapped
Replaced(k, t) == [Cancelled({timers[k]}) EXCEPT ![t] = "sleeping"]

(* cancel(key) and create_task.                                            *)
Schedule(k, t) ==
    /\ state[t] = "unused" /\ calls[k] < MaxPerKey
    /\ state' = Replaced(k, t)
    /\ timers' = [timers EXCEPT ![k] = t]
    /\ keyOf' = [keyOf EXCEPT ![t] = k]
    /\ last' = [last EXCEPT ![k] = t]
    /\ calls' = [calls EXCEPT ![k] = @ + 1]
    /\ UNCHANGED started

Cancel(k) ==
    /\ timers[k] # None
    /\ state' = Cancelled({timers[k]})
    /\ timers' = [timers EXCEPT ![k] = None]
    /\ last' = [last EXCEPT ![k] = None]
    /\ UNCHANGED <<keyOf, started, calls>>

CancelAll ==
    /\ \E k \in Keys : timers[k] # None
    /\ state' = Cancelled({timers[k] : k \in Keys})
    /\ timers' = [k \in Keys |-> None]
    /\ last' = [k \in Keys |-> None]
    /\ UNCHANGED <<keyOf, started, calls>>

(* The moment has come, or is past already: run() calls the callback.      *)
Wake(t) ==
    /\ state[t] = "sleeping"
    /\ state' = [state EXCEPT ![t] = "running"]
    /\ started' = started \cup {t}
    /\ UNCHANGED <<timers, keyOf, last, calls>>

(* The callback returns or raises (logged), or CancelledError arrives.     *)
Ends(t) ==
    /\ state[t] \in {"running", "cancelling"}
    /\ state' = [state EXCEPT ![t] = "finished"]
    /\ UNCHANGED <<timers, keyOf, history>>

(* The lambda pops whatever task the key holds by then.                    *)
Popped(t) == [timers EXCEPT ![keyOf[t]] = None]

DoneCallback(t) ==
    /\ state[t] = "finished"
    /\ state' = [state EXCEPT ![t] = "gone"]
    /\ timers' = Popped(t)
    /\ UNCHANGED <<keyOf, history>>

Turn(t) == Wake(t) \/ Ends(t) \/ DoneCallback(t)

Next ==
    \/ \E k \in Keys : Cancel(k) \/ \E t \in Tasks : Schedule(k, t)
    \/ CancelAll
    \/ \E t \in Tasks : Turn(t)

(* The event loop turns.                                                   *)
Spec == Init /\ [][Next]_vars /\ \A t \in Tasks : WF_vars(Turn(t))

-----------------------------------------------------------------------------
TasksOf(k) == {t \in Tasks : state[t] # "unused" /\ keyOf[t] = k}

(* Every variable has its type, and an entry is about a task of its key    *)
(* whose done callback has not run: "a finished timer leaves the registry".*)
TypeOK ==
    /\ timers \in [Keys -> Tasks \cup {None}]
    /\ state \in [Tasks -> Live \cup {"unused", "cancelling", "finished", "gone"}]
    /\ keyOf \in [Tasks -> Keys]
    /\ started \subseteq Tasks
    /\ last \in [Keys -> Tasks \cup {None}]
    /\ calls \in [Keys -> 0..MaxPerKey]
    /\ \A k \in Keys : timers[k] # None =>
        timers[k] \in TasksOf(k) /\ state[timers[k]] # "gone"

OneTimer(k) ==
    \A t, u \in TasksOf(k) : state[t] \in Live /\ state[u] \in Live => t = u

(* Nobody but a later call for its key stops a timer: the last one         *)
(* scheduled is waiting, running, or has had its callback started.         *)
LastStands ==
    \A k \in Keys : last[k] # None =>
        state[last[k]] \in Live \/ last[k] \in started

=============================================================================
