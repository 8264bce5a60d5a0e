------------------------------ MODULE MCTempBans ------------------------------
(* TempBans for TLC, with history variables that tell which of its         *)
(* promises depend on commands that come one at a time, on calls that      *)
(* succeed or on a process that survives.                                  *)
EXTENDS TempBans

VARIABLES
    met,   \* two commands have been under way at the same time
    broken \* a call to Discord has failed or the process has died

mcVars == <<vars, met, broken>>

CommandsMeet == \E m, k \in Moderators : m # k /\ pc[m] # "idle" /\ pc[k] # "idle"

Broken ==
    \/ Crash
    \/ \E m \in Moderators : CallFails(m) \/ (CheckBanned(m) /\ banned /\ pc'[m] = "act")
    \/ LiftExpired /\ banned'

MCInit == Init /\ met = FALSE /\ broken = FALSE
MCNext == Next /\ met' = (met \/ CommandsMeet') /\ broken' = (broken \/ Broken)

(* Commands that have started go on, time passes and the loop wakes up.    *)
Fairness ==
    /\ \A m \in Moderators : WF_vars(Command(m))
    /\ \A r \in Rows : WF_vars(Expire(r))
    /\ WF_vars(Pop) /\ WF_vars(LiftExpired)
MCFairSpec == MCInit /\ [][MCNext]_mcVars /\ Fairness

-----------------------------------------------------------------------------
(* A temporary ban ends by itself unless it is made permanent, as long as  *)
(* commands do not overlap and nothing breaks.                             *)
TempBanEndsCalm == [](~met /\ ~broken) => TempBanEnds
=============================================================================
