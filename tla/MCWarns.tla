-------------------------------- MODULE MCWarns --------------------------------
(* Warns for TLC, with history variables that tell which of its promises   *)
(* depend on warns that come one at a time, or on calls that succeed.      *)
EXTENDS Warns

VARIABLES
    met,   \* two warns have been under way at the same time
    broken \* a punishment could not be put into effect, or the bot has died

mcVars == <<vars, met, broken>>

InTransaction(w) == pc[w] \notin {"idle", "enforce"}
WarnsMeet == \E w, v \in Warners : w # v /\ InTransaction(w) /\ InTransaction(v)
NotEnforced(w) == pc[w] = "enforce" /\ pc'[w] # "enforce" /\ applied' = applied

MCInit == Init /\ met = FALSE /\ broken = FALSE
MCNext ==
    /\ Next
    /\ met' = (met \/ WarnsMeet')
    /\ broken' = (broken \/ \E w \in Warners : NotEnforced(w))

(* A warn that has started goes on.                                        *)
MCFairSpec ==
    MCInit /\ [][MCNext]_mcVars /\ \A w \in Warners : WF_vars(Execute(w))

-----------------------------------------------------------------------------
(* The ladder is climbed step by step, and every punishment is paid for    *)
(* with Threshold warns of its own, while transactions do not overlap,     *)
(* through failing calls, crashes, expiry and clearing.                    *)
LadderAlone == ~met => LadderInOrder /\ EachPaidFor

(* Every recorded punishment is put into effect unless its call fails or   *)
(* the bot dies before it.                                                 *)
EveryCaseAppliedUnbroken == [](~broken) => EveryCaseApplied
=============================================================================
