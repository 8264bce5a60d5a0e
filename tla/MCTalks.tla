--------------------------------- MODULE MCTalks ---------------------------------
(* The outside world in one run: news, calls to the language model, and    *)
(* what is remembered of talks. They are independent instances: part says  *)
(* which of them moves, and the others stay as they are at first. GitHub   *)
(* meets a failure, Riot does not; Steam differs from Riot in a thread     *)
(* that it does not delete.                                                *)
EXTENDS News

CONSTANTS Callers, Behind, Decisions, Replies, MaxExchanges

VARIABLES
    part,
    caller, limit, queue, attempt, state, failures, cooled, well,
    session, quiet, reply, carried, summing, stored, awards, hits, given, short, lost,
    talkFaults

callVars == <<caller, limit, queue, attempt, state, failures, cooled, well>>
talkVars == <<session, quiet, reply, carried, summing, stored, awards, hits, given, short,
              lost, talkFaults>>
allVars == <<part, newsVars, callVars, talkVars>>

Calls == INSTANCE AiCalls WITH
    Threshold <- 2, MaxConcurrent <- 2, Attempts <- 2, Fallbacks <- 2, pc <- caller
Talks == INSTANCE Dialogs WITH
    MinExchanges <- 2, Keep <- 2, Limit <- 2, MaxFaults <- 1, pc <- reply,
    faults <- talkFaults

AllInit ==
    /\ part \in {"news", "calls", "talks"}
    /\ Init /\ Calls!Init /\ Talks!Init
    /\ \/ tracker = "git" /\ faults = 0
       \/ tracker = "riot" /\ faults = MaxFaults
    /\ part # "calls" => well
    /\ part # "news" => tracker = "git" /\ \A g \in Games : feed[g] = {}
AllNext ==
    /\ \/ part = "news" /\ Next /\ UNCHANGED <<callVars, talkVars>>
       \/ part = "calls" /\ Calls!Next /\ UNCHANGED <<newsVars, talkVars>>
       \/ part = "talks" /\ Talks!Next /\ UNCHANGED <<newsVars, callVars>>
    /\ UNCHANGED part
AllFairSpec ==
    AllInit /\ [][AllNext]_allVars /\ Fairness /\ Calls!Fairness /\ Talks!Fairness

-----------------------------------------------------------------------------
(* Every call ends, and the circuit closes once the provider is well       *)
(* (AiCalls).                                                              *)
CallsGoThrough == Calls!CallsGoThrough

(* Talks are summed up once, and in the end (Dialogs).                     *)
TalksRememberedOnce == Talks!TalksRememberedOnce
=============================================================================
