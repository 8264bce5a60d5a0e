------------------------------- MODULE MCCinema -------------------------------
(* Cinema for TLC, with a history variable that tells which of its         *)
(* promises depend on transactions that do not overlap.                    *)
EXTENDS Cinema

VARIABLE met \* a transaction has begun between the read and the write of another

mcVars == <<vars, met>>

InProgress ==
    {<<"start", s>> : s \in {t \in Starters : starter[t] = "insert"}}
        \cup {<<"click", u>> : u \in {v \in Users : click[v] # None}}
        \cup {<<"final", m>> : m \in {k \in Movies : final[k] # None}}
        \cup {<<"remove", m>> : m \in removing}

(* A step disturbs a transaction in progress unless it is its own write or *)
(* touches no row at all.                                                  *)
Disturbs == InProgress # {} /\ InProgress \subseteq InProgress' /\ rows' # rows

MCInit == Init /\ met = FALSE
MCNext ==
    /\ Next
    /\ met' = (met \/ Disturbs \/ Cardinality(InProgress') > 1)

(* Time passes, timers fire, what has begun goes on, the process returns;  *)
(* nobody has to press a button.                                           *)
Fairness ==
    /\ \A s \in Starters : WF_vars(InsertNight(s) \/ PostPoll(s))
    /\ \A u \in Users : WF_vars(WriteClick(u))
    /\ \A m \in Movies : WF_vars(ReadFinal(m)) /\ WF_vars(WriteFinal(m)) /\ WF_vars(RemoveMovie(m))
    /\ \A n \in Nights : WF_vars(PollEnds(n)) /\ WF_vars(ClosePoll(n))
    /\ WF_vars(\E x \in todo : Post(x)) /\ WF_vars(Restart)

-----------------------------------------------------------------------------
(* "busy": a server has one poll or scheduled night at a time, ratings are *)
(* "written only while they are collected", a night ends as done only with *)
(* its movie watched, and an ended one stays as it is, while transactions  *)
(* do not overlap, through failing calls and restarts.                     *)
ClubRulesAlone ==
    /\ [](~met => OneActiveNight /\ EveryRatingCounts /\ DoneIsWatched)
    /\ [][~met' => \A n \in Nights :
            night[n] \in {"done", "cancelled"} => night'[n] = night[n]]_mcVars
=============================================================================
