----------------------------- MODULE MCRelationship -----------------------------
(* Relationship for TLC, with a history variable that tells which of its   *)
(* promises depend on transactions that come one at a time.                *)
EXTENDS Relationship

VARIABLE met \* two transactions have been open at the same time

mcVars == <<vars, met>>

Meet == \E w, v \in Workers : w # v /\ pc[w] # "idle" /\ pc[v] # "idle"

MCInit == Init /\ met = FALSE
MCNext == Next /\ met' = (met \/ Meet')

(* A transaction that has begun goes on.                                   *)
MCFairSpec ==
    MCInit /\ [][MCNext]_mcVars /\ \A w \in Workers : WF_vars(Execute(w))

-----------------------------------------------------------------------------
(* The title "passes on only when the points of its holder are strictly    *)
(* exceeded", as long as transactions do not overlap.                      *)
TitleByExceedingAlone ==
    [][~met' => \A u \in title' \ title, h \in title : points'[u] > points'[h]]_mcVars

(* The member who has exceeded the holder gets the title: a transaction    *)
(* that nobody disturbs is not refused.                                    *)
LoneTransferCommits == [][~met' => \A w \in Workers : ~Refused(w)]_mcVars
=============================================================================
