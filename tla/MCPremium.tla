------------------------------- MODULE MCPremium -------------------------------
(* PremiumKeys for TLC, with history variables that tell which of its      *)
(* promises depend on activations that nothing comes in the way of.        *)
EXTENDS PremiumKeys, TLC

VARIABLES
    crossed, \* something else went on while an activation was under way, or
             \* changes raced to the bot's copy
    paidBy,  \* the batch that gave a server its tariff, or "operator"
    hard,    \* batches revoked with what they have given
    torn     \* a seat was taken back during an activation, or a request died

mcVars == <<vars, crossed, paidBy, hard, torn>>

OneBatch(k) == "b"
Symmetry == Permutations(Rows) \cup Permutations(Sessions)
Busy == {s \in Sessions : pc[s] # "idle"}
Alone == Cardinality(Busy) <= 1 /\ \A s \in Busy : Settled("bot", Server(s))

Activating(s) == pc[s] = "save" /\ Activated(s)
Revoking(b) == RevokeBatch(b, TRUE) /\ (strip' # {} \/ HoldersOf(b) = {})
Releasing == \E k \in Keys, g \in Rows : ReleaseSeat(k, g)

MCInit ==
    /\ Init /\ faults + acts = 1  \* one fault and one act, or two acts
    /\ crossed = FALSE /\ hard = {} /\ torn = FALSE
    /\ paidBy = [g \in Rows |-> "operator"]
MCNext ==
    /\ Next
    /\ crossed' = (crossed \/ ~Alone' \/ (Busy # {} /\ Operator) \/ Races("bot"))
    /\ paidBy' = [g \in Rows |->
           IF \E s \in Sessions : Activating(s) /\ Server(s) = g
           THEN Batch(CHOOSE s \in Sessions : Activating(s) /\ Server(s) = g)
           ELSE IF db'[g] # db[g] \/ (\E end \in Grants : Grant(g, end)) THEN "operator"
           ELSE paidBy[g]]
    /\ hard' = (hard \cup {b \in Batches : Revoking(b)}) \cap revoked'
    /\ torn' = (torn \/ RequestLost \/ (Busy # {} /\ Releasing))

MCSpec == MCInit /\ [][MCNext]_mcVars

(* Activations that have begun and coroutines of the copies go on.         *)
MCFairSpec ==
    /\ MCSpec
    /\ \A s \in Sessions : WF_vars(Redeem(s))
    /\ \A p \in Procs : WF_vars(Caching(p))

-----------------------------------------------------------------------------
(* A term is added to the one that is running, when the activation finds   *)
(* the bot's copy settled and nothing else goes on meanwhile.              *)
TermsStackAlone ==
    [][\A s \in Sessions : Activating(s) /\ ~crossed => Adds(s)]_mcVars

(* What the lock on a batch's row is for: a key gives no more seats than   *)
(* it has, and once a batch is revoked with what it has given, no server   *)
(* still has a tariff from it, whatever activations were under way, unless *)
(* a seat was taken back in the middle of one or the operator's request    *)
(* died.                                                                   *)
BatchesHold ==
    /\ SeatsWithinKey
    /\ strip = {} /\ ~torn => \A g \in Rows : HasRow(g) => paidBy[g] \notin hard
=============================================================================
