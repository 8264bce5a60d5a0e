------------------------------ MODULE MCModeration ------------------------------
(* Appeals and bans in one run. The two are independent instances: part    *)
(* says which of them moves, and the other stays as it is at first. History*)
(* variables of the appeals tell which of their promises depend on         *)
(* handlers that come one at a time or on calls that succeed.              *)
EXTENDS Appeals

CONSTANTS Moderators, Ops, Rows, MaxOps

VARIABLES
    formsMet,     \* two modals have been under way at the same time
    resolversMet, \* two decisions have been under way at the same time
    broken        \* a decision was cut short by a failing call or a crash

mcVars == <<vars, formsMet, resolversMet, broken>>

FormsMeet == \E f, g \in Forms : f # g /\ form[f] # "idle" /\ form[g] # "idle"
ResolversMeet == \E r, q \in Resolvers : r # q /\ pc[r] # "idle" /\ pc[q] # "idle"

CutShort(r) ==
    \/ pc[r] = "edit" /\ pc'[r] = "idle"
    \/ pc[r] = "lift" /\ pc'[r] # "lift" /\ job[r].verdict = "approved"
       /\ job[r].appeal \notin lifted'

MCInit == Init /\ formsMet = FALSE /\ resolversMet = FALSE /\ broken = FALSE

MCNext ==
    /\ Next
    /\ formsMet' = (formsMet \/ FormsMeet')
    /\ resolversMet' = (resolversMet \/ ResolversMeet')
    /\ broken' = (broken \/ crashes' # crashes \/ \E r \in Resolvers : CutShort(r))

(* What has started goes on; nobody has to appeal or to decide.            *)
Fairness ==
    /\ \A f \in Forms : WF_vars(FormStep(f))
    /\ \A r \in Resolvers : WF_vars(Resolve(r))

VARIABLES
    part, banned, intent, fresh, due, popped, op, banPc, seen, attempts, ops, banCrashes,
    met, banBroken

Bans == INSTANCE MCTempBans WITH
    pc <- banPc, crashes <- banCrashes, broken <- banBroken

banVars == <<banned, intent, fresh, due, popped, op, banPc, seen, attempts, ops, banCrashes,
             met, banBroken>>
modVars == <<part, mcVars, banVars>>

ModInit ==
    /\ part \in {"appeals", "bans"} /\ MCInit /\ Bans!MCInit
    /\ part = "bans" => job = [r \in Resolvers |-> CHOOSE j \in Jobs : TRUE]
ModNext ==
    /\ \/ part = "appeals" /\ MCNext /\ UNCHANGED banVars
       \/ part = "bans" /\ Bans!MCNext /\ UNCHANGED mcVars
    /\ UNCHANGED part
ModFairSpec == ModInit /\ [][ModNext]_modVars /\ Fairness /\ Bans!Fairness

-----------------------------------------------------------------------------
(* "One active (pending) appeal per member", while modals do not overlap;  *)
(* and the member is told the one verdict of the row, and only an approved *)
(* appeal lifts, while decisions do not overlap: failing calls, crashes    *)
(* and retries do not disturb it.                                          *)
AppealRulesAlone ==
    /\ ~formsMet => OnePending
    /\ ~resolversMet => ToldTheVerdict

(* An approved appeal has its punishment lifted in the end if no call of   *)
(* its decision fails and the bot does not die.                            *)
ApprovedIsLiftedUnbroken == [](~broken) => ApprovedIsLifted

(* A temporary ban ends by itself unless it is made permanent, as long as  *)
(* commands do not overlap and nothing breaks (MCTempBans).                *)
TempBanEndsCalm == Bans!TempBanEndsCalm
=============================================================================
