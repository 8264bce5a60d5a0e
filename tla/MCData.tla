--------------------------------- MODULE MCData ---------------------------------
(* The outbox and the settings of a server in one run. The two are         *)
(* independent instances: moves says which one moves, and the other stays  *)
(* as it is at first.                                                      *)
(* A history variable tells when the role that Discord shows may be relied *)
(* on.                                                                     *)
EXTENDS Outbox

CONSTANTS Rows, Low, High, Vals, Absent, MaxJobs, MaxFaults, MaxWrites,
    Starts \* the overrides a server may have at first

(* A crash, a failed handler, a change made in the panel, or two events    *)
(* handled at once.                                                        *)
VARIABLE disturbed

mcVars == <<vars, disturbed>>

Active(p) ==
    \/ publishing[p] # 0 \/ unmarked[p] # {}
    \/ p = Dispatcher /\ batch \cup rejected # {}

Overlap == \E p, q \in Publisher : p # q /\ Active(p) /\ Active(q)
HandlerFails ==
    \E p \in Publisher :
        RoleSync \in left[p] /\ RoleSync \notin left'[p] /\ shown' # publishing[p]
PanelCommits == \E e \in PanelEvents : row[e] # row'[e]

MCInit == Init /\ disturbed = FALSE
MCNext ==
    /\ Next
    /\ disturbed' = (disturbed \/ Overlap' \/ crashes' > 0 \/ HandlerFails \/ PanelCommits)

(* Coroutines run, the dispatcher's timer fires, processes are restarted;  *)
(* no use case is forced to happen.                                        *)
Fairness ==
    /\ \A p \in Publisher : WF_vars(Work(p))
    /\ \A e \in Events : WF_vars(MarkPublished(e))
    /\ WF_vars(Dispatch)
    /\ \A x \in Process : WF_vars(Restart(x))

VARIABLES
    moves,
    db, copy, link, jobs, faults, pc, part, found, memo, writes, raced, basis, blind

WriterHome(w) == IF w = "w1" THEN "bot" ELSE "panel"
Settings == INSTANCE GuildSettings WITH
    Cols <- {Low, High},
    Procs <- Process,
    Writers <- {"w1", "w2"},
    Home <- WriterHome,
    Parts <- {[c \in {Low} |-> 2], [c \in {High} |-> 1], [c \in {Low, High} |-> 1]},
    Readers <- {"bot"},
    Default <- [c \in {Low, High} |-> IF c = Low THEN 1 ELSE 2]

(* One override that is stored already.                                    *)
LowOnly == {[c \in {Low, High} |-> IF c = Low THEN 2 ELSE Absent]}

ASSUME DataAssumption ==
    /\ Rows # {} /\ {1, 2} \subseteq Vals /\ MaxJobs \in Nat
    /\ \A start \in Starts : start \in Settings!Row /\ Settings!Valid(start)

settingsVars == <<db, copy, link, jobs, faults, pc, part, found, memo, writes, raced, basis,
                  blind>>
dataVars == <<moves, mcVars, settingsVars>>

DataInit == moves \in {"outbox", "settings"} /\ MCInit /\ Settings!MCInit
DataNext ==
    /\ \/ moves = "outbox" /\ MCNext /\ UNCHANGED settingsVars
       \/ moves = "settings" /\ Settings!MCNext /\ UNCHANGED mcVars
    /\ UNCHANGED moves
DataFairSpec == DataInit /\ [][DataNext]_dataVars /\ Fairness

-----------------------------------------------------------------------------
Quiet ==
    /\ ~Busy /\ Unpublished = {}
    /\ \A e \in Events : publishing[e] = 0 /\ unmarked[e] = {}

(* When every event has been published and none is under way, Discord      *)
(* shows the role that the database computes.                              *)
LatestRoleShownUndisturbed == ~disturbed /\ Quiet => shown = role

(* A copy of the settings that nothing is about to change agrees with the  *)
(* table, and so does the model built from it, unless changes raced to it; *)
(* and the table never holds a pair of settings that the model forbids, as *)
(* long as writes are checked against what is stored (GuildSettings).         *)
SettingsHold == Settings!CopyFollowsAlone /\ Settings!StoredIsValidSeen
=============================================================================
