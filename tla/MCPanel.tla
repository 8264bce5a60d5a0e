--------------------------------- MODULE MCPanel ---------------------------------
(* What the panel's commands and the bot do on Discord, in one run without *)
(* liveness: the handlers of the commands, the roles of one member, the    *)
(* bridge with executors that outlive their lease, and the posting of      *)
(* news. They are independent instances: part says which of them moves,    *)
(* and the others stay as they are at first.                               *)
EXTENDS PanelCommands

CONSTANTS
    Tasks, Jobs, MaxRoleOps, MaxRoleFaults,     \* of the roles
    Rows, Delicate, Tries, Limit, MaxBridgeFaults, \* of the bridge
    Games, MaxItems, PerCycle, Adders, MaxAdds, MaxNewsFaults \* of the news

ASSUME PanelAssumption ==
    /\ Rows \subseteq Nat /\ IsFiniteSet(Rows) /\ Delicate \subseteq Rows
    /\ {Tries, Limit} \subseteq Nat \ {0} /\ MaxBridgeFaults \in Nat
    /\ {MaxItems, PerCycle} \subseteq Nat \ {0} /\ MaxAdds \in Nat

VARIABLES
    part,
    inside, level, held, heard, gateway, row, task, job, up, boot, roleOps, roleFaults,
    disturbed, astray,
    state, claims, expired, notified, connected, alive, at, stale, todo, cur, outcome,
    answer, effects, bridgeFaults,
    tracker, feed, rows, threads, told, poll, ahead, updates, etags, adder, adds, newsFaults,
    skipped, unkept

roleVars == <<inside, level, held, heard, gateway, row, task, job, up, boot, roleOps,
              roleFaults, disturbed, astray>>
bridgeVars == <<state, claims, expired, notified, connected, alive, at, stale, todo, cur,
                outcome, answer, effects, bridgeFaults>>
postVars == <<tracker, feed, rows, threads, told, poll, ahead, updates, etags, adder, adds,
              newsFaults, skipped, unkept>>
allVars == <<part, vars, roleVars, bridgeVars, postVars>>

Roles == INSTANCE Holders WITH
    MaxOps <- MaxRoleOps, MaxFaults <- MaxRoleFaults,
    seen <- heard, ops <- roleOps, faults <- roleFaults
Slow == INSTANCE CommandBridge WITH
    Commands <- Rows, NonIdempotent <- Delicate, MaxAttempts <- Tries, BatchLimit <- Limit,
    ExecutorsWithinLease <- FALSE, MaxFaults <- MaxBridgeFaults,
    status <- state, attempts <- claims, up <- alive, pc <- at, faults <- bridgeFaults
Posts == INSTANCE News WITH
    MaxFaults <- MaxNewsFaults, pc <- poll, faults <- newsFaults, unmarked <- unkept

AllInit ==
    /\ part \in {"commands", "roles", "bridge", "news"}
    /\ Init /\ Roles!Init /\ Slow!Init /\ Posts!Init
    /\ part # "commands" => ~player.paused /\ world.rights[1] = {} /\ world.held[1] = {}
    /\ part # "roles" => held = {}
    /\ part # "news" => tracker = "git" /\ newsFaults = 0 /\ \A g \in Games : feed[g] = {}
AllNext ==
    /\ \/ part = "commands" /\ Next /\ UNCHANGED <<roleVars, bridgeVars, postVars>>
       \/ part = "roles" /\ Roles!Next /\ UNCHANGED <<vars, bridgeVars, postVars>>
       \/ part = "bridge" /\ Slow!Next /\ UNCHANGED <<vars, roleVars, postVars>>
       \/ part = "news" /\ Posts!Next /\ UNCHANGED <<vars, roleVars, bridgeVars>>
    /\ UNCHANGED part
AllSpec == AllInit /\ [][AllNext]_allVars

-----------------------------------------------------------------------------
(* A member has the one status role of their level after an undisturbed    *)
(* sync, and the panel's copy shows their roles (Holders).                 *)
HoldersKept == Roles!HoldersKept

(* A non-idempotent command acts once at most even if executors outlive    *)
(* their lease (CommandBridge).                                            *)
SlowActsOnce == Slow!NonIdempotentAtMostOnce

(* Items are announced in order and once, unless a mark is lost (News).    *)
AnnouncedOnce == Posts!AnnouncedOnce
=============================================================================
