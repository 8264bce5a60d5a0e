------------------------------- MODULE TempBans -------------------------------
(***************************************************************************)
(* The ban of one user on one server: Discord's ban list, the rows of      *)
(* temp_bans, the moderators' commands and the auto-unban loop.            *)
(*                                                                         *)
(*   infrastructure/discord/cogs/moderation.py   /tempban /ban /unban,     *)
(*                            escalation of warns, _unban_loop             *)
(*   infrastructure/discord/command_executor.py  the panel's commands      *)
(*   infrastructure/discord/cogs/appeals.py      an approved appeal        *)
(*   application/moderation/use_cases.py, db/repositories/moderation.py    *)
(*                                                                         *)
(* Discord calls and database transactions are separate actions. A crash   *)
(* and the restart after it are one action. Definitions marked "mutant"    *)
(* are bugs the runs must notice.                                          *)
(***************************************************************************)
EXTENDS Integers, FiniteSets

CONSTANTS
    Moderators,  \* commands that may be under way at the same time
    Ops,         \* the commands they use
    Rows,        \* ids for rows of temp_bans
    MaxOps,      \* bound on commands started
    HttpMayFail, \* may a call to Discord fail?
    MaxCrashes   \* bound on crashes

SlashOps == {"tempban", "ban"}              \* they name a member of the server
PanelOps == {"panel_tempban", "panel_ban"}  \* retried by the bridge after a crash
TempOps == {"tempban", "panel_tempban"}
BanOps == SlashOps \cup PanelOps
UnbanOps == {"unban", "approve"}

VARIABLES
    banned,   \* the user is on Discord's ban list
    intent,   \* history: what the command that set the ban meant
    fresh,    \* rows whose expires_at is in the future
    due,      \* rows whose expires_at has passed
    popped,   \* rows the loop has removed and has still to unban for
    op,       \* the command each moderator runs
    pc,       \* how far it is
    seen,     \* the rows its transaction has deleted
    attempts, \* how often the bridge has started the panel's command
    ops,      \* bound: commands started
    crashes   \* bound: crashes

table == <<fresh, due>>
discord == <<banned, intent>>
vars == <<discord, table, popped, op, pc, seen, attempts, ops, crashes>>

Init ==
    /\ banned = FALSE /\ intent = "none"
    /\ fresh = {} /\ due = {} /\ popped = {}
    /\ op = [m \in Moderators |-> "none"]
    /\ pc = [m \in Moderators |-> "idle"]
    /\ seen = [m \in Moderators |-> {}]
    /\ attempts = [m \in Moderators |-> 0]
    /\ ops = 0 /\ crashes = 0

Goto(m, label) == pc' = [pc EXCEPT ![m] = label]

Start(o) == IF o \in PanelOps THEN "check" ELSE "act"

(* A command arrives. /ban and /tempban take a Member, so their target is  *)
(* on the server. An appeal is approved whenever its turn comes: its ban,  *)
(* temporary or not, may be another one by now, or over.                   *)
Begin(m, o) ==
    /\ pc[m] = "idle" /\ ops < MaxOps
    /\ o \in SlashOps => ~banned
    /\ op' = [op EXCEPT ![m] = o]
    /\ Goto(m, Start(o))
    /\ attempts' = [attempts EXCEPT ![m] = 1]
    /\ ops' = ops + 1
    /\ UNCHANGED <<discord, table, popped, seen, crashes>>

(* _already_banned: "Уже забанен." ends the command; a failing look-up     *)
(* counts as not banned.                                                   *)
CheckBanned(m) ==
    /\ pc[m] = "check"
    /\ \/ banned /\ Goto(m, "idle")
       \/ (~banned \/ HttpMayFail) /\ Goto(m, "act")
    /\ UNCHANGED <<discord, table, popped, op, seen, attempts, ops, crashes>>

ForgetsTerm(o) == "idle" \* mutant
AfterBan(o) == IF o \in TempOps THEN "delete" ELSE "idle"

Ban(m) ==
    /\ pc[m] = "act" /\ op[m] \in BanOps
    /\ banned' = TRUE
    /\ intent' = IF op[m] \in TempOps THEN "temp" ELSE "perm"
    /\ Goto(m, AfterBan(op[m]))
    /\ UNCHANGED <<table, popped, op, seen, attempts, ops, crashes>>

(* TempBanUserUseCase: DELETE and INSERT in one transaction. The DELETE    *)
(* sees only committed rows.                                               *)
DeleteRows(m) ==
    /\ pc[m] = "delete"
    /\ seen' = [seen EXCEPT ![m] = fresh \cup due]
    /\ Goto(m, "insert")
    /\ UNCHANGED <<discord, table, popped, op, attempts, ops, crashes>>

Without(S, m) == S \ seen[m]

InsertRow(m) ==
    /\ pc[m] = "insert"
    /\ \E r \in Rows \ (fresh \cup due \cup popped) :
        fresh' = Without(fresh, m) \cup {r}
    /\ due' = Without(due, m)
    /\ seen' = [seen EXCEPT ![m] = {}]
    /\ Goto(m, "idle")
    /\ UNCHANGED <<discord, popped, op, attempts, ops, crashes>>

(* /unban and the panel's unban remove the row, an approved appeal does    *)
(* not; who is not banned (NotFound) ends the command.                     *)
Unban(m) ==
    /\ pc[m] = "act" /\ op[m] \in UnbanOps
    /\ banned' = FALSE /\ intent' = "none"
    /\ Goto(m, IF banned /\ op[m] = "unban" THEN "remove" ELSE "idle")
    /\ UNCHANGED <<table, popped, op, seen, attempts, ops, crashes>>

RemoveRows(m) ==
    /\ pc[m] = "remove"
    /\ fresh' = {} /\ due' = {}
    /\ Goto(m, "idle")
    /\ UNCHANGED <<discord, popped, op, seen, attempts, ops, crashes>>

(* Forbidden or another HTTP error ends the command.                       *)
CallFails(m) ==
    /\ HttpMayFail /\ pc[m] = "act"
    /\ Goto(m, "idle")
    /\ UNCHANGED <<discord, table, popped, op, seen, attempts, ops, crashes>>

(***************************************************************************)
(* Time and the loop.                                                      *)
(***************************************************************************)
Expire(r) ==
    /\ r \in fresh
    /\ fresh' = fresh \ {r} /\ due' = due \cup {r}
    /\ UNCHANGED <<discord, popped, op, pc, seen, attempts, ops, crashes>>

Expired == due

(* PopExpiredBansUseCase deletes the due rows and commits.                 *)
Pop ==
    /\ popped = {} /\ Expired # {}
    /\ popped' = Expired
    /\ due' = due \ Expired
    /\ UNCHANGED <<discord, fresh, op, pc, seen, attempts, ops, crashes>>

LoopUnbans == banned' = FALSE /\ intent' = "none"
LoopFails == HttpMayFail /\ UNCHANGED discord

(* Only then the loop unbans; an HTTP error or an unknown server is logged *)
(* and passed over.                                                        *)
LiftExpired ==
    /\ \E r \in popped : popped' = popped \ {r}
    /\ LoopUnbans \/ LoopFails
    /\ UNCHANGED <<table, op, pc, seen, attempts, ops, crashes>>

(* The process dies and comes back: commands and the popped list are gone, *)
(* the bridge starts the panel's commands a second time, unless the bot    *)
(* does not know the server yet: then they have failed.                    *)
Retried(m) == op[m] \in PanelOps /\ pc[m] # "idle" /\ attempts[m] < 2

Crash ==
    /\ crashes < MaxCrashes /\ crashes' = crashes + 1
    /\ popped' = {}
    /\ seen' = [m \in Moderators |-> {}]
    /\ attempts' = [m \in Moderators |-> IF Retried(m) THEN attempts[m] + 1 ELSE attempts[m]]
    /\ \E again \in SUBSET {m \in Moderators : Retried(m)} :
        pc' = [m \in Moderators |-> IF m \in again THEN "check" ELSE "idle"]
    /\ UNCHANGED <<discord, table, op, ops>>

Command(m) ==
    \/ CheckBanned(m) \/ Ban(m) \/ DeleteRows(m) \/ InsertRow(m)
    \/ Unban(m) \/ RemoveRows(m) \/ CallFails(m)

Next ==
    \/ \E m \in Moderators : Command(m) \/ \E o \in Ops : Begin(m, o)
    \/ \E r \in Rows : Expire(r)
    \/ Pop \/ LiftExpired \/ Crash

Spec == Init /\ [][Next]_vars

-----------------------------------------------------------------------------
(* Every variable has its type; a row is in one place.                     *)
TypeOK ==
    /\ banned \in BOOLEAN /\ intent \in {"none", "temp", "perm"}
    /\ banned <=> intent # "none"
    /\ fresh \subseteq Rows /\ due \subseteq Rows /\ popped \subseteq Rows
    /\ fresh \cap due = {} /\ popped \cap (fresh \cup due) = {}
    /\ op \in [Moderators -> Ops \cup {"none"}]
    /\ pc \in [Moderators -> {"idle", "check", "act", "delete", "insert", "remove"}]
    /\ seen \in [Moderators -> SUBSET Rows]
    /\ attempts \in [Moderators -> 0..2]
    /\ ops \in 0..MaxOps /\ crashes \in 0..MaxCrashes

(* A permanent ban is lifted by a moderator, never by the loop.            *)
PermanentBanStays ==
    [][intent = "perm" /\ intent' # "perm" =>
        \E m \in Moderators : pc[m] = "act" /\ pc'[m] # "act"]_vars

(* A temporary ban ends by itself unless it is made permanent.             *)
TempBanEnds == intent = "temp" ~> intent # "temp"
=============================================================================
