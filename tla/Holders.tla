-------------------------------- MODULE Holders --------------------------------
(***************************************************************************)
(* The roles of one member: the status role that follows the points, roles *)
(* given in the panel or on joining, and the copy of all of them in the    *)
(* database, which the panel reads.                                        *)
(*                                                                         *)
(*   infrastructure/discord/role_sync.py          status roles             *)
(*   infrastructure/discord/cogs/autorole.py      roles on joining         *)
(*   infrastructure/discord/cogs/role_mirror.py   the copy                 *)
(*   infrastructure/discord/command_executor.py   the panel's commands     *)
(*                                                                         *)
(* Coroutines decide by what the process has heard from the gateway, call  *)
(* Discord, and Discord's events change what it has heard.                 *)
(***************************************************************************)
EXTENDS Integers, FiniteSets, Sequences

CONSTANTS
    Tasks,               \* coroutines that may change roles at once
    Jobs,                \* transactions of the copy that may overlap
    MaxOps, MaxFaults    \* bounds: on what people do, and on calls that fail

Newcomer == "newcomer"
Other == "other"         \* a role that is no status
Status == {"first", "second"}
Managed == Status \cup {Newcomer}
Levels == Managed        \* a level is known by the role it brings
Nothing == [do |-> "nothing", roles |-> {}, want |-> {}]
NoJob == [what |-> "none", roles |-> {}]

VARIABLES
    inside, level,       \* of the member: is on the server, computed from the points
    held,                \* roles on Discord
    seen,                \* member.roles in the bot
    gateway,             \* events on their way
    row,                 \* member_roles
    task, job,
    up, boot,            \* of the process, and what on_ready has still to do
    ops, faults,         \* bounds
    disturbed,           \* history: something came between the last sync and its end
    astray               \* history: the copy may have missed something since the backfill

member == <<inside, level, held>>
bot == <<seen, gateway, task, job, up, boot>>
vars == <<member, bot, row, ops, faults, disturbed, astray>>

Init ==
    /\ inside = TRUE /\ level = Newcomer /\ held \in {{}, {Newcomer}}
    /\ seen = held /\ gateway = <<>> /\ row = held
    /\ task = [t \in Tasks |-> Nothing] /\ job = [j \in Jobs |-> NoJob]
    /\ up = TRUE /\ boot = {} /\ ops = 0 /\ faults = 0
    /\ disturbed = (held = {}) /\ astray = FALSE

Idle(t) == task[t] = Nothing
Free(t) == up /\ Idle(t) /\ \A s \in Tasks : Idle(s) => t <= s
Quiet == up /\ boot = {} /\ gateway = <<>> /\ (\A t \in Tasks : Idle(t)) /\ \A j \in Jobs : job[j] = NoJob
Op == ops < MaxOps /\ ops' = ops + 1
Fault == faults < MaxFaults /\ faults' = faults + 1
Sends(kind, roles) == gateway' = IF up THEN Append(gateway, [kind |-> kind, roles |-> roles])
                                 ELSE gateway

-----------------------------------------------------------------------------
(* sync_member: what to take away, and what to give.                       *)
Later(want, drop) ==
    IF drop # {} THEN [do |-> "remove", roles |-> drop, want |-> want]
    ELSE IF want \subseteq seen THEN Nothing ELSE [do |-> "add", roles |-> want, want |-> {}]
KeepsOld(want) == {}  \* mutant
Unwanted(want) == (seen \cap Managed) \ want
StartSync(t, l) ==
    /\ Free(t)
    /\ task' = [task EXCEPT ![t] = Later({l}, Unwanted({l}))]
    /\ disturbed' = ~(gateway = <<>> /\ seen = held /\ \A s \in Tasks : Idle(s))
(* Points move the level, and the handler of the event syncs; a profile,   *)
(* an award or a correction syncs again.                                   *)
LevelMoves(t, l) ==
    /\ Op /\ inside /\ l # level /\ level' = l /\ StartSync(t, l)
    /\ UNCHANGED <<inside, held, seen, gateway, job, up, boot, row, faults, astray>>
Reconcile(t) ==
    /\ Op /\ inside /\ StartSync(t, level)
    /\ UNCHANGED <<member, seen, gateway, job, up, boot, row, faults, astray>>

(* add_roles and remove_roles. Discord tells of a change.                  *)
Gives(h) ==
    /\ held' = h
    /\ IF h = held THEN UNCHANGED gateway ELSE Sends("update", h)
Call(t) ==
    /\ ~Idle(t)
    /\ IF ~inside
       THEN task' = [task EXCEPT ![t] = Nothing] /\ UNCHANGED <<held, gateway>>
       ELSE IF task[t].do = "remove"
       THEN Gives(held \ task[t].roles) /\ task' = [task EXCEPT ![t] = Later(@.want, {})]
       ELSE Gives(held \cup task[t].roles) /\ task' = [task EXCEPT ![t] = Nothing]
    /\ UNCHANGED <<inside, level, seen, job, up, boot, row, ops, faults, disturbed, astray>>
CallFails(t) ==
    /\ ~Idle(t) /\ Fault
    /\ task' = [task EXCEPT ![t] = Nothing] /\ disturbed' = TRUE
    /\ UNCHANGED <<member, seen, gateway, job, up, boot, row, ops, astray>>

(* role.assign, role.unassign and, for this member, role.bulk.             *)
Assign(t, r) ==
    /\ Free(t) /\ Op /\ inside
    /\ task' = [task EXCEPT ![t] = IF r \in seen THEN Nothing
                                   ELSE [do |-> "add", roles |-> {r}, want |-> {}]]
    /\ disturbed' = (disturbed \/ r \in Managed)
    /\ UNCHANGED <<member, seen, gateway, job, up, boot, row, faults, astray>>
Unassign(t, r) ==
    /\ Free(t) /\ Op /\ inside
    /\ task' = [task EXCEPT ![t] = IF r \notin seen THEN Nothing
                                   ELSE [do |-> "remove", roles |-> {r}, want |-> {}]]
    /\ disturbed' = (disturbed \/ r \in Managed)
    /\ UNCHANGED <<member, seen, gateway, job, up, boot, row, faults, astray>>

-----------------------------------------------------------------------------
(* People on Discord.                                                      *)
Leaves ==
    /\ inside /\ Op /\ inside' = FALSE /\ held' = {} /\ Sends("remove", {})
    /\ disturbed' = TRUE
    /\ UNCHANGED <<level, seen, task, job, up, boot, row, faults, astray>>
Joins ==
    /\ ~inside /\ Op /\ inside' = TRUE /\ Sends("join", {})
    /\ UNCHANGED <<level, held, seen, task, job, up, boot, row, faults, disturbed, astray>>
Toggled(r) ==
    /\ inside /\ Op
    /\ Gives(IF r \in held THEN held \ {r} ELSE held \cup {r})
    /\ disturbed' = (disturbed \/ r \in Managed)
    /\ UNCHANGED <<inside, level, seen, task, job, up, boot, row, faults, astray>>

-----------------------------------------------------------------------------
(* An event arrives. The copy writes what it finds then; on joining, the   *)
(* roles of autorole are given and the status is synced.                   *)
Starts(j, what, roles) ==
    /\ up /\ job[j] = NoJob /\ job' = [job EXCEPT ![j] = [what |-> what, roles |-> roles]]
Meets == \E j \in Jobs : job[j] # NoJob
Hears(j) ==
    /\ gateway # <<>>
    /\ LET e == Head(gateway)
       IN  /\ seen' = e.roles
           /\ Starts(j, IF e.kind = "remove" THEN "drop" ELSE "set", e.roles)
           /\ astray' = (astray \/ Meets)
           /\ boot' = IF e.kind = "join" THEN boot \cup {"autorole", "sync"} ELSE boot
    /\ gateway' = Tail(gateway)
    /\ UNCHANGED <<member, task, up, row, ops, faults, disturbed>>
AutoRole(t) ==
    /\ "autorole" \in boot /\ boot' = boot \ {"autorole"} /\ Free(t)
    /\ task' = [task EXCEPT ![t] = [do |-> "add", roles |-> {Other}, want |-> {}]]
    /\ UNCHANGED <<member, seen, gateway, job, up, row, ops, faults, disturbed, astray>>
JoinSync(t) ==
    /\ "sync" \in boot /\ boot' = boot \ {"sync"} /\ StartSync(t, level)
    /\ UNCHANGED <<member, seen, gateway, job, up, row, ops, faults, astray>>

(* Transactions of the copy. One can fail, and overlapping ones may.       *)
Commit(j) ==
    /\ job[j] # NoJob
    /\ row' = job[j].roles /\ job' = [job EXCEPT ![j] = NoJob]
    /\ astray' = (astray /\ ~(job[j].what = "all" /\ gateway = <<>> /\ job[j].roles = seen
                              /\ \A i \in Jobs \ {j} : job[i] = NoJob))
    /\ UNCHANGED <<member, seen, gateway, task, up, boot, ops, faults, disturbed>>
CommitFails(j) ==
    /\ job[j] # NoJob
    /\ job' = [job EXCEPT ![j] = NoJob] /\ astray' = TRUE
    /\ IF \E i \in Jobs \ {j} : job[i] # NoJob THEN UNCHANGED faults ELSE Fault
    /\ UNCHANGED <<member, seen, gateway, task, up, boot, row, ops, disturbed>>

-----------------------------------------------------------------------------
(* The process dies, and starts: the copy is made anew, and the role of    *)
(* newcomers is given to who has no status. After a reconnect only the     *)
(* role is given (on_ready of the copy runs once for a process).           *)
Crash ==
    /\ up /\ Fault /\ up' = FALSE /\ seen' = {} /\ gateway' = <<>> /\ boot' = {}
    /\ task' = [t \in Tasks |-> Nothing] /\ job' = [j \in Jobs |-> NoJob]
    /\ disturbed' = (disturbed \/ \E t \in Tasks : task[t].roles \cap Managed # {})
    /\ astray' = TRUE
    /\ UNCHANGED <<member, row, ops>>
Restart ==
    /\ ~up /\ up' = TRUE /\ seen' = held
    /\ boot' = {"copy"} \cup (IF inside THEN {"newcomer"} ELSE {})
    /\ UNCHANGED <<member, gateway, task, job, row, ops, faults, disturbed, astray>>
Backfill(j) ==
    /\ "copy" \in boot /\ boot' = boot \ {"copy"} /\ Starts(j, "all", seen)
    /\ astray' = (astray \/ Meets)
    /\ UNCHANGED <<member, seen, gateway, task, up, row, ops, faults, disturbed>>
BackfillNewcomer(t) ==
    /\ "newcomer" \in boot /\ boot' = boot \ {"newcomer"} /\ Free(t)
    /\ IF seen \cap Managed = {}
       THEN /\ task' = [task EXCEPT ![t] = [do |-> "add", roles |-> {Newcomer}, want |-> {}]]
            /\ disturbed' = TRUE
       ELSE UNCHANGED <<task, disturbed>>
    /\ UNCHANGED <<member, seen, gateway, job, up, row, ops, faults, astray>>
Reconnect ==
    /\ up /\ gateway # <<>> /\ Fault
    /\ gateway' = <<>> /\ seen' = held
    /\ boot' = boot \cup (IF inside THEN {"newcomer"} ELSE {})
    /\ astray' = TRUE
    /\ UNCHANGED <<member, task, job, up, row, ops, disturbed>>

-----------------------------------------------------------------------------
Next ==
    \/ \E t \in Tasks :
          \/ Reconcile(t) \/ Call(t) \/ CallFails(t) \/ AutoRole(t) \/ JoinSync(t)
          \/ BackfillNewcomer(t)
          \/ \E l \in Levels : LevelMoves(t, l)
          \/ \E r \in {Other} : Assign(t, r) \/ Unassign(t, r)
    \/ \E j \in Jobs : Hears(j) \/ Commit(j) \/ CommitFails(j) \/ Backfill(j)
    \/ Leaves \/ Joins \/ (\E r \in {Other, Newcomer} : Toggled(r))
    \/ Crash \/ Restart \/ Reconnect
Spec == Init /\ [][Next]_vars

TypeOK ==
    /\ level \in Levels /\ held \subseteq Managed \cup {Other} /\ seen \subseteq Managed \cup {Other}
    /\ row \subseteq Managed \cup {Other} /\ {inside, up, disturbed, astray} \subseteq BOOLEAN
    /\ boot \subseteq {"copy", "newcomer", "autorole", "sync"}

-----------------------------------------------------------------------------
(* A member has the one status role of their level, once a sync that began *)
(* with nothing else under way has gone through.                           *)
OneStatusAlone == Quiet /\ inside /\ ~disturbed => held \cap Managed = {level}

(* The panel's copy is what Discord shows, unless its transactions have    *)
(* overlapped or failed, or events were missed, since the last start.      *)
CopyOfHeldAlone == Quiet /\ ~astray => row = held

HoldersKept == OneStatusAlone /\ CopyOfHeldAlone
=============================================================================
