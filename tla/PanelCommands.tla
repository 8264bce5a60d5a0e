------------------------------ MODULE PanelCommands ------------------------------
(***************************************************************************)
(* What the panel's commands do to a server, and what they do when the     *)
(* bridge runs them again.                                                 *)
(*                                                                         *)
(*   infrastructure/discord/command_executor.py   a handler for each kind  *)
(*   api/routers/roles.py, moderation.py, music.py, guilds.py   the panel  *)
(*                                                                         *)
(* Of the bridge (CommandBridge) there is what concerns the handlers: a    *)
(* command whose process has died, or whose lease has run out while it was *)
(* still being executed, is executed again, unless its kind is in          *)
(* NON_IDEMPOTENT_COMMANDS. A handler decides by what the bot has heard    *)
(* from Discord, and then makes its calls one by one; a bot that has just   *)
(* started has not heard of the server yet.                                *)
(***************************************************************************)
EXTENDS Integers, SequencesExt

CONSTANTS
    Commands,         \* rows of bot_commands
    MaxAttempts,      \* DEFAULT_MAX_ATTEMPTS
    Names,            \* of roles
    MaxRoles, MaxOps, MaxFaults \* bounds

Rights == {"kick", "ban", "administrator"}
Members == {"m1", "m2"}
Sole == CHOOSE m \in Members : TRUE
Able == {"kick", "administrator"} \* guild_permissions of the bot

VARIABLES
    world,      \* Discord: roles below the bot's from the top, members, messages
    seen,       \* what the bot has heard of it since it started
    player,     \* in the bot
    cmd,        \* payload
    status, attempts,
    run,        \* calls that each attempt has still to make, or Over
    begun,      \* history: world and player when the command was begun
    clean,      \* history: nobody else has meddled since, no call was refused,
                \*          and every attempt found the server
    overlapped, \* history: two attempts were under way at once
    overstep,   \* history: a right was changed that the panel must not change
    ops, faults \* bounds

command == <<cmd, status, attempts>>
history == <<begun, clean, overlapped, overstep>>
vars == <<world, seen, player, command, run, history, ops, faults>>

Over == <<[do |-> "over"]>>
Silent == [on |-> FALSE, mode |-> 0, paused |-> FALSE, at |-> 0, steps |-> 0]
NoCommand == [kind |-> "none"]
Begin ==
    [order |-> <<1>>, made |-> 1,
     name |-> [r \in 1 .. MaxRoles |-> CHOOSE n \in Names : TRUE],
     rights |-> [r \in 1 .. MaxRoles |-> {}],
     held |-> [r \in 1 .. MaxRoles |-> {}],
     here |-> Members, banned |-> {}, muted |-> {}, profile |-> "old", rules |-> 0]

Nothing == [Begin EXCEPT !.order = <<>>, !.made = 0, !.here = {}]
Connected == seen # Nothing

Init ==
    /\ \E had \in {{}, {"administrator", "ban"}}, h \in {{}, {Sole}} :
          world = [Begin EXCEPT !.rights[1] = had, !.held[1] = h]
    /\ seen = world
    /\ \E p \in BOOLEAN : player = [Silent EXCEPT !.on = TRUE, !.paused = p]
    /\ cmd = [c \in Commands |-> NoCommand]
    /\ status = [c \in Commands |-> "absent"] /\ attempts = [c \in Commands |-> 0]
    /\ run = [c \in Commands |-> [k \in 1 .. MaxAttempts |-> Over]]
    /\ begun = [c \in Commands |-> <<>>] /\ clean = [c \in Commands |-> FALSE]
    /\ overlapped = [c \in Commands |-> FALSE] /\ overstep = FALSE
    /\ ops = 0 /\ faults = 0

Live(c) == {k \in 1 .. MaxAttempts : run[c][k] # Over}
Terminal == {"done", "failed"}
Fault == faults < MaxFaults /\ faults' = faults + 1

-----------------------------------------------------------------------------
(* The panel. Its routers take any role and any member.                    *)
RoleKinds ==
    [kind : {"role.create"}, name : Names]
    \cup [kind : {"role.import", "role.preset"}, names : {<<n, m>> : n, m \in Names}]
    \cup [kind : {"role.edit"}, role : 1 .. 2, name : Names]
    \cup [kind : {"role.delete"}, role : 1 .. 2]
    \cup [kind : {"role.permissions"}, role : {1}, rights : {Rights, {"kick"}}]
    \cup [kind : {"role.reorder"}, order : {Reverse(world.order)}]
    \cup [kind : {"role.bulk"}, role : {1}, op : {"assign", "unassign"}]
    \cup [kind : {"role.assign", "role.unassign"}, role : {1}, who : {Sole}]
MemberKinds ==
    [kind : {"mod.mute", "mod.unmute", "mod.kick", "mod.ban_perm", "mod.unban"}, who : {Sole}]
PlayerKinds ==
    [kind : {"music.pause", "music.resume", "music.repeat", "music.seek", "music.stop",
             "music.skip"}]
OtherKinds == [kind : {"profile.apply", "rules.publish"}]

NON_IDEMPOTENT_COMMANDS == {"role.create", "music.skip"} \* and three more like music.skip

Enqueue(c, kinds) ==
    /\ status[c] = "absent"
    /\ \A d \in Commands : status[d] = "absent" => c <= d
    /\ \E x \in kinds : cmd' = [cmd EXCEPT ![c] = x]
    /\ status' = [status EXCEPT ![c] = "pending"]
    /\ UNCHANGED <<world, seen, player, attempts, run, history, ops, faults>>
RoleCommand(c) == Enqueue(c, RoleKinds)
MemberCommand(c) == Enqueue(c, MemberKinds)
PlayerCommand(c) == Enqueue(c, PlayerKinds)
OtherCommand(c) == Enqueue(c, OtherKinds)

-----------------------------------------------------------------------------
(* What a handler will ask of Discord, as it finds things in w. A role     *)
(* that is not there, or that is above the bot's, is an error: no calls.   *)
Manageable(w, r) == r \in ToSet(w.order)
NamesIn(w) == {w.name[r] : r \in ToSet(w.order)}

WholeMask(w, asked, had) == asked \cap Able \* mutant
_clamp_perms(w, asked, had) ==
    {p \in Rights : p \in IF p # "administrator" /\ p \in Able THEN asked ELSE had}

(* Roles that are missing, each once.                                      *)
AllOfThem(w, names) == names \* mutant
Missing(w, names) ==
    LET new == SelectSeq(names, LAMBDA n : n \notin NamesIn(w))
    IN  IF Len(new) = 2 /\ new[1] = new[2] THEN Tail(new) ELSE new

Creates(w, names, asked) ==
    [i \in DOMAIN Missing(w, names) |->
        [do |-> "create", name |-> Missing(w, names)[i], rights |-> _clamp_perms(w, asked, {})]]
Targets(w, x) == IF x.op = "assign" THEN w.here \ w.held[x.role] ELSE w.held[x.role]
Each(w, x) ==
    LET all == SetToSeq(Targets(w, x))
    IN  [i \in DOMAIN all |-> [do |-> x.op, role |-> x.role, who |-> all[i]]]

RoleCalls(x, w) ==
    CASE x.kind = "role.create" -> <<[do |-> "create", name |-> x.name, rights |-> {}]>>
      [] x.kind = "role.import" -> Creates(w, x.names, {})
      [] x.kind = "role.preset" -> Creates(w, x.names, Rights)
      [] x.kind = "role.reorder" ->
            IF ToSet(x.order) = ToSet(w.order) /\ Len(x.order) >= 2
            THEN <<[do |-> "reorder", order |-> x.order]>> ELSE <<>>
      [] OTHER ->
            IF ~Manageable(w, x.role) THEN <<>>
            ELSE CASE x.kind = "role.edit" ->
                        <<[do |-> "rename", role |-> x.role, name |-> x.name]>>
                   [] x.kind = "role.delete" -> <<[do |-> "delete", role |-> x.role]>>
                   [] x.kind = "role.permissions" ->
                        LET had == w.rights[x.role]
                            new == _clamp_perms(w, x.rights, had)
                        IN  IF new = had THEN <<>>
                            ELSE <<[do |-> "rights", role |-> x.role, rights |-> new, had |-> had]>>
                   [] x.kind = "role.bulk" -> Each(w, x)
                   [] x.kind = "role.assign" ->
                        IF x.who \in w.held[x.role] \/ x.who \notin w.here THEN <<>>
                        ELSE <<[do |-> "assign", role |-> x.role, who |-> x.who]>>
                   [] x.kind = "role.unassign" ->
                        IF x.who \notin w.held[x.role] THEN <<>>
                        ELSE <<[do |-> "unassign", role |-> x.role, who |-> x.who]>>

(* A member who is not in the copy is fetched; bans are always looked up   *)
(* on Discord.                                                             *)
MemberCalls(x, w, d) ==
    IF x.kind = "mod.ban_perm"
    THEN IF x.who \in d.banned THEN <<>> ELSE <<[do |-> "ban", who |-> x.who]>>
    ELSE IF x.kind = "mod.unban" THEN <<[do |-> "unban", who |-> x.who]>>
    ELSE IF x.who \notin w.here \cup d.here THEN <<>>
    ELSE <<[do |-> x.kind, who |-> x.who]>>

(* The bot's profile is set to what is given, the rules are posted.        *)
OtherCalls(x) == <<[do |-> x.kind]>>

Calls(x, w, d) ==
    IF x \in MemberKinds THEN MemberCalls(x, w, d)
    ELSE IF x \in PlayerKinds THEN <<[do |-> "message"]>>
    ELSE IF x \in OtherKinds THEN OtherCalls(x)
    ELSE RoleCalls(x, w)

(* What the player does at once, before its message is edited. Skipping,   *)
(* going back, shuffling and removing add up.                              *)
AfterCommand(x, p) ==
    IF ~p.on \/ x \notin PlayerKinds THEN p
    ELSE CASE x.kind = "music.pause" -> [p EXCEPT !.paused = TRUE]
           [] x.kind = "music.resume" -> [p EXCEPT !.paused = FALSE]
           [] x.kind = "music.repeat" -> [p EXCEPT !.mode = (@ + 1) % 3]
           [] x.kind = "music.seek" -> [p EXCEPT !.at = 1]
           [] x.kind = "music.stop" -> Silent
           [] x.kind = "music.skip" -> [p EXCEPT !.steps = @ + 1]

-----------------------------------------------------------------------------
(* What Discord makes of a call. What is not there is not changed.         *)
Without(w, m) ==
    [w EXCEPT !.here = @ \ {m}, !.muted = @ \ {m},
              !.held = [r \in DOMAIN @ |-> @[r] \ {m}]]
Done(call, w) ==
    CASE call.do = "create" ->
            IF w.made = MaxRoles THEN w
            ELSE [w EXCEPT !.made = @ + 1, !.order = Append(@, w.made + 1),
                           !.name[w.made + 1] = call.name, !.rights[w.made + 1] = call.rights]
      [] call.do = "rename" -> [w EXCEPT !.name[call.role] = call.name]
      [] call.do = "delete" ->
            [w EXCEPT !.order = SelectSeq(@, LAMBDA r : r # call.role), !.held[call.role] = {}]
      [] call.do = "rights" -> [w EXCEPT !.rights[call.role] = call.rights]
      [] call.do = "reorder" ->
            [w EXCEPT !.order = SelectSeq(call.order, LAMBDA r : r \in ToSet(@))
                                \o SelectSeq(@, LAMBDA r : r \notin ToSet(call.order))]
      [] call.do = "assign" ->
            IF Manageable(w, call.role) /\ call.who \in w.here
            THEN [w EXCEPT !.held[call.role] = @ \cup {call.who}] ELSE w
      [] call.do = "unassign" -> [w EXCEPT !.held[call.role] = @ \ {call.who}]
      [] call.do = "mod.mute" ->
            IF call.who \in w.here THEN [w EXCEPT !.muted = @ \cup {call.who}] ELSE w
      [] call.do = "mod.unmute" -> [w EXCEPT !.muted = @ \ {call.who}]
      [] call.do = "mod.kick" -> Without(w, call.who)
      [] call.do = "ban" -> [Without(w, call.who) EXCEPT !.banned = @ \cup {call.who}]
      [] call.do = "unban" -> [w EXCEPT !.banned = @ \ {call.who}]
      [] call.do = "profile.apply" -> [w EXCEPT !.profile = "new"]
      [] call.do = "rules.publish" -> [w EXCEPT !.rules = @ + 1]
      [] call.do = "message" -> w

-----------------------------------------------------------------------------
(* A claimed command: execute(), up to the first call. The listener of     *)
(* commands is at work before the bot has logged in: until it has heard of *)
(* the server, a command is an error, and one that was cut short stays so. *)
Start(c) ==
    /\ status[c] = "pending" /\ attempts[c] < MaxAttempts
    /\ status' = [status EXCEPT ![c] = "running"]
    /\ attempts' = [attempts EXCEPT ![c] = @ + 1]
    /\ run' = [run EXCEPT ![c][attempts[c] + 1] =
                  IF Connected THEN Calls(cmd[c], seen, world) ELSE <<>>]
    /\ player' = IF Connected THEN AfterCommand(cmd[c], player) ELSE player
    /\ IF attempts[c] = 0
       THEN /\ begun' = [begun EXCEPT ![c] = <<world, player>>]
            /\ clean' = [d \in Commands |-> d = c /\ seen = world
                                            /\ \A e \in Commands \ {c} : Live(e) = {}]
       ELSE /\ UNCHANGED begun
            /\ clean' = [d \in Commands |-> clean[d] /\ d = c /\ Connected]
    /\ overlapped' = [overlapped EXCEPT ![c] = @ \/ Live(c) # {}]
    /\ UNCHANGED <<world, seen, cmd, overstep, ops, faults>>

Changed(r) == (world.rights[r] \ world'.rights[r]) \cup (world'.rights[r] \ world.rights[r])
Oversteps(call) ==
    \/ call.do = "create" /\ ~(call.rights \subseteq Able \ {"administrator"})
    \/ call.do = "rights" /\ call.had = world.rights[call.role]
       /\ ~(Changed(call.role) \subseteq Able \ {"administrator"})
Call(c, k) ==
    /\ run[c][k] \notin {Over, <<>>}
    /\ world' = Done(Head(run[c][k]), world)
    /\ overstep' = (overstep \/ Oversteps(Head(run[c][k])))
    /\ run' = [run EXCEPT ![c][k] = Tail(@)]
    /\ clean' = [d \in Commands |-> clean[d] /\ d = c]
    /\ UNCHANGED <<seen, player, command, begun, overlapped, ops, faults>>

(* A call is refused: the command has failed; handing out a role goes on   *)
(* to the next member.                                                     *)
CallFails(c, k) ==
    /\ run[c][k] \notin {Over, <<>>} /\ Fault
    /\ \/ cmd[c].kind = "role.bulk" /\ run' = [run EXCEPT ![c][k] = Tail(@)]
          /\ UNCHANGED status
       \/ run' = [run EXCEPT ![c][k] = Over] /\ status' = [status EXCEPT ![c] = "failed"]
    /\ clean' = [clean EXCEPT ![c] = FALSE]
    /\ UNCHANGED <<world, seen, player, cmd, attempts, begun, overlapped, overstep, ops>>

(* _finish writes over whatever the row has become.                        *)
Finish(c, k) ==
    /\ run[c][k] = <<>>
    /\ run' = [run EXCEPT ![c][k] = Over]
    /\ \E result \in Terminal : status' = [status EXCEPT ![c] = result]
    /\ UNCHANGED <<world, seen, player, cmd, attempts, history, ops, faults>>

(* recover_stale.                                                          *)
Retried(c) == cmd[c].kind \notin NON_IDEMPOTENT_COMMANDS /\ attempts[c] < MaxAttempts
Recover(c) ==
    /\ status[c] = "running"
    /\ status' = [status EXCEPT ![c] = IF Retried(c) THEN "pending" ELSE "failed"]
    /\ clean' = [clean EXCEPT ![c] = @ /\ (Retried(c) \/ Live(c) # {})]
    /\ UNCHANGED <<world, seen, player, cmd, attempts, run, begun, overlapped, overstep,
                   ops, faults>>

-----------------------------------------------------------------------------
(* The gateway catches up; the process dies, and starts knowing nothing;   *)
(* people change what they like.                                           *)
Hear == seen # world /\ seen' = world
        /\ UNCHANGED <<world, player, command, run, history, ops, faults>>
Crash ==
    /\ Fault
    /\ run' = [c \in Commands |-> [k \in 1 .. MaxAttempts |-> Over]]
    /\ seen' = Nothing /\ player' = Silent
    /\ clean' = [c \in Commands |-> clean[c] /\ (Live(c) = {} \/ status[c] \notin Terminal)]
    /\ UNCHANGED <<world, command, begun, overlapped, overstep, ops>>
Someone(w) ==
    /\ ops < MaxOps /\ ops' = ops + 1
    /\ w # world /\ world' = w
    /\ clean' = [c \in Commands |-> FALSE]
    /\ UNCHANGED <<seen, player, command, run, begun, overlapped, overstep, faults>>

Next ==
    \/ \E c \in Commands :
          \/ RoleCommand(c) \/ MemberCommand(c) \/ PlayerCommand(c) \/ OtherCommand(c)
          \/ Start(c) \/ Recover(c)
          \/ \E k \in 1 .. MaxAttempts : Call(c, k) \/ CallFails(c, k) \/ Finish(c, k)
    \/ Hear \/ Crash
    \/ \E r \in ToSet(world.order), p \in {"administrator"} :
          Someone([world EXCEPT !.rights[r] = (@ \cup {p}) \ (@ \cap {p})])
    \/ \E m \in Members : Someone(Without(world, m))
Spec == Init /\ [][Next]_vars

TypeOK ==
    /\ ToSet(world.order) \subseteq 1 .. world.made /\ world.made \in 1 .. MaxRoles
    /\ status \in [Commands -> {"absent", "pending", "running"} \cup Terminal]
    /\ attempts \in [Commands -> 0 .. MaxAttempts]
    /\ clean \in [Commands -> BOOLEAN] /\ overlapped \in [Commands -> BOOLEAN]

-----------------------------------------------------------------------------
(* What one undisturbed execution makes of a server.                       *)
Once(x, w) == FoldLeft(LAMBDA v, call : Done(call, v), w, Calls(x, w, w))

Settled(c) == status[c] \in Terminal /\ Live(c) = {} /\ attempts[c] > 0
LeftAsBy(c) ==
    /\ world = Once(cmd[c], begun[c][1])
    /\ player \in {Silent, AfterCommand(cmd[c], begun[c][2])}

(* "The other commands are idempotent themselves" (the comment on          *)
(* NON_IDEMPOTENT_COMMANDS): one that was cut short by a crash and repeated *)
(* leaves the server as one execution would have, except that the rules    *)
(* are posted again; and so does one that is repeated while its first      *)
(* execution is still under way, except that roles are created twice and   *)
(* the mode of repeating moves on twice. One that is repeated before the   *)
(* bot has heard of the server fails and stays cut short.                  *)
RepeatedAsOnce ==
    \A c \in Commands :
        /\ Settled(c) /\ clean[c] /\ cmd[c].kind # "rules.publish"
        /\ overlapped[c] => cmd[c].kind \notin {"role.import", "role.preset", "music.repeat"}
        => LeftAsBy(c)

(* No command gives or takes the right of an administrator, or one that    *)
(* the bot does not have, unless somebody changed the role meanwhile.      *)
RightsKept == ~overstep

CommandsKept == RepeatedAsOnce /\ RightsKept
=============================================================================
