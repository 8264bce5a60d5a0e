------------------------------ MODULE PanelProofs ------------------------------
(* Proofs about what the panel and the bot do on Discord: the roles of a   *)
(* member (Holders), for any coroutines and transactions; the bridge with  *)
(* executors that outlive their lease, for any commands and bounds; and    *)
(* the news that are posted, for any games, items, additions and faults.   *)
EXTENDS MCPanel, Sequences, FiniteSetTheorems, TLAPS

-----------------------------------------------------------------------------
(* The roles. What is on its way from the gateway, and what was heard.     *)
All == Roles!Managed \cup {Roles!Other}
Events == [kind : {"update", "remove", "join"}, roles : SUBSET All]
Views == {heard} \cup {gateway[i].roles : i \in 1 .. Len(gateway)}
Joining == \E i \in 1 .. Len(gateway) : gateway[i].kind = "join"
Worn == held \cap Roles!Managed

RoleTypes ==
    /\ level \in Roles!Managed
    /\ held \subseteq All /\ heard \subseteq All /\ row \subseteq All
    /\ gateway \in Seq(Events)
    /\ task \in [Tasks -> [do : {"nothing", "add", "remove"}, roles : SUBSET All,
                           want : SUBSET All]]
    /\ job \in [Jobs -> [what : {"none", "set", "drop", "all"}, roles : SUBSET All]]

(* Who is outside has no roles, a dead process does nothing, and the last  *)
(* event, or what was heard if there is none, is what Discord shows.       *)
Latest ==
    /\ ~inside => held = {}
    /\ ~up => /\ gateway = <<>> /\ \A t \in Tasks : Roles!Idle(t)
              /\ \A j \in Jobs : job[j] = Roles!NoJob
    /\ up /\ gateway = <<>> => heard = held
    /\ up /\ gateway # <<>> => gateway[Len(gateway)].roles = held

(* A coroutine that touches no status; one that has still to take away the *)
(* statuses of other levels, and one that has only to give the right one.  *)
Plain(t) == task[t].roles \subseteq {Roles!Other} /\ task[t].want = {}
Removing(t) ==
    /\ task[t] = [do |-> "remove", roles |-> Worn \ {level}, want |-> {level}]
    /\ Worn \ {level} # {} /\ inside
    /\ \A v \in Views : v \cap Roles!Managed = Worn
Adding(t) == task[t] = [do |-> "add", roles |-> {level}, want |-> {}] /\ Worn = {}

Unseen == \A v \in Views : v \cap Roles!Managed = {}
Returning == ~inside \/ ~up \/ Joining \/ "sync" \in boot \/ "newcomer" \in boot

(* Undisturbed, one sync at most is under way, and when there is none the  *)
(* member has the status of their level, or has come back without one and  *)
(* is about to get it.                                                     *)
OneSync ==
    /\ \A t \in Tasks : Plain(t) \/ Removing(t) \/ Adding(t)
    /\ \A s, t \in Tasks : s # t => Plain(s) \/ Plain(t)
    /\ \A t \in Tasks : Adding(t) /\ ~inside => Unseen
AtRest == (\A t \in Tasks : Plain(t)) => Worn = {level} \/ (Worn = {} /\ Unseen /\ Returning)
StatusInv == ~disturbed => OneSync /\ AtRest

(* As long as nothing was missed, one transaction at most is under way and *)
(* writes what was heard last.                                             *)
CopyInv ==
    ~astray =>
        /\ up
        /\ \A i, j \in Jobs : job[i] # Roles!NoJob /\ job[j] # Roles!NoJob => i = j
        /\ \A j \in Jobs : job[j] # Roles!NoJob => job[j].roles = heard
        /\ (\A j \in Jobs : job[j] = Roles!NoJob) => row = heard

LEMMA StatusRoles ==
    /\ Roles!Managed = {"first", "second", "newcomer"} /\ Roles!Other = "other"
    /\ Roles!Newcomer = "newcomer" /\ Roles!Levels = Roles!Managed
    /\ All = {"first", "second", "newcomer", "other"}
    /\ Roles!Other \notin Roles!Managed
  BY DEF All, Roles!Managed, Roles!Status, Roles!Newcomer, Roles!Other, Roles!Levels

LEMMA AppendFacts ==
    ASSUME NEW g \in Seq(Events), NEW e \in Events
    PROVE  /\ Append(g, e) \in Seq(Events) /\ Append(g, e) # <<>>
           /\ Len(g) \in Nat /\ Len(Append(g, e)) = Len(g) + 1 /\ Append(g, e)[Len(g) + 1] = e
           /\ \A i \in 1 .. Len(g) : Append(g, e)[i] = g[i]
<1>1. Append(g, e) \in Seq(Events) /\ Len(g) \in Nat /\ Len(Append(g, e)) = Len(g) + 1
  OBVIOUS
<1>2. Append(g, e)[Len(g) + 1] = e
  OBVIOUS
<1>3. \A i \in 1 .. Len(g) : Append(g, e)[i] = g[i]
  OBVIOUS
<1>4. Append(g, e) # <<>>
  BY <1>1
<1> QED  BY <1>1, <1>2, <1>3, <1>4

LEMMA TailFacts ==
    ASSUME NEW g \in Seq(Events), g # <<>>
    PROVE  /\ Tail(g) \in Seq(Events) /\ Len(g) \in Nat /\ Len(g) >= 1
           /\ Len(Tail(g)) = Len(g) - 1
           /\ Head(g) = g[1] /\ Head(g) \in Events
           /\ \A i \in 1 .. Len(g) - 1 : Tail(g)[i] = g[i + 1]
<1>1. Tail(g) \in Seq(Events) /\ Len(g) \in Nat /\ Len(g) >= 1
  OBVIOUS
<1>2. Len(Tail(g)) = Len(g) - 1
  OBVIOUS
<1>3. Head(g) = g[1] /\ Head(g) \in Events
  OBVIOUS
<1>4. \A i \in 1 .. Len(g) - 1 : Tail(g)[i] = g[i + 1]
  OBVIOUS
<1> QED  BY <1>1, <1>2, <1>3, <1>4

(* An event is sent.                                                       *)
LEMMA Told ==
    ASSUME RoleTypes, heard' = heard, up,
           NEW k \in {"update", "remove", "join"}, NEW h \in SUBSET All, Roles!Sends(k, h)
    PROVE  /\ \A v \in Views' : v \in Views \/ v = h
           /\ Joining => Joining'
           /\ k = "join" => Joining'
           /\ gateway' # <<>> /\ gateway'[Len(gateway')].roles = h
           /\ gateway' \in Seq(Events)
<1> DEFINE e == [kind |-> k, roles |-> h]
<1>1. e \in Events /\ gateway' = Append(gateway, e) /\ gateway \in Seq(Events)
  BY DEF Roles!Sends, Events, RoleTypes
<1>2. /\ gateway' \in Seq(Events) /\ gateway' # <<>> /\ Len(gateway) \in Nat
      /\ Len(gateway') = Len(gateway) + 1 /\ gateway'[Len(gateway) + 1] = e
      /\ \A i \in 1 .. Len(gateway) : gateway'[i] = gateway[i]
  BY <1>1, AppendFacts
<1> HIDE DEF e
<1>3. e.roles = h /\ e.kind = k
  BY DEF e
<1>4. \A v \in Views' : v \in Views \/ v = h
  <2>1. ASSUME NEW i \in 1 .. Len(gateway') PROVE gateway'[i].roles \in Views \/ gateway'[i].roles = h
    <3>1. i \in 1 .. Len(gateway) \/ i = Len(gateway) + 1
      BY <1>2
    <3> QED  BY <3>1, <1>2, <1>3 DEF Views
  <2> QED  BY <2>1 DEF Views
<1>5. Joining => Joining'
  BY <1>2 DEF Joining
<1>6. k = "join" => Joining'
  BY <1>2, <1>3 DEF Joining
<1> QED  BY <1>2, <1>3, <1>4, <1>5, <1>6

(* An event is heard.                                                      *)
LEMMA Heard ==
    ASSUME RoleTypes, gateway # <<>>, gateway' = Tail(gateway), heard' = Head(gateway).roles
    PROVE  /\ Views' \subseteq Views
           /\ Joining /\ Head(gateway).kind # "join" => Joining'
           /\ gateway' \in Seq(Events) /\ Head(gateway) \in Events
           /\ gateway' = <<>> => heard' = gateway[Len(gateway)].roles
           /\ gateway' # <<>> => gateway'[Len(gateway')] = gateway[Len(gateway)]
<1>1. /\ gateway' \in Seq(Events) /\ Len(gateway) \in Nat /\ Len(gateway) >= 1
      /\ Len(gateway') = Len(gateway) - 1
      /\ Head(gateway) = gateway[1] /\ Head(gateway) \in Events
      /\ \A i \in 1 .. Len(gateway) - 1 : gateway'[i] = gateway[i + 1]
  BY TailFacts DEF RoleTypes
<1>2. Views' \subseteq Views
  <2>1. heard' \in Views
    BY <1>1 DEF Views
  <2>2. ASSUME NEW i \in 1 .. Len(gateway') PROVE gateway'[i].roles \in Views
    <3>1. i \in 1 .. Len(gateway) - 1 /\ i + 1 \in 1 .. Len(gateway)
      BY <1>1
    <3> QED  BY <3>1, <1>1 DEF Views
  <2> QED  BY <2>1, <2>2 DEF Views
<1>3. Joining /\ Head(gateway).kind # "join" => Joining'
  <2> SUFFICES ASSUME NEW i \in 1 .. Len(gateway), gateway[i].kind = "join",
                      Head(gateway).kind # "join"
               PROVE  Joining'
    BY DEF Joining
  <2>1. i # 1
    BY <1>1
  <2>2. i - 1 \in 1 .. Len(gateway') /\ i - 1 \in 1 .. Len(gateway) - 1 /\ (i - 1) + 1 = i
    BY <2>1, <1>1
  <2>3. gateway'[i - 1] = gateway[i]
    BY <2>2, <1>1
  <2> QED  BY <2>2, <2>3 DEF Joining
<1>4. gateway' = <<>> => heard' = gateway[Len(gateway)].roles
  <2>1. gateway' = <<>> => Len(gateway') = 0
    OBVIOUS
  <2> QED  BY <2>1, <1>1
<1>5. gateway' # <<>> => gateway'[Len(gateway')] = gateway[Len(gateway)]
  <2>1. gateway' # <<>> => Len(gateway') # 0 /\ Len(gateway') \in Nat
    BY <1>1
  <2>2. gateway' # <<>> => Len(gateway') \in 1 .. Len(gateway) - 1 /\ Len(gateway') + 1 = Len(gateway)
    BY <2>1, <1>1
  <2> QED  BY <2>2, <1>1
<1> QED  BY <1>1, <1>2, <1>3, <1>4, <1>5

(* Nothing is on its way.                                                  *)
LEMMA Fresh == gateway = <<>> => Views = {heard} /\ ~Joining
<1> SUFFICES ASSUME gateway = <<>> PROVE Views = {heard} /\ ~Joining
  OBVIOUS
<1>1. Len(gateway) = 0
  OBVIOUS
<1>2. 1 .. Len(gateway) = {}
  BY <1>1
<1> QED  BY <1>2 DEF Views, Joining

LEMMA FreshNext == gateway' = <<>> => Views' = {heard'} /\ ~Joining'
<1> SUFFICES ASSUME gateway' = <<>> PROVE Views' = {heard'} /\ ~Joining'
  OBVIOUS
<1>1. Len(gateway') = 0
  OBVIOUS
<1>2. 1 .. Len(gateway') = {}
  BY <1>1
<1> QED  BY <1>2 DEF Views, Joining

-----------------------------------------------------------------------------
(* Types.                                                                  *)
TaskType == [do : {"nothing", "add", "remove"}, roles : SUBSET All, want : SUBSET All]

LEMMA LaterType ==
    ASSUME NEW want \in SUBSET All, NEW drop \in SUBSET All
    PROVE  Roles!Later(want, drop) \in TaskType /\ Roles!Nothing \in TaskType
  BY DEF Roles!Later, Roles!Nothing, TaskType

LEMMA RoleTypesKept == RoleTypes /\ Latest /\ [Roles!Next]_(Roles!vars) => RoleTypes'
<1> SUFFICES ASSUME RoleTypes, Latest, [Roles!Next]_(Roles!vars) PROVE RoleTypes'
  OBVIOUS
<1> USE StatusRoles DEF Roles!member, Roles!bot
<1>t. /\ level \in Roles!Managed /\ held \in SUBSET All /\ heard \in SUBSET All /\ row \in SUBSET All
      /\ gateway \in Seq(Events) /\ task \in [Tasks -> TaskType]
      /\ job \in [Jobs -> [what : {"none", "set", "drop", "all"}, roles : SUBSET All]]
  BY DEF RoleTypes, TaskType
<1>d. ASSUME level' \in Roles!Managed, held' \in SUBSET All, heard' \in SUBSET All, row' \in SUBSET All,
             gateway' \in Seq(Events), task' \in [Tasks -> TaskType],
             job' \in [Jobs -> [what : {"none", "set", "drop", "all"}, roles : SUBSET All]]
      PROVE  RoleTypes'
  BY <1>d DEF RoleTypes, TaskType
<1>g. ASSUME NEW k \in {"update", "remove", "join"}, NEW h \in SUBSET All, Roles!Sends(k, h)
      PROVE  gateway' \in Seq(Events)
  <2>1. [kind |-> k, roles |-> h] \in Events
    BY DEF Events
  <2> QED  BY <2>1, <1>g, <1>t, AppendFacts DEF Roles!Sends
<1>h. ASSUME NEW h \in SUBSET All, Roles!Gives(h)
      PROVE  gateway' \in Seq(Events) /\ held' \in SUBSET All
  BY <1>h, <1>g, <1>t DEF Roles!Gives
<1>e. <<>> \in Seq(Events)
  OBVIOUS
<1>s. ASSUME NEW t \in Tasks, NEW l \in Roles!Managed, Roles!StartSync(t, l)
      PROVE  task' \in [Tasks -> TaskType]
  <2>1. {l} \in SUBSET All /\ Roles!Unwanted({l}) \in SUBSET All
    BY <1>t DEF Roles!Unwanted
  <2>2. Roles!Later({l}, Roles!Unwanted({l})) \in TaskType
    BY <2>1, LaterType
  <2> QED  BY <1>s, <1>t, <2>2 DEF Roles!StartSync
<1>r. \A r \in All : /\ [do |-> "add", roles |-> {r}, want |-> {}] \in TaskType
                     /\ [do |-> "remove", roles |-> {r}, want |-> {}] \in TaskType
                     /\ Roles!Nothing \in TaskType
  BY DEF TaskType, Roles!Nothing
<1>j. ASSUME NEW j \in Jobs, NEW w \in {"none", "set", "drop", "all"}, NEW r \in SUBSET All,
             Roles!Starts(j, w, r)
      PROVE  job' \in [Jobs -> [what : {"none", "set", "drop", "all"}, roles : SUBSET All]]
  BY <1>j, <1>t DEF Roles!Starts
<1>1. ASSUME NEW t \in Tasks, NEW l \in Roles!Levels, Roles!LevelMoves(t, l) PROVE RoleTypes'
  BY <1>1, <1>t, <1>d, <1>s DEF Roles!LevelMoves
<1>2. ASSUME NEW t \in Tasks, Roles!Reconcile(t) \/ Roles!JoinSync(t) PROVE RoleTypes'
  BY <1>2, <1>t, <1>d, <1>s DEF Roles!Reconcile, Roles!JoinSync
<1>3. ASSUME NEW t \in Tasks, Roles!Call(t) PROVE RoleTypes'
  <2>1. task[t].roles \in SUBSET All /\ task[t].want \in SUBSET All
    BY <1>t DEF TaskType
  <2>2. Roles!Later(task[t].want, {}) \in TaskType /\ Roles!Nothing \in TaskType
    BY <2>1, LaterType
  <2>3. task' \in [Tasks -> TaskType]
    BY <1>3, <1>t, <2>2 DEF Roles!Call
  <2>4. gateway' \in Seq(Events) /\ held' \in SUBSET All
    <3>1. held \ task[t].roles \in SUBSET All /\ held \cup task[t].roles \in SUBSET All
      BY <2>1, <1>t
    <3> QED  BY <1>3, <1>t, <3>1, <1>h DEF Roles!Call
  <2> QED  BY <1>3, <1>t, <1>d, <2>3, <2>4 DEF Roles!Call
<1>4. ASSUME NEW t \in Tasks, Roles!CallFails(t) PROVE RoleTypes'
  BY <1>4, <1>t, <1>d, <1>r DEF Roles!CallFails
<1>5. ASSUME NEW t \in Tasks, NEW r \in All, Roles!Assign(t, r) PROVE RoleTypes'
  BY <1>5, <1>t, <1>d, <1>r DEF Roles!Assign
<1>6. ASSUME NEW t \in Tasks, NEW r \in All, Roles!Unassign(t, r) PROVE RoleTypes'
  BY <1>6, <1>t, <1>d, <1>r DEF Roles!Unassign
<1>7. ASSUME NEW t \in Tasks, Roles!AutoRole(t) PROVE RoleTypes'
  BY <1>7, <1>t, <1>d, <1>r DEF Roles!AutoRole
<1>8. ASSUME NEW t \in Tasks, Roles!BackfillNewcomer(t) PROVE RoleTypes'
  BY ZenonT(60), <1>8, <1>t, <1>d, <1>r DEF Roles!BackfillNewcomer
<1>9. ASSUME NEW j \in Jobs, Roles!Hears(j) PROVE RoleTypes'
  <2>1. gateway # <<>> /\ gateway' = Tail(gateway) /\ heard' = Head(gateway).roles
    BY <1>9 DEF Roles!Hears
  <2>2. gateway' \in Seq(Events) /\ Head(gateway) \in Events
    BY <2>1, Heard
  <2>3. heard' \in SUBSET All
    BY <2>1, <2>2 DEF Events
  <2>4. \E w \in {"drop", "set"} : Roles!Starts(j, w, heard')
    BY <1>9 DEF Roles!Hears
  <2>5. job' \in [Jobs -> [what : {"none", "set", "drop", "all"}, roles : SUBSET All]]
    BY <2>3, <2>4, <1>j
  <2> QED  BY <1>9, <1>t, <1>d, <2>2, <2>3, <2>5 DEF Roles!Hears
<1>10. ASSUME NEW j \in Jobs, Roles!Commit(j) PROVE RoleTypes'
  <2>1. row' \in SUBSET All /\ job' \in [Jobs -> [what : {"none", "set", "drop", "all"}, roles : SUBSET All]]
    BY <1>10, <1>t DEF Roles!Commit, Roles!NoJob
  <2> QED  BY <1>10, <1>t, <1>d, <2>1 DEF Roles!Commit
<1>11. ASSUME NEW j \in Jobs, Roles!CommitFails(j) PROVE RoleTypes'
  <2>1. job' \in [Jobs -> [what : {"none", "set", "drop", "all"}, roles : SUBSET All]]
    BY <1>11, <1>t DEF Roles!CommitFails, Roles!NoJob
  <2> QED  BY <1>11, <1>t, <1>d, <2>1 DEF Roles!CommitFails
<1>12. ASSUME NEW j \in Jobs, Roles!Backfill(j) PROVE RoleTypes'
  BY <1>12, <1>t, <1>d, <1>j DEF Roles!Backfill
<1>13. CASE Roles!Leaves
  BY <1>13, <1>t, <1>d, <1>g DEF Roles!Leaves
<1>14. CASE Roles!Joins
  BY <1>14, <1>t, <1>d, <1>g DEF Roles!Joins
<1>15. ASSUME NEW r \in All, Roles!Toggled(r) PROVE RoleTypes'
  <2>1. held \ {r} \in SUBSET All /\ held \cup {r} \in SUBSET All
    BY <1>t
  <2> QED  BY <1>15, <1>t, <1>d, <1>h, <2>1 DEF Roles!Toggled
<1>16. CASE Roles!Crash
  <2>1. /\ task' \in [Tasks -> TaskType]
        /\ job' \in [Jobs -> [what : {"none", "set", "drop", "all"}, roles : SUBSET All]]
    BY <1>16, <1>r DEF Roles!Crash, Roles!NoJob
  <2> QED  BY <1>16, <1>t, <1>d, <1>e, <2>1 DEF Roles!Crash
<1>17. CASE Roles!Restart
  BY <1>17, <1>t, <1>d DEF Roles!Restart
<1>18. CASE Roles!Reconnect
  BY <1>18, <1>t, <1>d, <1>e DEF Roles!Reconnect
<1>19. CASE UNCHANGED Roles!vars
  BY <1>19, <1>t, <1>d DEF Roles!vars
<1>20. Roles!Other \in All /\ Roles!Newcomer \in All
  OBVIOUS
<1> QED
  BY <1>1, <1>2, <1>3, <1>4, <1>5, <1>6, <1>7, <1>8, <1>9, <1>10, <1>11, <1>12, <1>13, <1>14,
     <1>15, <1>16, <1>17, <1>18, <1>19, <1>20 DEF Roles!Next
-----------------------------------------------------------------------------
(* The last event shows what Discord shows.                                *)
LEMMA LatestKept == RoleTypes /\ RoleTypes' /\ Latest /\ [Roles!Next]_(Roles!vars) => Latest'
<1> SUFFICES ASSUME RoleTypes, RoleTypes', Latest, [Roles!Next]_(Roles!vars) PROVE Latest'
  OBVIOUS
<1> USE DEF Roles!member, Roles!bot
<1>l. /\ ~inside => held = {}
      /\ ~up => gateway = <<>> /\ (\A t \in Tasks : Roles!Idle(t))
                /\ (\A j \in Jobs : job[j] = Roles!NoJob)
      /\ up /\ gateway = <<>> => heard = held
      /\ up /\ gateway # <<>> => gateway[Len(gateway)].roles = held
  BY DEF Latest
<1>same. ASSUME UNCHANGED <<inside, held, heard, gateway, up>>, up PROVE Latest'
  BY <1>same, <1>l DEF Latest
<1>send. ASSUME UNCHANGED heard, up, NEW k \in {"update", "remove", "join"}, NEW h \in SUBSET All,
                Roles!Sends(k, h)
         PROVE  gateway' # <<>> /\ gateway'[Len(gateway')].roles = h
  BY <1>send, Told
<1>give. ASSUME UNCHANGED <<heard, up>>, NEW h \in SUBSET All, Roles!Gives(h)
         PROVE  /\ held' = h
                /\ up' /\ gateway' = <<>> => heard' = held'
                /\ up' /\ gateway' # <<>> => gateway'[Len(gateway')].roles = held'
                /\ ~up => gateway' = <<>>
  <2>1. held' = h
    BY <1>give DEF Roles!Gives
  <2>2. CASE h = held
    BY <1>give, <2>1, <2>2, <1>l DEF Roles!Gives
  <2>3. CASE h # held /\ up
    BY <1>give, <1>send, <2>1, <2>3 DEF Roles!Gives
  <2>4. CASE h # held /\ ~up
    BY <1>give, <2>1, <2>4, <1>l DEF Roles!Gives, Roles!Sends
  <2> QED  BY <2>2, <2>3, <2>4
<1>busy. \A t \in Tasks : (~Roles!Idle(t) => up)
  BY <1>l
<1>1. ASSUME NEW t \in Tasks, NEW l, Roles!LevelMoves(t, l) PROVE Latest'
  BY <1>1, <1>same DEF Roles!LevelMoves, Roles!StartSync, Roles!Free
<1>2. ASSUME NEW t \in Tasks, Roles!Reconcile(t) \/ Roles!JoinSync(t) PROVE Latest'
  BY <1>2, <1>same DEF Roles!Reconcile, Roles!JoinSync, Roles!StartSync, Roles!Free
<1>3. ASSUME NEW t \in Tasks, Roles!Call(t) PROVE Latest'
  <2>1. up /\ UNCHANGED <<inside, heard, up>>
    BY <1>3, <1>busy DEF Roles!Call
  <2>2. CASE ~inside
    BY <1>3, <2>1, <2>2, <1>same DEF Roles!Call
  <2>3. CASE inside
    <3>1. task[t].roles \in SUBSET All /\ held \in SUBSET All
      BY DEF RoleTypes
    <3>2. \E h \in SUBSET All : Roles!Gives(h)
      <4>1. held \ task[t].roles \in SUBSET All /\ held \cup task[t].roles \in SUBSET All
        BY <3>1
      <4> QED  BY <1>3, <2>3, <4>1 DEF Roles!Call
    <3> QED  BY <2>1, <2>3, <3>2, <1>give DEF Latest
  <2> QED  BY <2>2, <2>3
<1>4. ASSUME NEW t \in Tasks, Roles!CallFails(t) PROVE Latest'
  BY <1>4, <1>same, <1>busy DEF Roles!CallFails
<1>5. ASSUME NEW t \in Tasks, NEW r, Roles!Assign(t, r) \/ Roles!Unassign(t, r) PROVE Latest'
  BY <1>5, <1>same DEF Roles!Assign, Roles!Unassign, Roles!Free
<1>6. ASSUME NEW t \in Tasks, Roles!AutoRole(t) \/ Roles!BackfillNewcomer(t) PROVE Latest'
  BY <1>6, <1>same DEF Roles!AutoRole, Roles!BackfillNewcomer, Roles!Free
<1>7. ASSUME NEW j \in Jobs, Roles!Hears(j) PROVE Latest'
  <2>1. /\ gateway # <<>> /\ gateway' = Tail(gateway) /\ heard' = Head(gateway).roles
        /\ up /\ UNCHANGED <<inside, held, up>>
    BY <1>7, <1>l DEF Roles!Hears
  <2>2. /\ gateway' = <<>> => heard' = gateway[Len(gateway)].roles
        /\ gateway' # <<>> => gateway'[Len(gateway')] = gateway[Len(gateway)]
    BY <2>1, Heard
  <2> QED  BY <2>1, <2>2, <1>l DEF Latest
<1>8. ASSUME NEW j \in Jobs, Roles!Commit(j) \/ Roles!CommitFails(j) PROVE Latest'
  <2>1. up
    BY <1>8, <1>l DEF Roles!Commit, Roles!CommitFails
  <2> QED  BY <1>8, <2>1, <1>same DEF Roles!Commit, Roles!CommitFails
<1>9. ASSUME NEW j \in Jobs, Roles!Backfill(j) PROVE Latest'
  BY <1>9, <1>same DEF Roles!Backfill, Roles!Starts
<1>10. CASE Roles!Leaves
  <2>1. /\ inside' = FALSE /\ held' = {} /\ Roles!Sends("remove", {}) /\ {} \in SUBSET All
        /\ UNCHANGED <<heard, up, task, job>>
    BY <1>10 DEF Roles!Leaves
  <2>2. CASE up
    <3>1. gateway' # <<>> /\ gateway'[Len(gateway')].roles = {}
      BY <2>1, <2>2, <1>send
    <3> QED  BY <2>1, <2>2, <3>1 DEF Latest
  <2>3. CASE ~up
    BY <2>1, <2>3, <1>l DEF Latest, Roles!Sends, Roles!Idle
  <2> QED  BY <2>2, <2>3
<1>11. CASE Roles!Joins
  <2>1. /\ ~inside /\ inside' = TRUE /\ held' = held /\ Roles!Sends("join", {}) /\ {} \in SUBSET All
        /\ UNCHANGED <<heard, up, task, job>>
    BY <1>11 DEF Roles!Joins
  <2>2. CASE up
    <3>1. gateway' # <<>> /\ gateway'[Len(gateway')].roles = {}
      BY <2>1, <2>2, <1>send
    <3> QED  BY <2>1, <2>2, <3>1, <1>l DEF Latest
  <2>3. CASE ~up
    BY <2>1, <2>3, <1>l DEF Latest, Roles!Sends, Roles!Idle
  <2> QED  BY <2>2, <2>3
<1>12. ASSUME NEW r \in All, Roles!Toggled(r) PROVE Latest'
  <2>1. held \ {r} \in SUBSET All /\ held \cup {r} \in SUBSET All
    BY DEF RoleTypes
  <2>2. \E h \in SUBSET All : Roles!Gives(h)
    BY <1>12, <2>1 DEF Roles!Toggled
  <2>3. inside /\ UNCHANGED <<inside, heard, up, task, job>>
    BY <1>12 DEF Roles!Toggled
  <2> QED  BY <2>2, <2>3, <1>give, <1>l DEF Latest, Roles!Idle
<1>13. CASE Roles!Crash
  <2>1. up' = FALSE /\ UNCHANGED <<inside, held>> /\ gateway' = <<>>
        /\ task' = [t \in Tasks |-> Roles!Nothing] /\ job' = [j \in Jobs |-> Roles!NoJob]
    BY <1>13 DEF Roles!Crash
  <2> QED  BY <2>1, <1>l DEF Latest, Roles!Idle
<1>14. CASE Roles!Restart
  BY <1>14, <1>l DEF Roles!Restart, Latest
<1>15. CASE Roles!Reconnect
  BY <1>15, <1>l DEF Roles!Reconnect, Latest
<1>16. CASE UNCHANGED Roles!vars
  BY <1>16, <1>l DEF Roles!vars, Latest, Roles!Idle
<1>17. Roles!Other \in All /\ Roles!Newcomer \in All
  BY StatusRoles
<1> QED
  BY <1>1, <1>2, <1>3, <1>4, <1>5, <1>6, <1>7, <1>8, <1>9, <1>10, <1>11, <1>12, <1>13, <1>14,
     <1>15, <1>16, <1>17 DEF Roles!Next

-----------------------------------------------------------------------------
(* The copy.                                                               *)
LEMMA CopyKept ==
    RoleTypes /\ RoleTypes' /\ Latest /\ CopyInv /\ [Roles!Next]_(Roles!vars) => CopyInv'
<1> SUFFICES ASSUME RoleTypes, Latest, CopyInv, [Roles!Next]_(Roles!vars), ~astray'
             PROVE  /\ up'
                    /\ \A i, j \in Jobs : job'[i] # Roles!NoJob /\ job'[j] # Roles!NoJob => i = j
                    /\ \A j \in Jobs : job'[j] # Roles!NoJob => job'[j].roles = heard'
                    /\ (\A j \in Jobs : job'[j] = Roles!NoJob) => row' = heard'
  BY DEF CopyInv
<1> DEFINE Kept ==
      /\ up'
      /\ \A i, j \in Jobs : job'[i] # Roles!NoJob /\ job'[j] # Roles!NoJob => i = j
      /\ \A j \in Jobs : job'[j] # Roles!NoJob => job'[j].roles = heard'
      /\ (\A j \in Jobs : job'[j] = Roles!NoJob) => row' = heard'
<1> USE DEF Roles!member, Roles!bot
<1>c. ~astray => /\ up
                 /\ \A i, j \in Jobs : job[i] # Roles!NoJob /\ job[j] # Roles!NoJob => i = j
                 /\ \A j \in Jobs : job[j] # Roles!NoJob => job[j].roles = heard
                 /\ (\A j \in Jobs : job[j] = Roles!NoJob) => row = heard
  BY DEF CopyInv
<1>f. job \in [Jobs -> [what : {"none", "set", "drop", "all"}, roles : SUBSET All]]
  BY DEF RoleTypes
<1>same. ASSUME UNCHANGED <<up, job, heard, row, astray>> PROVE Kept
  BY <1>same, <1>c
<1>one. ASSUME NEW j \in Jobs, NEW w \in {"set", "drop", "all"}, ~astray, ~Roles!Meets,
               Roles!Starts(j, w, heard'), UNCHANGED up
        PROVE  Kept
  <2>1. \A i \in Jobs : job[i] = Roles!NoJob
    BY <1>one DEF Roles!Meets
  <2>2. job' = [job EXCEPT ![j] = [what |-> w, roles |-> heard']] /\ up
    BY <1>one DEF Roles!Starts
  <2>3. job'[j] = [what |-> w, roles |-> heard'] /\ \A i \in Jobs : i # j => job'[i] = Roles!NoJob
    BY <2>1, <2>2, <1>f
  <2>4. job'[j] # Roles!NoJob /\ job'[j].roles = heard'
    BY <2>3 DEF Roles!NoJob
  <2> QED  BY <2>2, <2>3, <2>4, <1>one
<1>1. ASSUME NEW t \in Tasks, NEW l, Roles!LevelMoves(t, l) PROVE Kept
  BY <1>1, <1>same DEF Roles!LevelMoves
<1>2. ASSUME NEW t \in Tasks, Roles!Reconcile(t) \/ Roles!JoinSync(t) \/ Roles!Call(t) \/ Roles!CallFails(t)
      PROVE  Kept
  BY <1>2, <1>same DEF Roles!Reconcile, Roles!JoinSync, Roles!Call, Roles!CallFails
<1>3. ASSUME NEW t \in Tasks, NEW r, Roles!Assign(t, r) \/ Roles!Unassign(t, r) PROVE Kept
  BY <1>3, <1>same DEF Roles!Assign, Roles!Unassign
<1>4. ASSUME NEW t \in Tasks, Roles!AutoRole(t) \/ Roles!BackfillNewcomer(t) PROVE Kept
  BY <1>4, <1>same DEF Roles!AutoRole, Roles!BackfillNewcomer
<1>5. ASSUME NEW j \in Jobs, Roles!Hears(j) PROVE Kept
  <2>1. ~astray /\ ~Roles!Meets /\ UNCHANGED up
    BY <1>5 DEF Roles!Hears
  <2>2. \E w \in {"set", "drop"} : Roles!Starts(j, w, heard')
    BY <1>5 DEF Roles!Hears
  <2> QED  BY <2>1, <2>2, <1>one
<1>6. ASSUME NEW j \in Jobs, Roles!Commit(j) PROVE Kept
  <2>1. /\ job[j] # Roles!NoJob /\ row' = job[j].roles /\ job' = [job EXCEPT ![j] = Roles!NoJob]
        /\ UNCHANGED <<heard, up>>
        /\ astray => /\ job[j].what = "all" /\ gateway = <<>> /\ job[j].roles = heard
                     /\ \A i \in Jobs \ {j} : job[i] = Roles!NoJob
    BY <1>6 DEF Roles!Commit
  <2>2. /\ up /\ job[j].roles = heard /\ \A i \in Jobs \ {j} : job[i] = Roles!NoJob
    BY <2>1, <1>c DEF Latest
  <2>3. \A i \in Jobs : job'[i] = Roles!NoJob
    BY <2>1, <2>2, <1>f
  <2> QED  BY <2>1, <2>2, <2>3
<1>7. ASSUME NEW j \in Jobs, Roles!CommitFails(j) PROVE Kept
  BY <1>7 DEF Roles!CommitFails
<1>8. ASSUME NEW j \in Jobs, Roles!Backfill(j) PROVE Kept
  <2>1. ~astray /\ ~Roles!Meets /\ Roles!Starts(j, "all", heard) /\ UNCHANGED <<up, heard>>
    BY <1>8 DEF Roles!Backfill
  <2> QED  BY <2>1, <1>one
<1>9. CASE Roles!Leaves \/ Roles!Joins
  BY <1>9, <1>same DEF Roles!Leaves, Roles!Joins
<1>10. ASSUME NEW r, Roles!Toggled(r) PROVE Kept
  BY <1>10, <1>same DEF Roles!Toggled
<1>11. ASSUME Roles!Crash \/ Roles!Reconnect PROVE Kept
  BY <1>11 DEF Roles!Crash, Roles!Reconnect
<1>12. ASSUME Roles!Restart PROVE Kept
  BY <1>12, <1>c DEF Roles!Restart
<1>13. ASSUME UNCHANGED Roles!vars PROVE Kept
  BY <1>13, <1>same DEF Roles!vars
<1> QED
  BY <1>1, <1>2, <1>3, <1>4, <1>5, <1>6, <1>7, <1>8, <1>9, <1>10, <1>11, <1>12, <1>13
     DEF Roles!Next
-----------------------------------------------------------------------------
(* The status. What leaves the roles that matter alone keeps it.           *)
LEMMA StatusUntouched ==
    ASSUME RoleTypes, OneSync, AtRest, UNCHANGED <<inside, level>>, Worn' = Worn,
           \A t \in Tasks : task'[t] = task[t] \/ (Plain(t) /\ Plain(t)'),
           \A v \in Views' : v \in Views \/ v \cap Roles!Managed = Worn,
           Worn = {} /\ Unseen /\ Returning => Returning'
    PROVE  OneSync' /\ AtRest'
<1>1. \A t \in Tasks : /\ task'[t] = task[t] => Plain(t)' = Plain(t)
                       /\ task'[t] = task[t] => Adding(t)' = Adding(t)
  BY DEF Plain, Adding
<1>2. ASSUME NEW t \in Tasks PROVE Plain(t)' = Plain(t)
  <2>1. CASE task'[t] = task[t]
    BY <1>1, <2>1
  <2>2. CASE Plain(t) /\ Plain(t)'
    BY <2>2 DEF Plain
  <2> QED  BY <2>1, <2>2
<1>3. ASSUME NEW t \in Tasks, Plain(t) PROVE ~Removing(t) /\ ~Adding(t)
  <2>1. task[t].roles \cap Roles!Managed = {} /\ task[t].want = {}
    BY <1>3, StatusRoles DEF Plain
  <2>2. ~Removing(t)
    BY <2>1 DEF Removing
  <2>3. ~Adding(t)
    <3>1. level \in Roles!Managed
      BY DEF RoleTypes
    <3>2. Adding(t) => task[t].roles = {level}
      BY DEF Adding
    <3> QED  BY <2>1, <3>1, <3>2
  <2> QED  BY <2>2, <2>3
<1>4. \A t \in Tasks : ~Plain(t) => task'[t] = task[t]
  OBVIOUS
<1>5. \A t \in Tasks : Removing(t) => Removing(t)'
  <2> SUFFICES ASSUME NEW t \in Tasks, Removing(t) PROVE Removing(t)'
    OBVIOUS
  <2>1. task'[t] = task[t]
    BY <1>3, <1>4
  <2>2. \A v \in Views' : v \cap Roles!Managed = Worn
    BY DEF Removing
  <2> QED  BY <2>1, <2>2 DEF Removing
<1>6. \A t \in Tasks : Adding(t) => Adding(t)'
  BY <1>1, <1>3, <1>4
<1>7. \A t \in Tasks : Adding(t)' => Adding(t)
  <2> SUFFICES ASSUME NEW t \in Tasks, Adding(t)' PROVE Adding(t)
    OBVIOUS
  <2>1. ~Plain(t)'
    <3>1. level' \in Roles!Managed /\ Roles!Other \notin Roles!Managed
      BY StatusRoles DEF RoleTypes
    <3>2. task'[t].roles = {level'}
      BY DEF Adding
    <3> QED  BY <3>1, <3>2 DEF Plain
  <2> QED  BY <2>1, <1>1, <1>2
<1>8. Worn = {} /\ Unseen => Unseen'
  BY DEF Unseen
<1>9. \A t \in Tasks : Adding(t) => Worn = {}
  BY DEF Adding
<1>10. OneSync'
  <2>1. \A t \in Tasks : Plain(t)' \/ Removing(t)' \/ Adding(t)'
    BY <1>2, <1>5, <1>6 DEF OneSync
  <2>2. \A s, t \in Tasks : s # t => Plain(s)' \/ Plain(t)'
    BY <1>2 DEF OneSync
  <2>3. \A t \in Tasks : Adding(t)' /\ ~inside' => Unseen'
    BY <1>7, <1>8, <1>9 DEF OneSync
  <2> QED  BY <2>1, <2>2, <2>3 DEF OneSync
<1>11. AtRest'
  BY <1>2, <1>8 DEF AtRest
<1> QED  BY <1>10, <1>11

(* A sync begins.                                                          *)
LEMMA SyncBegins ==
    ASSUME RoleTypes, Latest, NEW t \in Tasks, Roles!StartSync(t, level'), ~disturbed',
           level' \in Roles!Managed, UNCHANGED <<inside, held, heard, gateway>>
    PROVE  OneSync' /\ AtRest'
<1>1. /\ gateway = <<>> /\ heard = held /\ \A s \in Tasks : task[s] = Roles!Nothing
      /\ task' = [task EXCEPT ![t] = Roles!Later({level'}, Roles!Unwanted({level'}))]
  BY DEF Roles!StartSync, Roles!Idle
<1>2. Views' = {held} /\ Worn' = Worn
  BY <1>1, FreshNext DEF Worn
<1>3. \A s \in Tasks : s # t => Plain(s)'
  BY <1>1 DEF RoleTypes, Plain, Roles!Nothing
<1>4. Roles!Unwanted({level'}) = Worn \ {level'}
  BY <1>1 DEF Roles!Unwanted, Worn
<1>5. task'[t] = Roles!Later({level'}, Worn \ {level'})
  BY <1>1, <1>4 DEF RoleTypes
<1>6. CASE Worn \ {level'} # {}
  <2>1. task'[t] = [do |-> "remove", roles |-> Worn \ {level'}, want |-> {level'}]
    BY <1>5, <1>6 DEF Roles!Later
  <2>2. inside
    BY <1>6 DEF Latest, Worn
  <2>3. Removing(t)'
    BY <2>1, <2>2, <1>2, <1>6 DEF Removing, Worn
  <2>4. ~Adding(t)' /\ ~Plain(t)'
    BY <2>1 DEF Adding, Plain
  <2>5. \A s \in Tasks : s # t => ~Adding(s)'
    BY <1>3, StatusRoles DEF Adding, Plain
  <2> QED  BY <1>3, <2>3, <2>4, <2>5 DEF OneSync, AtRest
<1>7. CASE Worn \ {level'} = {} /\ level' \in heard
  <2>1. Worn = {level'}
    BY <1>1, <1>7 DEF Worn
  <2>2. task'[t] = Roles!Nothing
    BY <1>5, <1>7 DEF Roles!Later
  <2>3. \A s \in Tasks : Plain(s)'
    BY <1>3, <2>2 DEF Plain, Roles!Nothing
  <2>4. \A s \in Tasks : ~Adding(s)'
    BY <2>3, StatusRoles DEF Adding, Plain
  <2> QED  BY <2>1, <2>3, <2>4, <1>2 DEF OneSync, AtRest
<1>8. CASE Worn \ {level'} = {} /\ level' \notin heard
  <2>1. Worn = {}
    BY <1>1, <1>8 DEF Worn
  <2>2. task'[t] = [do |-> "add", roles |-> {level'}, want |-> {}]
    BY <1>5, <1>8 DEF Roles!Later
  <2>3. Adding(t)'
    BY <2>1, <2>2, <1>2 DEF Adding
  <2>4. Unseen'
    BY <2>1, <1>2 DEF Unseen, Worn
  <2>5. ~Plain(t)'
    BY <2>2, StatusRoles DEF Plain
  <2> QED  BY <1>3, <2>3, <2>4, <2>5 DEF OneSync, AtRest
<1> QED  BY <1>6, <1>7, <1>8

LEMMA StatusKept ==
    RoleTypes /\ RoleTypes' /\ Latest /\ StatusInv /\ [Roles!Next]_(Roles!vars) => StatusInv'
<1> SUFFICES ASSUME RoleTypes, RoleTypes', Latest, StatusInv, [Roles!Next]_(Roles!vars), ~disturbed'
             PROVE  OneSync' /\ AtRest'
  BY DEF StatusInv
<1> DEFINE Kept == OneSync' /\ AtRest'
<1> USE DEF Roles!member, Roles!bot
<1>t. /\ level \in Roles!Managed /\ level' \in Roles!Managed
      /\ held \in SUBSET All /\ heard \in SUBSET All /\ held' \in SUBSET All
      /\ task \in [Tasks -> [do : {"nothing", "add", "remove"}, roles : SUBSET All,
                             want : SUBSET All]]
  BY DEF RoleTypes
<1>s. ~disturbed => OneSync /\ AtRest
  BY DEF StatusInv
<1>v. ASSUME UNCHANGED <<heard, gateway>> PROVE Views' = Views /\ Joining' = Joining
  BY <1>v DEF Views, Joining
<1>quiet. ASSUME ~disturbed, UNCHANGED <<inside, level, held, heard, gateway>>,
                 \A t \in Tasks : task'[t] = task[t] \/ (Plain(t) /\ Plain(t)'),
                 Worn = {} /\ Unseen /\ Returning => Returning'
          PROVE  Kept
  <2>1. Worn' = Worn /\ Views' = Views
    BY <1>quiet, <1>v DEF Worn
  <2> QED  BY <2>1, <1>quiet, <1>s, StatusUntouched
<1>give. ASSUME NEW h \in SUBSET All, Roles!Gives(h), up, UNCHANGED heard
         PROVE  /\ held' = h /\ (Joining => Joining')
                /\ \A v \in Views' : v \in Views \/ v = h
  <2>1. CASE h = held
    BY <1>give, <2>1, <1>v DEF Roles!Gives
  <2>2. CASE h # held
    <3>1. Roles!Sends("update", h) /\ held' = h
      BY <1>give, <2>2 DEF Roles!Gives
    <3> QED  BY <3>1, <1>give, Told
  <2> QED  BY <2>1, <2>2
<1>noone. \A t \in Tasks : ~Roles!Idle(t) => up
  BY DEF Latest
<1>1. ASSUME NEW t \in Tasks, NEW l \in Roles!Levels, Roles!LevelMoves(t, l) PROVE Kept
  BY <1>1, <1>t, SyncBegins DEF Roles!LevelMoves
<1>2. ASSUME NEW t \in Tasks, Roles!Reconcile(t) PROVE Kept
  BY <1>2, <1>t, SyncBegins DEF Roles!Reconcile
<1>3. ASSUME NEW t \in Tasks, Roles!JoinSync(t) PROVE Kept
  BY <1>3, <1>t, SyncBegins DEF Roles!JoinSync
<1>4. ASSUME NEW t \in Tasks, Roles!Call(t) PROVE Kept
  <2>1. /\ ~disturbed /\ up /\ UNCHANGED <<inside, level, heard, up, boot>>
        /\ \A s \in Tasks : s # t => task'[s] = task[s]
    BY <1>4, <1>t, <1>noone DEF Roles!Call
  <2>2. /\ OneSync /\ AtRest /\ (Plain(t) \/ Removing(t) \/ Adding(t))
        /\ \A s \in Tasks : s # t => Plain(t) \/ Plain(s)
    BY <2>1, <1>s DEF OneSync
  <2>others. ~Plain(t) => \A s \in Tasks : s # t => Plain(s)'
    BY <2>1, <2>2 DEF Plain
  <2>3. CASE ~inside
    <3>1. task'[t] = Roles!Nothing /\ UNCHANGED <<held, gateway>>
      BY <1>4, <1>t, <2>3 DEF Roles!Call
    <3>2. Plain(t)'
      BY <3>1 DEF Plain, Roles!Nothing
    <3>3. CASE Plain(t)
      <4>1. Joining => Joining'
        BY <3>1, <2>1, <1>v
      <4>2. Returning => Returning'
        BY <4>1, <2>1 DEF Returning
      <4> QED  BY <1>quiet, <2>1, <3>1, <3>2, <3>3, <4>2
    <3>4. CASE Adding(t) /\ ~Plain(t)
      <4>1. Worn = {} /\ Unseen
        BY <2>2, <2>3, <3>4 DEF Adding, OneSync
      <4>2. \A s \in Tasks : Plain(s)'
        BY <3>2, <3>4, <2>others
      <4>3. \A s \in Tasks : ~Adding(s)'
        BY <4>2, StatusRoles, <1>t, <2>1 DEF Plain, Adding
      <4>4. Worn' = {} /\ Unseen'
        BY <4>1, <3>1, <2>1, <1>v DEF Worn, Unseen
      <4> QED  BY <2>1, <2>3, <4>2, <4>3, <4>4 DEF OneSync, AtRest, Returning
    <3> QED  BY <2>2, <2>3, <3>3, <3>4 DEF Removing
  <2>4. CASE inside /\ Plain(t)
    <3>1. task[t].roles \subseteq {Roles!Other} /\ task[t].want = {}
      BY <2>4 DEF Plain
    <3>2. Plain(t)'
      <4>1. task'[t] = Roles!Nothing
        BY <1>4, <1>t, <2>4, <3>1 DEF Roles!Call, Roles!Later
      <4> QED  BY <4>1 DEF Plain, Roles!Nothing
    <3>3. \E h \in SUBSET All : Roles!Gives(h) /\ h \cap Roles!Managed = Worn
      <4>1. held \ task[t].roles \in SUBSET All /\ held \cup task[t].roles \in SUBSET All
        BY <1>t
      <4>2. /\ (held \ task[t].roles) \cap Roles!Managed = Worn
            /\ (held \cup task[t].roles) \cap Roles!Managed = Worn
        BY <3>1, StatusRoles DEF Worn
      <4> QED  BY <4>1, <4>2, <1>4, <2>4 DEF Roles!Call
    <3>4. /\ Worn' = Worn /\ (Joining => Joining')
          /\ \A v \in Views' : v \in Views \/ v \cap Roles!Managed = Worn
      BY <3>3, <2>1, <1>give DEF Worn
    <3>5. Returning => Returning'
      BY <3>4, <2>1 DEF Returning
    <3>6. \A s \in Tasks : task'[s] = task[s] \/ (Plain(s) /\ Plain(s)')
      BY <2>1, <2>4, <3>2
    <3> QED  BY <2>1, <2>2, <3>4, <3>5, <3>6, StatusUntouched
  <2>5. CASE inside /\ ~Plain(t) /\ Removing(t)
    <3>1. /\ task[t].do = "remove" /\ task[t].roles = Worn \ {level} /\ task[t].want = {level}
          /\ heard \cap Roles!Managed = Worn
      BY <2>5 DEF Removing, Views
    <3>2. held' = held \ (Worn \ {level})
      <4>1. Roles!Gives(held \ task[t].roles)
        BY <1>4, <2>5, <3>1 DEF Roles!Call
      <4> QED  BY <4>1, <3>1 DEF Roles!Gives
    <3>3. Worn' = Worn \cap {level}
      BY <3>2 DEF Worn
    <3>4. task'[t] = Roles!Later({level}, {})
      BY <1>4, <1>t, <2>5, <3>1 DEF Roles!Call
    <3>5. CASE level \in heard
      <4>1. Worn' = {level'}
        BY <2>1, <3>1, <3>3, <3>5, <1>t
      <4>2. Plain(t)'
        BY <3>4, <3>5 DEF Roles!Later, Plain, Roles!Nothing
      <4>3. \A s \in Tasks : Plain(s)'
        BY <4>2, <2>5, <2>others
      <4>4. \A s \in Tasks : ~Adding(s)'
        BY <4>1 DEF Adding
      <4> QED  BY <4>1, <4>3, <4>4 DEF OneSync, AtRest
    <3>6. CASE level \notin heard
      <4>1. Worn' = {}
        BY <3>1, <3>3, <3>6, <1>t
      <4>2. task'[t] = [do |-> "add", roles |-> {level'}, want |-> {}]
        BY <3>4, <3>6, <2>1 DEF Roles!Later
      <4>3. Adding(t)'
        BY <4>1, <4>2 DEF Adding
      <4>4. ~Plain(t)'
        BY <4>2, <1>t, StatusRoles DEF Plain
      <4> QED  BY <2>1, <2>5, <2>others, <4>3, <4>4 DEF OneSync, AtRest
    <3> QED  BY <3>5, <3>6
  <2>6. CASE inside /\ ~Plain(t) /\ Adding(t)
    <3>1. task[t].do = "add" /\ task[t].roles = {level} /\ Worn = {}
      BY <2>6 DEF Adding
    <3>2. held' = held \cup {level} /\ task'[t] = Roles!Nothing
      BY <1>4, <1>t, <2>6, <3>1 DEF Roles!Call, Roles!Gives
    <3>3. Worn' = {level'}
      BY <2>1, <3>1, <3>2, <1>t DEF Worn
    <3>4. Plain(t)'
      BY <3>2 DEF Plain, Roles!Nothing
    <3>5. \A s \in Tasks : Plain(s)'
      BY <3>4, <2>6, <2>others
    <3>6. \A s \in Tasks : ~Adding(s)'
      BY <3>3 DEF Adding
    <3> QED  BY <3>3, <3>5, <3>6 DEF OneSync, AtRest
  <2> QED  BY <2>2, <2>3, <2>4, <2>5, <2>6
<1>5. ASSUME NEW t \in Tasks, Roles!CallFails(t) PROVE Kept
  BY <1>5 DEF Roles!CallFails
<1>free. ASSUME NEW t \in Tasks, Roles!Free(t) PROVE Plain(t)
  BY <1>free DEF Roles!Free, Roles!Idle, Roles!Nothing, Plain
<1> DEFINE Harmless == {Roles!Nothing, [do |-> "add", roles |-> {Roles!Other}, want |-> {}],
                        [do |-> "remove", roles |-> {Roles!Other}, want |-> {}]}
<1>plain. ASSUME NEW t \in Tasks, Roles!Free(t),
                 \E x \in Harmless : task' = [task EXCEPT ![t] = x]
          PROVE  \A s \in Tasks : task'[s] = task[s] \/ (Plain(s) /\ Plain(s)')
  <2>1. \A x \in Harmless : x.roles \subseteq {Roles!Other} /\ x.want = {}
    BY DEF Roles!Nothing
  <2> HIDE DEF Harmless
  <2>2. Plain(t) /\ task'[t] \in Harmless /\ \A s \in Tasks : s # t => task'[s] = task[s]
    BY <1>plain, <1>free, <1>t
  <2> QED  BY <2>1, <2>2 DEF Plain
<1>6. ASSUME NEW t \in Tasks, Roles!Assign(t, Roles!Other) \/ Roles!Unassign(t, Roles!Other)
      PROVE  Kept
  <2>1. /\ Roles!Free(t) /\ ~disturbed
        /\ UNCHANGED <<inside, level, held, heard, gateway, up, boot>>
    BY <1>6 DEF Roles!Assign, Roles!Unassign
  <2>2. \E x \in Harmless : task' = [task EXCEPT ![t] = x]
    BY <1>6 DEF Roles!Assign, Roles!Unassign
  <2>3. \A s \in Tasks : task'[s] = task[s] \/ (Plain(s) /\ Plain(s)')
    BY <2>1, <2>2, <1>plain
  <2>4. Returning => Returning'
    BY <2>1, <1>v DEF Returning
  <2> QED  BY <2>1, <2>3, <2>4, <1>quiet
<1>7. ASSUME NEW t \in Tasks, Roles!AutoRole(t) PROVE Kept
  <2>1. /\ Roles!Free(t) /\ ~disturbed /\ boot' = boot \ {"autorole"}
        /\ UNCHANGED <<inside, level, held, heard, gateway, up>>
        /\ task' = [task EXCEPT ![t] = [do |-> "add", roles |-> {Roles!Other}, want |-> {}]]
    BY <1>7 DEF Roles!AutoRole
  <2>2. \E x \in Harmless : task' = [task EXCEPT ![t] = x]
    BY <2>1
  <2>4. \A s \in Tasks : task'[s] = task[s] \/ (Plain(s) /\ Plain(s)')
    BY <2>1, <2>2, <1>plain
  <2>3. Returning => Returning'
    BY <2>1, <1>v DEF Returning
  <2> QED  BY <2>1, <2>3, <2>4, <1>quiet
<1>8. ASSUME NEW t \in Tasks, Roles!BackfillNewcomer(t) PROVE Kept
  <2>1. /\ heard \cap Roles!Managed # {} /\ ~disturbed
        /\ UNCHANGED <<inside, level, held, heard, gateway, up, task>>
    BY <1>8 DEF Roles!BackfillNewcomer
  <2>2. ~Unseen
    BY <2>1 DEF Unseen, Views
  <2> QED  BY <2>1, <2>2, <1>quiet
<1>9. ASSUME NEW j \in Jobs, Roles!Hears(j) PROVE Kept
  <2>1. /\ gateway # <<>> /\ gateway' = Tail(gateway) /\ heard' = Head(gateway).roles
        /\ ~disturbed /\ UNCHANGED <<inside, level, held, task, up>>
        /\ boot' = IF Head(gateway).kind = "join" THEN boot \cup {"autorole", "sync"} ELSE boot
    BY <1>9 DEF Roles!Hears
  <2>2. Views' \subseteq Views /\ (Joining /\ Head(gateway).kind # "join" => Joining')
    BY <2>1, Heard
  <2>3. Returning => Returning'
    BY <2>1, <2>2 DEF Returning
  <2>4. Worn' = Worn
    BY <2>1 DEF Worn
  <2> QED  BY <2>1, <2>2, <2>3, <2>4, <1>s, StatusUntouched
<1>10. ASSUME NEW j \in Jobs, Roles!Commit(j) \/ Roles!CommitFails(j) PROVE Kept
  <2>1. ~disturbed /\ UNCHANGED <<inside, level, held, heard, gateway, up, boot, task>>
    BY <1>10 DEF Roles!Commit, Roles!CommitFails
  <2> QED  BY <2>1, <1>v, <1>quiet DEF Returning
<1>11. ASSUME NEW j \in Jobs, Roles!Backfill(j) PROVE Kept
  <2>1. /\ ~disturbed /\ boot' = boot \ {"copy"}
        /\ UNCHANGED <<inside, level, held, heard, gateway, up, task>>
    BY <1>11 DEF Roles!Backfill
  <2> QED  BY <2>1, <1>v, <1>quiet DEF Returning
<1>12. ASSUME Roles!Leaves PROVE Kept
  BY <1>12 DEF Roles!Leaves
<1>13. ASSUME Roles!Joins PROVE Kept
  <2>1. /\ ~inside /\ inside' = TRUE /\ held = {} /\ ~disturbed /\ Roles!Sends("join", {})
        /\ UNCHANGED <<level, held, heard, task, up, boot>>
    BY <1>13 DEF Roles!Joins, Latest
  <2>2. /\ \A v \in Views' : v \in Views \/ v = {}
        /\ up => Joining'
    <3>1. CASE up
      BY <2>1, <3>1, Told
    <3>2. CASE ~up
      BY <2>1, <3>2, <1>v DEF Roles!Sends
    <3> QED  BY <3>1, <3>2
  <2>3. Worn = {} /\ Worn' = {}
    BY <2>1 DEF Worn
  <2>4. \A t \in Tasks : Plain(t) \/ Adding(t)
    BY <2>1, <1>s DEF OneSync, Removing
  <2>5. /\ \A t \in Tasks : Plain(t)' = Plain(t)
        /\ \A t \in Tasks : Adding(t)' = Adding(t)
    BY <2>1, <2>3 DEF Plain, Adding
  <2>6. Unseen => Unseen'
    BY <2>2 DEF Unseen
  <2>7. OneSync'
    BY <2>1, <2>4, <2>5, <1>s DEF OneSync
  <2>8. AtRest'
    BY <2>1, <2>2, <2>3, <2>5, <2>6, <1>s DEF AtRest, Returning
  <2> QED  BY <2>7, <2>8
<1>14. ASSUME Roles!Toggled(Roles!Other) PROVE Kept
  <2>1. ~disturbed /\ inside /\ UNCHANGED <<inside, level, heard, task, up, boot>>
    BY <1>14 DEF Roles!Toggled
  <2>2. \E h \in SUBSET All : Roles!Gives(h) /\ h \cap Roles!Managed = Worn
    <3>1. held \ {Roles!Other} \in SUBSET All /\ held \cup {Roles!Other} \in SUBSET All
      BY <1>t, StatusRoles
    <3>2. /\ (held \ {Roles!Other}) \cap Roles!Managed = Worn
          /\ (held \cup {Roles!Other}) \cap Roles!Managed = Worn
      BY StatusRoles DEF Worn
    <3> QED  BY <3>1, <3>2, <1>14 DEF Roles!Toggled
  <2>3. CASE up
    <3>1. /\ Worn' = Worn /\ (Joining => Joining')
          /\ \A v \in Views' : v \in Views \/ v \cap Roles!Managed = Worn
      BY <2>1, <2>2, <2>3, <1>give DEF Worn
    <3>2. Returning => Returning'
      BY <3>1, <2>1 DEF Returning
    <3> QED  BY <2>1, <3>1, <3>2, <1>s, StatusUntouched
  <2>4. CASE ~up
    <3>1. Worn' = Worn /\ UNCHANGED gateway
      BY <2>2, <2>4 DEF Roles!Gives, Roles!Sends, Worn
    <3>2. Views' = Views /\ Returning'
      BY <2>1, <2>4, <3>1, <1>v DEF Returning
    <3> QED  BY <2>1, <3>1, <3>2, <1>s, StatusUntouched
  <2> QED  BY <2>3, <2>4
<1>15. ASSUME Roles!Toggled(Roles!Newcomer) PROVE Kept
  BY <1>15, StatusRoles DEF Roles!Toggled
<1>16. ASSUME Roles!Crash PROVE Kept
  <2>1. /\ ~disturbed /\ (\A t \in Tasks : task[t].roles \cap Roles!Managed = {})
        /\ up' = FALSE /\ heard' = {} /\ gateway' = <<>> /\ UNCHANGED <<inside, level, held>>
        /\ task' = [t \in Tasks |-> Roles!Nothing]
    BY <1>16 DEF Roles!Crash
  <2>2. \A t \in Tasks : Plain(t)
    <3>1. \A t \in Tasks : ~Removing(t)
      BY <2>1 DEF Removing, Worn
    <3>2. \A t \in Tasks : ~Adding(t)
      BY <2>1, <1>t DEF Adding
    <3> QED  BY <2>1, <3>1, <3>2, <1>s DEF OneSync
  <2>3. \A t \in Tasks : Plain(t)'
    BY <2>1 DEF Plain, Roles!Nothing
  <2>4. \A v \in Views' : v \cap Roles!Managed = {}
    BY <2>1, FreshNext
  <2>5. Worn' = Worn /\ Unseen' /\ Returning'
    BY <2>1, <2>4 DEF Worn, Unseen, Returning
  <2>6. \A t \in Tasks : ~Adding(t)'
    BY <2>3, <1>t, StatusRoles DEF Plain, Adding
  <2> QED  BY <2>1, <2>2, <2>3, <2>5, <2>6, <1>s DEF OneSync, AtRest
<1>17. ASSUME Roles!Restart \/ Roles!Reconnect PROVE Kept
  <2>1. /\ ~disturbed /\ heard' = held /\ gateway' = <<>>
        /\ UNCHANGED <<inside, level, held, task>> /\ (inside => "newcomer" \in boot')
    BY <1>17 DEF Roles!Restart, Roles!Reconnect, Latest
  <2>2. \A v \in Views' : v \cap Roles!Managed = Worn
    BY <2>1, FreshNext DEF Worn
  <2>3. Worn' = Worn /\ Returning'
    BY <2>1 DEF Worn, Returning
  <2> QED  BY <2>1, <2>2, <2>3, <1>s, StatusUntouched
<1>18. ASSUME UNCHANGED Roles!vars PROVE Kept
  <2>1. ~disturbed /\ UNCHANGED <<inside, level, held, heard, gateway, up, boot, task>>
    BY <1>18 DEF Roles!vars
  <2> QED  BY <2>1, <1>v, <1>quiet DEF Returning
<1> QED
  BY <1>1, <1>2, <1>3, <1>4, <1>5, <1>6, <1>7, <1>8, <1>9, <1>10, <1>11, <1>12, <1>13, <1>14,
     <1>15, <1>16, <1>17, <1>18 DEF Roles!Next

RolesInv == RoleTypes /\ Latest /\ StatusInv /\ CopyInv

(* A member has the one status role of their level after a sync that began *)
(* with nothing else under way, whatever other roles come and go; and the  *)
(* panel's copy shows their roles unless transactions overlapped or events *)
(* were missed: for any coroutines, transactions, crashes and reconnects.  *)
THEOREM RolesCorrect == Roles!Spec => []HoldersKept
<1>1. Roles!Init => RolesInv
  <2> SUFFICES ASSUME Roles!Init PROVE RolesInv
    OBVIOUS
  <2>1. /\ inside = TRUE /\ level = Roles!Newcomer /\ held \in {{}, {Roles!Newcomer}}
        /\ heard = held /\ gateway = <<>> /\ row = held /\ up = TRUE
        /\ task = [t \in Tasks |-> Roles!Nothing] /\ job = [j \in Jobs |-> Roles!NoJob]
        /\ disturbed = (held = {})
    BY DEF Roles!Init
  <2>2. RoleTypes
    <3>1. gateway \in Seq(Events)
      BY <2>1
    <3>2. Roles!Nothing \in TaskType
      BY DEF Roles!Nothing, TaskType
    <3> QED  BY <2>1, <3>1, <3>2, StatusRoles DEF RoleTypes, TaskType, Roles!NoJob
  <2>3. Latest
    BY <2>1 DEF Latest
  <2>4. StatusInv
    <3> SUFFICES ASSUME held = {Roles!Newcomer} PROVE OneSync /\ AtRest
      BY <2>1 DEF StatusInv
    <3>1. Worn = {level}
      BY <2>1, StatusRoles DEF Worn
    <3>2. \A t \in Tasks : Plain(t)
      BY <2>1 DEF Plain, Roles!Nothing
    <3>3. \A t \in Tasks : ~Adding(t)
      BY <3>1 DEF Adding
    <3> QED  BY <3>1, <3>2, <3>3 DEF OneSync, AtRest
  <2>5. CopyInv
    BY <2>1 DEF CopyInv
  <2> QED  BY <2>2, <2>3, <2>4, <2>5 DEF RolesInv
<1>2. RolesInv /\ [Roles!Next]_(Roles!vars) => RolesInv'
  BY RoleTypesKept, LatestKept, StatusKept, CopyKept DEF RolesInv
<1>3. RolesInv => HoldersKept
  <2> SUFFICES ASSUME RolesInv, Roles!Quiet
               PROVE  /\ inside /\ ~disturbed => held \cap Roles!Managed = {level}
                      /\ ~astray => row = held
    BY DEF HoldersKept, Roles!HoldersKept, Roles!OneStatusAlone, Roles!CopyOfHeldAlone
  <2>1. /\ up /\ boot = {} /\ gateway = <<>> /\ heard = held
        /\ \A t \in Tasks : task[t] = Roles!Nothing
        /\ \A j \in Jobs : job[j] = Roles!NoJob
    BY DEF Roles!Quiet, Roles!Idle, RolesInv, Latest
  <2>2. ~astray => row = held
    BY <2>1 DEF RolesInv, CopyInv
  <2>3. ASSUME inside, ~disturbed PROVE held \cap Roles!Managed = {level}
    <3>1. \A t \in Tasks : Plain(t)
      BY <2>1 DEF Plain, Roles!Nothing
    <3>2. ~Returning
      BY <2>1, <2>3, Fresh DEF Returning
    <3> QED  BY <2>3, <3>1, <3>2 DEF RolesInv, StatusInv, AtRest, Worn
  <2> QED  BY <2>2, <2>3
<1> QED  BY <1>1, <1>2, <1>3, PTL DEF Roles!Spec
-----------------------------------------------------------------------------
(* The bridge with executors that may outlive their lease. Its proof is    *)
(* that of CommandBridgeProofs, for ExecutorsWithinLease = FALSE: the two   *)
(* instances are the same specification.                                   *)
Bridge == INSTANCE CommandBridgeProofs WITH
    Commands <- Rows, NonIdempotent <- Delicate, MaxAttempts <- Tries, BatchLimit <- Limit,
    ExecutorsWithinLease <- FALSE, MaxFaults <- MaxBridgeFaults,
    status <- state, attempts <- claims, up <- alive, pc <- at, faults <- bridgeFaults

LEMMA BridgeAssumed == Bridge!CommandsAssumption /\ Bridge!ParametersAssumption
<1>1. Bridge!IsFiniteSet(Rows)
  BY PanelAssumption DEF Bridge!IsFiniteSet, IsFiniteSet
<1> QED  BY <1>1, PanelAssumption DEF Bridge!CommandsAssumption, Bridge!ParametersAssumption

LEMMA SameCoroutines ==
    /\ Slow!Sweepers = Bridge!Sweepers /\ Slow!Worker = Bridge!Worker
    /\ Slow!Listen = Bridge!Listen /\ Slow!Sweep = Bridge!Sweep
  BY DEF Slow!Worker, Bridge!Worker, Slow!Sweepers, Bridge!Sweepers, Slow!NotifyTask,
       Bridge!NotifyTask, Slow!Listen, Bridge!Listen, Slow!Sweep, Bridge!Sweep

LEMMA SameBatch == ASSUME NEW S PROVE Slow!Batch(S) = Bridge!Batch(S)
<1>1. ASSUME NEW T PROVE Slow!Cardinality(T) = Bridge!Cardinality(T)
  BY DEF Slow!Cardinality, Bridge!Cardinality
<1> QED  BY <1>1 DEF Slow!Batch, Bridge!Batch

LEMMA SameStart == Slow!Init => Bridge!Init
  BY SameCoroutines DEF Slow!Init, Bridge!Init, Slow!NoCommand, Bridge!NoCommand

LEMMA SameSteps == [Slow!Next]_(Slow!vars) => [Bridge!Next]_(Bridge!vars)
<1> USE SameCoroutines
      DEF Slow!row, Bridge!row, Slow!link, Bridge!link, Slow!local, Bridge!local,
           Slow!Terminal, Bridge!Terminal, Slow!NoCommand, Bridge!NoCommand
<1>1. ASSUME NEW c PROVE Slow!Enqueue(c) = Bridge!Enqueue(c)
  BY DEF Slow!Enqueue, Bridge!Enqueue
<1>2. ASSUME NEW c PROVE Slow!Answer(c) = Bridge!Answer(c)
  BY DEF Slow!Answer, Bridge!Answer
<1>3. ASSUME NEW c PROVE Slow!DeliverNotify(c) = Bridge!DeliverNotify(c)
  BY DEF Slow!DeliverNotify, Bridge!DeliverNotify, Slow!NotifyTask, Bridge!NotifyTask
<1>4. ASSUME NEW c PROVE Slow!LeaseExpires(c) = Bridge!LeaseExpires(c)
  BY DEF Slow!LeaseExpires, Bridge!LeaseExpires, Slow!Executing, Bridge!Executing
<1>5. ASSUME NEW s PROVE Slow!RecoverRow(s) = Bridge!RecoverRow(s)
  BY DEF Slow!RecoverRow, Bridge!RecoverRow, Slow!Recovered, Bridge!Recovered,
       Slow!StillRunning, Bridge!StillRunning
<1>6. ASSUME NEW s PROVE Slow!SelectPending(s) = Bridge!SelectPending(s)
  BY SameBatch DEF Slow!SelectPending, Bridge!SelectPending
<1>7. ASSUME NEW w PROVE Slow!Claim(w) = Bridge!Claim(w)
  BY DEF Slow!Claim, Bridge!Claim, Slow!Claimable, Bridge!Claimable
<1>8. ASSUME NEW w PROVE Slow!Execute(w) = Bridge!Execute(w)
  BY DEF Slow!Execute, Bridge!Execute, Slow!Returns, Bridge!Returns
<1>9. ASSUME NEW w PROVE Slow!Finish(w) = Bridge!Finish(w)
  BY DEF Slow!Finish, Bridge!Finish
<1>10. ASSUME NEW w PROVE Slow!EndWork(w) = Bridge!EndWork(w)
  BY DEF Slow!EndWork, Bridge!EndWork
<1>11. ASSUME NEW w PROVE Slow!DatabaseError(w) = Bridge!DatabaseError(w)
  BY DEF Slow!DatabaseError, Bridge!DatabaseError, Slow!Fault, Bridge!Fault
<1>12. Slow!StaleRows = Bridge!StaleRows
  BY SameBatch DEF Slow!StaleRows, Bridge!StaleRows
<1>13. ASSUME NEW s PROVE Slow!StartRecovery(s) = Bridge!StartRecovery(s)
  BY <1>12 DEF Slow!StartRecovery, Bridge!StartRecovery
<1>14. Slow!SweepTick = Bridge!SweepTick
  BY <1>13 DEF Slow!SweepTick, Bridge!SweepTick
<1>15. Slow!Reconnect = Bridge!Reconnect
  BY <1>13 DEF Slow!Reconnect, Bridge!Reconnect
<1>16. Slow!Crash = Bridge!Crash
  BY DEF Slow!Crash, Bridge!Crash, Slow!Fault, Bridge!Fault
<1>17. Slow!Restart = Bridge!Restart
  BY DEF Slow!Restart, Bridge!Restart
<1>18. Slow!Disconnect = Bridge!Disconnect
  BY DEF Slow!Disconnect, Bridge!Disconnect, Slow!Fault, Bridge!Fault
<1>19. UNCHANGED Slow!vars => UNCHANGED Bridge!vars
  BY DEF Slow!vars, Bridge!vars
<1>20. ASSUME NEW w PROVE Slow!Step(w) = Bridge!Step(w)
  BY <1>7, <1>8, <1>9, <1>10 DEF Slow!Step, Bridge!Step
<1>21. ASSUME Slow!Next PROVE Bridge!Next
  <2>1. CASE \E c \in Rows : Slow!Enqueue(c) \/ Slow!Answer(c) \/ Slow!DeliverNotify(c)
                             \/ Slow!LeaseExpires(c)
    BY <2>1, <1>1, <1>2, <1>3, <1>4 DEF Bridge!Next
  <2>2. CASE \E s \in Slow!Sweepers : Slow!RecoverRow(s) \/ Slow!SelectPending(s)
    BY <2>2, <1>5, <1>6 DEF Bridge!Next
  <2>3. CASE \E w \in Slow!Worker : Slow!Step(w) \/ Slow!DatabaseError(w)
    BY <2>3, <1>20, <1>11 DEF Bridge!Next
  <2>4. CASE \/ Slow!SweepTick \/ Slow!Reconnect \/ Slow!Crash \/ Slow!Restart
             \/ Slow!Disconnect
    BY <2>4, <1>14, <1>15, <1>16, <1>17, <1>18 DEF Bridge!Next
  <2> QED  BY <1>21, <2>1, <2>2, <2>3, <2>4 DEF Slow!Next
<1> QED  BY <1>19, <1>21

(* Whatever crashes, reconnects and sweeps do while an executor outlives   *)
(* its lease, a non-idempotent command acts once at most.                  *)
THEOREM SlowOnce == Slow!Spec => []SlowActsOnce
<1>1. Bridge!NonIdempotentAtMostOnce => SlowActsOnce
  BY DEF Bridge!NonIdempotentAtMostOnce, Slow!NonIdempotentAtMostOnce, SlowActsOnce
<1> QED
  BY <1>1, SameStart, SameSteps, BridgeAssumed, Bridge!AtMostOnce, PTL DEF Slow!Spec, Bridge!Spec
-----------------------------------------------------------------------------
(* The poll of the news, for every number of games, items and additions.   *)
(* There are items, and a poll announces some.                             *)
NewsNumbers == MaxItems \in Nat \ {0} /\ MaxAdds \in Nat /\ PerCycle \in Nat \ {0}

Below(page, n) == {m \in page : m <= n}
Increasing(s) == \A i, j \in DOMAIN s : i < j => s[i] < s[j]

(* An item of a page is counted by those that are not newer.               *)
LEMMA PageFinite ==
  ASSUME MaxItems \in Nat, NEW page \in SUBSET (1 .. MaxItems)
  PROVE  /\ IsFiniteSet(page) /\ Cardinality(page) \in Nat /\ page \subseteq Nat
         /\ \A n \in page : /\ Cardinality(Below(page, n)) \in 1 .. Cardinality(page)
                            /\ Cardinality(Below(page, n)) = Cardinality(page)
                                 => Below(page, n) = page
         /\ \A m, n \in page :
              m < n => Cardinality(Below(page, m)) < Cardinality(Below(page, n))
<1>1. IsFiniteSet(1 .. MaxItems)
  BY FS_Interval
<1>2. IsFiniteSet(page) /\ Cardinality(page) \in Nat /\ page \subseteq Nat
  <2>1. IsFiniteSet(page)
    BY <1>1, FS_Subset
  <2>2. Cardinality(page) \in Nat
    BY <2>1, FS_CardinalityType
  <2> QED
    BY <2>1, <2>2
<1>3. ASSUME NEW n \in page
      PROVE  /\ IsFiniteSet(Below(page, n))
             /\ Cardinality(Below(page, n)) \in 1 .. Cardinality(page)
             /\ Cardinality(Below(page, n)) = Cardinality(page) => Below(page, n) = page
  <2>1. Below(page, n) \in SUBSET page /\ n \in Below(page, n)
    BY <1>2 DEF Below
  <2>2. /\ IsFiniteSet(Below(page, n)) /\ Cardinality(Below(page, n)) \in Nat
        /\ Cardinality(Below(page, n)) <= Cardinality(page)
        /\ Cardinality(Below(page, n)) = Cardinality(page) => Below(page, n) = page
    BY <1>2, <2>1, FS_Subset, FS_CardinalityType
  <2>3. Cardinality(Below(page, n)) # 0
    BY <2>1, <2>2, FS_EmptySet
  <2> QED
    BY <1>2, <2>2, <2>3
<1>4. ASSUME NEW m \in page, NEW n \in page, m < n
      PROVE  Cardinality(Below(page, m)) < Cardinality(Below(page, n))
  <2>1. /\ \A x \in page : x <= m => x <= n
        /\ n <= n /\ ~(n <= m)
    BY <1>2, <1>4
  <2>2. Below(page, m) \in SUBSET Below(page, n) /\ n \in Below(page, n) /\ n \notin Below(page, m)
    BY <2>1 DEF Below
  <2>3. /\ Cardinality(Below(page, m)) <= Cardinality(Below(page, n))
        /\ Cardinality(Below(page, m)) # Cardinality(Below(page, n))
    BY <1>3, <2>2, FS_Subset
  <2> QED
    BY <1>2, <1>3, <2>3
<1> QED
  BY <1>2, <1>3, <1>4

(* No two items have the same count, so every count has its item.          *)
LEMMA Counted ==
  ASSUME MaxItems \in Nat, NEW page \in SUBSET (1 .. MaxItems),
         NEW i \in 1 .. Cardinality(page)
  PROVE  \E n \in page : Cardinality(Below(page, n)) = i
<1> DEFINE N == Cardinality(page)
           rank == [n \in page |-> Cardinality(Below(page, n))]
<1>1. IsFiniteSet(1 .. N) /\ Cardinality(1 .. N) = N
  <2>1. N \in Nat
    BY PageFinite
  <2> HIDE DEF N
  <2> QED
    BY <2>1, FS_Interval
<1>2. rank \in [page -> 1 .. N]
  BY PageFinite
<1>3. ASSUME NEW m \in page, NEW n \in page, rank[m] = rank[n] PROVE m = n
  BY <1>3, PageFinite
<1>4. rank \in Injection(page, 1 .. N)
  BY <1>2, <1>3 DEF Injection, IsInjective
<1>5. rank \in Surjection(page, 1 .. N)
  BY <1>1, <1>4, PageFinite, FS_Injection
<1> QED
  BY <1>5 DEF Surjection

(* Cardinality is one function, whoever EXTENDs FiniteSets.                *)
LEMMA SameSize == ASSUME NEW S PROVE Posts!Cardinality(S) = Cardinality(S)
BY Zenon DEF Posts!Cardinality, Cardinality

(* Hence every page can be put in order.                                   *)
LEMMA InOrder ==
  ASSUME MaxItems \in Nat, NEW page \in SUBSET (1 .. MaxItems)
  PROVE  /\ Posts!Ordered(page) \in Seq(page)
         /\ Increasing(Posts!Ordered(page))
<1> DEFINE N == Cardinality(page)
           s == [i \in 1 .. N |-> CHOOSE n \in page : Cardinality(Below(page, n)) = i]
<1>1. ASSUME NEW i \in 1 .. N PROVE s[i] \in page /\ Cardinality(Below(page, s[i])) = i
  BY Counted
<1>2. s \in [1 .. N -> page]
  BY <1>1
<1>3. ASSUME NEW i \in 1 .. N, NEW j \in 1 .. N, i < j PROVE s[i] < s[j]
  <2> HIDE DEF s
  <2>1. s[i] \in page /\ s[j] \in page /\ s[i] \in Nat /\ s[j] \in Nat
    BY <1>1, PageFinite
  <2>2. CASE s[j] < s[i]
    BY <1>1, <1>3, <2>1, <2>2, PageFinite
  <2>3. CASE s[j] = s[i]
    BY <1>1, <1>3, <2>3, PageFinite
  <2> QED
    BY <2>1, <2>2, <2>3
<1>4. \E f \in [1 .. N -> page] : \A i, j \in DOMAIN f : i < j => f[i] < f[j]
  BY <1>2, <1>3, Zenon
<1>5. Posts!Ordered(page) \in [1 .. N -> page] /\ Increasing(Posts!Ordered(page))
  BY <1>4, SameSize, Zenon DEF Posts!Ordered, Increasing
<1> QED
  BY <1>5, PageFinite

(* And has a latest item.                                                  *)
LEMMA LatestIs ==
  ASSUME MaxItems \in Nat, NEW page \in SUBSET (1 .. MaxItems)
  PROVE  Posts!Latest(page) \in 0 .. MaxItems
<1>1. CASE page = {}
  BY <1>1 DEF Posts!Latest
<1>2. CASE page # {}
  <2>1. Cardinality(page) \in 1 .. Cardinality(page)
    <3>1. PICK m \in page : TRUE
      BY <1>2
    <3>2. Cardinality(Below(page, m)) \in 1 .. Cardinality(page) /\ Cardinality(page) \in Nat
      BY PageFinite
    <3> QED
      BY <3>2
  <2>2. PICK n \in page : Cardinality(Below(page, n)) = Cardinality(page)
    BY <2>1, Counted
  <2>3. Below(page, n) = page
    BY <2>2, PageFinite
  <2>4. \E x \in page : \A m \in page : m <= x
    BY <2>3 DEF Below
  <2>5. Posts!Latest(page) \in page
    BY <1>2, <2>4 DEF Posts!Latest
  <2> HIDE DEF Posts!Latest
  <2>6. Posts!Latest(page) \in 1 .. MaxItems
    BY <2>5
  <2> QED
    BY <2>6
<1> QED
  BY <1>1, <1>2

(* The end of an ordered page is in order.                                 *)
LEMMA NewestInOrder ==
  ASSUME PerCycle \in Nat \ {0}, NEW S \in SUBSET Nat, NEW s \in Seq(S), s # <<>>,
         Increasing(s)
  PROVE  /\ Posts!Newest(s) \in Seq(S) /\ Posts!Newest(s) # <<>>
         /\ Increasing(Posts!Newest(s))
<1>1. Len(s) \in Nat \ {0}
  OBVIOUS
<1>2. CASE Len(s) <= PerCycle
  BY <1>2 DEF Posts!Newest
<1>3. CASE ~(Len(s) <= PerCycle)
  <2> DEFINE d == Len(s) - PerCycle
             w == SubSeq(s, d + 1, Len(s))
  <2>1. d \in Nat /\ d + PerCycle = Len(s) /\ d > 0
    BY <1>1, <1>3
  <2>2. Posts!Newest(s) = w
    BY <1>3 DEF Posts!Newest
  <2>3. w \in Seq(S) /\ Len(w) = PerCycle /\ \A i \in 1 .. PerCycle : w[i] = s[i + d]
    BY <1>1, <2>1
  <2> HIDE DEF d, w
  <2>4. \A i, j \in 1 .. PerCycle : i < j => w[i] < w[j]
    <3> SUFFICES ASSUME NEW i \in 1 .. PerCycle, NEW j \in 1 .. PerCycle, i < j
                 PROVE  w[i] < w[j]
      OBVIOUS
    <3>1. i + d \in DOMAIN s /\ j + d \in DOMAIN s /\ i + d < j + d
      BY <1>1, <2>1
    <3> QED
      BY <2>3, <3>1 DEF Increasing
  <2>5. DOMAIN w = 1 .. PerCycle
    BY <2>3
  <2> QED
    BY <2>2, <2>3, <2>4, <2>5 DEF Increasing
<1> QED
  BY <1>2, <1>3

-----------------------------------------------------------------------------
RowSet ==
    [id : Posts!Threads, game : Games, mark : 0 .. MaxItems, etag : SUBSET SUBSET Posts!Items]
UpdateSet == [row : RowSet, fresh : Seq(Posts!Items), etag : SUBSET SUBSET Posts!Items]
AdderSet ==
    [at : {"idle", "thread", "row"}, game : Games \cup {CHOOSE g \in Games : TRUE},
     base : 0 .. MaxItems, thread : 0 .. MaxAdds]

NewsTypes ==
    /\ feed \in [Games -> SUBSET Posts!Items]
    /\ rows \subseteq RowSet /\ ahead \subseteq RowSet
    /\ told \in [Posts!Threads -> Seq(Posts!Items)]
    /\ poll \in {"sleep", "fetch", "send", "mark"}
    /\ poll # "fetch" => ahead = {}
    /\ updates \in Seq(UpdateSet) /\ (poll = "mark" => updates # <<>>)
    /\ etags \subseteq Posts!Threads \X SUBSET Posts!Items
    /\ adder \in [Adders -> AdderSet] /\ adds \in 0 .. MaxAdds
    /\ \A a \in Adders : adder[a].at # "idle" => adder[a].game \in Games

(* A thread no row, no item found and nothing posted belongs to.           *)
Unposted(t) ==
    /\ told[t] = <<>>
    /\ \A r \in rows \cup ahead : r.id # t
    /\ \A k \in DOMAIN updates : updates[k].row.id # t

(* A thread belongs to one addition until it has a row.                    *)
NewThreads ==
    /\ \A t \in Posts!Threads : t > adds => Unposted(t)
    /\ \A a \in Adders : adder[a].at # "idle" =>
        adder[a].thread \in 1 .. adds /\ Unposted(adder[a].thread)
    /\ \A a, b \in Adders :
        adder[a].at # "idle" /\ adder[b].at # "idle" /\ adder[a].thread = adder[b].thread
          => a = b

(* A row is listed once, and what is found of it is one update.            *)
EachOnce ==
    /\ \A r, q \in rows : r.id = q.id => r = q
    /\ \A r, q \in ahead : r.id = q.id => r = q
    /\ \A r \in ahead, k \in DOMAIN updates : updates[k].row.id # r.id
    /\ \A j, k \in DOMAIN updates : updates[j].row.id = updates[k].row.id => j = k

(* The item that has been sent and not marked.                             *)
Due(t, n) == poll = "mark" /\ t = Posts!Now.row.id /\ n = Posts!Item

(* What has been posted to t is not newer than m, but for what has lost    *)
(* its mark and what is about to get one.                                  *)
Reached(t, m) ==
    \A i \in DOMAIN told[t] :
        told[t][i] <= m \/ <<t, told[t][i]>> \in unkept \/ Due(t, told[t][i])


(* A row's mark is not behind its thread; what is left of an update is in  *)
(* order and newer than all that its thread has been told.                 *)
RowsReached == \A r \in rows \cup ahead : Reached(r.id, r.mark)
Coming ==
    \A k \in DOMAIN updates :
        /\ updates[k].fresh # <<>> /\ Increasing(updates[k].fresh)
        /\ Reached(updates[k].row.id, Head(updates[k].fresh) - 1)

NewsInv ==
    /\ NewsNumbers /\ NewsTypes /\ NewThreads /\ EachOnce /\ RowsReached /\ Coming
    /\ Posts!AnnouncedOnce

(* What is found of a row is in order, and newer than its mark.            *)
LEMMA FetchedUpdate ==
  ASSUME NewsNumbers, NewsTypes, NEW r \in RowSet,
         Posts!Ordered({n \in feed[r.game] : n > r.mark}) # <<>>
  PROVE  LET fresh == Posts!Newest(Posts!Ordered({n \in feed[r.game] : n > r.mark}))
         IN  /\ Posts!Update(r, fresh) \in UpdateSet
             /\ Posts!Update(r, fresh).row = r /\ Posts!Update(r, fresh).fresh = fresh
             /\ fresh # <<>> /\ Increasing(fresh) /\ Head(fresh) \in Nat /\ Head(fresh) > r.mark
<1> DEFINE page == {n \in feed[r.game] : n > r.mark}
           o == Posts!Ordered(page)
           fresh == Posts!Newest(o)
<1>1. r.game \in Games /\ r.mark \in 0 .. MaxItems /\ feed[r.game] \in SUBSET Posts!Items
  BY DEF RowSet, NewsTypes
<1>2. page \in SUBSET (1 .. MaxItems) /\ page \subseteq Nat
  BY <1>1 DEF Posts!Items
<1>3. o \in Seq(page) /\ Increasing(o)
  <2> HIDE DEF page
  <2> QED
    BY <1>2, InOrder DEF NewsNumbers
<1>4. fresh \in Seq(page) /\ fresh # <<>> /\ Increasing(fresh)
  <2> HIDE DEF page, o
  <2>1. o # <<>>
    BY DEF o, page
  <2> QED
    BY <1>2, <1>3, <2>1, NewestInOrder DEF NewsNumbers
<1>5. Head(fresh) \in page /\ fresh \in Seq(Posts!Items)
  <2>1. page \subseteq Posts!Items
    BY <1>2 DEF Posts!Items
  <2> HIDE DEF page, fresh
  <2> QED
    BY <1>4, <2>1
<1> HIDE DEF fresh, o
<1>6. /\ Posts!Update(r, fresh) \in UpdateSet
      /\ Posts!Update(r, fresh).row = r /\ Posts!Update(r, fresh).fresh = fresh
  <2>1. feed[r.game] \in SUBSET Posts!Items
    BY <1>1
  <2>2. (IF Posts!Conditional THEN {feed[r.game]} ELSE {}) \in SUBSET SUBSET Posts!Items
    BY <2>1
  <2> QED
    BY <1>5, <2>2 DEF Posts!Update, UpdateSet
<1> QED
  BY <1>1, <1>2, <1>4, <1>5, <1>6 DEF fresh, o

(* The update and the item that come next.                                 *)
LEMMA NowIs ==
  ASSUME NewsTypes, Coming, updates # <<>>
  PROVE  /\ 1 \in DOMAIN updates /\ updates[1] = Posts!Now /\ Posts!Now \in UpdateSet
         /\ Posts!Now.fresh \in Seq(Posts!Items) /\ Posts!Now.fresh # <<>>
         /\ Posts!Item \in Posts!Items /\ Increasing(Posts!Now.fresh)
         /\ Posts!Item = Posts!Now.fresh[1] /\ 1 \in DOMAIN Posts!Now.fresh
<1>1. 1 \in DOMAIN updates /\ updates[1] = Posts!Now /\ Posts!Now \in UpdateSet
  BY DEF NewsTypes, Posts!Now
<1>2. Posts!Now.fresh \in Seq(Posts!Items) /\ Posts!Now.fresh # <<>> /\ Increasing(Posts!Now.fresh)
  BY <1>1 DEF UpdateSet, Coming
<1>3. Posts!Item = Posts!Now.fresh[1] /\ 1 \in DOMAIN Posts!Now.fresh
  BY <1>2 DEF Posts!Item
<1> QED
  BY <1>1, <1>2, <1>3

(* What a mark leaves of the first update.                                 *)
LEMMA Shortened ==
  ASSUME NewsTypes, Coming, updates # <<>>
  PROVE  LET next == [updates EXCEPT ![1].fresh = Tail(@)]
         IN  /\ next \in Seq(UpdateSet) /\ DOMAIN next = DOMAIN updates
             /\ \A k \in DOMAIN updates : next[k].row = updates[k].row
             /\ \A k \in DOMAIN updates \ {1} : next[k] = updates[k]
             /\ next[1].fresh = Tail(Posts!Now.fresh)
<1> DEFINE head == [updates[1] EXCEPT !.fresh = Tail(@)]
           next == [updates EXCEPT ![1] = head]
<1>1. updates \in Seq(UpdateSet) /\ 1 \in DOMAIN updates
  BY NowIs DEF NewsTypes
<1>2. head \in UpdateSet /\ head.row = updates[1].row /\ head.fresh = Tail(Posts!Now.fresh)
  <2>1. Tail(Posts!Now.fresh) \in Seq(Posts!Items)
    BY NowIs
  <2> QED
    BY <2>1, NowIs DEF UpdateSet
<1> HIDE DEF head
<1>3. /\ next \in Seq(UpdateSet) /\ DOMAIN next = DOMAIN updates
      /\ \A k \in DOMAIN updates \ {1} : next[k] = updates[k]
      /\ next[1] = head
  BY <1>1, <1>2
<1>4. \A k \in DOMAIN updates : next[k].row = updates[k].row
  BY <1>2, <1>3
<1>5. next = [updates EXCEPT ![1].fresh = Tail(@)]
  BY DEF head
<1> QED
  BY <1>2, <1>3, <1>4, <1>5

(* Steps preserve the types.                                               *)
LEMMA NewsTypesStep ==
  ASSUME NewsInv, [Posts!Next]_(Posts!newsVars)
  PROVE  NewsTypes'
<1> USE DEF NewsInv, NewsNumbers, Posts!polling
<1> SUFFICES ASSUME NewsTypes PROVE NewsTypes'
  OBVIOUS
<1>1. CASE UNCHANGED Posts!newsVars
  BY <1>1 DEF Posts!newsVars, NewsTypes
<1>2. ASSUME NEW g \in Games, NEW n \in Posts!Items, Posts!Publish(g, n) PROVE NewsTypes'
  BY <1>2 DEF Posts!Publish, NewsTypes
<1>3. ASSUME NEW g \in Games, NEW a \in Adders, Posts!Add(a, g) PROVE NewsTypes'
  <2>1. Posts!Latest(feed[g]) \in 0 .. MaxItems
    BY LatestIs DEF NewsTypes, Posts!Items
  <2>2. adds' \in 0 .. MaxAdds
    BY <1>3 DEF Posts!Add, NewsTypes
  <2>3. PICK s \in AdderSet : adder' = [adder EXCEPT ![a] = s] /\ s.at # "idle" /\ s.game \in Games
    <3>1. PICK b \in 0 .. MaxItems : adder' = [adder EXCEPT ![a] =
              [at |-> "thread", game |-> g, base |-> b, thread |-> adds']]
      BY <1>3, <2>1 DEF Posts!Add, Posts!Step
    <3>2. [at |-> "thread", game |-> g, base |-> b, thread |-> adds'] \in AdderSet
      BY <2>2 DEF AdderSet
    <3> QED
      BY <3>1, <3>2
  <2> QED
    BY <1>3, <2>2, <2>3 DEF Posts!Add, NewsTypes
<1>4. ASSUME NEW a \in Adders, Posts!Create(a) PROVE NewsTypes'
  <2>1. Posts!NoAdd(a) \in AdderSet /\ Posts!NoAdd(a).at = "idle"
    BY DEF Posts!NoAdd, AdderSet
  <2>2. /\ [adder[a] EXCEPT !.at = "row"] \in AdderSet
        /\ [adder[a] EXCEPT !.at = "row"].game = adder[a].game
    BY DEF AdderSet, NewsTypes
  <2>3. PICK s \in AdderSet : /\ adder' = [adder EXCEPT ![a] = s]
                              /\ s.at # "idle" => s.game \in Games
    BY <1>4, <2>1, <2>2 DEF Posts!Create, Posts!Step, NewsTypes
  <2> QED
    BY <1>4, <2>3 DEF Posts!Create, NewsTypes
<1>5. ASSUME NEW a \in Adders, Posts!Insert(a) PROVE NewsTypes'
  <2>1. Posts!NoAdd(a) \in AdderSet /\ Posts!NoAdd(a).at = "idle"
    BY DEF Posts!NoAdd, AdderSet
  <2>2. adder' = [adder EXCEPT ![a] = Posts!NoAdd(a)] /\ adder[a].at = "row"
    BY <1>5 DEF Posts!Insert, Posts!Step
  <2>3. /\ adder[a].thread \in Posts!Threads /\ adder[a].game \in Games
        /\ adder[a].base \in 0 .. MaxItems
    <3>1. adder[a].at # "idle"
      BY <2>2
    <3> QED
      BY <3>1 DEF NewThreads, NewsTypes, Posts!Threads, AdderSet
  <2>4. [id |-> adder[a].thread, game |-> adder[a].game, mark |-> adder[a].base, etag |-> {}]
          \in RowSet
    BY <2>3 DEF RowSet
  <2>5. rows' \subseteq RowSet
    BY <1>5, <2>4 DEF Posts!Insert, NewsTypes
  <2> QED
    BY <1>5, <2>1, <2>2, <2>5 DEF Posts!Insert, NewsTypes
<1>6. ASSUME NEW r \in rows, Posts!Untrack(r) PROVE NewsTypes'
  BY <1>6 DEF Posts!Untrack, NewsTypes
<1>7. ASSUME NEW r \in ahead, Posts!Fetch(r) PROVE NewsTypes'
  <2>1. r \in RowSet
    BY DEF NewsTypes
  <2>2. Posts!Seen(r) \subseteq Posts!Threads \X SUBSET Posts!Items
    BY <2>1 DEF Posts!Seen, NewsTypes, RowSet
  <2> DEFINE o == Posts!Ordered({n \in feed[r.game] : n > r.mark})
             u == Posts!Update(r, Posts!Newest(o))
  <2>3. o # <<>> => u \in UpdateSet
    BY <2>1, FetchedUpdate
  <2>4. /\ updates' = updates \/ (o # <<>> /\ updates' = Append(updates, u))
        /\ etags' = etags \/ etags' = etags \cup Posts!Seen(r)
        /\ ahead' = ahead \ {r}
    BY <1>7 DEF Posts!Fetch
  <2> HIDE DEF o, u
  <2>5. updates' \in Seq(UpdateSet) /\ etags' \subseteq Posts!Threads \X SUBSET Posts!Items
    <3>1. updates \in Seq(UpdateSet) /\ etags \subseteq Posts!Threads \X SUBSET Posts!Items
      BY DEF NewsTypes
    <3>2. CASE updates' = updates
      BY <2>2, <2>4, <3>1, <3>2
    <3>3. CASE o # <<>> /\ updates' = Append(updates, u)
      <4>1. Append(updates, u) \in Seq(UpdateSet)
        BY <2>3, <3>1, <3>3
      <4> QED
        BY <2>2, <2>4, <3>1, <3>3, <4>1
    <3> QED
      BY <2>4, <3>2, <3>3
  <2> QED
    BY <1>7, <2>4, <2>5 DEF Posts!Fetch, NewsTypes
<1>8. ASSUME NEW r \in ahead, Posts!FetchFails(r) PROVE NewsTypes'
  BY <1>8 DEF Posts!FetchFails, NewsTypes
<1>9. CASE Posts!Poll
  BY <1>9 DEF Posts!Poll, NewsTypes
<1>10. CASE Posts!Floor
  BY <1>10 DEF Posts!Floor, NewsTypes
<1>11. CASE Posts!Fetched
  <2>1. ASSUME NEW r \in rows
        PROVE  [r EXCEPT !.etag = {e[2] : e \in {d \in etags : d[1] = r.id}}] \in RowSet
    <3>1. {e[2] : e \in {d \in etags : d[1] = r.id}} \in SUBSET SUBSET Posts!Items
      BY DEF NewsTypes
    <3>2. r \in RowSet
      BY DEF NewsTypes
    <3> QED
      BY <3>1, <3>2 DEF RowSet
  <2>2. rows' \subseteq RowSet
    BY <1>11, <2>1 DEF Posts!Fetched, NewsTypes
  <2> QED
    BY <1>11, <2>2 DEF Posts!Fetched, NewsTypes
<1>12. CASE Posts!Send
  <2>1. CASE poll' = "mark"
    <3>1. updates # <<>>
      BY <1>12 DEF Posts!Send
    <3>2. Posts!Now.row.id \in Posts!Threads /\ Posts!Item \in Posts!Items
      BY <3>1, NowIs DEF UpdateSet, RowSet
    <3>3. /\ told' = [told EXCEPT ![Posts!Now.row.id] = Append(@, Posts!Item)]
          /\ UNCHANGED <<rows, feed, ahead, etags, adder, adds, updates>>
      BY <1>12, <2>1 DEF Posts!Send
    <3>4. told[Posts!Now.row.id] \in Seq(Posts!Items)
      BY <3>2 DEF NewsTypes
    <3>5. Append(told[Posts!Now.row.id], Posts!Item) \in Seq(Posts!Items)
      BY <3>2, <3>4
    <3>6. told' \in [Posts!Threads -> Seq(Posts!Items)]
      BY <3>2, <3>3, <3>5, SMTT(60) DEF NewsTypes
    <3>7. ahead' = {}
      BY <1>12, <3>3 DEF Posts!Send, NewsTypes
    <3> QED
      BY <2>1, <3>1, <3>3, <3>6, <3>7 DEF NewsTypes
  <2>2. CASE poll' # "mark"
    <3>1. /\ updates # <<>> /\ updates' = Tail(updates) /\ poll = "send"
          /\ UNCHANGED <<told, poll, rows, feed, ahead, etags, adder, adds>>
      BY <1>12, <2>2 DEF Posts!Send
    <3> QED
      BY <3>1 DEF NewsTypes
  <2> QED
    BY <2>1, <2>2
<1>13. CASE Posts!Mark
  <2>1. updates # <<>>
    BY <1>13 DEF Posts!Mark, NewsTypes
  <2>2. /\ updates[1] = Posts!Now /\ Posts!Now \in UpdateSet
        /\ Posts!Item \in 0 .. MaxItems /\ Posts!Now.etag \in SUBSET SUBSET Posts!Items
        /\ Posts!Now.fresh \in Seq(Posts!Items) /\ Posts!Now.fresh # <<>>
    BY <2>1, NowIs DEF UpdateSet, Posts!Items
  <2>3. ASSUME NEW r \in rows
        PROVE  [r EXCEPT !.mark = Posts!Moved(r), !.etag = Posts!EtagAtLast(r)] \in RowSet
    <3>1. r \in RowSet /\ Posts!Moved(r) \in 0 .. MaxItems
      BY <2>2 DEF NewsTypes, Posts!Moved
    <3>2. Posts!EtagAtLast(r) \in SUBSET SUBSET Posts!Items
      BY <2>2, <3>1, SMTT(60) DEF Posts!EtagAtLast, RowSet
    <3> QED
      BY <3>1, <3>2 DEF RowSet
  <2>4. rows' \subseteq RowSet
    BY <1>13, <2>3 DEF Posts!Mark, NewsTypes
  <2>5. [updates EXCEPT ![1].fresh = Tail(@)] \in Seq(UpdateSet)
    BY <2>1, Shortened
  <2>6. updates' \in Seq(UpdateSet)
    <3>1. updates' = Tail(updates) \/ updates' = [updates EXCEPT ![1].fresh = Tail(@)]
      BY <1>13 DEF Posts!Mark
    <3>2. Tail(updates) \in Seq(UpdateSet)
      BY <2>1, SMTT(60) DEF NewsTypes
    <3> QED
      BY <2>5, <3>1, <3>2
  <2>7. poll = "mark" /\ poll' = "send" /\ UNCHANGED <<feed, told, ahead, etags, adder, adds>>
    BY <1>13 DEF Posts!Mark
  <2> QED
    BY <2>4, <2>6, <2>7, SMTT(60) DEF NewsTypes
<1>14. CASE Posts!MarkFails
  BY <1>14 DEF Posts!MarkFails, NewsTypes
<1>15. CASE Posts!Done
  BY <1>15 DEF Posts!Done, NewsTypes
<1>16. CASE Posts!Crash
  <2>1. \A a \in Adders : Posts!NoAdd(a) \in AdderSet /\ Posts!NoAdd(a).at = "idle"
    BY DEF Posts!NoAdd, AdderSet
  <2> QED
    BY <1>16, <2>1 DEF Posts!Crash, NewsTypes
<1> QED
  BY <1>1, <1>2, <1>3, <1>4, <1>5, <1>6, <1>7, <1>8, <1>9, <1>10, <1>11, <1>12, <1>13,
     <1>14, <1>15, <1>16 DEF Posts!Next, Posts!Announcing

(* Nothing but an insertion gives an untouched thread to a row.            *)
LEMMA StaysUnposted ==
  ASSUME NewsInv, [Posts!Next]_(Posts!newsVars), NEW t \in Posts!Threads, Unposted(t),
         \A a \in Adders : Posts!Insert(a) => adder[a].thread # t
  PROVE  Unposted(t)'
<1> USE DEF Unposted
<1>1. CASE UNCHANGED Posts!newsVars
  BY <1>1 DEF Posts!newsVars, Posts!polling
<1>2. ASSUME NEW g \in Games, NEW n \in Posts!Items, Posts!Publish(g, n) PROVE Unposted(t)'
  BY <1>2 DEF Posts!Publish, Posts!polling
<1>3. ASSUME NEW g \in Games, NEW a \in Adders, Posts!Add(a, g) PROVE Unposted(t)'
  BY <1>3 DEF Posts!Add, Posts!polling
<1>4. ASSUME NEW a \in Adders, Posts!Create(a) PROVE Unposted(t)'
  BY <1>4 DEF Posts!Create, Posts!polling
<1>5. ASSUME NEW a \in Adders, Posts!Insert(a) PROVE Unposted(t)'
  <2>1. adder[a].thread # t
    BY <1>5
  <2> QED
    BY <1>5, <2>1 DEF Posts!Insert, Posts!polling
<1>6. ASSUME NEW r \in rows, Posts!Untrack(r) PROVE Unposted(t)'
  BY <1>6 DEF Posts!Untrack, Posts!polling
<1>7. ASSUME NEW r \in ahead, Posts!Fetch(r) PROVE Unposted(t)'
  <2> DEFINE o == Posts!Ordered({n \in feed[r.game] : n > r.mark})
             u == Posts!Update(r, Posts!Newest(o))
  <2>1. /\ updates' = updates \/ (o # <<>> /\ updates' = Append(updates, u))
        /\ ahead' \subseteq ahead /\ UNCHANGED <<told, rows>>
    BY <1>7 DEF Posts!Fetch
  <2>2. u.row = r /\ r.id # t
    BY DEF Posts!Update
  <2> HIDE DEF o, u
  <2>3. \A k \in DOMAIN updates' : updates'[k].row.id # t
    <3>1. CASE updates' = updates
      BY <3>1
    <3>2. CASE updates' = Append(updates, u)
      <4>1. updates \in Seq(UpdateSet)
        BY DEF NewsInv, NewsTypes
      <4> QED
        BY <2>2, <3>2, <4>1
    <3> QED
      BY <2>1, <3>1, <3>2
  <2> QED
    BY <2>1, <2>3
<1>8. ASSUME NEW r \in ahead, Posts!FetchFails(r) PROVE Unposted(t)'
  BY <1>8 DEF Posts!FetchFails
<1>9. CASE Posts!Poll
  BY <1>9 DEF Posts!Poll
<1>10. CASE Posts!Floor
  BY <1>10 DEF Posts!Floor
<1>11. CASE Posts!Fetched
  <2>1. \A r \in rows : r \in RowSet
    BY DEF NewsInv, NewsTypes
  <2>2. \A r \in rows' : \E q \in rows : r.id = q.id
    BY <1>11, <2>1 DEF Posts!Fetched, RowSet
  <2> QED
    BY <1>11, <2>2 DEF Posts!Fetched
<1>12. CASE Posts!Send
  <2>1. /\ updates # <<>> /\ updates \in Seq(UpdateSet)
        /\ 1 \in DOMAIN updates /\ updates[1] = Posts!Now
    BY <1>12, NowIs DEF Posts!Send, NewsInv, NewsTypes
  <2>2. Posts!Now.row.id # t
    BY <2>1
  <2>3. told'[t] = told[t]
    <3>1. told' = told \/ told' = [told EXCEPT ![Posts!Now.row.id] = Append(@, Posts!Item)]
      BY <1>12 DEF Posts!Send
    <3>2. told \in [Posts!Threads -> Seq(Posts!Items)]
      BY DEF NewsInv, NewsTypes
    <3> QED
      BY <2>2, <3>1, <3>2
  <2>4. updates' = updates \/ updates' = Tail(updates)
    BY <1>12 DEF Posts!Send
  <2>5. \A k \in DOMAIN updates' : updates'[k].row.id # t
    BY <2>1, <2>4
  <2> QED
    BY <1>12, <2>3, <2>5 DEF Posts!Send
<1>13. CASE Posts!Mark
  <2>1. updates # <<>> /\ updates \in Seq(UpdateSet) /\ \A r \in rows : r \in RowSet
    BY <1>13 DEF Posts!Mark, NewsInv, NewsTypes
  <2>2. \A r \in rows' : \E q \in rows : r.id = q.id
    BY <1>13, <2>1 DEF Posts!Mark, RowSet
  <2>3. updates' = Tail(updates) \/ updates' = [updates EXCEPT ![1].fresh = Tail(@)]
    BY <1>13 DEF Posts!Mark
  <2>4. \A k \in DOMAIN updates' : \E j \in DOMAIN updates : updates'[k].row = updates[j].row
    <3>1. CASE updates' = Tail(updates)
      BY <2>1, <3>1
    <3>2. CASE updates' = [updates EXCEPT ![1].fresh = Tail(@)]
      BY <2>1, <3>2, Shortened DEF NewsInv
    <3> QED
      BY <2>3, <3>1, <3>2
  <2>5. UNCHANGED <<told, ahead>>
    BY <1>13 DEF Posts!Mark
  <2> QED
    BY <2>2, <2>4, <2>5
<1>14. CASE Posts!MarkFails
  BY <1>14 DEF Posts!MarkFails
<1>15. CASE Posts!Done
  BY <1>15 DEF Posts!Done
<1>16. CASE Posts!Crash
  BY <1>16 DEF Posts!Crash
<1> QED
  BY <1>1, <1>2, <1>3, <1>4, <1>5, <1>6, <1>7, <1>8, <1>9, <1>10, <1>11, <1>12, <1>13,
     <1>14, <1>15, <1>16 DEF Posts!Next, Posts!Announcing

(* The number of a new thread is above all that are taken.                 *)
LEMMA NewThreadsStep ==
  ASSUME NewsInv, [Posts!Next]_(Posts!newsVars)
  PROVE  NewThreads'
<1> USE DEF NewsInv, NewsNumbers
<1>1. /\ adds \in 0 .. MaxAdds /\ adder \in [Adders -> AdderSet]
      /\ \A a \in Adders : Posts!NoAdd(a).at = "idle"
  BY DEF NewsTypes, Posts!NoAdd
<1>2. CASE UNCHANGED <<adder, adds>>
  <2>1. \A a \in Adders : ~Posts!Insert(a)
    BY <1>1, <1>2 DEF Posts!Insert, Posts!Step
  <2>2. \A t \in Posts!Threads : Unposted(t) => Unposted(t)'
    BY <2>1, StaysUnposted
  <2> QED
    BY <1>1, <1>2, <2>2 DEF NewThreads, Posts!Threads
<1>3. ASSUME NEW g \in Games, NEW a \in Adders, Posts!Add(a, g) PROVE NewThreads'
  <2>1. /\ adds' = adds + 1 /\ adds < MaxAdds /\ adder[a].at = "idle"
        /\ \E b : adder' = [adder EXCEPT ![a] =
              [at |-> "thread", game |-> g, base |-> b, thread |-> adds']]
    BY <1>3 DEF Posts!Add, Posts!Step
  <2>2. \A t \in Posts!Threads : Unposted(t) => Unposted(t)'
    <3>1. \A c \in Adders : ~Posts!Insert(c)
      BY <1>3, <1>1 DEF Posts!Insert, Posts!Step, Posts!Add
    <3> QED
      BY <3>1, StaysUnposted
  <2>3. /\ adder'[a].thread = adds + 1 /\ adds + 1 \in Posts!Threads
        /\ \A c \in Adders \ {a} : adder'[c] = adder[c]
    BY <1>1, <2>1 DEF Posts!Threads
  <2> QED
    BY <1>1, <2>1, <2>2, <2>3 DEF NewThreads, Posts!Threads
<1>4. ASSUME NEW a \in Adders, Posts!Create(a) PROVE NewThreads'
  <2>1. \A t \in Posts!Threads : Unposted(t) => Unposted(t)'
    <3>1. \A c \in Adders : ~Posts!Insert(c)
      BY <1>4, <1>1 DEF Posts!Insert, Posts!Step, Posts!Create, AdderSet
    <3> QED
      BY <3>1, StaysUnposted
  <2>2. /\ UNCHANGED adds /\ adder[a].at # "idle"
        /\ \A c \in Adders \ {a} : adder'[c] = adder[c]
        /\ adder'[a].at # "idle" => adder'[a].thread = adder[a].thread
    BY <1>1, <1>4 DEF Posts!Create, Posts!Step, AdderSet
  <2> QED
    BY <1>1, <2>1, <2>2 DEF NewThreads, Posts!Threads
<1>5. ASSUME NEW a \in Adders, Posts!Insert(a) PROVE NewThreads'
  <2>1. /\ UNCHANGED adds /\ adder[a].at # "idle" /\ adder'[a].at = "idle"
        /\ \A c \in Adders \ {a} : adder'[c] = adder[c]
    BY <1>1, <1>5 DEF Posts!Insert, Posts!Step
  <2>2. \A c \in Adders : Posts!Insert(c) => c = a
    BY <1>1, <2>1 DEF Posts!Insert, Posts!Step
  <2>3. \A t \in Posts!Threads : t # adder[a].thread /\ Unposted(t) => Unposted(t)'
    BY <2>2, StaysUnposted
  <2> QED
    BY <1>1, <2>1, <2>3 DEF NewThreads, Posts!Threads
<1>6. CASE Posts!Crash
  <2>1. /\ adder' = [a \in Adders |-> Posts!NoAdd(a)] /\ UNCHANGED <<adds, told, rows>>
        /\ ahead' = {} /\ updates' = <<>>
    BY <1>6, SMTT(60) DEF Posts!Crash
  <2> QED
    BY <1>1, <2>1 DEF NewThreads, Unposted
<1>7. \/ UNCHANGED <<adder, adds>> \/ Posts!Crash
      \/ \E a \in Adders : \/ Posts!Create(a) \/ Posts!Insert(a)
                           \/ \E g \in Games : Posts!Add(a, g)
  BY DEF Posts!Next, Posts!Announcing, Posts!newsVars, Posts!Publish, Posts!Untrack, Posts!Fetch,
     Posts!FetchFails, Posts!Poll, Posts!Floor, Posts!Fetched, Posts!Send, Posts!Mark,
     Posts!MarkFails, Posts!Done
<1> QED
  BY <1>2, <1>3, <1>4, <1>5, <1>6, <1>7

(* A new row has a thread of its own, and a row that was asked about is    *)
(* not asked about again.                                                  *)
LEMMA EachOnceStep ==
  ASSUME NewsInv, [Posts!Next]_(Posts!newsVars)
  PROVE  EachOnce'
<1> USE DEF NewsInv, NewsNumbers
<1>1. /\ updates \in Seq(UpdateSet) /\ rows \subseteq RowSet
      /\ \A a \in Adders : adder[a].at # "idle" => Unposted(adder[a].thread)
  BY DEF NewsTypes, NewThreads
<1>2. CASE /\ \A r, q \in rows' : r.id = q.id => r = q
           /\ ahead' \subseteq ahead /\ updates' = updates
  BY <1>2 DEF EachOnce
<1>3. CASE /\ rows' \subseteq rows /\ ahead' \subseteq ahead /\ updates' = updates
  BY <1>3 DEF EachOnce
<1>4. CASE /\ rows' = rows /\ ahead' \subseteq ahead /\ updates' = <<>>
  BY <1>4 DEF EachOnce
<1>5. ASSUME NEW a \in Adders, Posts!Insert(a) PROVE EachOnce'
  <2>1. Unposted(adder[a].thread)
    BY <1>1, <1>5 DEF Posts!Insert
  <2> DEFINE new == [id |-> adder[a].thread, game |-> adder[a].game,
                     mark |-> adder[a].base, etag |-> {}]
  <2>2. new.id = adder[a].thread /\ (rows' = rows \/ rows' = rows \cup {new})
    BY <1>5 DEF Posts!Insert
  <2> HIDE DEF new
  <2>3. \A r, q \in rows' : r.id = q.id => r = q
    BY <2>1, <2>2 DEF EachOnce, Unposted
  <2> QED
    BY <1>2, <1>5, <2>3 DEF Posts!Insert, Posts!polling
<1>6. ASSUME NEW r \in ahead, Posts!Fetch(r) PROVE EachOnce'
  <2> DEFINE o == Posts!Ordered({n \in feed[r.game] : n > r.mark})
             u == Posts!Update(r, Posts!Newest(o))
  <2>1. /\ updates' = updates \/ updates' = Append(updates, u)
        /\ ahead' = ahead \ {r} /\ UNCHANGED rows
    BY <1>6 DEF Posts!Fetch
  <2>2. u.row = r
    BY DEF Posts!Update
  <2> HIDE DEF o, u
  <2>3. CASE updates' = updates
    BY <1>3, <2>1, <2>3
  <2>4. CASE updates' = Append(updates, u)
    <3>1. /\ DOMAIN updates' = DOMAIN updates \cup {Len(updates) + 1}
          /\ \A k \in DOMAIN updates : updates'[k] = updates[k]
          /\ updates'[Len(updates) + 1].row = r
      BY <1>1, <2>2, <2>4
    <3>2. \A j, k \in DOMAIN updates' : updates'[j].row.id = updates'[k].row.id => j = k
      BY <3>1 DEF EachOnce
    <3>3. \A q \in ahead', k \in DOMAIN updates' : updates'[k].row.id # q.id
      BY <2>1, <3>1 DEF EachOnce
    <3> QED
      BY <2>1, <3>2, <3>3 DEF EachOnce
  <2> QED
    BY <2>1, <2>3, <2>4
<1>7. CASE Posts!Poll
  BY <1>7 DEF Posts!Poll, EachOnce
<1>8. CASE Posts!Fetched
  <2>1. \A r, q \in rows' : r.id = q.id => r = q
    <3> DEFINE f(r) == IF \E e \in etags : e[1] = r.id
                THEN [r EXCEPT !.etag = {e[2] : e \in {d \in etags : d[1] = r.id}}] ELSE r
    <3>1. \A r \in rows : f(r).id = r.id
      BY <1>1 DEF RowSet
    <3>2. rows' = {f(r) : r \in rows}
      BY <1>8 DEF Posts!Fetched
    <3> HIDE DEF f
    <3> QED
      BY <3>1, <3>2 DEF EachOnce
  <2> QED
    BY <1>2, <1>8, <2>1 DEF Posts!Fetched
<1>9. ASSUME updates # <<>>, updates' = Tail(updates), ahead' = ahead,
             \A r, q \in rows' : r.id = q.id => r = q
      PROVE  EachOnce'
  <2>1. /\ \A k \in DOMAIN updates' : k + 1 \in DOMAIN updates /\ updates'[k] = updates[k + 1]
        /\ DOMAIN updates' \subseteq Nat
    BY <1>1, <1>9
  <2>2. \A j, k \in DOMAIN updates' : updates'[j].row.id = updates'[k].row.id => j = k
    <3> SUFFICES ASSUME NEW j \in DOMAIN updates', NEW k \in DOMAIN updates',
                        updates'[j].row.id = updates'[k].row.id
                 PROVE  j = k
      OBVIOUS
    <3>1. j + 1 = k + 1
      BY <2>1 DEF EachOnce
    <3> QED
      BY <2>1, <3>1
  <2> QED
    BY <1>9, <2>1, <2>2 DEF EachOnce
<1>10. CASE Posts!Send
  <2>1. /\ updates # <<>> /\ UNCHANGED <<rows, ahead>>
        /\ updates' = updates \/ updates' = Tail(updates)
    BY <1>10 DEF Posts!Send
  <2> QED
    BY <1>3, <1>9, <2>1 DEF EachOnce
<1>11. CASE Posts!Mark
  <2>1. \A r, q \in rows' : r.id = q.id => r = q
    <3> DEFINE f(r) == IF r.id = Posts!Now.row.id
                THEN [r EXCEPT !.mark = Posts!Moved(r), !.etag = Posts!EtagAtLast(r)] ELSE r
    <3>1. \A r \in rows : f(r).id = r.id
      BY <1>1, SMTT(60) DEF RowSet
    <3>2. rows' = {f(r) : r \in rows}
      BY <1>11, ZenonT(60) DEF Posts!Mark
    <3> HIDE DEF f
    <3> QED
      BY <3>1, <3>2 DEF EachOnce
  <2>2. /\ updates # <<>> /\ ahead' = ahead
        /\ updates' = Tail(updates) \/ updates' = [updates EXCEPT ![1].fresh = Tail(@)]
    BY <1>11 DEF Posts!Mark, NewsTypes
  <2>3. CASE updates' = [updates EXCEPT ![1].fresh = Tail(@)]
    <3>1. /\ DOMAIN updates' = DOMAIN updates
          /\ \A k \in DOMAIN updates : updates'[k].row = updates[k].row
      BY <2>2, <2>3, Shortened
    <3> QED
      BY <2>1, <2>2, <3>1 DEF EachOnce
  <2> QED
    BY <1>9, <2>1, <2>2, <2>3
<1>12. \/ /\ rows' \subseteq rows /\ ahead' \subseteq ahead /\ updates' = updates
       \/ /\ rows' = rows /\ ahead' \subseteq ahead /\ updates' = <<>>
       \/ \E a \in Adders : Posts!Insert(a)
       \/ \E r \in ahead : Posts!Fetch(r)
       \/ Posts!Poll \/ Posts!Fetched \/ Posts!Send \/ Posts!Mark
  BY DEF Posts!Next, Posts!Announcing, Posts!newsVars, Posts!Publish, Posts!Untrack, Posts!Add,
     Posts!Create, Posts!FetchFails, Posts!Floor, Posts!MarkFails, Posts!Done, Posts!Crash,
     Posts!polling
<1> QED
  BY <1>3, <1>4, <1>5, <1>6, <1>7, <1>8, <1>10, <1>11, <1>12

(* What a thread has reached it keeps: what is posted is due to be marked, *)
(* and what is due when a poll is cut short has lost its mark.             *)
LEMMA ReachedStays ==
  ASSUME NewsInv, [Posts!Next]_(Posts!newsVars), NEW t \in Posts!Threads, NEW m \in Int,
         Reached(t, m), Posts!Mark => t # Posts!Now.row.id \/ Posts!Item <= m
  PROVE  Reached(t, m)'
<1> USE DEF NewsInv, NewsNumbers
<1>1. told[t] \in Seq(Posts!Items)
  BY DEF NewsTypes
<1>2. ASSUME told' = told, unkept \subseteq unkept',
             \A n \in Posts!Items : Due(t, n) => n <= m \/ Due(t, n)' \/ <<t, n>> \in unkept'
      PROVE  Reached(t, m)'
  <2> SUFFICES ASSUME NEW i \in DOMAIN told'[t], NEW n, n = told'[t][i]
               PROVE  n <= m \/ <<t, n>> \in unkept' \/ Due(t, n)'
    BY DEF Reached, Due
  <2>1. told'[t] = told[t] /\ i \in DOMAIN told[t] /\ n = told[t][i]
    BY <1>2
  <2>2. n <= m \/ <<t, n>> \in unkept \/ Due(t, n)
    BY <2>1 DEF Reached
  <2>3. n \in Posts!Items
    BY <1>1, <2>1
  <2> QED
    BY <1>2, <2>2, <2>3
<1>3. CASE UNCHANGED <<told, poll, updates, unkept>>
  <2>1. \A n : Due(t, n) => Due(t, n)'
    BY <1>3 DEF Due, Posts!Now, Posts!Item
  <2> QED
    BY <1>2, <1>3, <2>1
<1>4. CASE UNCHANGED <<told, unkept>> /\ poll # "mark"
  BY <1>2, <1>4 DEF Due
<1>5. CASE UNCHANGED told /\ unkept' = Posts!Lost
  BY <1>2, <1>5, SMTT(60) DEF Due, Posts!Lost
<1>6. CASE Posts!Mark
  BY <1>2, <1>6 DEF Due, Posts!Mark
<1>7. CASE Posts!Send /\ told' # told
  <2>1. /\ poll = "send" /\ poll' = "mark" /\ updates # <<>> /\ updates' = updates
        /\ told' = [told EXCEPT ![Posts!Now.row.id] = Append(@, Posts!Item)]
    BY <1>7 DEF Posts!Send
  <2>4. unkept' = unkept
    BY <1>7 DEF Posts!Send
  <2>2. CASE t # Posts!Now.row.id
    <3>1. told'[t] = told[t]
      BY <2>1, <2>2 DEF NewsTypes
    <3>2. \A i \in DOMAIN told[t] : told[t][i] <= m \/ <<t, told[t][i]>> \in unkept
      BY <2>1 DEF Reached, Due
    <3>3. \A i \in DOMAIN told'[t] : told'[t][i] <= m \/ <<t, told'[t][i]>> \in unkept'
      BY <2>4, <3>1, <3>2, Zenon
    <3> QED
      BY <3>3 DEF Reached
  <2>3. CASE t = Posts!Now.row.id
    <3>1. told'[t] = Append(told[t], Posts!Item) /\ Posts!Item \in Posts!Items
      BY <2>1, <2>3, NowIs, SMTT(60) DEF NewsTypes
    <3>2. poll' = "mark" /\ t = Posts!Now.row.id' /\ Posts!Item = Posts!Item'
      BY <2>1, <2>3 DEF Posts!Now, Posts!Item
    <3>3. \A i \in DOMAIN told[t] : told[t][i] <= m \/ <<t, told[t][i]>> \in unkept
      BY <2>1 DEF Reached, Due
    <3>4. \A i \in DOMAIN told'[t] :
            \/ i \in DOMAIN told[t] /\ told'[t][i] = told[t][i]
            \/ told'[t][i] = Posts!Item
      BY <1>1, <3>1, SMTT(60)
    <3>5. \A i \in DOMAIN told'[t] :
            \/ told'[t][i] <= m \/ <<t, told'[t][i]>> \in unkept'
            \/ told'[t][i] = Posts!Item'
      BY <2>4, <3>2, <3>3, <3>4, ZenonT(60)
    <3> QED
      BY <3>2, <3>5 DEF Reached, Due
  <2> QED
    BY <2>2, <2>3, SMTT(60)
<1>8. \/ UNCHANGED <<told, poll, updates, unkept>>
      \/ UNCHANGED <<told, unkept>> /\ poll # "mark"
      \/ UNCHANGED told /\ unkept' = Posts!Lost
      \/ Posts!Mark \/ (Posts!Send /\ told' # told)
  BY DEF Posts!Next, Posts!Announcing, Posts!newsVars, Posts!Publish, Posts!Untrack, Posts!Add,
     Posts!Create, Posts!Insert, Posts!Fetch, Posts!FetchFails, Posts!Floor, Posts!Poll,
     Posts!Fetched, Posts!Send, Posts!MarkFails, Posts!Done, Posts!Crash, Posts!polling
<1> QED
  BY <1>3, <1>4, <1>5, <1>6, <1>7, <1>8

(* A later item is reached too.                                            *)
LEMMA ReachedMore ==
  ASSUME NewsNumbers, NewsTypes, NEW t \in Posts!Threads, NEW m \in Int, NEW n \in Int,
         Reached(t, m), m <= n
  PROVE  Reached(t, n)
<1> SUFFICES ASSUME NEW i \in DOMAIN told[t]
             PROVE  told[t][i] <= n \/ <<t, told[t][i]>> \in unkept \/ Due(t, told[t][i])
  BY DEF Reached
<1>1. told[t] \in Seq(Posts!Items)
  BY DEF NewsTypes
<1>2. told[t][i] \in Int
  BY <1>1 DEF Posts!Items, NewsNumbers
<1>3. told[t][i] <= m => told[t][i] <= n
  BY <1>2
<1> QED
  BY <1>3 DEF Reached

(* A mark moves to the item that was posted.                               *)
LEMMA RowsReachedStep ==
  ASSUME NewsInv, [Posts!Next]_(Posts!newsVars), NewsTypes'
  PROVE  RowsReached'
<1> USE DEF NewsInv, NewsNumbers
<1>1. /\ \A r \in rows \cup ahead : r.id \in Posts!Threads /\ r.mark \in 0 .. MaxItems
      /\ \A a \in Adders : adder[a].at # "idle" =>
            Unposted(adder[a].thread) /\ adder[a].thread \in Posts!Threads
  <2>1. rows \cup ahead \subseteq RowSet
    BY DEF NewsTypes
  <2>2. \A r \in rows \cup ahead : r.id \in Posts!Threads /\ r.mark \in 0 .. MaxItems
    BY <2>1 DEF RowSet
  <2>3. \A a \in Adders : adder[a].at # "idle" =>
            Unposted(adder[a].thread) /\ adder[a].thread \in Posts!Threads
    <3>1. adds \in 0 .. MaxAdds
      BY DEF NewsTypes
    <3>2. 1 .. adds \subseteq Posts!Threads
      BY <3>1 DEF Posts!Threads
    <3>3. NewThreads
      OBVIOUS
    <3> QED
      BY <3>2, <3>3 DEF NewThreads
  <2> QED
    BY <2>2, <2>3
<1>2. CASE /\ ~Posts!Mark
           /\ \A r \in rows' \cup ahead' : \E q \in rows \cup ahead :
                r.id = q.id /\ r.mark = q.mark
  <2> SUFFICES ASSUME NEW r \in rows' \cup ahead' PROVE Reached(r.id, r.mark)'
    BY DEF RowsReached
  <2>1. PICK q \in rows \cup ahead : r.id = q.id /\ r.mark = q.mark
    BY <1>2
  <2>2. Reached(q.id, q.mark) /\ q.id \in Posts!Threads /\ q.mark \in Int
    BY <1>1 DEF RowsReached
  <2>3. ~Posts!Mark
    BY <1>2
  <2> DEFINE t == q.id
             m == q.mark
  <2>4. Reached(t, m)'
    <3> HIDE DEF t, m
    <3> QED
      BY <2>2, <2>3, ReachedStays DEF t, m
  <2> QED
    BY <2>1, <2>4
<1>3. ASSUME NEW a \in Adders, Posts!Insert(a) PROVE RowsReached'
  <2>0. PICK new : new = [id |-> adder[a].thread, game |-> adder[a].game,
                          mark |-> adder[a].base, etag |-> {}]
    OBVIOUS
  <2>1. /\ new.id = adder[a].thread /\ rows' \subseteq rows \cup {new} /\ adder[a].at # "idle"
        /\ UNCHANGED <<told, ahead, poll>> /\ ~Posts!Mark
    BY <1>3, <2>0 DEF Posts!Insert, Posts!polling, Posts!Mark
  <2>2. told'[new.id] = <<>> /\ DOMAIN told'[new.id] = {}
    BY <1>1, <2>1 DEF Unposted
  <2>3. Reached(new.id, new.mark)'
    BY <2>2, Zenon DEF Reached
  <2> SUFFICES ASSUME NEW r \in rows \cup ahead PROVE Reached(r.id, r.mark)'
    BY <2>1, <2>3 DEF RowsReached
  <2>4. Reached(r.id, r.mark) /\ r.id \in Posts!Threads /\ r.mark \in Int
    BY <1>1 DEF RowsReached
  <2> DEFINE t == r.id
             m == r.mark
  <2>5. Reached(t, m)'
    <3> HIDE DEF t, m
    <3> QED
      BY <2>1, <2>4, ReachedStays DEF t, m
  <2> QED
    BY <2>5
<1>4. CASE Posts!Mark
  <2>1. updates # <<>> /\ poll' # "fetch"
    BY <1>4 DEF Posts!Mark, NewsTypes
  <2>2. ahead' = {}
    BY <2>1, SMTT(60) DEF NewsTypes
  <2> DEFINE f(r) == IF r.id = Posts!Now.row.id
                THEN [r EXCEPT !.mark = Posts!Moved(r), !.etag = Posts!EtagAtLast(r)] ELSE r
  <2>3. rows' = {f(r) : r \in rows}
    BY <1>4, ZenonT(60) DEF Posts!Mark
  <2> SUFFICES ASSUME NEW r \in rows, NEW q, q = f(r) PROVE Reached(q.id, q.mark)'
    BY <2>2, <2>3 DEF RowsReached
  <2>4. CASE r.id # Posts!Now.row.id
    <3> DEFINE t == q.id
               m == q.mark
    <3>1. t \in Posts!Threads /\ m \in Int /\ Reached(t, m) /\ t # Posts!Now.row.id
      BY <1>1, <2>4 DEF RowsReached
    <3>2. Reached(t, m)'
      <4> HIDE DEF t, m
      <4> QED
        BY <3>1, ReachedStays
    <3> QED
      BY <3>2
  <2>5. CASE r.id = Posts!Now.row.id
    <3>0. PICK t, m : t = Posts!Now.row.id /\ m = Posts!Item
      OBVIOUS
    <3>1. /\ Posts!Item \in Posts!Items /\ Posts!Item = Head(Posts!Now.fresh)
          /\ 1 \in DOMAIN updates /\ updates[1] = Posts!Now
      BY <2>1, NowIs DEF Posts!Item
    <3>2. t \in Posts!Threads /\ m \in Int /\ m - 1 \in Int /\ m - 1 <= m
      BY <1>1, <2>5, <3>0, <3>1 DEF Posts!Items
    <3>3. Reached(t, m - 1)
      BY <3>0, <3>1 DEF Coming
    <3>4. Reached(t, m)
      BY <3>2, <3>3, ReachedMore
    <3>5. Reached(t, m)'
      BY <3>0, <3>2, <3>4, ReachedStays
    <3>6. q.id = t /\ q.mark = m
      <4>1. r \in RowSet
        BY DEF NewsTypes
      <4> QED
        BY <2>5, <3>0, <4>1 DEF RowSet, Posts!Moved
    <3> QED
      BY <3>5, <3>6
  <2> QED
    BY <2>4, <2>5, SMTT(60)
<1>5. CASE Posts!Fetched
  <2>1. \A r \in rows : r \in RowSet
    BY DEF NewsTypes
  <2>2. \A r \in rows' : \E q \in rows : r.id = q.id /\ r.mark = q.mark
    BY <1>5, <2>1 DEF Posts!Fetched, RowSet
  <2>3. ahead' = ahead /\ ~Posts!Mark
    BY <1>5, SMTT(60) DEF Posts!Fetched, Posts!Mark
  <2> QED
    BY <1>2, <2>2, <2>3
<1>6. \/ ~Posts!Mark /\ rows' \subseteq rows \cup ahead /\ ahead' \subseteq rows \cup ahead
      \/ (\E a \in Adders : Posts!Insert(a)) \/ Posts!Mark \/ Posts!Fetched
  BY DEF Posts!Next, Posts!Announcing, Posts!newsVars, Posts!Publish, Posts!Untrack, Posts!Add,
     Posts!Create, Posts!Fetch, Posts!FetchFails, Posts!Floor, Posts!Poll,
     Posts!Send, Posts!MarkFails, Posts!Done, Posts!Crash, Posts!polling
<1> QED
  BY <1>2, <1>3, <1>4, <1>5, <1>6

(* What is found is newer than the mark, and so than what has been posted. *)
LEMMA ComingStep ==
  ASSUME NewsInv, [Posts!Next]_(Posts!newsVars), NewsTypes'
  PROVE  Coming'
<1> USE DEF NewsInv, NewsNumbers
<1> DEFINE Sound(u) == /\ u.fresh # <<>> /\ Increasing(u.fresh)
                       /\ Reached(u.row.id, Head(u.fresh) - 1)
<1>1. /\ updates \in Seq(UpdateSet)
      /\ \A k \in DOMAIN updates : updates[k] \in UpdateSet /\ Sound(updates[k])
  BY DEF NewsTypes, Coming
<1>2. ASSUME NEW u \in UpdateSet, Sound(u), Posts!Mark => u.row.id # Posts!Now.row.id
      PROVE  Sound(u)'
  <2> DEFINE t == u.row.id
             m == Head(u.fresh) - 1
  <2>1. Head(u.fresh) \in Posts!Items
    BY <1>2 DEF UpdateSet
  <2>2. t \in Posts!Threads /\ m \in Int /\ Reached(t, m)
    BY <1>2, <2>1 DEF UpdateSet, RowSet, Posts!Items
  <2> HIDE DEF t, m
  <2>3. Reached(t, m)'
    BY <1>2, <2>2, ReachedStays DEF t
  <2> QED
    BY <1>2, <2>3 DEF t, m
<1> HIDE DEF Sound
<1>3. SUFFICES ASSUME NEW k \in DOMAIN updates', NEW u, u = updates'[k] PROVE Sound(u)'
  BY DEF Sound, Coming
<1>4. CASE /\ ~Posts!Mark
           /\ \A j \in DOMAIN updates' : \E i \in DOMAIN updates : updates'[j] = updates[i]
  BY <1>1, <1>2, <1>3, <1>4, SMTT(60)
<1>5. CASE Posts!Mark
  <2>1. updates # <<>> /\ poll = "mark"
    BY <1>5 DEF Posts!Mark, NewsTypes
  <2>2. /\ 1 \in DOMAIN updates /\ updates[1] = Posts!Now
        /\ \A i \in DOMAIN updates \ {1} : updates[i].row.id # Posts!Now.row.id
    BY <2>1, NowIs DEF EachOnce
  <2>3. CASE updates' = Tail(updates)
    <3>1. k + 1 \in DOMAIN updates \ {1} /\ u = updates[k + 1]
      BY <1>1, <1>3, <2>1, <2>3
    <3> QED
      BY <1>1, <1>2, <2>2, <3>1
  <2>4. CASE /\ updates' = [updates EXCEPT ![1].fresh = Tail(@)]
             /\ Len(Posts!Now.fresh) # 1
    <3>1. /\ k \in DOMAIN updates /\ u.row = updates[k].row
          /\ k # 1 => u = updates[k]
          /\ k = 1 => u.fresh = Tail(Posts!Now.fresh)
      BY <1>3, <2>1, <2>4, Shortened
    <3>2. CASE k # 1
      BY <1>1, <1>2, <2>2, <3>1, <3>2
    <3>3. CASE k = 1
      <4>1. PICK s : s = Posts!Now.fresh
        OBVIOUS
      <4>2. /\ s \in Seq(Posts!Items) /\ s # <<>> /\ Len(s) # 1 /\ Increasing(s)
            /\ Posts!Item = s[1] /\ u.fresh = Tail(s) /\ u.row = Posts!Now.row
            /\ u.row.id \in Posts!Threads
        BY <2>1, <2>2, <2>4, <3>1, <3>3, <4>1, NowIs DEF UpdateSet, RowSet
      <4>3. /\ 1 \in DOMAIN s /\ 2 \in DOMAIN s /\ s[1] < s[2] /\ s[1] \in Int /\ s[2] \in Int
        <5>1. s \in Seq(Posts!Items) /\ s # <<>> /\ Len(s) # 1
          BY <4>2
        <5>2. 1 \in DOMAIN s /\ 2 \in DOMAIN s
          <6>1. Len(s) \in Nat /\ DOMAIN s = 1 .. Len(s)
            BY <5>1
          <6>2. Len(s) # 0
            BY <5>1
          <6> QED
            BY <5>1, <6>1, <6>2
        <5>3. s[1] \in Int /\ s[2] \in Int
          BY <5>1, <5>2 DEF Posts!Items
        <5>4. s[1] < s[2]
          BY <4>2, <5>2 DEF Increasing
        <5> QED
          BY <5>2, <5>3, <5>4
      <4>4. /\ Tail(s) # <<>> /\ Head(Tail(s)) = s[2] /\ Len(Tail(s)) = Len(s) - 1
            /\ \A i \in DOMAIN Tail(s) : i + 1 \in DOMAIN s /\ Tail(s)[i] = s[i + 1] /\ i \in Nat
        <5>1. s \in Seq(Posts!Items) /\ s # <<>> /\ Len(s) # 1 /\ Len(s) \in Nat
          BY <4>2
        <5>2. Len(Tail(s)) = Len(s) - 1 /\ Tail(s) \in Seq(Posts!Items)
          BY <5>1
        <5>3. \A i \in DOMAIN Tail(s) : i + 1 \in DOMAIN s /\ Tail(s)[i] = s[i + 1] /\ i \in Nat
          BY <5>1, <5>2
        <5>4. Tail(s) # <<>> /\ 1 \in DOMAIN Tail(s)
          <6>1. Len(s) # 0
            BY <5>1
          <6>2. Len(Tail(s)) \in Nat \ {0}
            BY <5>1, <5>2, <6>1
          <6>3. 1 \in DOMAIN Tail(s)
            BY <5>2, <6>2
          <6>4. DOMAIN << >> = {}
            OBVIOUS
          <6> QED
            BY <6>3, <6>4, Zenon
        <5>5. Head(Tail(s)) = s[2]
          BY <5>2, <5>3, <5>4
        <5> QED
          BY <5>2, <5>3, <5>4, <5>5
      <4>5. Increasing(Tail(s))
        <5> SUFFICES ASSUME NEW i \in DOMAIN Tail(s), NEW j \in DOMAIN Tail(s), i < j
                     PROVE  Tail(s)[i] < Tail(s)[j]
          BY DEF Increasing
        <5>1. i + 1 < j + 1
          BY <4>4
        <5> QED
          BY <4>2, <4>4, <5>1 DEF Increasing
      <4>6. Reached(u.row.id, s[1] - 1)
        BY <1>1, <2>2, <4>1, <4>2 DEF Sound
      <4>7. PICK t, m : t = u.row.id /\ m = s[2] - 1
        OBVIOUS
      <4>8. /\ t \in Posts!Threads /\ m \in Int /\ s[1] - 1 \in Int /\ s[1] - 1 <= m
            /\ Posts!Item <= m
        BY <4>2, <4>3, <4>7
      <4>9. Reached(t, m)
        BY <4>6, <4>7, <4>8, ReachedMore
      <4>10. Reached(t, m)'
        BY <4>8, <4>9, ReachedStays
      <4> QED
        BY <4>2, <4>4, <4>5, <4>7, <4>10 DEF Sound
    <3> QED
      BY <3>2, <3>3
  <2> QED
    BY <1>5, <2>3, <2>4, ZenonT(60) DEF Posts!Mark
<1>6. ASSUME NEW r \in ahead, Posts!Fetch(r) PROVE Sound(u)'
  <2>1. PICK o, v : /\ o = Posts!Ordered({n \in feed[r.game] : n > r.mark})
                    /\ v = Posts!Update(r, Posts!Newest(o))
    OBVIOUS
  <2>2. /\ updates' = updates \/ (o # <<>> /\ updates' = Append(updates, v))
        /\ poll = "fetch"
    BY <1>6, <2>1 DEF Posts!Fetch
  <2>3. ~Posts!Mark /\ r \in RowSet
    BY <2>2 DEF Posts!Mark, NewsTypes
  <2>4. CASE updates' = updates
    BY <1>4, <2>3, <2>4
  <2>5. CASE o # <<>> /\ updates' = Append(updates, v)
    <3>1. /\ v.row = r /\ v.fresh # <<>> /\ Increasing(v.fresh) /\ Head(v.fresh) \in Nat
          /\ Head(v.fresh) > r.mark
      BY <2>1, <2>3, <2>5, FetchedUpdate
    <3>2. PICK t, m : t = r.id /\ m = Head(v.fresh) - 1
      OBVIOUS
    <3>3. /\ t \in Posts!Threads /\ m \in Int /\ r.mark \in Int /\ r.mark <= m
      BY <2>3, <3>1, <3>2 DEF RowSet
    <3>4. Reached(t, r.mark)
      BY <3>2 DEF RowsReached
    <3>5. Reached(t, m)
      BY <3>3, <3>4, ReachedMore
    <3>6. Reached(t, m)'
      BY <2>3, <3>3, <3>5, ReachedStays
    <3>7. Sound(v)'
      BY <3>1, <3>2, <3>6 DEF Sound
    <3>8. u = v \/ \E j \in DOMAIN updates : u = updates[j]
      BY <1>1, <1>3, <2>5
    <3>9. ASSUME NEW j \in DOMAIN updates, u = updates[j] PROVE Sound(u)'
      BY <1>1, <1>2, <2>3, <3>9
    <3> QED
      BY <3>7, <3>8, <3>9
  <2> QED
    BY <2>2, <2>4, <2>5
<1>7. CASE Posts!Send
  <2>1. /\ updates # <<>> /\ poll = "send"
        /\ updates' = updates \/ updates' = Tail(updates)
    BY <1>7 DEF Posts!Send
  <2>2. \A j \in DOMAIN updates' : \E i \in DOMAIN updates : updates'[j] = updates[i]
    <3>1. CASE updates' = Tail(updates)
      <4>1. \A j \in DOMAIN updates' : j + 1 \in DOMAIN updates /\ updates'[j] = updates[j + 1]
        BY <1>1, <2>1, <3>1
      <4> QED
        BY <4>1
    <3> QED
      BY <2>1, <3>1
  <2>3. ~Posts!Mark
    BY <2>1 DEF Posts!Mark
  <2> QED
    BY <1>4, <2>2, <2>3
<1>8. \/ ~Posts!Mark /\ updates' = updates
      \/ ~Posts!Mark /\ updates' = <<>>
      \/ Posts!Mark \/ (\E r \in ahead : Posts!Fetch(r)) \/ Posts!Send
  BY DEF Posts!Next, Posts!Announcing, Posts!newsVars, Posts!Publish, Posts!Untrack, Posts!Add,
     Posts!Create, Posts!Insert, Posts!FetchFails, Posts!Floor, Posts!Poll,
     Posts!Fetched, Posts!MarkFails, Posts!Done, Posts!Crash, Posts!polling
<1> QED
  BY <1>3, <1>4, <1>5, <1>6, <1>7, <1>8

(* What is posted next is newer than what has been.                        *)
LEMMA OnceStep ==
  ASSUME NewsInv, [Posts!Next]_(Posts!newsVars)
  PROVE  Posts!AnnouncedOnce'
<1> USE DEF NewsInv, NewsNumbers
<1>1. CASE UNCHANGED told
  <2>1. unkept \subseteq unkept'
    BY DEF Posts!Next, Posts!Announcing, Posts!newsVars, Posts!Publish, Posts!Untrack, Posts!Add,
       Posts!Create, Posts!Insert, Posts!Fetch, Posts!FetchFails, Posts!Floor, Posts!Poll,
       Posts!Fetched, Posts!Send, Posts!Mark, Posts!MarkFails, Posts!Done, Posts!Crash,
       Posts!Lost
  <2> QED
    BY <1>1, <2>1, SMTT(60) DEF Posts!AnnouncedOnce
<1>2. CASE Posts!Send /\ told' # told
  <2>1. /\ poll = "send" /\ updates # <<>>
        /\ told' = [told EXCEPT ![Posts!Now.row.id] = Append(@, Posts!Item)]
    BY <1>2 DEF Posts!Send
  <2>2. unkept' = unkept
    BY <1>2 DEF Posts!Send
  <2>3. /\ 1 \in DOMAIN updates /\ updates[1] = Posts!Now
        /\ Posts!Now.row.id \in Posts!Threads
        /\ Posts!Item \in Posts!Items /\ Posts!Item = Head(Posts!Now.fresh)
    BY <2>1, NowIs DEF UpdateSet, RowSet, Posts!Item
  <2> SUFFICES ASSUME NEW t \in Posts!Threads, NEW i \in DOMAIN told'[t],
                      NEW j \in DOMAIN told'[t], i < j
               PROVE  told'[t][i] < told'[t][j] \/ <<t, told'[t][i]>> \in unkept'
    BY DEF Posts!AnnouncedOnce
  <2>4. told[t] \in Seq(Posts!Items) /\ told \in [Posts!Threads -> Seq(Posts!Items)]
    BY DEF NewsTypes
  <2>5. CASE t # Posts!Now.row.id
    <3>1. told'[t] = told[t]
      BY <2>1, <2>4, <2>5
    <3> QED
      BY <2>2, <3>1 DEF Posts!AnnouncedOnce
  <2>6. CASE t = Posts!Now.row.id
    <3>1. told'[t] = Append(told[t], Posts!Item)
      BY <2>1, <2>4, <2>6
    <3>2. /\ i \in DOMAIN told[t] /\ told'[t][i] = told[t][i]
          /\ \/ j \in DOMAIN told[t] /\ told'[t][j] = told[t][j]
             \/ told'[t][j] = Posts!Item
      BY <2>4, <3>1
    <3>3. CASE j \in DOMAIN told[t] /\ told'[t][j] = told[t][j]
      BY <2>2, <3>2, <3>3 DEF Posts!AnnouncedOnce
    <3>4. CASE told'[t][j] = Posts!Item
      <4>1. Reached(t, Posts!Item - 1)
        BY <2>3, <2>6, SMTT(60) DEF Coming
      <4>2. told[t][i] <= Posts!Item - 1 \/ <<t, told[t][i]>> \in unkept
        BY <2>1, <3>2, <4>1 DEF Reached, Due
      <4>3. told[t][i] \in Int /\ Posts!Item \in Int
        BY <2>3, <2>4, <3>2 DEF Posts!Items
      <4> QED
        BY <2>2, <3>2, <3>4, <4>2, <4>3
    <3> QED
      BY <3>2, <3>3, <3>4
  <2> QED
    BY <2>5, <2>6
<1>3. UNCHANGED told \/ (Posts!Send /\ told' # told)
  BY DEF Posts!Next, Posts!Announcing, Posts!newsVars, Posts!Publish, Posts!Untrack, Posts!Add,
     Posts!Create, Posts!Insert, Posts!Fetch, Posts!FetchFails, Posts!Floor, Posts!Poll,
     Posts!Fetched, Posts!Send, Posts!Mark, Posts!MarkFails, Posts!Done, Posts!Crash
<1> QED
  BY <1>1, <1>2, <1>3

(* At first nothing is tracked.                                            *)
LEMMA NewsStarts == NewsNumbers /\ Posts!Init => NewsInv
<1> SUFFICES ASSUME NewsNumbers, Posts!Init PROVE NewsInv
  OBVIOUS
<1> USE DEF Posts!Init
<1>1. NewsTypes
  <2>1. \A a \in Adders : Posts!NoAdd(a) \in AdderSet /\ Posts!NoAdd(a).at = "idle"
    BY DEF Posts!NoAdd, AdderSet, NewsNumbers
  <2>2. feed \in [Games -> SUBSET Posts!Items]
    BY DEF NewsNumbers, Posts!Items
  <2> QED
    BY <2>1, <2>2 DEF NewsTypes, NewsNumbers
<1>2. NewThreads
  BY DEF NewThreads, Unposted, Posts!NoAdd
<1>3. EachOnce /\ RowsReached /\ Coming
  BY DEF EachOnce, RowsReached, Coming
<1>4. Posts!AnnouncedOnce
  BY DEF Posts!AnnouncedOnce
<1> QED
  BY <1>1, <1>2, <1>3, <1>4 DEF NewsInv

(* News come from old to new and once, for any games, items, additions,    *)
(* pages that fail, posts that fail, marks that are lost and crashes; only *)
(* an item whose mark was lost may come again.                             *)
THEOREM AnnouncedInOrder == Posts!Spec => []AnnouncedOnce
<1>1. NewsInv /\ [Posts!Next]_(Posts!newsVars) => NewsInv'
  <2> SUFFICES ASSUME NewsInv, [Posts!Next]_(Posts!newsVars) PROVE NewsInv'
    OBVIOUS
  <2>1. NewsNumbers'
    BY DEF NewsInv, NewsNumbers
  <2> QED
    BY <2>1, NewsTypesStep, NewThreadsStep, EachOnceStep, RowsReachedStep, ComingStep, OnceStep
       DEF NewsInv
<1>2. NewsInv => AnnouncedOnce
  BY DEF NewsInv, AnnouncedOnce
<1>3. Posts!Init => NewsInv
  BY NewsStarts, PanelAssumption DEF NewsNumbers
<1> QED
  BY <1>1, <1>2, <1>3, PTL DEF Posts!Spec
=============================================================================
