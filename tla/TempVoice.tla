--------------------------------- MODULE TempVoice --------------------------------
(***************************************************************************)
(* Temporary voice channels of one server: whoever enters the hub gets a   *)
(* room of their own, which goes when the last one leaves it.              *)
(*                                                                         *)
(*   infrastructure/discord/cogs/tempvoice/cog.py   events, sweep, claims  *)
(*   application/tempvoice/use_cases.py             the registry           *)
(*                                                                         *)
(* A task is the handling of one voice event; tasks overlap. Discord's     *)
(* state and the bot's copy of it are one. Buttons that change nothing but *)
(* a room's name, limit or permissions are left out.                       *)
(***************************************************************************)
EXTENDS Integers, FiniteSets

CONSTANTS
    Guests,   \* members
    Rooms,    \* channel ids Discord may give
    Cap,      \* tempvoice_max_per_guild
    Nobody,
    MaxMoves, MaxFaults \* bounds

Outside == "outside"
Hub == "hub"
Places == {Outside, Hub} \cup Rooms

VARIABLES
    exists, \* rooms on Discord
    used,   \* ids Discord has given
    owner,  \* the registry: owner_id of a room's row, or Nobody
    place,
    fresh,  \* members within the cooldown of creation
    tasks,
    sweep,  \* rows that the sweep of the start has still to look at
    up,
    moves,  \* bound, and the id of the next task
    faults,
    overlap,\* history: two tasks were creating rooms at the same time
    strays  \* history: rooms whose row was lost or whose emptying went unseen

voiceRows == <<exists, used, owner, place>>
tempVars == <<voiceRows, fresh, tasks, sweep, up, moves, faults, overlap, strays>>

Init ==
    /\ exists = {} /\ used = {} /\ owner = [r \in Rooms |-> Nobody]
    /\ place = [m \in Guests |-> Outside]
    /\ fresh = {} /\ tasks = {} /\ sweep = {} /\ up = TRUE
    /\ moves = 0 /\ faults = 0 /\ overlap = FALSE /\ strays = {}

Fault == faults < MaxFaults /\ faults' = faults + 1
Inside(r) == {m \in Guests : place[m] = r}
Event(n, m, from, to) ==
    [id |-> n, member |-> m, from |-> from, to |-> to, room |-> Nobody,
     at |-> IF from \in Rooms THEN "left" ELSE "enter"]
Becomes(t, u) == tasks' = (tasks \ {t}) \cup {u}
Goto(t, label) == Becomes(t, [t EXCEPT !.at = label])
Ends(t) == tasks' = tasks \ {t}
At(label) == {t \in tasks : t.at = label}

-----------------------------------------------------------------------------
(* Members move about; with the bot down, or its gateway gone and the      *)
(* session begun anew, no event tells of it.                               *)
Move(m, to) ==
    /\ moves < MaxMoves /\ to # place[m] /\ (to \in Rooms => to \in exists)
    /\ moves' = moves + 1
    /\ place' = [place EXCEPT ![m] = to]
    /\ \/ /\ up /\ tasks' = tasks \cup {Event(moves', m, place[m], to)}
          /\ UNCHANGED <<faults, strays>>
       \/ /\ IF up THEN Fault ELSE UNCHANGED faults
          /\ strays' = IF up THEN (strays \cup {place[m]}) \cap Rooms ELSE strays
          /\ UNCHANGED tasks
    /\ UNCHANGED <<exists, used, owner, fresh, sweep, up, overlap>>

(* _maybe_delete, unless the room is unknown or somebody is in it.         *)
Leave(t) ==
    /\ t.at = "left"
    /\ IF owner[t.from] # Nobody /\ Inside(t.from) = {}
       THEN Becomes(t, [t EXCEPT !.at = "delete", !.room = t.from])
       ELSE Goto(t, "enter")
    /\ UNCHANGED <<voiceRows, fresh, sweep, up, moves, faults, overlap, strays>>

(* Deleting a room puts those in it out (events of it that would find      *)
(* nothing left to do are left out); a refusal is passed over.             *)
Gone(r) == /\ exists' = exists \ {r}
           /\ place' = [m \in Guests |-> IF place[m] = r THEN Outside ELSE place[m]]
DeleteQuiet(t, label) ==
    /\ Goto(t, label)
    /\ \/ Gone(t.room) /\ UNCHANGED <<faults, strays>>
       \/ t.room \in exists /\ Fault /\ strays' = strays \cup {t.room} /\ UNCHANGED <<exists, place>>

Delete(t) ==
    /\ t.at = "delete"
    /\ DeleteQuiet(t, "release")
    /\ UNCHANGED <<used, owner, fresh, sweep, up, moves, overlap>>
Release(t) ==
    /\ t.at = "release"
    /\ owner' = [owner EXCEPT ![t.room] = Nobody]
    /\ Goto(t, "enter")
    /\ UNCHANGED <<exists, used, place, fresh, sweep, up, moves, faults, overlap, strays>>

-----------------------------------------------------------------------------
Registered == {r \in Rooms : owner[r] # Nobody}
AtCap == Cardinality(Registered) >= Cap
Creating == At("create") \cup At("register")

(* _maybe_create: the hub, the cooldown and the cap.                       *)
Enter(t) ==
    /\ t.at = "enter"
    /\ IF t.to # Hub \/ t.member \in fresh \/ AtCap
       THEN Ends(t) /\ UNCHANGED overlap
       ELSE Goto(t, "create") /\ overlap' = (overlap \/ Creating # {})
    /\ UNCHANGED <<voiceRows, fresh, sweep, up, moves, faults, strays>>

Create(t, r) ==
    /\ t.at = "create" /\ r \notin used
    /\ exists' = exists \cup {r} /\ used' = used \cup {r}
    /\ Becomes(t, [t EXCEPT !.at = "register", !.room = r])
    /\ UNCHANGED <<owner, place, fresh, sweep, up, moves, faults, overlap, strays>>
CreateFails(t) == \* always, once the bound on rooms is reached
    /\ t.at = "create"
    /\ IF used = Rooms THEN UNCHANGED faults ELSE Fault
    /\ Ends(t)
    /\ UNCHANGED <<voiceRows, fresh, sweep, up, moves, overlap, strays>>

(* The row is written before the member is moved in.                       *)
Register(t) ==
    /\ t.at = "register"
    /\ owner' = [owner EXCEPT ![t.room] = t.member]
    /\ Goto(t, "move")
    /\ UNCHANGED <<exists, used, place, fresh, sweep, up, moves, faults, overlap, strays>>
RegisterFails(t) ==
    /\ t.at = "register" /\ Fault
    /\ Ends(t) /\ strays' = strays \cup {t.room}
    /\ UNCHANGED <<voiceRows, fresh, sweep, up, moves, overlap>>

(* Discord moves a member who is still in voice, to a room that exists.    *)
MoveIn(t) ==
    /\ t.at = "move" /\ place[t.member] # Outside /\ t.room \in exists
    /\ place' = [place EXCEPT ![t.member] = t.room]
    /\ fresh' = fresh \cup {t.member}
    /\ moves' = moves + 1
    /\ tasks' = (tasks \ {t}) \cup {Event(moves', t.member, place[t.member], t.room)}
    /\ UNCHANGED <<exists, used, owner, sweep, up, faults, overlap, strays>>
MoveFails(t) ==
    /\ t.at = "move"
    /\ \/ (place[t.member] = Outside \/ t.room \notin exists) /\ UNCHANGED faults
       \/ place[t.member] # Outside /\ t.room \in exists /\ Fault
    /\ Becomes(t, [t EXCEPT !.at = "undo", !.to = Outside])
    /\ UNCHANGED <<voiceRows, fresh, sweep, up, moves, overlap, strays>>
Undo(t) ==
    /\ t.at = "undo"
    /\ DeleteQuiet(t, "release")
    /\ UNCHANGED <<used, owner, fresh, sweep, up, moves, overlap>>

CooldownEnds ==
    /\ fresh # {} /\ fresh' = {}
    /\ UNCHANGED <<voiceRows, tasks, sweep, up, moves, faults, overlap, strays>>

(* A claim by somebody in the room, whose owner is not (who is there and   *)
(* what the row says are read in one step).                                *)
Claim(m, r) ==
    /\ up /\ owner[r] \notin {Nobody, m} /\ place[owner[r]] # r /\ place[m] = r
    /\ owner' = [owner EXCEPT ![r] = m]
    /\ UNCHANGED <<exists, used, place, fresh, tasks, sweep, up, moves, faults, overlap, strays>>

-----------------------------------------------------------------------------
(* A room that is not registered yet when the process dies is nobody's.    *)
Crash ==
    /\ up /\ up' = FALSE /\ Fault
    /\ strays' = strays \cup {t.room : t \in At("register")}
    /\ tasks' = {} /\ sweep' = {} /\ fresh' = {}
    /\ UNCHANGED <<voiceRows, moves, overlap>>

NoneSwept == {}  \* mutant
Listed == Registered
Restart ==
    /\ ~up /\ up' = TRUE
    /\ sweep' = Listed
    /\ UNCHANGED <<voiceRows, fresh, tasks, moves, faults, overlap, strays>>

(* _sweep: a row whose room is gone, or empty, goes.                       *)
Sweep(r) ==
    /\ r \in sweep /\ sweep' = sweep \ {r}
    /\ IF Inside(r) # {} THEN UNCHANGED tasks
       ELSE tasks' = tasks \cup
                {[Event(0, Nobody, r, Outside) EXCEPT !.at = IF r \in exists THEN "delete" ELSE "release",
                                                      !.room = r]}
    /\ UNCHANGED <<voiceRows, fresh, up, moves, faults, overlap, strays>>

Handle(t) ==
    \/ Leave(t) \/ Delete(t) \/ Release(t) \/ Enter(t) \/ CreateFails(t)
    \/ Register(t) \/ RegisterFails(t) \/ MoveIn(t) \/ MoveFails(t) \/ Undo(t)
    \/ \E r \in Rooms : Create(t, r)

Next ==
    \/ \E m \in Guests, p \in Places : Move(m, p)
    \/ \E t \in tasks : Handle(t)
    \/ \E m \in Guests, r \in Rooms : Claim(m, r)
    \/ \E r \in Rooms : Sweep(r)
    \/ CooldownEnds \/ Crash \/ Restart

Spec == Init /\ [][Next]_tempVars

(* Handlers that have begun go on, and a bot that died is started again.   *)
Fairness ==
    /\ WF_tempVars(\E t \in tasks : Handle(t)) /\ WF_tempVars(Restart)
    /\ \A r \in Rooms : WF_tempVars(Sweep(r))

TypeOK ==
    /\ exists \subseteq used /\ used \subseteq Rooms
    /\ owner \in [Rooms -> Guests \cup {Nobody}]
    /\ place \in [Guests -> Places] /\ \A m \in Guests : place[m] \in Rooms => place[m] \in exists
    /\ fresh \subseteq Guests /\ sweep \subseteq Rooms /\ strays \subseteq Rooms

-----------------------------------------------------------------------------
(* There are no more rooms than tempvoice_max_per_guild, unless two        *)
(* members enter the hub at once.                                          *)
WithinCap == ~overlap => Cardinality(Registered) <= Cap

(* Rooms do not pile up. An empty room goes in the end, unless it was left *)
(* unseen, its row was never written or Discord refused to delete it; and  *)
(* there are no more than the cap.                                         *)
RoomsDoNotPileUp ==
    /\ \A r \in Rooms :
         r \in exists /\ Inside(r) = {} ~> r \notin exists \/ Inside(r) # {} \/ r \in strays
    /\ []WithinCap
===============================================================================
