-------------------------------- MODULE Departures --------------------------------
(***************************************************************************)
(* Erasing data: a server's some time after the bot has left it,           *)
(* and what is personal of a member who asks for it.                       *)
(*                                                                         *)
(*   infrastructure/privacy_service.py       marks, the sweep, erasing     *)
(*   infrastructure/discord/cogs/privacy.py  events, the loop, /forgetme   *)
(*                                                                         *)
(* Each event is handled by a task of its own, so that two of them may be  *)
(* under way and overtake each other. What happens while the bot is down   *)
(* is told to nobody afterwards.                                           *)
(***************************************************************************)
EXTENDS Integers

CONSTANTS
    Servers,
    MaxMoves, MaxFaults \* bounds

VARIABLES
    here,     \* the servers the bot is on
    data,     \* what there is of each: "personal" rows and "cases" of moderation
    mark,     \* guild_departures: "none", "waits", and "due" when the grace is over
    handlers, \* events being handled: <<server, "left" or "joined">>
    todo,     \* the servers the sweep has found and not yet erased
    up, moves, faults,
    unheard,  \* history: servers whose last move was not handled, or not in order
    caught    \* history: in todo, and the bot came back too late for the sweep

departureVars == <<here, data, mark, handlers, todo, up, moves, faults, unheard, caught>>

(* What is erased with a server, and rows of a server that are in none of  *)
(* those tables: news of Riot, achievements, tiers, trials, seats of keys. *)
_GUILD_SCOPED == {"personal", "cases"}
Kinds == _GUILD_SCOPED \cup {"other"}

Init ==
    /\ here = Servers /\ data = [g \in Servers |-> Kinds]
    /\ mark = [g \in Servers |-> "none"]
    /\ handlers = {} /\ todo = {} /\ up = TRUE
    /\ moves = 0 /\ faults = 0 /\ unheard = {} /\ caught = {}

Fault == faults < MaxFaults /\ faults' = faults + 1
Pending(g) == \E h \in handlers : h[1] = g

(* The bot leaves a server or comes back.                                  *)
Told(g, event) ==
    /\ moves < MaxMoves /\ moves' = moves + 1
    /\ handlers' = IF up THEN handlers \cup {<<g, event>>} ELSE handlers
    /\ unheard' = IF up /\ ~Pending(g) THEN unheard ELSE unheard \cup {g}

Leave(g) ==
    /\ g \in here /\ here' = here \ {g} /\ Told(g, "left")
    /\ UNCHANGED <<data, mark, todo, up, faults, caught>>
Return(g) ==
    /\ g \notin here /\ here' = here \cup {g} /\ Told(g, "joined")
    /\ caught' = IF g \in todo THEN caught \cup {g} ELSE caught
    /\ UNCHANGED <<data, mark, todo, up, faults>>

Unmarked(g) == mark[g]  \* mutant
Marked(g) == "waits"

(* mark_departure, whatever mark there was, and cancel_departure.          *)
Handle(g, event) ==
    /\ <<g, event>> \in handlers /\ handlers' = handlers \ {<<g, event>>}
    /\ mark' = [mark EXCEPT ![g] = IF event = "left" THEN Marked(g) ELSE "none"]
    /\ unheard' = IF (event = "joined") = (g \in here) /\ \A h \in handlers' : h[1] # g
                  THEN unheard \ {g} ELSE unheard \cup {g}
    /\ UNCHANGED <<here, data, todo, up, moves, faults, caught>>

HandlerFails(g, event) ==
    /\ <<g, event>> \in handlers /\ handlers' = handlers \ {<<g, event>>} /\ Fault
    /\ unheard' = unheard \cup {g}
    /\ UNCHANGED <<here, data, mark, todo, up, moves, caught>>

GraceEnds(g) ==
    /\ mark[g] = "waits" /\ mark' = [mark EXCEPT ![g] = "due"]
    /\ UNCHANGED <<here, data, handlers, todo, up, moves, faults, unheard, caught>>

-----------------------------------------------------------------------------
(* sweep_expired: the marks that are due are read once, and each server is *)
(* then erased without looking again, with its mark.                       *)
Expired == {g \in Servers : mark[g] = "due"}
Sweep ==
    /\ up /\ todo = {} /\ Expired # {} /\ todo' = Expired
    /\ caught' = {g \in Expired : <<g, "joined">> \in handlers}
    /\ UNCHANGED <<here, data, mark, handlers, up, moves, faults, unheard>>

PurgeGuild(g) ==
    /\ g \in todo /\ todo' = todo \ {g} /\ caught' = caught \ {g}
    /\ data' = [data EXCEPT ![g] = @ \ _GUILD_SCOPED]
    /\ mark' = [mark EXCEPT ![g] = "none"]
    /\ UNCHANGED <<here, handlers, up, moves, faults, unheard>>

(* One failure ends the pass.                                              *)
PurgeFails ==
    /\ todo # {} /\ todo' = {} /\ caught' = {} /\ Fault
    /\ UNCHANGED <<here, data, mark, handlers, up, moves, unheard>>

(* /forgetme, and members going on using the bot.                          *)
ForgetUser(g) ==
    /\ up /\ g \in here /\ data' = [data EXCEPT ![g] = @ \ {"personal"}]
    /\ UNCHANGED <<here, mark, handlers, todo, up, moves, faults, unheard, caught>>
Use(g) ==
    /\ up /\ g \in here /\ data' = [data EXCEPT ![g] = Kinds]
    /\ UNCHANGED <<here, mark, handlers, todo, up, moves, faults, unheard, caught>>

Crash ==
    /\ up /\ up' = FALSE /\ Fault
    /\ unheard' = unheard \cup {g \in Servers : Pending(g)}
    /\ handlers' = {} /\ todo' = {} /\ caught' = {}
    /\ UNCHANGED <<here, data, mark, moves>>
Start ==
    /\ ~up /\ up' = TRUE
    /\ UNCHANGED <<here, data, mark, handlers, todo, moves, faults, unheard, caught>>

Next ==
    \/ \E g \in Servers :
        \/ Leave(g) \/ Return(g) \/ GraceEnds(g) \/ PurgeGuild(g) \/ ForgetUser(g) \/ Use(g)
        \/ \E event \in {"left", "joined"} : Handle(g, event) \/ HandlerFails(g, event)
    \/ Sweep \/ PurgeFails \/ Crash \/ Start

Spec == Init /\ [][Next]_departureVars

(* Handlers go on, time passes, the loop comes round, the bot is started.  *)
Fairness ==
    /\ \A g \in Servers :
        /\ WF_departureVars(GraceEnds(g)) /\ WF_departureVars(PurgeGuild(g))
        /\ \A event \in {"left", "joined"} : WF_departureVars(Handle(g, event))
    /\ WF_departureVars(Sweep) /\ WF_departureVars(Start)

TypeOK ==
    /\ here \subseteq Servers /\ data \in [Servers -> SUBSET Kinds]
    /\ mark \in [Servers -> {"none", "waits", "due"}]
    /\ handlers \subseteq Servers \X {"left", "joined"}
    /\ todo \subseteq Servers /\ caught \subseteq todo /\ unheard \subseteq Servers
    /\ up \in BOOLEAN /\ moves \in 0 .. MaxMoves /\ faults \in 0 .. MaxFaults

-----------------------------------------------------------------------------
(* A server the bot is on keeps its cases of moderation ("защита от        *)
(* случайного кика/переинвайта"), unless its last move was not handled, or *)
(* it came back too late for the sweep.                                    *)
CasesKept ==
    [][\A g \in here \ (unheard \cup caught) :
           "cases" \in data[g] => "cases" \in data'[g]]_departureVars

(* Of what the bot left for good the tables of _GUILD_SCOPED are erased in *)
(* the end, though a pass fails on the way ("удаляем ВСЕ строки этого      *)
(* сервера", of which some tables are left out), and a server it is on     *)
(* keeps its cases.                                                        *)
ErasedIfLeft ==
    /\ CasesKept
    /\ \A g \in Servers : <>[](g \notin here) => <>[](g \in unheard \/ data[g] \cap _GUILD_SCOPED = {})
===================================================================================
