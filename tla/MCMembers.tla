------------------------------- MODULE MCMembers -------------------------------
(* What members go through on a server, and the bot itself, in one run:    *)
(* warns, night finds, the choice to stay or leave, temporary voice        *)
(* channels, departures. They are independent instances: part says which   *)
(* of them moves, and the others stay as they are at first.                *)
EXTENDS MCWarns

CONSTANTS
    Members, Things, Visits, Rooms, Nobody, Servers,
    Cap,    \* of temporary rooms
    Frozen, \* members whose profile an admin has frozen
    MaxVisits, MaxJoins, MaxMoves, MaxFaults,
    MaxDepartures \* of the bot itself

(* A walk is of no find: it has 0 in its place.                            *)
ASSUME MembersAssumption ==
    /\ Nobody \notin Members \cup Visits \cup Things /\ 0 \notin Things /\ MaxVisits \in Nat
    /\ Cap \in Nat

VARIABLES
    part,
    row, owner, known, message, spawning, watched, items, tries, recent, points, lock, held,
    visit, job, findsUp, findFaults, visits, crossed, lost,
    inside, cached, enabled, buttons, kickRow, popped, reminding, wish, torn, kickBroken,
    kickUp, joins, kickFaults,
    exists, used, roomOwner, place, fresh, tasks, sweep, voiceUp, moves, voiceFaults,
    overlap, strays,
    here, data, mark, handlers, todo, running, departures, departureFaults, unheard, caught

findVars == <<row, owner, known, message, spawning, watched, items, tries, recent, points,
              lock, held, visit, job, findsUp, findFaults, visits, crossed, lost>>
kickVars == <<inside, cached, enabled, buttons, kickRow, popped, reminding, wish, torn,
              kickBroken, kickUp, joins, kickFaults>>
roomVars == <<exists, used, roomOwner, place, fresh, tasks, sweep, voiceUp, moves,
              voiceFaults, overlap, strays>>
departureVars == <<here, data, mark, handlers, todo, running, departures, departureFaults,
                   unheard, caught>>
allVars == <<part, mcVars, findVars, kickVars, roomVars, departureVars>>

Night == INSTANCE Finds WITH
    Finds <- Things, pc <- visit, up <- findsUp, faults <- findFaults
Choice == INSTANCE StayKick WITH
    row <- kickRow, broken <- kickBroken, up <- kickUp, faults <- kickFaults
Voice == INSTANCE TempVoice WITH
    Guests <- Members, owner <- roomOwner, up <- voiceUp, faults <- voiceFaults
Privacy == INSTANCE Departures WITH
    MaxMoves <- MaxDepartures, up <- running, moves <- departures, faults <- departureFaults

AllInit ==
    /\ part \in {"warns", "finds", "choice", "voice", "departures"}
    /\ MCInit /\ Night!Init /\ Choice!Init /\ Voice!Init /\ Privacy!Init
    /\ findFaults = 0 /\ visits = 0 /\ \A f \in Things : row[f] = "none"
AllNext ==
    /\ \/ part = "warns" /\ MCNext /\ UNCHANGED <<findVars, kickVars, roomVars, departureVars>>
       \/ part = "finds" /\ Night!Next /\ UNCHANGED <<mcVars, kickVars, roomVars, departureVars>>
       \/ part = "choice" /\ Choice!Next /\ UNCHANGED <<mcVars, findVars, roomVars, departureVars>>
       \/ part = "voice" /\ Voice!Next /\ UNCHANGED <<mcVars, findVars, kickVars, departureVars>>
       \/ /\ part = "departures" /\ Privacy!Next
          /\ UNCHANGED <<mcVars, findVars, kickVars, roomVars>>
    /\ UNCHANGED part
AllFairSpec ==
    /\ AllInit /\ [][AllNext]_allVars
    /\ \A w \in Warners : WF_vars(Execute(w))
    /\ Night!Fairness /\ Choice!Fairness /\ Voice!Fairness
    /\ Privacy!Fairness

-----------------------------------------------------------------------------
(* A find goes to one member, and no member tries one twice unless two of  *)
(* their requests overlap (Finds).                                         *)
FairPlay == Night!FairPlay

(* Every announcement loses its button in the end (Finds).                 *)
AnnouncementsClose == Night!AnnouncementsClose

(* Who chose to leave does leave, and nobody else is kicked (StayKick).    *)
LeaversGo == Choice!LeaversGo

(* Empty rooms go, and there are no more than the cap (TempVoice).         *)
RoomsDoNotPileUp == Voice!RoomsDoNotPileUp

(* What the bot has left is erased as far as the erasure reaches, and the  *)
(* cases of the servers it is on are kept (Departures).                    *)
ErasedIfLeft == Privacy!ErasedIfLeft
=============================================================================
