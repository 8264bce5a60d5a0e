-------------------------------- MODULE MCTimers --------------------------------
(* The deferred timers, the film club whose polls and ratings they end,    *)
(* the music player, and the bot's stay in a voice channel in one run.     *)
(* They are independent instances: part says which of them moves, and the  *)
(* others stay as they are at first.                                       *)
EXTENDS Scheduler

CONSTANTS Movies, Nights, Users, Starters, Tracks, Slots, HistoryLimit, MaxOps, MaxQueue, Channels,
          Coroutines, MaxAsks, MaxFills, MaxDoings, MaxFaults,
          MaxCrashes

ASSUME TimersAssumption ==
    /\ None \notin Tracks /\ IsFiniteSet(Slots) /\ HistoryLimit \in Nat \ {0}
    /\ IsFiniteSet(Coroutines) /\ MaxAsks \in Nat
    /\ IsFiniteSet(Movies) /\ IsFiniteSet(Users) /\ IsFiniteSet(Starters)
    /\ "insert" \notin Nights \cup {None}

VARIABLES
    part,
    movie, night, choice, winner, votes, rated, counted, shown, over, pollTimers, todo,
    starter, options, removing, click, final, up, crashes, met,
    queue, past, current, repeat, paused, skipping, suppress, seekTo, stopping, heard,
    muted, ended, loaders, failed, settling, fresh, ops, crowded, hasty, gone,
    person, line, at, ready, lines, session, made, voice, waiting, onAir, sound, finished,
    message, timer, grace, closing, radio, pc, own, via, goal, asks, fills, moves, faults,
    stranded, unseen, jammed

Club == INSTANCE MCCinema WITH
    timers <- pollTimers, Overlap <- TRUE, CallsMayFail <- TRUE
Music == INSTANCE Player WITH history <- past
Room == INSTANCE MusicRoom WITH
    Tasks <- Coroutines, queue <- waiting, current <- onAir, over <- finished,
    crowded <- jammed

clubVars == <<movie, night, choice, winner, votes, rated, counted, shown, over, pollTimers,
              todo, starter, options, removing, click, final, up, crashes, met>>
musicVars == <<queue, past, current, repeat, paused, skipping, suppress, seekTo, stopping,
               heard, muted, ended, loaders, failed, settling, fresh, ops, crowded, hasty, gone>>
roomVars == <<person, line, at, ready, lines, session, made, voice, waiting, onAir, sound,
              finished, message, timer, grace, closing, radio, pc, own, via, goal, asks, fills,
              moves, faults, stranded, unseen, jammed>>
allVars == <<part, vars, clubVars, musicVars, roomVars>>

AllInit ==
    /\ part \in {"timers", "club", "music", "room"}
    /\ Init /\ Club!MCInit /\ Music!MCInit /\ Room!Init
    /\ part # "timers" => keyOf = [t \in Tasks |-> CHOOSE k \in Keys : TRUE]
AllNext ==
    /\ \/ part = "timers" /\ Next /\ UNCHANGED <<clubVars, musicVars, roomVars>>
       \/ part = "club" /\ Club!MCNext /\ UNCHANGED <<vars, musicVars, roomVars>>
       \/ part = "music" /\ Music!MCNext /\ UNCHANGED <<vars, clubVars, roomVars>>
       \/ part = "room" /\ Room!Next /\ UNCHANGED <<vars, clubVars, musicVars>>
    /\ UNCHANGED part
AllFairSpec == AllInit /\ [][AllNext]_allVars 
              /\ (\A t \in Tasks : WF_vars(Turn(t))) /\ Club!Fairness /\ Music!Fairness
              /\ Room!Fairness

-----------------------------------------------------------------------------
(* Polls and collections of ratings end although their timers die with the *)
(* process, and calls may fail (Cinema).                                   *)
EverythingCloses == Club!EverythingCloses

(* One active night at a time, ratings that all count, ended nights that   *)
(* stay, while transactions do not overlap (MCCinema).                     *)
ClubRulesAlone == Club!ClubRulesAlone

(* What is heard is the track the player shows, and no track is lost, as   *)
(* long as one stream is looked up at a time; nothing is heard once the    *)
(* session is over (Player).                                             *)
PlayedRightAlone == Music!ShownIsHeardAlone /\ Music!NothingLostAlone

(* When people stop giving commands, the queue is played to its end        *)
(* (Player).                                                               *)
QueueDrains == Music!QueueDrains

(* The bot leaves the voice channel neither too early nor too late         *)
(* (MusicRoom).                                                            *)
LeavesRightly == Room!LeavesRightly
=============================================================================
