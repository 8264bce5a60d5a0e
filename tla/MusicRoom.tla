-------------------------------- MODULE MusicRoom --------------------------------
(***************************************************************************)
(* The music sessions of one server: how the bot comes into a voice        *)
(* channel, what keeps it there, and when it leaves.                       *)
(*                                                                         *)
(*   infrastructure/discord/cogs/music/service.py  sessions, timers        *)
(*   infrastructure/discord/cogs/music/cog.py      commands                *)
(*   infrastructure/discord/cogs/music/radio.py    tracks when there is no *)
(*                                                 more                    *)
(*                                                                         *)
(* A coroutine is a command on its way through its awaits; the one that    *)
(* plays the last track goes on as the handler of an empty queue. The      *)
(* player (Player) is reduced to the length of its queue, whether it has a *)
(* current track, and whether it sounds. There is one person.              *)
(***************************************************************************)
EXTENDS Integers, FiniteSets

CONSTANTS
    Channels,
    Tasks,    \* coroutines that may be under way at once: 1 .. n
    MaxAsks, MaxFills, MaxDoings, MaxFaults \* bounds

Sessions == 1 .. MaxAsks
Outside == "outside"
Nobody == 0

VARIABLES
    person,   \* the channel the person is in
    line,     \* guild.voice_client, by number, 0 for none
    at,       \* its channel
    ready,    \* it is connected
    lines,    \* voice clients so far
    session,  \* sessions[guild_id], 0 for none
    made,     \* sessions so far
    voice,    \* the voice client of each session
    queue,    \* how many tracks wait
    current,  \* is_playing: the player has a current track
    sound,    \* it is heard
    over,     \* _stopping
    message,  \* the player's message is there
    timer,    \* idle_task: "no", "quiet", "asked"
    grace,    \* _empty_grace has a timer
    closing,  \* voice clients being disconnected
    radio,
    pc, own, via, goal, \* of a coroutine: where it is, its session, voice client, channel
    asks, fills, moves, faults, \* bounds
    stranded, \* history: a session lost its timer, or plays on a line that is not there
    unseen,   \* history: the person left while no session could notice
    crowded   \* history: two coroutines were in _play_next of one session at once

place == <<person, line, at, ready, lines>>
player == <<queue, current, sound, over>>
task == <<pc, own, via, goal>>
bounds == <<asks, fills, moves, faults>>
history == <<stranded, unseen, crowded>>
vars == <<place, session, made, voice, player, message, timer, grace, closing, radio, task,
          bounds, history>>

Init ==
    /\ person = (CHOOSE c \in Channels : TRUE) /\ line = 0 /\ at = Outside /\ ready = FALSE /\ lines = 0
    /\ session = 0 /\ made = 0 /\ voice = [s \in Sessions |-> 0]
    /\ queue = [s \in Sessions |-> 0]
    /\ current = [s \in Sessions |-> FALSE] /\ sound = current /\ over = current
    /\ message = current
    /\ timer = [s \in Sessions |-> "no"] /\ grace = FALSE /\ closing = {}
    /\ radio = FALSE
    /\ pc = [c \in Tasks |-> "done"] /\ own = [c \in Tasks |-> 0]
    /\ via = own /\ goal = [c \in Tasks |-> Outside]
    /\ asks = 0 /\ fills = 0 /\ moves = 0 /\ faults = 0
    /\ stranded = FALSE /\ unseen = FALSE /\ crowded = FALSE

Fault == faults < MaxFaults /\ faults' = faults + 1
Free(c) == pc[c] = "done" /\ \A d \in Tasks : pc[d] = "done" => c <= d
Goto(c, label) == pc' = [pc EXCEPT ![c] = label]
Playing == session # 0 /\ current[session]
Deserted == person # at

-----------------------------------------------------------------------------
(* The end of a session: what happens at once, and the disconnecting.      *)
Ended(s, ring) ==
    /\ session' = 0 /\ timer' = [timer EXCEPT ![ring] = "no"] /\ grace' = FALSE
    /\ queue' = [queue EXCEPT ![s] = 0] /\ current' = [current EXCEPT ![s] = FALSE]
    /\ sound' = [sound EXCEPT ![s] = FALSE] /\ over' = [over EXCEPT ![s] = TRUE]
Cleanup ==
    IF session = 0
    THEN grace' = FALSE /\ UNCHANGED <<session, timer, player, closing>>
    ELSE Ended(session, session) /\ closing' = closing \cup {voice[session]}

(* /stop, /leave, the button, the panel.                                   *)
Stop ==
    /\ session # 0 /\ Cleanup
    /\ UNCHANGED <<place, made, voice, message, radio, task, bounds, history>>

(* handle_voice_state when the bot is in a channel: nobody to play for     *)
(* starts the timer, somebody stops it.                                    *)
Noticed(who, where) ==
    grace' = IF session = 0 \/ line = 0 THEN grace ELSE who # where

(* The bot is out of its channel: its own voice state ends the session.    *)
Out ==
    /\ line' = 0 /\ at' = Outside /\ ready' = FALSE
    /\ IF session = 0 THEN UNCHANGED <<session, timer, player, grace>> ELSE Ended(session, session)
    /\ UNCHANGED <<person, lines, made, voice, message, radio, task, history>>
Disconnected(l) ==
    /\ l \in closing
    /\ closing' = closing \ {l}
    /\ IF line = l
       THEN Out
       ELSE UNCHANGED <<place, session, made, voice, player, message, timer, grace, radio,
                        task, history>>
    /\ UNCHANGED bounds
Kicked ==
    /\ line # 0 /\ ready /\ Fault /\ Out
    /\ UNCHANGED <<closing, asks, fills, moves>>

-----------------------------------------------------------------------------
(* _play_next in coroutine c, with q tracks in the queue. The hook for an  *)
(* empty queue is gone from a session that has ended; the radio helps, but *)
(* not twice in a row.                                                     *)
Becomes(c, label, s) == Goto(c, label) /\ own' = [own EXCEPT ![c] = s]
Seeking(c) == pc[c] \in {"load", "refill"}
Loading(c) == Seeking(c) \/ pc[c] \in {"failed", "refailed"}
PlayNext(c, s, q, fresh) ==
    /\ crowded' = (crowded \/ (q > 0 /\ \E d \in Tasks \ {c} : Loading(d) /\ own[d] = s))
    /\ queue' = [queue EXCEPT ![s] = IF q > 0 THEN q - 1 ELSE 0]
    /\ IF q > 0
       THEN Becomes(c, IF fresh THEN "refill" ELSE "load", s) /\ UNCHANGED current
       ELSE /\ current' = [current EXCEPT ![s] = FALSE]
            /\ \/ over[s] /\ Becomes(c, "done", s)
               \/ ~over[s] /\ Becomes(c, "presence", s)
               \/ ~over[s] /\ radio /\ ~fresh /\ session # 0 /\ line # 0
                  /\ Becomes(c, "fill", session)

(* player.enqueue of one track.                                            *)
Put(c, s, fresh) ==
    IF current[s]
    THEN /\ queue' = [queue EXCEPT ![s] = @ + 1] /\ Goto(c, "done")
         /\ UNCHANGED <<current, own, crowded>>
    ELSE PlayNext(c, s, queue[s] + 1, fresh)

CanPlay(s) == voice[s] = line /\ ready /\ ~sound[s]

(* The stream is found. A line that refuses leaves the track as the        *)
(* current one, and nothing is heard.                                      *)
Found(c) ==
    /\ Seeking(c)
    /\ LET s == own[c]
       IN  /\ current' = [current EXCEPT ![s] = TRUE]
           /\ sound' = [sound EXCEPT ![s] = @ \/ CanPlay(s)]
           /\ stranded' = (stranded \/ (~CanPlay(s) /\ ~sound[s]))
           /\ Goto(c, IF pc[c] = "refill" /\ ~CanPlay(s) THEN "presence" ELSE "done")
    /\ UNCHANGED <<place, session, made, voice, queue, over, message, timer, grace, closing,
                   radio, own, via, goal, bounds, unseen, crowded>>

(* It is not: on_track_failed is awaited, which posts a message; then the  *)
(* next track is tried, from what the queue is by now.                     *)
NotFound(c) ==
    /\ Seeking(c)
    /\ Goto(c, IF pc[c] = "refill" THEN "refailed" ELSE "failed")
    /\ UNCHANGED <<place, session, made, voice, player, message, timer, grace, closing, radio,
                   own, via, goal, bounds, history>>
TriesNext(c) ==
    /\ pc[c] \in {"failed", "refailed"}
    /\ PlayNext(c, own[c], queue[own[c]], pc[c] = "refailed")
    /\ UNCHANGED <<place, session, made, voice, sound, over, message, timer, grace, closing,
                   radio, via, goal, bounds, stranded, unseen>>
TrackEnds(c, s) ==
    /\ Free(c) /\ sound[s]
    /\ sound' = [sound EXCEPT ![s] = FALSE]
    /\ IF over[s]
       THEN UNCHANGED <<queue, current, pc, own, crowded>>
       ELSE PlayNext(c, s, queue[s], FALSE)
    /\ UNCHANGED <<place, session, made, voice, over, message, timer, grace, closing, radio,
                   via, goal, bounds, stranded, unseen>>

-----------------------------------------------------------------------------
(* The queue is empty, _on_idle.                                           *)
NoTimer(s) == IF s = 0 THEN timer ELSE [timer EXCEPT ![s] = "no"]

CancelledLast(s, t) == NoTimer(s)  \* mutant
Counting(s, t) == [NoTimer(s) EXCEPT ![t] = "quiet"]

(* RadioService.fill has read likes and playlists. tracks is what there    *)
(* was; a command that finds nothing has stopped the timer and says so.    *)
Fill(c, found) ==
    /\ pc[c] \in {"fill", "ask_radio"}
    /\ IF found
       THEN /\ fills < MaxFills /\ fills' = fills + 1
            /\ Put(c, own[c], TRUE) /\ UNCHANGED stranded
       ELSE /\ Goto(c, IF pc[c] = "fill" THEN "presence" ELSE "done")
            /\ stranded' = (stranded \/ pc[c] = "ask_radio")
            /\ UNCHANGED <<fills, queue, current, own, crowded>>
    /\ UNCHANGED <<place, session, made, voice, sound, over, message, timer, grace, closing,
                   radio, via, goal, asks, moves, faults, unseen>>

(* The session is looked up again; its message goes before the timer runs. *)
Quiet(c) ==
    /\ pc[c] = "presence"
    /\ IF session = 0
       THEN Goto(c, "done") /\ UNCHANGED <<message, own, timer>>
       ELSE IF message[session]
            THEN /\ message' = [message EXCEPT ![session] = FALSE]
                 /\ Becomes(c, "deleting", session) /\ UNCHANGED timer
            ELSE /\ timer' = Counting(session, session)
                 /\ Goto(c, "done") /\ UNCHANGED <<message, own>>
    /\ UNCHANGED <<place, session, made, voice, player, grace, closing, radio, via, goal,
                   bounds, history>>
Deleted(c) ==
    /\ pc[c] = "deleting"
    /\ timer' = Counting(session, own[c])
    /\ Goto(c, "done")
    /\ UNCHANGED <<place, session, made, voice, player, message, grace, closing, radio, own,
                   via, goal, bounds, history>>

(* /radio: switches it; in silence the timer stops and tracks are sought.  *)
ToggleRadio(c) ==
    /\ Free(c) /\ asks < MaxAsks /\ asks + moves < MaxDoings /\ asks' = asks + 1
    /\ radio' = ~radio
    /\ IF ~radio /\ session # 0 /\ ~current[session]
       THEN timer' = NoTimer(session) /\ Becomes(c, "ask_radio", session)
       ELSE UNCHANGED <<timer, pc, own>>
    /\ UNCHANGED <<place, session, made, voice, player, message, grace, closing, via, goal,
                   fills, moves, faults, history>>

-----------------------------------------------------------------------------
(* Timers. Both look again when they wake.                                 *)
(* _idle_countdown, up to the question and from there to the end.          *)
AskMore(s) ==
    /\ timer[s] = "quiet"
    /\ timer' = [timer EXCEPT ![s] = IF session = 0 \/ Playing THEN "no" ELSE "asked"]
    /\ UNCHANGED <<place, session, made, voice, player, message, grace, closing, radio, task,
                   bounds, history>>
GiveUp(s) ==
    /\ timer[s] = "asked"
    /\ IF session = 0 \/ Playing
       THEN /\ timer' = [timer EXCEPT ![s] = "no"]
            /\ UNCHANGED <<session, player, grace, closing>>
       ELSE /\ Ended(session, s) /\ closing' = closing \cup {voice[session]}
    /\ UNCHANGED <<place, made, voice, message, radio, task, bounds, history>>

(* _empty_countdown.                                                       *)
GraceEnds ==
    /\ grace
    /\ IF line # 0 /\ Deserted THEN Cleanup
       ELSE grace' = FALSE /\ UNCHANGED <<session, timer, player, closing>>
    /\ UNCHANGED <<place, made, voice, message, radio, task, bounds, history>>

-----------------------------------------------------------------------------
(* Commands that put a track into the queue: /play, a playlist, likes. The *)
(* address, the search or the table is awaited first. A track picked from  *)
(* a list that was sent earlier is not looked for again.                   *)
Ask(c) ==
    /\ Free(c) /\ asks < MaxAsks /\ asks + moves < MaxDoings /\ asks' = asks + 1
    /\ UNCHANGED <<place, session, made, voice, player, message, timer, grace, closing, radio,
                   own, via, goal, fills, moves, faults, history>>
Play(c) == Ask(c) /\ person # Outside /\ Goto(c, "searching")
Pick(c) == Ask(c) /\ Goto(c, "found")

(* From a session to the queue: the timer stops, the message is posted if  *)
(* there is none, or if the command came from another text channel.        *)
InSession(c, l) ==
    LET s == IF session = 0 THEN made + 1 ELSE session
    IN  /\ session' = s
        /\ made' = IF session = 0 THEN made + 1 ELSE made
        /\ voice' = IF session = 0 THEN [voice EXCEPT ![s] = l] ELSE voice
        /\ timer' = [timer EXCEPT ![s] = "no"]
        /\ \/ message[s] /\ Put(c, s, FALSE)
           \/ Becomes(c, "posting", s) /\ UNCHANGED <<queue, current, crowded>>

(* enqueue_tracks, _get_or_create_session.                                 *)
Join(c) ==
    /\ pc[c] \in {"searching", "found"}
    /\ UNCHANGED <<person, sound, over, message, closing, radio, bounds, stranded, unseen>>
    /\ \/ /\ person = Outside \/ (line # 0 /\ at # person /\ Playing)
          /\ Goto(c, "done")
          /\ UNCHANGED <<line, at, ready, lines, session, made, voice, queue, current, timer,
                         grace, own, via, goal, crowded>>
       \/ /\ person # Outside /\ line = 0
          /\ lines' = lines + 1 /\ line' = lines + 1 /\ at' = person /\ ready' = FALSE
          /\ via' = [via EXCEPT ![c] = lines + 1] /\ Goto(c, "connecting")
          /\ UNCHANGED <<session, made, voice, queue, current, timer, grace, own, goal,
                         crowded>>
       \/ /\ person # Outside /\ line # 0 /\ at # person /\ ~Playing
          /\ via' = [via EXCEPT ![c] = line] /\ goal' = [goal EXCEPT ![c] = person]
          /\ Goto(c, "moving")
          /\ UNCHANGED <<line, at, ready, lines, session, made, voice, queue, current, timer,
                         grace, own, crowded>>
       \/ /\ person # Outside /\ line # 0 /\ at = person
          /\ InSession(c, line)
          /\ UNCHANGED <<line, at, ready, lines, grace, via, goal>>
NothingFound(c) ==
    /\ pc[c] = "searching" /\ Goto(c, "done")
    /\ UNCHANGED <<place, session, made, voice, player, message, timer, grace, closing, radio,
                   own, via, goal, bounds, history>>

Connected(c) ==
    /\ pc[c] = "connecting" /\ line = via[c]
    /\ ready' = TRUE
    /\ Noticed(person, at)
    /\ InSession(c, line)
    /\ unseen' = (unseen \/ Deserted)
    /\ UNCHANGED <<person, line, at, lines, sound, over, message, closing, radio, via, goal,
                   bounds, stranded>>
ConnectFails(c) ==
    /\ pc[c] = "connecting" /\ Goto(c, "done")
    /\ IF line = via[c]
       THEN Fault /\ line' = 0 /\ at' = Outside /\ UNCHANGED ready
       ELSE UNCHANGED <<line, at, ready, faults>>
    /\ stranded' = (stranded \/ session # 0)
    /\ UNCHANGED <<person, lines, session, made, voice, player, message, timer, grace, closing,
                   radio, own, via, goal, asks, fills, moves, unseen, crowded>>
Moved(c) ==
    /\ pc[c] = "moving"
    /\ IF line = via[c]
       THEN at' = goal[c] /\ Noticed(person, goal[c])
       ELSE UNCHANGED <<at, grace>>
    /\ InSession(c, via[c])
    /\ stranded' = (stranded \/ line # via[c])
    /\ unseen' = (unseen \/ person # goal[c])
    /\ UNCHANGED <<person, line, lines, ready, sound, over, message, closing, radio, via, goal,
                   bounds>>

Posted(c) ==
    /\ pc[c] = "posting"
    /\ message' = [message EXCEPT ![own[c]] = TRUE]
    /\ Put(c, own[c], FALSE)
    /\ UNCHANGED <<place, session, made, voice, sound, over, timer, grace, closing, radio, via,
                   goal, bounds, stranded, unseen>>
PostFails(c) ==
    /\ pc[c] = "posting" /\ Fault /\ Goto(c, "done")
    /\ stranded' = (stranded \/ session = own[c])
    /\ UNCHANGED <<place, session, made, voice, player, message, timer, grace, closing, radio,
                   own, via, goal, asks, fills, moves, unseen, crowded>>

-----------------------------------------------------------------------------
(* The person goes, or somebody moves the bot.                             *)
Move(where) ==
    /\ where # person /\ asks + moves < MaxDoings /\ moves' = moves + 1
    /\ person' = where /\ Noticed(where, at)
    /\ UNCHANGED <<line, at, ready, lines, session, made, voice, player, message, timer, closing,
                   radio, task, asks, fills, faults, history>>
Dragged(where) ==
    /\ line # 0 /\ ready /\ where # at /\ asks + moves < MaxDoings /\ moves' = moves + 1
    /\ at' = where /\ Noticed(person, where)
    /\ UNCHANGED <<person, line, ready, lines, session, made, voice, player, message, timer,
                   closing, radio, task, asks, fills, faults, history>>

-----------------------------------------------------------------------------
Proceed(c) ==
    \/ Found(c) \/ NotFound(c) \/ TriesNext(c)
    \/ Fill(c, TRUE) \/ Fill(c, FALSE) \/ Quiet(c) \/ Deleted(c)
    \/ Join(c) \/ NothingFound(c) \/ Connected(c) \/ ConnectFails(c) \/ Moved(c)
    \/ Posted(c) \/ PostFails(c)
Wakes == (\E s \in Sessions : AskMore(s) \/ GiveUp(s)) \/ GraceEnds
Next ==
    \/ \E c \in Tasks :
          Proceed(c) \/ Play(c) \/ Pick(c) \/ ToggleRadio(c) \/ \E s \in Sessions : TrackEnds(c, s)
    \/ Wakes \/ Stop \/ Kicked
    \/ \E l \in closing : Disconnected(l)
    \/ \E where \in Channels \cup {Outside} : Move(where)
    \/ \E where \in Channels : Dragged(where)

Spec == Init /\ [][Next]_vars

(* Awaits end, tracks end, timers wake.                                    *)
Fairness ==
    /\ \A c \in Tasks : WF_vars(Proceed(c))
    /\ WF_vars(\E c \in Tasks, s \in Sessions : TrackEnds(c, s))
    /\ \A s \in Sessions : WF_vars(AskMore(s)) /\ WF_vars(GiveUp(s))
    /\ WF_vars(GraceEnds)
    /\ \A l \in 1 .. MaxAsks : WF_vars(Disconnected(l))
FairSpec == Spec /\ Fairness

TypeOK ==
    /\ person \in Channels \cup {Outside} /\ at \in Channels \cup {Outside}
    /\ session \in 0 .. made /\ made \in 0 .. MaxAsks /\ line \in 0 .. lines
    /\ queue \in [Sessions -> Nat]
    /\ {ready, grace, radio, stranded, unseen, crowded} \subseteq BOOLEAN
    /\ timer \in [Sessions -> {"no", "quiet", "asked"}]
    /\ closing \subseteq 1 .. MaxAsks
    /\ pc \in [Tasks -> {"done", "searching", "found", "connecting", "moving", "posting", "load",
                         "refill", "failed", "refailed", "fill", "ask_radio", "presence", "deleting"}]

-----------------------------------------------------------------------------
(* No timer ends a session that is heard, while somebody is there; but two *)
(* coroutines in _play_next at once, one of them perhaps announcing that a *)
(* track failed, leave a heard player without a current track.             *)
NotCutShort ==
    [][Wakes /\ session' # session => ~sound[session] \/ Deserted \/ crowded]_vars

(* When the music is over the bot leaves, except where an error or an      *)
(* empty radio has taken the timer away; and even then it does not stay in *)
(* an empty channel, unless everybody went while it was connecting.        *)
LeavesInTheEnd ==
    <>[](session # 0 => stranded /\ (line # 0 => ~Deserted \/ unseen))

(* It leaves neither too early nor too late.                               *)
LeavesRightly == NotCutShort /\ LeavesInTheEnd
=============================================================================
