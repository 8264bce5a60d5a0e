--------------------------------- MODULE Player ---------------------------------
(***************************************************************************)
(* The music player of one server: its queue, history and current track,   *)
(* the commands and buttons that change them, and the voice connection     *)
(* whose end-of-track callback drives the player on.                       *)
(*                                                                         *)
(*   application/music/player.py              GuildPlayer                  *)
(*   infrastructure/discord/voice.py          DiscordVoiceConnection       *)
(*   infrastructure/discord/cogs/music/       service, cog and views: who  *)
(*                                            calls it                     *)
(*                                                                         *)
(* Everything runs in one event loop, so that a method is one step up to   *)
(* where it waits: for the address of a stream (a loader), for the message *)
(* to be edited after a seek, for the callback that the audio thread posts *)
(* when a track ends.                                                      *)
(***************************************************************************)
EXTENDS Integers, FiniteSets, FiniteSetsExt, Sequences, SequencesExt

CONSTANTS
    Tracks,      \* what may be put into the queue, each once
    None,        \* not a track
    Slots,       \* bound on loaders, and on answers to a seek, at the same time: 1 .. n
    HistoryLimit,\* HISTORY_LIMIT
    MaxOps,      \* bound on commands
    MaxQueue     \* bound on a queue that repeat ALL lets grow: two loaders at the
                 \* same time can each put the same track back

VARIABLES
    queue, history, current, repeat,
    paused,      \* is_paused
    skipping,    \* _skip_requested
    suppress,    \* _suppress_history
    seekTo,      \* _seek_to is set
    stopping,    \* _stopping: the session is over
    heard,       \* the track the voice connection plays, and is it paused
    muted,
    ended,       \* callbacks posted that _advance has still to answer
    loaders,     \* coroutines that wait for a stream: slot -> track or None
    failed,      \* those that wait until its failure has been announced
    settling,    \* _advance coroutines between the restart of a seek and its end
    fresh,       \* tracks nobody has asked for yet
    ops          \* bound: commands given

lists == <<queue, history>>
flags == <<skipping, suppress, seekTo>>
voice == <<heard, muted>>
vars == <<lists, current, repeat, paused, flags, stopping, voice, ended, loaders, failed,
          settling, fresh, ops>>

Init ==
    /\ queue = <<>> /\ history = <<>> /\ current = None /\ repeat = "off"
    /\ paused = FALSE /\ skipping = FALSE /\ suppress = FALSE /\ seekTo = FALSE
    /\ stopping = FALSE /\ heard = None /\ muted = FALSE /\ ended = 0
    /\ loaders = [s \in Slots |-> None] /\ failed = {} /\ settling = 0
    /\ fresh = Tracks /\ ops = 0

Idle(s) == loaders[s] = None
FreeSlot == CHOOSE s \in Slots : Idle(s)
HasSlot == \E s \in Slots : Idle(s)
Command == HasSlot /\ ops < MaxOps /\ ops' = ops + 1

(* _play_next in slot s, with q as the queue: the head of the queue is     *)
(* loaded, or nothing plays any more.                                      *)
PlayNext(s, q) ==
    /\ failed' = failed \ {s}
    /\ IF q # <<>>
       THEN /\ loaders' = [loaders EXCEPT ![s] = Head(q)]
            /\ queue' = Tail(q)
            /\ UNCHANGED <<current, paused>>
       ELSE /\ loaders' = [loaders EXCEPT ![s] = None]
            /\ queue' = q /\ current' = None /\ paused' = FALSE

Stay(q) == queue' = q /\ UNCHANGED <<current, paused, loaders, failed>>

(* DiscordVoiceConnection.stop: without effect when nothing plays.         *)
VoiceStop ==
    /\ heard' = None /\ muted' = FALSE
    /\ ended' = IF heard = None THEN ended ELSE ended + 1

(* VoiceClient.play refuses when it is playing, not when it is paused, and *)
(* when it has been disconnected.                                          *)
VoiceRefuses == stopping \/ (heard # None /\ ~muted)

-----------------------------------------------------------------------------
(* Commands and buttons.                                                   *)
Enqueue(ts, front) ==
    /\ Command
    /\ LET q == IF front THEN ts \o queue ELSE queue \o ts
       IN  IF current = None THEN PlayNext(FreeSlot, q) ELSE Stay(q)
    /\ fresh' = fresh \ ToSet(ts)
    /\ UNCHANGED <<history, repeat, flags, stopping, voice, ended, settling>>

SkipPlaysOn ==  \* mutant
    /\ Command /\ ~stopping
    /\ PlayNext(FreeSlot, queue)
    /\ UNCHANGED <<history, repeat, flags, stopping, voice, ended, settling, fresh>>
Skip ==
    /\ Command /\ ~stopping
    /\ IF current = None
       THEN PlayNext(FreeSlot, queue) /\ UNCHANGED <<skipping, voice, ended>>
       ELSE skipping' = TRUE /\ VoiceStop /\ Stay(queue)
    /\ UNCHANGED <<history, repeat, suppress, seekTo, stopping, settling, fresh>>

PreviousDropsCurrent ==  \* mutant
    /\ Command /\ ~stopping /\ history # <<>> /\ current # None
    /\ history' = Front(history)
    /\ Stay(<<Last(history)>> \o queue)
    /\ skipping' = TRUE /\ suppress' = TRUE /\ VoiceStop
    /\ UNCHANGED <<repeat, seekTo, stopping, settling, fresh>>
Previous ==
    /\ Command /\ ~stopping /\ history # <<>>
    /\ history' = Front(history)
    /\ suppress' = TRUE
    /\ IF current = None
       THEN /\ PlayNext(FreeSlot, <<Last(history)>> \o queue)
            /\ UNCHANGED <<skipping, voice, ended>>
       ELSE /\ Stay(<<Last(history), current>> \o queue)
            /\ skipping' = TRUE /\ VoiceStop
    /\ UNCHANGED <<repeat, seekTo, stopping, settling, fresh>>

TogglePause ==
    /\ Command /\ ~stopping /\ current # None
    /\ muted' = IF heard = None THEN muted ELSE ~paused
    /\ paused' = ~paused
    /\ UNCHANGED <<lists, current, repeat, flags, stopping, heard, ended, loaders, failed,
                   settling, fresh>>

CycleRepeat ==
    /\ Command
    /\ repeat' = CASE repeat = "off" -> "one" [] repeat = "one" -> "all" [] OTHER -> "off"
    /\ UNCHANGED <<lists, current, paused, flags, stopping, voice, ended, loaders, failed,
                   settling, fresh>>

Seek ==
    /\ Command /\ ~stopping /\ current # None
    /\ seekTo' = TRUE /\ VoiceStop
    /\ UNCHANGED <<lists, current, repeat, paused, skipping, suppress, stopping, loaders,
                   failed, settling, fresh>>

Shuffle ==
    /\ Command /\ Len(queue) > 1
    /\ queue' = Reverse(queue)
    /\ UNCHANGED <<history, current, repeat, paused, flags, stopping, voice, ended, loaders,
                   failed, settling, fresh>>
RemoveOne ==
    /\ Command /\ \E i \in DOMAIN queue : queue' = RemoveAt(queue, i)
    /\ UNCHANGED <<history, current, repeat, paused, flags, stopping, voice, ended, loaders,
                   failed, settling, fresh>>

(* stop_and_clear: the button, the timers of an idle or empty channel, the *)
(* bot thrown out. The loaders go on.                                      *)
Stop ==
    /\ Command /\ ~stopping
    /\ stopping' = TRUE /\ queue' = <<>> /\ history' = <<>> /\ current' = None
    /\ paused' = FALSE /\ VoiceStop
    /\ UNCHANGED <<repeat, flags, loaders, failed, settling, fresh>>

-----------------------------------------------------------------------------
(* _try_play has the address of the stream. When the connection refuses,   *)
(* the exception ends the coroutine and current stays as it was just set.  *)
Play(t) ==
    /\ current' = t /\ paused' = FALSE
    /\ IF VoiceRefuses THEN UNCHANGED voice ELSE heard' = t /\ muted' = FALSE
Loaded(s) ==
    /\ ~Idle(s) /\ s \notin failed
    /\ Play(loaders[s])
    /\ loaders' = [loaders EXCEPT ![s] = None]
    /\ UNCHANGED <<lists, repeat, flags, stopping, ended, failed, settling, fresh, ops>>

(* The address cannot be had: the track is dropped and on_track_failed is  *)
(* awaited, which posts a message.                                         *)
LoadFails(s) ==
    /\ ~Idle(s) /\ s \notin failed
    /\ failed' = failed \cup {s}
    /\ UNCHANGED <<lists, current, repeat, paused, flags, stopping, voice, ended, loaders,
                   settling, fresh, ops>>

FailsForGood(s) ==  \* mutant
    /\ s \in failed
    /\ loaders' = [loaders EXCEPT ![s] = None] /\ failed' = failed \ {s}
    /\ UNCHANGED <<lists, current, repeat, paused, flags, stopping, voice, ended, settling,
                   fresh, ops>>

(* Then the next one is tried, from what the queue is by now.              *)
TriesNext(s) ==
    /\ s \in failed
    /\ PlayNext(s, queue)
    /\ UNCHANGED <<history, repeat, flags, stopping, voice, ended, settling, fresh, ops>>

TrackEnds ==
    /\ heard # None /\ ~muted
    /\ repeat = "all" => Len(queue) < MaxQueue
    /\ VoiceStop
    /\ UNCHANGED <<lists, current, repeat, paused, flags, stopping, loaders, failed,
                   settling, fresh, ops>>

(* _advance, the answer to a callback.                                     *)
Advance == ended > 0 /\ HasSlot /\ ended' = ended - 1

AdvanceStopped ==
    /\ Advance /\ stopping
    /\ UNCHANGED <<lists, current, repeat, paused, flags, stopping, voice, loaders, failed,
                   settling, fresh, ops>>

(* A seek: the same track once more; the flag goes when the message has    *)
(* been edited, and stays when the connection refuses.                     *)
AdvanceSeek ==
    /\ Advance /\ ~stopping /\ seekTo /\ settling < Cardinality(Slots)
    /\ IF current = None
       THEN /\ PlayNext(FreeSlot, queue)
            /\ settling' = settling + 1 /\ UNCHANGED voice
       ELSE /\ Play(current) /\ UNCHANGED <<queue, loaders, failed>>
            /\ settling' = IF VoiceRefuses THEN settling ELSE settling + 1
    /\ UNCHANGED <<history, repeat, flags, stopping, fresh, ops>>
Settle ==
    /\ settling > 0 /\ settling' = settling - 1 /\ seekTo' = FALSE
    /\ UNCHANGED <<lists, current, repeat, paused, skipping, suppress, stopping, voice,
                   ended, loaders, failed, fresh, ops>>

Keep(h) == SubSeq(h, Max({1, Len(h) - HistoryLimit + 1}), Len(h))
AdvanceOn ==
    /\ Advance /\ ~stopping /\ ~seekTo
    /\ skipping' = FALSE /\ suppress' = FALSE
    /\ LET replayed == repeat = "one" /\ ~skipping
           counts == current # None /\ ~suppress
       IN  IF counts /\ replayed
           THEN /\ loaders' = [loaders EXCEPT ![FreeSlot] = current]
                /\ UNCHANGED <<lists, current, paused, failed>>
           ELSE /\ history' = IF counts THEN Keep(Append(history, current)) ELSE history
                /\ PlayNext(FreeSlot, IF counts /\ repeat = "all"
                                      THEN Append(queue, current) ELSE queue)
    /\ UNCHANGED <<repeat, seekTo, stopping, voice, settling, fresh, ops>>

Load(s) == Loaded(s) \/ LoadFails(s) \/ TriesNext(s)
Answer == AdvanceStopped \/ AdvanceSeek \/ AdvanceOn
NextTrack == CHOOSE t \in fresh : TRUE  \* tracks that are still fresh are alike
Asked ==
    \/ fresh # {} /\ \E front \in BOOLEAN : Enqueue(<<NextTrack>>, front)
    \/ Skip \/ Previous \/ TogglePause \/ CycleRepeat \/ Seek \/ Shuffle \/ RemoveOne \/ Stop
Next == Asked \/ (\E s \in Slots : Load(s)) \/ TrackEnds \/ Answer \/ Settle

Spec == Init /\ [][Next]_vars

TypeOK ==
    /\ queue \in Seq(Tracks) /\ history \in Seq(Tracks)
    /\ current \in Tracks \cup {None} /\ heard \in Tracks \cup {None}
    /\ repeat \in {"off", "one", "all"}
    /\ {paused, skipping, suppress, seekTo, stopping, muted} \subseteq BOOLEAN
    /\ loaders \in [Slots -> Tracks \cup {None}] /\ failed \subseteq Slots
    /\ ended \in Nat /\ settling \in Nat /\ fresh \subseteq Tracks /\ ops \in 0 .. MaxOps

-----------------------------------------------------------------------------

(* When people stop giving commands, with neither pause nor repeat, the    *)
(* queue is played to its end.                                             *)
Plain == repeat = "off" /\ ~muted /\ ~stopping
QueueDrains == <>[]Plain => <>[](queue = <<>> /\ heard = None)

-----------------------------------------------------------------------------
(* History variables that tell which of the promises below depend on       *)
(* commands that do not come while a stream is being looked up.            *)

VARIABLES
    crowded, \* two loaders have been under way at the same time
    hasty,   \* a command was given for a track that was over already, while an
             \* earlier seek was not done, or went back from nothing
    gone     \* tracks that were removed, could not be loaded, fell off the end of
             \* the history, or were cleared

mcVars == <<vars, crowded, hasty, gone>>

Loading == {s \in Slots : ~Idle(s)}
Hasty ==
    \/ Previous /\ current = None
    \/ /\ Skip \/ Previous \/ Seek
       /\ current # None /\ (heard = None \/ ended > 0 \/ settling > 0)

MCInit == Init /\ crowded = FALSE /\ hasty = FALSE /\ gone = {}
MCNext ==
    /\ Next
    /\ crowded' = (crowded \/ Cardinality(Loading') > 1)
    /\ hasty' = (hasty \/ Hasty)
    /\ gone' = gone \cup
         (IF RemoveOne THEN ToSet(queue) \ ToSet(queue') ELSE {})
         \cup {loaders[s] : s \in {r \in Loading : LoadFails(r)}}
         \cup (IF AdvanceOn THEN ToSet(history) \ ToSet(history') ELSE {})
         \cup (IF stopping' THEN Tracks ELSE {})

(* Loaders get an answer, tracks come to an end, callbacks run.            *)
Fairness ==
    /\ \A s \in Slots : WF_vars(Load(s))
    /\ WF_vars(TrackEnds) /\ WF_vars(Answer) /\ WF_vars(Settle)

-----------------------------------------------------------------------------
(* What is heard is the track the player shows, as long as one stream is   *)
(* looked up at a time, and nothing is once the session is over, though    *)
(* loaders come back.                                                      *)
ShownIsHeardAlone ==
    heard # None => ~stopping /\ (~crowded => heard = current)

(* No track is lost: it waits, is loaded, shown, or in the history, unless *)
(* it was removed, could not be loaded or is too old for the history.       *)
NothingLostAlone == ~crowded /\ ~hasty =>
    Tracks \ (fresh \cup gone) \subseteq
        ToSet(queue) \cup ToSet(history) \cup {current} \cup {loaders[s] : s \in Slots}
=============================================================================
