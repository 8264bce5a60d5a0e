--------------------------------- MODULE Counters ---------------------------------
(***************************************************************************)
(* The counts of messages and of presence in voice on one server, kept in  *)
(* memory and flushed to the database.                                     *)
(*                                                                         *)
(*   infrastructure/discord/cogs/activity.py    counters, flush, unloading *)
(*   infrastructure/db/repositories/message_activity.py  increments        *)
(*                                                                         *)
(* Two flushes may overlap, that of the loop and that of cog_unload.       *)
(***************************************************************************)
EXTENDS Integers, FiniteSets

CONSTANTS MaxCount, MaxFaults \* bounds

Kinds == {"messages", "voice"}
Flushers == {"loop", "unload"}

VARIABLES
    counted, \* history: what there was to count, by kind
    buffer,  \* _msg_counts and _voice_seconds
    taken,   \* taken[f][k]: what flush f has taken and not yet written
    stored,  \* message_activity and voice_activity
    flush,   \* flush[f]: "idle", or the kind it is writing
    phase,   \* "down", "up", "unloading"
    marred,  \* history: counts were lost in a way nothing can prevent
    faults

counterVars == <<counted, buffer, taken, stored, flush, phase, marred, faults>>

Init ==
    /\ counted = [k \in Kinds |-> 0] /\ buffer = counted /\ stored = counted
    /\ taken = [f \in Flushers |-> [k \in Kinds |-> 0]]
    /\ flush = [f \in Flushers |-> "idle"]
    /\ phase = "up" /\ marred = FALSE /\ faults = 0

Fault == faults < MaxFaults /\ faults' = faults + 1

(* on_message counts a message, each voice tick those who are in voice.    *)
Count(k) ==
    /\ phase # "down" /\ counted[k] < MaxCount
    /\ counted' = [counted EXCEPT ![k] = @ + 1]
    /\ buffer' = [buffer EXCEPT ![k] = @ + 1]
    /\ marred' = (marred \/ phase = "unloading")
    /\ UNCHANGED <<taken, stored, flush, phase, faults>>

(* The buffer is swapped for an empty one.                                 *)
Flush(f) ==
    /\ flush[f] = "idle"
    /\ \/ f = "loop" /\ phase # "down" /\ UNCHANGED phase
       \/ f = "unload" /\ phase = "up" /\ phase' = "unloading"
    /\ taken' = [taken EXCEPT ![f]["messages"] = buffer["messages"]]
    /\ buffer' = [buffer EXCEPT !["messages"] = 0]
    /\ flush' = [flush EXCEPT ![f] = "messages"]
    /\ UNCHANGED <<counted, stored, marred, faults>>

ForgetTaken(f, k) == 0  \* mutant: a failed flush is not put back
PutBack(f, k) == taken[f][k]

(* The transaction of one kind adds to the stored count, or fails and what *)
(* was taken is put back.                                                  *)
Wrote(f, k) ==
    \/ stored' = [stored EXCEPT ![k] = @ + taken[f][k]] /\ UNCHANGED <<faults, marred>>
    \/ UNCHANGED stored /\ Fault /\ marred' = (marred \/ phase = "unloading")
Returned(f, k) == IF faults' = faults THEN 0 ELSE PutBack(f, k)

WriteMessages(f) ==
    /\ flush[f] = "messages"
    /\ Wrote(f, "messages")
    /\ taken' = [taken EXCEPT ![f] = [messages |-> 0, voice |-> buffer["voice"]]]
    /\ buffer' = [messages |-> buffer["messages"] + Returned(f, "messages"), voice |-> 0]
    /\ flush' = [flush EXCEPT ![f] = "voice"]
    /\ UNCHANGED <<counted, phase>>

WriteVoice(f) ==
    /\ flush[f] = "voice"
    /\ Wrote(f, "voice")
    /\ taken' = [taken EXCEPT ![f]["voice"] = 0]
    /\ buffer' = [buffer EXCEPT !["voice"] = @ + Returned(f, "voice")]
    /\ flush' = [flush EXCEPT ![f] = IF f = "unload" THEN "done" ELSE "idle"]
    /\ UNCHANGED <<counted, phase>>

Dies ==
    /\ phase' = "down"
    /\ buffer' = [k \in Kinds |-> 0]
    /\ taken' = [f \in Flushers |-> [k \in Kinds |-> 0]]
    /\ flush' = [f \in Flushers |-> "idle"]
    /\ UNCHANGED <<counted, stored>>

(* cog_unload cancels the tasks once its flush has returned; what the loop *)
(* had taken goes with its task, as a cancellation is no Exception.        *)
Unload ==
    /\ flush["unload"] = "done" /\ Dies
    /\ marred' = (marred \/ flush["loop"] # "idle")
    /\ UNCHANGED faults
Crash == phase # "down" /\ Fault /\ Dies /\ marred' = TRUE

Ready ==
    /\ phase = "down" /\ phase' = "up"
    /\ UNCHANGED <<counted, buffer, taken, stored, flush, marred, faults>>

Next ==
    \/ \E k \in Kinds : Count(k)
    \/ \E f \in Flushers : Flush(f) \/ WriteMessages(f) \/ WriteVoice(f)
    \/ Unload \/ Crash \/ Ready

Spec == Init /\ [][Next]_counterVars

TypeOK ==
    /\ counted \in [Kinds -> 0 .. MaxCount] /\ buffer \in [Kinds -> Nat]
    /\ stored \in [Kinds -> Nat] /\ taken \in [Flushers -> [Kinds -> Nat]]
    /\ flush \in [Flushers -> Kinds \cup {"idle", "done"}]
    /\ phase \in {"down", "up", "unloading"}
    /\ marred \in BOOLEAN /\ faults \in 0 .. MaxFaults

-----------------------------------------------------------------------------
InHand(k) == buffer[k] + taken["loop"][k] + taken["unload"][k]

(* Every message and every tick in voice is counted once: two flushes,     *)
(* failed transactions and unloading ("доливаем накопленные буферы ДО      *)
(* отмены циклов") double nothing, and lose nothing unless the process     *)
(* dies, the cog goes while the loop's flush is under way, or something    *)
(* is counted or fails after unloading has begun.                          *)
CountedOnce ==
    \A k \in Kinds :
        /\ stored[k] + InHand(k) <= counted[k]
        /\ ~marred => stored[k] + InHand(k) = counted[k]
===============================================================================
