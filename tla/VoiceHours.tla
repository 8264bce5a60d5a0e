-------------------------------- MODULE VoiceHours --------------------------------
(***************************************************************************)
(* The minutes of each member in voice, which become points by the hour.   *)
(*                                                                         *)
(*   infrastructure/discord/cogs/activity.py      the voice tick           *)
(*   infrastructure/db/repositories/activity.py   voice progress           *)
(*                                                                         *)
(* The unit of time is one tick (five minutes), TicksPerHour of them are   *)
(* an hour. The tick walks the channels of a server in order and awaits    *)
(* each award, while members move. AFK channels, members who do not listen *)
(* and servers without voice points are left out; award_point is the use   *)
(* case of Relationship.                                                   *)
(***************************************************************************)
EXTENDS Integers, FiniteSets

CONSTANTS
    Listeners,   \* members
    LastChannel, \* voice channels are 1..LastChannel
    TicksPerHour,
    MaxTicks, MaxFaults \* bounds

ASSUME VoiceAssumption ==
    /\ TicksPerHour \in Nat \ {0} /\ LastChannel \in Nat \ {0}
    /\ MaxTicks \in Nat /\ MaxFaults \in Nat

Nowhere == 0

VARIABLES
    place,    \* the channel a member is in, or Nowhere
    minutes,  \* _voice_minutes, in ticks
    progress, \* voice_progress.minutes
    total,    \* voice_progress.total_minutes
    paid,     \* hours awarded
    tick,     \* the voice tick: "down", "idle", "walk", "award", "save"
    channel,  \* the channel it walks
    ahead,    \* members of it still to be visited
    now,      \* the member it awaits an award for
    changed,  \* members whose minutes are to be saved
    met,      \* history: members visited in this tick
    seen,     \* history: ticks that visited a member
    twice,    \* history: members visited twice by one tick
    deaths,   \* history: how often memory was lost
    ticks, faults

walk == <<channel, ahead, changed, met>>
saved == <<progress, total>>
voiceVars == <<place, minutes, saved, paid, tick, walk, now, seen, twice, deaths, ticks, faults>>

Zero == [m \in Listeners |-> 0]
Init ==
    /\ place \in [Listeners -> Nowhere .. LastChannel]
    /\ minutes = Zero /\ progress = Zero /\ total = Zero /\ paid = Zero /\ seen = Zero
    /\ tick = "idle" /\ channel = 1 /\ ahead = {} /\ now = {} /\ changed = {} /\ met = {}
    /\ twice = {} /\ deaths = 0 /\ ticks = 0 /\ faults = 0

Fault == faults < MaxFaults /\ faults' = faults + 1
In(c) == {m \in Listeners : place[m] = c}

(* The walk gives way to others only where it awaits.                      *)
Move(m, c) ==
    /\ tick # "walk" /\ place[m] # c
    /\ place' = [place EXCEPT ![m] = c]
    /\ UNCHANGED <<minutes, saved, paid, tick, walk, now, seen, twice, deaths, ticks, faults>>

Tick ==
    /\ tick = "idle" /\ ticks < MaxTicks
    /\ ticks' = ticks + 1
    /\ tick' = "walk" /\ channel' = 1 /\ ahead' = In(1)
    /\ changed' = {} /\ met' = {}
    /\ UNCHANGED <<place, minutes, saved, paid, now, seen, twice, deaths, faults>>

Credit(m, n) ==
    /\ minutes' = [minutes EXCEPT ![m] = n]
    /\ changed' = changed \cup {m}

(* One more tick for a member of the channel; a full hour is awarded.      *)
Visit(m) ==
    /\ tick = "walk" /\ m \in ahead
    /\ ahead' = ahead \ {m}
    /\ met' = met \cup {m}
    /\ IF m \in met THEN twice' = twice \cup {m} /\ UNCHANGED seen
                    ELSE seen' = [seen EXCEPT ![m] = @ + 1] /\ UNCHANGED twice
    /\ IF minutes[m] + 1 < TicksPerHour
       THEN Credit(m, minutes[m] + 1) /\ UNCHANGED <<tick, now>>
       ELSE tick' = "award" /\ now' = {m} /\ UNCHANGED <<minutes, changed>>
    /\ UNCHANGED <<place, channel, saved, paid, deaths, ticks, faults>>

KeepsTheHour(m) == minutes[m]  \* mutant
Remainder(m) == minutes[m] + 1 - TicksPerHour

Award(m) ==
    /\ tick = "award" /\ m \in now
    /\ paid' = [paid EXCEPT ![m] = @ + 1]
    /\ Credit(m, Remainder(m))
    /\ tick' = "walk" /\ now' = {}
    /\ UNCHANGED <<place, channel, ahead, met, saved, seen, twice, deaths, ticks, faults>>

(* An award that fails ends the whole tick: nothing of it is saved.        *)
AwardFails ==
    /\ tick = "award" /\ Fault
    /\ tick' = "idle" /\ now' = {}
    /\ UNCHANGED <<place, minutes, saved, paid, walk, seen, twice, deaths, ticks>>

NextChannel ==
    /\ tick = "walk" /\ ahead = {} /\ channel < LastChannel
    /\ channel' = channel + 1 /\ ahead' = In(channel + 1)
    /\ UNCHANGED <<place, minutes, saved, paid, tick, now, changed, met, seen, twice, deaths,
                   ticks, faults>>
EndWalk ==
    /\ tick = "walk" /\ ahead = {} /\ channel = LastChannel
    /\ tick' = "save"
    /\ UNCHANGED <<place, minutes, saved, paid, walk, now, seen, twice, deaths, ticks, faults>>

Accrued == [m \in Listeners |-> IF m \in changed THEN total[m] + 1 ELSE total[m]]

(* The rest is overwritten, the total adds up, in one transaction.         *)
Save ==
    /\ tick = "save" /\ tick' = "idle"
    /\ progress' = [m \in Listeners |-> IF m \in changed THEN minutes[m] ELSE progress[m]]
    /\ total' = Accrued
    /\ UNCHANGED <<place, minutes, paid, walk, now, seen, twice, deaths, ticks, faults>>
SaveFails ==
    /\ tick = "save" /\ Fault /\ tick' = "idle"
    /\ UNCHANGED <<place, minutes, saved, paid, walk, now, seen, twice, deaths, ticks>>

(* The bot dies or the cog is unloaded.                                    *)
Dies ==
    /\ tick # "down" /\ Fault
    /\ tick' = "down" /\ now' = {} /\ minutes' = Zero
    /\ deaths' = deaths + 1
    /\ UNCHANGED <<place, saved, paid, walk, seen, twice, ticks>>

(* on_ready loads the progress; when that fails the minutes start anew and *)
(* overwrite what is stored.                                               *)
Ready ==
    /\ tick = "down" /\ tick' = "idle"
    /\ \/ minutes' = progress /\ UNCHANGED faults
       \/ UNCHANGED minutes /\ Fault
    /\ UNCHANGED <<place, saved, paid, walk, now, seen, twice, deaths, ticks>>

Next ==
    \/ Tick \/ NextChannel \/ EndWalk \/ AwardFails \/ Save \/ SaveFails \/ Dies \/ Ready
    \/ \E m \in Listeners :
         Visit(m) \/ Award(m) \/ \E c \in Nowhere .. LastChannel : Move(m, c)

Spec == Init /\ [][Next]_voiceVars

TypeOK ==
    /\ place \in [Listeners -> Nowhere .. LastChannel]
    /\ minutes \in [Listeners -> 0 .. TicksPerHour - 1]
    /\ progress \in [Listeners -> 0 .. TicksPerHour - 1]
    /\ total \in [Listeners -> Nat] /\ paid \in [Listeners -> Nat] /\ seen \in [Listeners -> Nat]
    /\ tick \in {"down", "idle", "walk", "award", "save"} /\ channel \in 1 .. LastChannel
    /\ ahead \subseteq Listeners /\ now \subseteq Listeners /\ changed \subseteq Listeners
    /\ met \subseteq Listeners /\ twice \subseteq Listeners
    /\ deaths \in Nat /\ ticks \in 0 .. MaxTicks /\ faults \in 0 .. MaxFaults

-----------------------------------------------------------------------------
(* Points are paid for hours that were sat: no more than the ticks that    *)
(* saw the member give, but for what each loss of memory can repeat (less  *)
(* than an hour), and for members who changed the channel during a tick.   *)
(* The time shown in the profile is never more than the time in voice, for *)
(* those who move between channels too.                                    *)
PaidForTime ==
    \A m \in Listeners :
        /\ total[m] <= seen[m]
        /\ m \notin twice =>
             paid[m] * TicksPerHour + minutes[m] <= seen[m] + deaths * (TicksPerHour - 1)
===============================================================================
