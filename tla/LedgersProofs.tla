---------------------------- MODULE LedgersProofs ----------------------------
(* Proofs about what is kept in rows and counted (MCLedgers).              *)
EXTENDS MCLedgers, FiniteSetTheorems, WellFoundedInduction, TLAPS

-----------------------------------------------------------------------------
(* Time in voice (VoiceHours).                                             *)

InTick == tick \in {"walk", "award", "save"}
Full(m) == IF tick = "award" /\ m \in now THEN 1 ELSE 0

(* A member awaits an award only with the last tick of an hour to come.    *)
HourFull ==
    /\ tick = "award" => \A m \in now : minutes[m] = TicksPerHour - 1
    /\ tick # "award" => now = {}

(* Whoever this tick has met is seen once more than the totals say, and    *)
(* only the minutes of those it has met are to be saved.                   *)
SeenFirst ==
    /\ \A m \in Listeners : total[m] <= seen[m]
    /\ InTick =>
         /\ changed \subseteq met /\ now \subseteq met
         /\ \A m \in met : total[m] + 1 <= seen[m]

(* The balance counts the tick an award is awaited for; while the bot is   *)
(* down it leaves room for the minutes that on_ready will load.            *)
Room(m) == IF tick = "down" THEN TicksPerHour - 1 ELSE minutes[m] + Full(m)
Balance ==
    \A m \in Listeners \ twice :
        paid[m] * TicksPerHour + Room(m) <= seen[m] + deaths * (TicksPerHour - 1)

VoiceInv == TypeOK /\ HourFull /\ SeenFirst /\ Balance

LEMMA VoiceInit == Init => VoiceInv
  BY VoiceAssumption
  DEF Init, VoiceInv, TypeOK, HourFull, SeenFirst, InTick, Balance, Room, Full, Zero, Nowhere

(* No action leaves the types.                                             *)
LEMMA VoiceTypes == TypeOK /\ HourFull /\ [Next]_voiceVars => TypeOK'
<1> SUFFICES ASSUME TypeOK, HourFull, [Next]_voiceVars PROVE TypeOK'
  OBVIOUS
<1> USE VoiceAssumption DEF TypeOK
<1>1. CASE Tick  BY <1>1 DEF Tick, In, saved
<1>2. CASE NextChannel  BY <1>2 DEF NextChannel, In, saved
<1>3. CASE EndWalk  BY <1>3 DEF EndWalk, walk, saved
<1>4. CASE AwardFails  BY <1>4 DEF AwardFails, Fault, walk, saved
<1>5. CASE Save  BY <1>5 DEF Save, Accrued, walk
<1>6. CASE SaveFails  BY <1>6 DEF SaveFails, Fault, walk, saved
<1>7. CASE Dies  BY <1>7 DEF Dies, Fault, Zero, walk, saved
<1>8. CASE Ready  BY <1>8 DEF Ready, Fault, walk, saved
<1>9. ASSUME NEW m \in Listeners, Visit(m) PROVE TypeOK'
  BY <1>9 DEF Visit, Credit, saved
<1>10. ASSUME NEW m \in Listeners, Award(m) PROVE TypeOK'
  BY <1>10 DEF Award, Credit, Remainder, saved, HourFull
<1>11. ASSUME NEW m \in Listeners, NEW c \in Nowhere .. LastChannel, Move(m, c) PROVE TypeOK'
  BY <1>11 DEF Move, Nowhere, walk, saved
<1>12. CASE UNCHANGED voiceVars  BY <1>12 DEF voiceVars, walk, saved
<1> QED
  BY <1>1, <1>2, <1>3, <1>4, <1>5, <1>6, <1>7, <1>8, <1>9, <1>10, <1>11, <1>12 DEF Next

LEMMA HourFullKept == TypeOK /\ HourFull /\ [Next]_voiceVars => HourFull'
<1> SUFFICES ASSUME TypeOK, HourFull, [Next]_voiceVars PROVE HourFull'
  OBVIOUS
<1>1. ASSUME NEW m \in Listeners, Visit(m) PROVE HourFull'
  BY <1>1, VoiceAssumption DEF Visit, Credit, HourFull, TypeOK
<1>2. ASSUME ~ \E m \in Listeners : Visit(m) PROVE HourFull'
  BY <1>2 DEF Next, Tick, NextChannel, EndWalk, AwardFails, Save, SaveFails, Dies, Ready,
              Award, Move, voiceVars, HourFull
<1> QED  BY <1>1, <1>2

(* Who is seen.                                                            *)
LEMMA SeenFirstKept == TypeOK /\ HourFull /\ SeenFirst /\ [Next]_voiceVars => SeenFirst'
<1> SUFFICES ASSUME TypeOK, HourFull, SeenFirst, [Next]_voiceVars PROVE SeenFirst'
  OBVIOUS
<1> USE DEF TypeOK, SeenFirst, InTick
<1>1. CASE Tick  BY <1>1 DEF HourFull, Tick, In, saved
<1>2. CASE NextChannel  BY <1>2 DEF NextChannel, saved
<1>3. CASE EndWalk  BY <1>3 DEF EndWalk, walk, saved
<1>4. CASE AwardFails  BY <1>4 DEF AwardFails, saved
<1>5. CASE Save  BY <1>5 DEF Save, Accrued
<1>6. CASE SaveFails  BY <1>6 DEF SaveFails, saved
<1>7. CASE Dies  BY <1>7 DEF Dies, saved
<1>8. CASE Ready  BY <1>8 DEF Ready, saved
<1>9. ASSUME NEW m \in Listeners, Visit(m) PROVE SeenFirst'
  BY <1>9 DEF Visit, Credit, saved
<1>10. ASSUME NEW m \in Listeners, Award(m) PROVE SeenFirst'
  BY <1>10 DEF Award, Credit, saved
<1>11. ASSUME NEW m \in Listeners, NEW c \in Nowhere .. LastChannel, Move(m, c) PROVE SeenFirst'
  BY <1>11 DEF Move, walk, saved
<1>12. CASE UNCHANGED voiceVars  BY <1>12 DEF voiceVars, walk, saved
<1> QED
  BY <1>1, <1>2, <1>3, <1>4, <1>5, <1>6, <1>7, <1>8, <1>9, <1>10, <1>11, <1>12 DEF Next

LEMMA OneMore == \A a, b \in Nat : (a + 1) * b = a * b + b
  BY SMT

(* The balance. One death leaves room for the minutes of an hour but one.  *)
LEMMA BalanceKept ==
    TypeOK /\ HourFull /\ SeenFirst /\ Balance /\ [Next]_voiceVars => Balance'
<1> SUFFICES ASSUME TypeOK, HourFull, SeenFirst, Balance, [Next]_voiceVars,
                    NEW n \in Listeners \ twice'
             PROVE  (paid[n] * TicksPerHour + Room(n)
                        <= seen[n] + deaths * (TicksPerHour - 1))'
  BY DEF Balance
<1> DEFINE pay == paid[n] * TicksPerHour
           lost == deaths * (TicksPerHour - 1)
<1> USE VoiceAssumption DEF TypeOK
<1>0. pay \in Nat /\ lost \in Nat
  BY SMT
<1>b. n \notin twice => pay + Room(n) <= seen[n] + lost
  BY DEF Balance
<1> SUFFICES pay' + Room(n)' <= seen'[n] + lost'
  OBVIOUS
<1> HIDE DEF pay, lost
<1>s. paid' = paid => pay' = pay
  BY DEF pay
<1>d. deaths' = deaths => lost' = lost
  BY DEF lost
<1> USE DEF Room, Full
<1>1. CASE Tick  BY <1>0, <1>1, <1>b, <1>s, <1>d DEF Tick, saved
<1>2. CASE NextChannel  BY <1>0, <1>2, <1>b, <1>s, <1>d DEF NextChannel, saved
<1>3. CASE EndWalk  BY <1>0, <1>3, <1>b, <1>s, <1>d DEF EndWalk, walk, saved
<1>4. CASE AwardFails  BY <1>0, <1>4, <1>b, <1>s, <1>d DEF AwardFails, walk, saved
<1>5. CASE Save  BY <1>0, <1>5, <1>b, <1>s, <1>d DEF Save, walk
<1>6. CASE SaveFails  BY <1>0, <1>6, <1>b, <1>s, <1>d DEF SaveFails, walk, saved
<1>7. CASE Dies
  <2>1. lost' = lost + (TicksPerHour - 1)
    BY <1>7, OneMore DEF Dies, lost
  <2> QED  BY <1>0, <1>7, <1>b, <1>s, <2>1 DEF Dies, Zero, walk, saved, HourFull
<1>8. CASE Ready  BY <1>0, <1>8, <1>b, <1>s, <1>d DEF Ready, walk, saved
<1>9. ASSUME NEW m \in Listeners, Visit(m) PROVE pay' + Room(n)' <= seen'[n] + lost'
  BY <1>0, <1>9, <1>b, <1>s, <1>d DEF Visit, Credit, saved, HourFull
<1>10. ASSUME NEW m \in Listeners, Award(m) PROVE pay' + Room(n)' <= seen'[n] + lost'
  <2>1. CASE n = m
    <3>1. pay' = pay + TicksPerHour
      BY <1>10, <2>1, OneMore DEF Award, pay
    <3> QED  BY <1>0, <1>10, <1>b, <1>d, <2>1, <3>1 DEF Award, Credit, Remainder, saved, HourFull
  <2>2. CASE n # m
    <3>1. pay' = pay
      BY <1>10, <2>2 DEF Award, pay
    <3> QED  BY <1>0, <1>10, <1>b, <1>d, <2>2, <3>1 DEF Award, Credit, saved, HourFull
  <2> QED  BY <2>1, <2>2
<1>11. ASSUME NEW m \in Listeners, NEW c \in Nowhere .. LastChannel, Move(m, c)
       PROVE  pay' + Room(n)' <= seen'[n] + lost'
  BY <1>0, <1>11, <1>b, <1>s, <1>d DEF Move, walk, saved
<1>12. CASE UNCHANGED voiceVars  BY <1>0, <1>12, <1>b, <1>s, <1>d DEF voiceVars, walk, saved
<1> QED
  BY <1>1, <1>2, <1>3, <1>4, <1>5, <1>6, <1>7, <1>8, <1>9, <1>10, <1>11, <1>12 DEF Next

(* Nobody is paid for more time in voice than they sat, whatever the order *)
(* of walk, awards, moves, failures and restarts.                          *)
THEOREM HoursHonest == Spec => []PaidForTime
<1>1. VoiceInv /\ [Next]_voiceVars => VoiceInv'
  BY VoiceTypes, HourFullKept, SeenFirstKept, BalanceKept DEF VoiceInv
<1>2. VoiceInv => PaidForTime
  <2> SUFFICES ASSUME VoiceInv, NEW m \in Listeners
               PROVE  /\ total[m] <= seen[m]
                      /\ m \notin twice => paid[m] * TicksPerHour + minutes[m]
                                              <= seen[m] + deaths * (TicksPerHour - 1)
    BY DEF PaidForTime
  <2>1. minutes[m] <= Room(m) /\ minutes[m] \in Nat /\ Room(m) \in Nat
    BY VoiceAssumption DEF VoiceInv, TypeOK, Room, Full
  <2> QED  BY <2>1, VoiceAssumption DEF VoiceInv, TypeOK, SeenFirst, Balance
<1> QED  BY VoiceInit, <1>1, <1>2, PTL DEF Spec

-----------------------------------------------------------------------------
(* The counters of activity (Counters).                                    *)

(* What a flush has in hand is of the kind it is writing.                  *)
InHandOnly ==
    \A f \in Activity!Flushers :
        /\ flush[f] # "messages" => taken[f]["messages"] = 0
        /\ flush[f] # "voice" => taken[f]["voice"] = 0

(* While it unloads, the cog has buffers that are empty from one kind to   *)
(* the next, unless something was counted or failed; without a process     *)
(* there is nothing in hand.                                               *)
Emptied ==
    /\ phase = "up" => flush["unload"] = "idle"
    /\ phase = "down" => \A f \in Activity!Flushers : flush[f] = "idle"
    /\ phase = "down" => \A k \in Activity!Kinds : buffer[k] = 0
    /\ phase = "unloading" /\ ~marred =>
         /\ flush["unload"] \in {"messages", "voice", "done"}
         /\ buffer["messages"] = 0
         /\ flush["unload"] # "messages" => buffer["voice"] = 0

CountersInv == Activity!TypeOK /\ InHandOnly /\ Emptied /\ Activity!CountedOnce

LEMMA CountersTypes ==
    Activity!TypeOK /\ [Activity!Next]_(Activity!counterVars)
      => Activity!TypeOK'
<1> SUFFICES ASSUME Activity!TypeOK, [Activity!Next]_(Activity!counterVars)
             PROVE  Activity!TypeOK'
  OBVIOUS
<1> USE LedgersAssumption, VoiceAssumption
    DEF Activity!TypeOK, Activity!Kinds, Activity!Flushers
<1>1. ASSUME NEW k \in Activity!Kinds, Activity!Count(k) PROVE Activity!TypeOK'
  BY <1>1 DEF Activity!Count
<1>2. ASSUME NEW f \in Activity!Flushers, Activity!Flush(f) PROVE Activity!TypeOK'
  BY <1>2 DEF Activity!Flush
<1>w. ASSUME NEW f \in Activity!Flushers, NEW k \in Activity!Kinds, Activity!Wrote(f, k)
      PROVE  /\ stored' \in [Activity!Kinds -> Nat] /\ marred' \in BOOLEAN
             /\ countFaults' \in 0 .. MaxFaults /\ Activity!Returned(f, k) \in Nat
  <2>1. taken[f][k] \in Nat /\ stored[k] \in Nat
    OBVIOUS
  <2>2. CASE stored' = [stored EXCEPT ![k] = @ + taken[f][k]] /\ UNCHANGED <<countFaults, marred>>
    BY <2>1, <2>2 DEF Activity!Returned
  <2>3. CASE UNCHANGED stored /\ Activity!Fault /\ marred' = (marred \/ phase = "unloading")
    <3>1. marred' \in BOOLEAN
      BY <2>3
    <3> QED  BY <2>1, <2>3, <3>1 DEF Activity!Fault, Activity!Returned, Activity!PutBack
  <2> QED  BY <1>w, <2>2, <2>3 DEF Activity!Wrote
<1>3. ASSUME NEW f \in Activity!Flushers, Activity!WriteMessages(f) PROVE Activity!TypeOK'
  <2>1. [messages |-> 0, voice |-> buffer["voice"]] \in [Activity!Kinds -> Nat]
    OBVIOUS
  <2>2. taken' \in [Activity!Flushers -> [Activity!Kinds -> Nat]]
    BY <1>3, <2>1 DEF Activity!WriteMessages
  <2>3. buffer' \in [Activity!Kinds -> Nat]
    BY <1>3, <1>w DEF Activity!WriteMessages
  <2> QED  BY <1>3, <1>w, <2>2, <2>3 DEF Activity!WriteMessages
<1>4. ASSUME NEW f \in Activity!Flushers, Activity!WriteVoice(f) PROVE Activity!TypeOK'
  BY <1>4, <1>w DEF Activity!WriteVoice
<1>5. CASE Activity!Unload  BY <1>5 DEF Activity!Unload, Activity!Dies
<1>6. CASE Activity!Crash  BY <1>6 DEF Activity!Crash, Activity!Fault, Activity!Dies
<1>7. CASE Activity!Ready  BY <1>7 DEF Activity!Ready
<1>8. CASE UNCHANGED Activity!counterVars  BY <1>8 DEF Activity!counterVars
<1> QED  BY <1>1, <1>2, <1>3, <1>4, <1>5, <1>6, <1>7, <1>8 DEF Activity!Next

(* One action after the other: what is stored and in hand adds up.         *)
LEMMA CountersKept ==
    CountersInv /\ [Activity!Next]_(Activity!counterVars) /\ Activity!TypeOK'
      => (InHandOnly /\ Emptied /\ Activity!CountedOnce)'
<1> SUFFICES ASSUME CountersInv, [Activity!Next]_(Activity!counterVars), Activity!TypeOK'
             PROVE  (InHandOnly /\ Emptied /\ Activity!CountedOnce)'
  OBVIOUS
<1> DEFINE Goal == (InHandOnly /\ Emptied /\ Activity!CountedOnce)'
<1> USE DEF CountersInv, InHandOnly, Emptied, Activity!CountedOnce, Activity!InHand,
            Activity!TypeOK, Activity!Kinds, Activity!Flushers
<1>w. ASSUME NEW f \in Activity!Flushers, NEW k \in Activity!Kinds, Activity!Wrote(f, k)
      PROVE  /\ \A j \in Activity!Kinds \ {k} : stored'[j] = stored[j]
             /\ stored'[k] + Activity!Returned(f, k) = stored[k] + taken[f][k]
             /\ Activity!Returned(f, k) \in Nat
             /\ phase = "unloading" /\ ~marred' => Activity!Returned(f, k) = 0
             /\ marred => marred'
  <2>1. taken[f][k] \in Nat /\ stored[k] \in Nat
    OBVIOUS
  <2>2. CASE stored' = [stored EXCEPT ![k] = @ + taken[f][k]] /\ UNCHANGED <<countFaults, marred>>
    BY <2>1, <2>2 DEF Activity!Returned
  <2>3. CASE UNCHANGED stored /\ Activity!Fault /\ marred' = (marred \/ phase = "unloading")
    <3>1. (phase = "unloading" => marred') /\ (marred => marred')
      BY <2>3, Zenon
    <3> QED
      BY <2>1, <2>3, <3>1 DEF Activity!Fault, Activity!Returned, Activity!PutBack
  <2> QED  BY <1>w, <2>2, <2>3 DEF Activity!Wrote
<1>1. ASSUME NEW k \in Activity!Kinds, Activity!Count(k) PROVE Goal
  <2>1. InHandOnly'
    BY <1>1 DEF Activity!Count
  <2>2. Emptied'
    BY <1>1 DEF Activity!Count
  <2>3. Activity!CountedOnce'
    BY <1>1 DEF Activity!Count
  <2> QED  BY <2>1, <2>2, <2>3
<1>2. ASSUME NEW f \in Activity!Flushers, Activity!Flush(f) PROVE Goal
  <2>1. InHandOnly'
    BY <1>2 DEF Activity!Flush
  <2>2. Emptied'
    BY <1>2 DEF Activity!Flush
  <2>3. Activity!CountedOnce'
    BY <1>2 DEF Activity!Flush
  <2> QED  BY <2>1, <2>2, <2>3
<1>3. ASSUME NEW f \in Activity!Flushers, Activity!WriteMessages(f) PROVE Goal
  <2>1. InHandOnly'
    BY <1>3 DEF Activity!WriteMessages
  <2>2. Emptied'
    BY <1>3, <1>w DEF Activity!WriteMessages
  <2>w. /\ stored'["voice"] = stored["voice"]
        /\ stored'["messages"] + Activity!Returned(f, "messages")
             = stored["messages"] + taken[f]["messages"]
        /\ Activity!Returned(f, "messages") \in Nat
        /\ marred => marred'
    BY <1>3, <1>w DEF Activity!WriteMessages
  <2>f. taken[f]["voice"] = 0
    BY <1>3 DEF Activity!WriteMessages
  <2>3. Activity!CountedOnce'
    <3>1. CASE f = "loop"
      BY <1>3, <2>w, <2>f, <3>1 DEF Activity!WriteMessages
    <3>2. CASE f = "unload"
      BY <1>3, <2>w, <2>f, <3>2 DEF Activity!WriteMessages
    <3> QED  BY <3>1, <3>2
  <2> QED  BY <2>1, <2>2, <2>3
<1>4. ASSUME NEW f \in Activity!Flushers, Activity!WriteVoice(f) PROVE Goal
  <2>1. InHandOnly'
    BY <1>4 DEF Activity!WriteVoice
  <2>0. /\ flush[f] = "voice" /\ Activity!Wrote(f, "voice")
        /\ taken' = [taken EXCEPT ![f]["voice"] = 0]
        /\ buffer' = [buffer EXCEPT !["voice"] = @ + Activity!Returned(f, "voice")]
        /\ flush' = [flush EXCEPT ![f] = IF f = "unload" THEN "done" ELSE "idle"]
        /\ UNCHANGED <<counted, phase>>
    BY <1>4 DEF Activity!WriteVoice
  <2>w. /\ stored'["messages"] = stored["messages"]
        /\ stored'["voice"] + Activity!Returned(f, "voice") = stored["voice"] + taken[f]["voice"]
        /\ Activity!Returned(f, "voice") \in Nat
        /\ phase = "unloading" /\ ~marred' => Activity!Returned(f, "voice") = 0
        /\ marred => marred'
    BY <2>0, <1>w
  <2>2. Emptied'
    BY <2>0, <2>w
  <2>3. Activity!CountedOnce'
    <3>1. CASE f = "loop"
      BY <2>0, <2>w, <3>1
    <3>2. CASE f = "unload"
      <4>1. /\ taken'["unload"]["voice"] = 0 /\ taken'["loop"] = taken["loop"]
            /\ taken'["unload"]["messages"] = taken["unload"]["messages"]
            /\ buffer'["messages"] = buffer["messages"]
            /\ buffer'["voice"] = buffer["voice"] + Activity!Returned(f, "voice")
        BY <2>0, <2>w, <3>2
      <4>2. InHandOnly /\ Activity!CountedOnce /\ counted' = counted
        BY <2>0
      <4>3. \A k \in Activity!Kinds : Activity!InHand(k)' + stored'[k] = Activity!InHand(k) + stored[k]
        <5>1. /\ \A k \in Activity!Kinds : /\ buffer[k] \in Nat /\ taken["loop"][k] \in Nat
                                           /\ taken["unload"][k] \in Nat /\ stored[k] \in Nat
                                           /\ stored'[k] \in Nat
              /\ f = "unload"
          BY <3>2
        <5>2. Activity!InHand("messages")' + stored'["messages"] =
                Activity!InHand("messages") + stored["messages"]
          BY <2>w, <4>1
        <5>3. Activity!InHand("voice")' + stored'["voice"] =
                Activity!InHand("voice") + stored["voice"]
          BY <2>w, <4>1, <5>1
        <5> QED  BY <5>2, <5>3
      <4> QED  BY <2>w, <4>1, <4>2, <4>3
    <3> QED  BY <3>1, <3>2
  <2> QED  BY <2>1, <2>2, <2>3
<1>5. CASE Activity!Unload
  <2>0. (~marred' => ~marred /\ flush["loop"] = "idle") /\ (marred => marred')
    BY <1>5, Zenon DEF Activity!Unload
  <2>1. phase = "unloading" /\ flush["unload"] = "done"
    BY <1>5 DEF Activity!Unload
  <2>2. InHandOnly' /\ Emptied'
    BY <1>5 DEF Activity!Unload, Activity!Dies
  <2>3. ~marred' => \A k \in Activity!Kinds : Activity!InHand(k) = 0
    BY <2>0, <2>1, SMTT(60)
  <2>4. Activity!CountedOnce'
    BY <1>5, <2>0, <2>3 DEF Activity!Unload, Activity!Dies
  <2> QED  BY <2>2, <2>4
<1>6. CASE Activity!Crash  BY <1>6 DEF Activity!Crash, Activity!Dies
<1>7. CASE Activity!Ready  BY <1>7 DEF Activity!Ready
<1>8. CASE UNCHANGED Activity!counterVars  BY <1>8 DEF Activity!counterVars
<1> QED  BY <1>1, <1>2, <1>3, <1>4, <1>5, <1>6, <1>7, <1>8 DEF Activity!Next

(* Every message and every tick in voice is counted once, however flushes  *)
(* overlap and fail.                                                       *)
THEOREM NothingTwice == Activity!Spec => []Activity!CountedOnce
<1>1. Activity!Init => CountersInv
  <2> SUFFICES ASSUME Activity!Init PROVE CountersInv
    OBVIOUS
  <2> USE DEF Activity!Init, Activity!Kinds, Activity!Flushers
  <2>1. Activity!TypeOK
    <3>1. /\ counted \in [Activity!Kinds -> 0 .. MaxCount] /\ counted \in [Activity!Kinds -> Nat]
          /\ buffer = counted /\ stored = counted
      BY LedgersAssumption
    <3>2. taken \in [Activity!Flushers -> [Activity!Kinds -> Nat]]
      OBVIOUS
    <3>3. flush \in [Activity!Flushers -> Activity!Kinds \cup {"idle", "done"}]
      OBVIOUS
    <3>4. phase = "up" /\ marred = FALSE /\ countFaults \in 0 .. MaxFaults
      BY VoiceAssumption
    <3> HIDE DEF Activity!Init, Activity!Kinds, Activity!Flushers
    <3> QED  BY <3>1, <3>2, <3>3, <3>4 DEF Activity!TypeOK
  <2>2. InHandOnly /\ Emptied /\ Activity!CountedOnce
    BY DEF InHandOnly, Emptied, Activity!CountedOnce, Activity!InHand
  <2> QED  BY <2>1, <2>2 DEF CountersInv
<1>2. CountersInv /\ [Activity!Next]_(Activity!counterVars) => CountersInv'
  BY CountersTypes, CountersKept DEF CountersInv
<1>3. CountersInv => Activity!CountedOnce
  BY DEF CountersInv
<1> QED  BY <1>1, <1>2, <1>3, PTL DEF Activity!Spec

(* Both, as the run checks them.                                           *)
THEOREM ActivityCorrect == Spec /\ Activity!Spec => []ActivityCounted
  BY HoursHonest, NothingTwice, PTL DEF ActivityCounted

-----------------------------------------------------------------------------
(* Keys (PremiumKeys, MCPremium).                                          *)

Under(s) == pc[s] \in {"seats", "row", "save"}
Looked(s) == pc[s] \in {"row", "save"}

KeyTypes ==
    /\ pc \in [Sessions -> {"idle", "lock", "seats", "row", "save"}]
    /\ asked \in [Sessions -> (Keys \X Servers) \cup {<<>>}]
    /\ \A s \in Sessions : pc[s] # "idle" => asked[s] \in Keys \X Servers
    /\ extends \in [Sessions -> BOOLEAN]
    /\ lock \in [Premium!Batches -> Sessions \cup {"free"}]
    /\ seats \subseteq Keys \X Servers /\ revoked \subseteq Premium!Batches

(* An activation past its SELECT ... FOR UPDATE holds the batch's row,     *)
(* which cannot be revoked under its feet.                                 *)
Locked ==
    \A s \in Sessions : Under(s) =>
        lock[Premium!Batch(s)] = s /\ Premium!Batch(s) \notin revoked

(* Cardinality is one function, whoever EXTENDs FiniteSets.                *)
LEMMA SameSize == \A S : Premium!Cardinality(S) = Cardinality(S)
  BY DEF Premium!Cardinality, Cardinality

(* One that is about to take a seat has found one free.                    *)
SeatFree ==
    /\ \A k \in Keys : IsFiniteSet(Premium!TakenBy(k))
    /\ \A k \in Keys : Cardinality(Premium!TakenBy(k)) <= Seats
    /\ \A s \in Sessions : Looked(s) /\ ~extends[s] =>
          Cardinality(Premium!TakenBy(Premium!Key(s))) < Seats

SeatsInv == KeyTypes /\ Locked /\ SeatFree

SeatState == <<pc, asked, extends, lock, seats, revoked>>

(* Which actions concern seats, locks and revocations at all.              *)
LEMMA KeySteps ==
    ASSUME [Premium!Next]_(Premium!vars)
    PROVE  \/ \E s \in Sessions : \/ \E k \in Keys, g \in Servers : Premium!Activate(s, k, g)
                                  \/ Premium!Redeem(s)
           \/ \E b \in Premium!Batches :
                 (\E h \in BOOLEAN : Premium!RevokeBatch(b, h)) \/ Premium!Reactivate(b)
           \/ \E k \in Keys, g \in Servers : Premium!ReleaseSeat(k, g)
           \/ Premium!BotRestarts
           \/ UNCHANGED SeatState
  BY DEF Premium!Next, Premium!Operator, Premium!vars, Premium!activations, SeatState,
         Premium!TurnedDown, Premium!Grant, Premium!Trial, Premium!Revoke, Premium!StripOne,
         Premium!RequestLost, Premium!Midnight, Premium!Caching

LEMMA InOrNot == \A x, S : (x \in S) \in BOOLEAN
  OBVIOUS

LEMMA KeyTypesKept == KeyTypes /\ [Premium!Next]_(Premium!vars) => KeyTypes'
<1> SUFFICES ASSUME KeyTypes, [Premium!Next]_(Premium!vars) PROVE KeyTypes'
  OBVIOUS
<1> USE DEF KeyTypes
<1>1. ASSUME NEW s \in Sessions, NEW k \in Keys, NEW g \in Servers, Premium!Activate(s, k, g)
      PROVE  KeyTypes'
  BY <1>1 DEF Premium!Activate
<1>2. ASSUME NEW s \in Sessions, Premium!LockBatch(s) PROVE KeyTypes'
  BY <1>2, ZenonT(60) DEF Premium!LockBatch, Premium!Leave
<1>3. ASSUME NEW s \in Sessions, Premium!ReadSeats(s) PROVE KeyTypes'
  <2>1. CASE Premium!IsFull(s)
    BY ZenonT(60), <1>3, <2>1 DEF Premium!ReadSeats, Premium!Leave, Premium!Unlock, Premium!Free
  <2>2. CASE ~Premium!IsFull(s)
    <3> DEFINE had == Premium!Server(s) \in Premium!TakenBy(Premium!Key(s))
    <3>1. had \in BOOLEAN
      BY InOrNot
    <3>2. /\ pc' = [pc EXCEPT ![s] = "row"] /\ extends' = [extends EXCEPT ![s] = had]
          /\ pc[s] = "seats" /\ UNCHANGED <<asked, lock, seats, revoked>>
      BY <1>3, <2>2 DEF Premium!ReadSeats
    <3> HIDE DEF had
    <3> QED  BY <3>1, <3>2
  <2> QED  BY <2>1, <2>2
<1>4. ASSUME NEW s \in Sessions, Premium!ReadRow(s) PROVE KeyTypes'
  BY <1>4 DEF Premium!ReadRow
<1>5. ASSUME NEW s \in Sessions, Premium!Activated(s) PROVE KeyTypes'
  BY <1>5 DEF Premium!Activated, Premium!Leave, Premium!Unlock, Premium!Free, Premium!NewSeat
<1>6. ASSUME NEW s \in Sessions, Premium!ActivationFails(s) PROVE KeyTypes'
  BY <1>6 DEF Premium!ActivationFails, Premium!Leave, Premium!Unlock, Premium!Free
<1>7. ASSUME NEW b \in Premium!Batches, NEW h \in BOOLEAN, Premium!RevokeBatch(b, h)
      PROVE  KeyTypes'
  BY <1>7 DEF Premium!RevokeBatch, Premium!activations
<1>8. ASSUME NEW b \in Premium!Batches, Premium!Reactivate(b) PROVE KeyTypes'
  BY <1>8 DEF Premium!Reactivate, Premium!activations
<1>9. ASSUME NEW k \in Keys, NEW g \in Servers, Premium!ReleaseSeat(k, g) PROVE KeyTypes'
  BY <1>9 DEF Premium!ReleaseSeat, Premium!activations
<1>10. CASE Premium!BotRestarts
  BY <1>10 DEF Premium!BotRestarts, Premium!Free
<1>11. CASE UNCHANGED SeatState
  BY <1>11 DEF SeatState
<1> QED
  BY <1>1, <1>2, <1>3, <1>4, <1>5, <1>6, <1>7, <1>8, <1>9, <1>10, <1>11, KeySteps
  DEF Premium!Redeem

LEMMA LockedKept == KeyTypes /\ Locked /\ [Premium!Next]_(Premium!vars) => Locked'
<1> SUFFICES ASSUME KeyTypes, Locked, [Premium!Next]_(Premium!vars) PROVE Locked'
  OBVIOUS
<1> USE DEF KeyTypes, Locked, Under, Premium!Batch, Premium!Key
<1>b. \A s \in Sessions : pc[s] # "idle" => BatchOf(asked[s][1]) \in Premium!Batches
  BY DEF Premium!Batches
<1>1. ASSUME NEW s \in Sessions, NEW k \in Keys, NEW g \in Servers, Premium!Activate(s, k, g)
      PROVE  Locked'
  BY <1>1 DEF Premium!Activate
<1>2. ASSUME NEW s \in Sessions, Premium!LockBatch(s) PROVE Locked'
  BY <1>2, <1>b, LedgersAssumption DEF Premium!LockBatch, Premium!Leave, Premium!Free
<1>3. ASSUME NEW s \in Sessions, Premium!ReadSeats(s) PROVE Locked'
  BY <1>3, <1>b DEF Premium!ReadSeats, Premium!Leave, Premium!Unlock
<1>4. ASSUME NEW s \in Sessions, Premium!ReadRow(s) PROVE Locked'
  BY <1>4 DEF Premium!ReadRow
<1>5. ASSUME NEW s \in Sessions, Premium!Activated(s) PROVE Locked'
  BY <1>5, <1>b DEF Premium!Activated, Premium!Leave, Premium!Unlock
<1>6. ASSUME NEW s \in Sessions, Premium!ActivationFails(s) PROVE Locked'
  BY <1>6, <1>b DEF Premium!ActivationFails, Premium!Leave, Premium!Unlock
<1>7. ASSUME NEW b \in Premium!Batches, NEW h \in BOOLEAN, Premium!RevokeBatch(b, h)
      PROVE  Locked'
  BY <1>7, LedgersAssumption DEF Premium!RevokeBatch, Premium!activations, Premium!Free
<1>8. ASSUME NEW b \in Premium!Batches, Premium!Reactivate(b) PROVE Locked'
  BY <1>8 DEF Premium!Reactivate, Premium!activations
<1>9. ASSUME NEW k \in Keys, NEW g \in Servers, Premium!ReleaseSeat(k, g) PROVE Locked'
  BY <1>9 DEF Premium!ReleaseSeat, Premium!activations
<1>10. CASE Premium!BotRestarts
  BY <1>10 DEF Premium!BotRestarts
<1>11. CASE UNCHANGED SeatState
  BY <1>11 DEF SeatState
<1> QED
  BY <1>1, <1>2, <1>3, <1>4, <1>5, <1>6, <1>7, <1>8, <1>9, <1>10, <1>11, KeySteps
  DEF Premium!Redeem

(* Two that have looked at the seats of one batch are one.                 *)
LEMMA OneAtSeats ==
    ASSUME KeyTypes, Locked, NEW s \in Sessions, NEW t \in Sessions, Under(s), Under(t),
           Premium!Key(s) = Premium!Key(t)
    PROVE  s = t
  BY DEF Locked, Premium!Batch

LEMMA SeatFreeKept == SeatsInv /\ [Premium!Next]_(Premium!vars) => SeatFree'
<1> SUFFICES ASSUME SeatsInv, [Premium!Next]_(Premium!vars) PROVE SeatFree'
  OBVIOUS
<1> USE DEF SeatsInv
<1>s. ASSUME UNCHANGED seats,
             \A s \in Sessions : Looked(s)' /\ ~extends'[s] =>
                 Looked(s) /\ ~extends[s] /\ asked'[s] = asked[s]
      PROVE  SeatFree'
  BY <1>s DEF SeatFree, Premium!TakenBy, Premium!Key
<1> USE DEF KeyTypes, Looked
<1>1. ASSUME NEW s \in Sessions, NEW k \in Keys, NEW g \in Servers, Premium!Activate(s, k, g)
      PROVE  SeatFree'
  BY <1>1, <1>s DEF Premium!Activate
<1>2. ASSUME NEW s \in Sessions, Premium!LockBatch(s) PROVE SeatFree'
  BY <1>2, <1>s DEF Premium!LockBatch, Premium!Leave
<1>3. ASSUME NEW s \in Sessions, Premium!ReadSeats(s) PROVE SeatFree'
  <2>1. CASE Premium!IsFull(s)
    BY <1>3, <2>1, <1>s DEF Premium!ReadSeats, Premium!Leave
  <2>2. CASE ~Premium!IsFull(s)
    <3> DEFINE taken0 == Premium!TakenBy(Premium!Key(s))
    <3>1. /\ pc' = [pc EXCEPT ![s] = "row"] /\ UNCHANGED <<asked, seats>>
          /\ extends' = [extends EXCEPT ![s] = Premium!Server(s) \in taken0]
      BY <1>3, <2>2 DEF Premium!ReadSeats
    <3>2. asked[s][1] \in Keys
      BY <1>3 DEF Premium!ReadSeats
    <3>3. Cardinality(taken0) \in Nat
      BY <3>2, FS_CardinalityType DEF SeatFree, Premium!Key
    <3>4. Premium!Server(s) \notin taken0 => Cardinality(taken0) < Seats
      BY <2>2, <3>3, SameSize, LedgersAssumption DEF Premium!IsFull
    <3>5. /\ ~extends'[s] => Premium!Server(s) \notin taken0
          /\ \A t \in Sessions \ {s} : pc'[t] = pc[t] /\ extends'[t] = extends[t]
      BY <3>1
    <3> QED
      BY ZenonT(60), <3>1, <3>4, <3>5 DEF SeatFree, Premium!TakenBy, Premium!Key
  <2> QED  BY <2>1, <2>2
<1>4. ASSUME NEW s \in Sessions, Premium!ReadRow(s) PROVE SeatFree'
  BY <1>4, <1>s DEF Premium!ReadRow
<1>5. ASSUME NEW s \in Sessions, Premium!Activated(s) PROVE SeatFree'
  <2>1. /\ asked[s] \in Keys \X Servers /\ Looked(s) /\ Under(s)
        /\ pc' = [pc EXCEPT ![s] = "idle"]
        /\ \A t \in Sessions \ {s} : asked'[t] = asked[t] /\ extends'[t] = extends[t]
        /\ seats' = seats \cup Premium!NewSeat(s)
    BY <1>5 DEF Premium!Activated, Premium!Leave, Under
  <2>2. PICK k \in Keys, g \in Servers : asked[s] = <<k, g>>
    BY <2>1
  <2>3. CASE extends[s]
    BY <2>1, <2>3, <1>s DEF Premium!NewSeat
  <2>4. CASE ~extends[s]
    <3>1. seats' = seats \cup {<<k, g>>}
      BY <2>1, <2>2, <2>4 DEF Premium!NewSeat
    <3>2. \A j \in Keys : Premium!TakenBy(j)' =
                IF j = k THEN Premium!TakenBy(j) \cup {g} ELSE Premium!TakenBy(j)
      BY <3>1 DEF Premium!TakenBy
    <3>3. Cardinality(Premium!TakenBy(k)) < Seats
      BY <2>1, <2>2, <2>4 DEF SeatFree, Premium!Key
    <3>4. IsFiniteSet(Premium!TakenBy(k)) /\ Cardinality(Premium!TakenBy(k)) \in Nat
      BY FS_CardinalityType DEF SeatFree
    <3>5. /\ IsFiniteSet(Premium!TakenBy(k) \cup {g})
          /\ Cardinality(Premium!TakenBy(k) \cup {g}) <= Seats
      <4>1. /\ IsFiniteSet(Premium!TakenBy(k) \cup {g})
            /\ \/ Cardinality(Premium!TakenBy(k) \cup {g}) = Cardinality(Premium!TakenBy(k))
               \/ Cardinality(Premium!TakenBy(k) \cup {g}) = Cardinality(Premium!TakenBy(k)) + 1
        BY <3>4, FS_AddElement
      <4> HIDE DEF KeyTypes, SeatsInv
      <4> QED  BY <4>1, <3>3, <3>4, LedgersAssumption
    <3>6. \A t \in Sessions : Looked(t)' /\ ~extends'[t] =>
              Looked(t) /\ ~extends[t] /\ asked'[t] = asked[t] /\ asked[t][1] # k
      <4> SUFFICES ASSUME NEW t \in Sessions, Looked(t)', ~extends'[t]
                   PROVE  Looked(t) /\ ~extends[t] /\ asked'[t] = asked[t] /\ asked[t][1] # k
        OBVIOUS
      <4>1. t # s /\ pc'[t] = pc[t]
        BY <2>1
      <4>2. Under(t) /\ Premium!Key(s) = k
        BY <4>1, <2>2 DEF Under, Premium!Key
      <4> QED  BY <4>1, <4>2, <2>1, OneAtSeats DEF Premium!Key
    <3>7. \A t \in Sessions : Looked(t) => asked[t][1] \in Keys
      OBVIOUS
    <3>8. \A j \in Keys : /\ IsFiniteSet(Premium!TakenBy(j)')
                          /\ Cardinality(Premium!TakenBy(j)') <= Seats
      BY <3>2, <3>5 DEF SeatFree
    <3>9. \A t \in Sessions : Looked(t)' /\ ~extends'[t] =>
              Cardinality(Premium!TakenBy(Premium!Key(t))') < Seats
      BY <3>2, <3>6, <3>7 DEF SeatFree, Premium!Key
    <3> QED
      BY <3>6, <3>8, <3>9 DEF SeatFree, Premium!Key
  <2> QED  BY <2>3, <2>4
<1>6. ASSUME NEW s \in Sessions, Premium!ActivationFails(s) PROVE SeatFree'
  BY <1>6, <1>s DEF Premium!ActivationFails, Premium!Leave
<1>7. ASSUME NEW b \in Premium!Batches, NEW h \in BOOLEAN, Premium!RevokeBatch(b, h)
      PROVE  SeatFree'
  BY <1>7, <1>s DEF Premium!RevokeBatch, Premium!activations
<1>8. ASSUME NEW b \in Premium!Batches, Premium!Reactivate(b) PROVE SeatFree'
  BY <1>8, <1>s DEF Premium!Reactivate, Premium!activations
<1>9. ASSUME NEW k \in Keys, NEW g \in Servers, Premium!ReleaseSeat(k, g) PROVE SeatFree'
  <2>1. seats' = seats \ {<<k, g>>} /\ UNCHANGED <<pc, extends, asked>>
    BY <1>9 DEF Premium!ReleaseSeat, Premium!activations
  <2>2. \A j \in Keys : Premium!TakenBy(j)' \subseteq Premium!TakenBy(j)
    BY <2>1 DEF Premium!TakenBy
  <2>3. \A j \in Keys : /\ IsFiniteSet(Premium!TakenBy(j)')
                        /\ Cardinality(Premium!TakenBy(j)') \in Nat
                        /\ Cardinality(Premium!TakenBy(j)) \in Nat
                        /\ Cardinality(Premium!TakenBy(j)') <= Cardinality(Premium!TakenBy(j))
    BY <2>2, FS_Subset, FS_CardinalityType DEF SeatFree
  <2>4. \A t \in Sessions : Looked(t) => asked[t][1] \in Keys
    OBVIOUS
  <2> QED
    BY <2>1, <2>3, <2>4, LedgersAssumption DEF SeatFree, Premium!Key
<1>10. CASE Premium!BotRestarts
  BY <1>10, <1>s DEF Premium!BotRestarts
<1>11. CASE UNCHANGED SeatState
  BY <1>11, <1>s DEF SeatState
<1> QED
  BY <1>1, <1>2, <1>3, <1>4, <1>5, <1>6, <1>7, <1>8, <1>9, <1>10, <1>11, KeySteps
  DEF Premium!Redeem

LEMMA SeatsInit == Premium!Init => SeatsInv
<1> SUFFICES ASSUME Premium!Init PROVE SeatsInv
  OBVIOUS
<1> USE DEF Premium!Init
<1>1. KeyTypes /\ Locked
  BY DEF KeyTypes, Locked, Under, Premium!Free
<1>2. \A k \in Keys : Premium!TakenBy(k) = {}
  BY DEF Premium!TakenBy
<1>3. SeatFree
  <2>1. \A k \in Keys : /\ IsFiniteSet(Premium!TakenBy(k))
                        /\ Cardinality(Premium!TakenBy(k)) <= Seats
    <3> HIDE DEF Premium!Init
    <3> QED  BY <1>2, FS_EmptySet, LedgersAssumption
  <2>2. \A s \in Sessions : ~Looked(s)
    BY DEF Looked
  <2> QED  BY <2>1, <2>2 DEF SeatFree
<1> QED  BY <1>1, <1>3 DEF SeatsInv

LEMMA SeatsStep == SeatsInv /\ [Premium!Next]_(Premium!vars) => SeatsInv'
  BY KeyTypesKept, LockedKept, SeatFreeKept DEF SeatsInv

(* However activations, revocations and restarts overlap, a key serves no  *)
(* more servers than it has seats.                                         *)
THEOREM SeatsKept == Premium!Spec => []Premium!SeatsWithinKey
<1>1. SeatsInv => Premium!SeatsWithinKey
  BY SameSize DEF SeatsInv, SeatFree, Premium!SeatsWithinKey
<1> QED  BY SeatsInit, SeatsStep, <1>1, PTL DEF Premium!Spec

(* What an activation extends is still there when it commits, as long as   *)
(* no seat was taken back in the middle.                                   *)
Extended == ~torn => \A s \in Sessions : Looked(s) /\ extends[s] => asked[s] \in seats

(* Who pays for a server: a batch with a seat for it, or the operator's    *)
(* request has still to take the tariff away. The latter, if the batch is  *)
(* revoked with what it has given.                                         *)
Seated(held, g, b) == \E k \in Keys : BatchOf(k) = b /\ <<k, g>> \in held
Paid ==
    ~torn => \A g \in Servers : Premium!HasRow(g) /\ paidBy[g] # "operator" =>
        g \in strip \/ Seated(seats, g, paidBy[g])
Stripped ==
    ~torn => \A g \in Servers : Premium!HasRow(g) /\ paidBy[g] \in hard => g \in strip

Table == db = [g \in Servers |-> db[g]] /\ hard \subseteq revoked

BatchInv == SeatsInv /\ Table /\ Extended /\ Paid /\ Stripped

(* Who is said to pay for a server after a step.                           *)
LEMMA Payers ==
    ASSUME Premium!MCNext, NEW g \in Servers
    PROVE  \/ \E s \in Sessions : /\ Premium!Activating(s) /\ Premium!Server(s) = g
                                  /\ paidBy'[g] = Premium!Batch(s)
           \/ paidBy'[g] = "operator"
           \/ paidBy'[g] = paidBy[g] /\ db'[g] = db[g]
<1> DEFINE Pays(s) == Premium!Activating(s) /\ Premium!Server(s) = g
           who == CHOOSE s \in Sessions : Pays(s)
<1>1. paidBy'[g] = IF \E s \in Sessions : Pays(s) THEN Premium!Batch(who)
                   ELSE IF db'[g] # db[g] \/ (\E end \in Grants : Premium!Grant(g, end))
                        THEN "operator" ELSE paidBy[g]
  BY DEF Premium!MCNext
<1>2. (\E s \in Sessions : Pays(s)) => who \in Sessions /\ Pays(who)
  OBVIOUS
<1> HIDE DEF who
<1> QED  BY <1>1, <1>2

(* Which actions concern seats, what is to be stripped, and revocations.   *)
LEMMA BatchSteps ==
    ASSUME Premium!Next
    PROVE  \/ \E s \in Sessions : Premium!Activated(s)
           \/ \E b \in Premium!Batches :
                 (\E h \in BOOLEAN : Premium!RevokeBatch(b, h)) \/ Premium!Reactivate(b)
           \/ \E k \in Keys, g \in Servers : Premium!ReleaseSeat(k, g)
           \/ \E g \in Servers : Premium!StripOne(g)
           \/ Premium!RequestLost
           \/ UNCHANGED <<seats, strip, revoked>>
  BY DEF Premium!Next, Premium!Operator, Premium!TurnedDown, Premium!Activate, Premium!Redeem,
         Premium!LockBatch, Premium!ReadSeats, Premium!ReadRow, Premium!ActivationFails,
         Premium!Grant, Premium!Trial, Premium!Revoke, Premium!Midnight, Premium!Caching,
         Premium!BotRestarts

(* A step in which a batch counts as revoked hard leaves its servers to    *)
(* be stripped, and was taken when nothing was.                            *)
LEMMA HardSteps ==
    ASSUME Premium!MCNext, NEW b \in hard'
    PROVE  b \in revoked' /\ (b \in hard \/ Premium!Revoking(b))
  BY DEF Premium!MCNext

LEMMA TableKept == KeyTypes /\ Table /\ [Premium!MCNext]_(Premium!mcVars) => Table'
<1> SUFFICES ASSUME KeyTypes, Table, [Premium!MCNext]_(Premium!mcVars) PROVE Table'
  OBVIOUS
<1>1. CASE UNCHANGED Premium!mcVars
  BY <1>1 DEF Table, Premium!mcVars, Premium!vars, Premium!cacheVars
<1>2. CASE Premium!MCNext
  <2>1. hard' \subseteq revoked'
    BY <1>2, HardSteps
  <2> DEFINE Writes == \E g \in Servers : \E row : db' = [db EXCEPT ![g] = row]
  <2>2. UNCHANGED db \/ Writes
    <3>1. ASSUME NEW p \in {"bot"}, Premium!Caching(p) PROVE UNCHANGED db
      BY <3>1 DEF Premium!Caching, Premium!Select, Premium!Apply, Premium!ReadFails,
                  Premium!Disconnect, Premium!Connect
    <3>2. ASSUME NEW g \in Servers, NEW row, NEW h, NEW o, Premium!Commit(g, row, h, o)
          PROVE  Writes
      BY <3>2 DEF Premium!Commit
    <3>3. ASSUME NEW s \in Sessions, Premium!Redeem(s) PROVE UNCHANGED db \/ Writes
      <4>1. CASE Premium!Activated(s)
        <5>1. Premium!Server(s) \in Servers
          BY <4>1 DEF Premium!Activated, Premium!Server, KeyTypes
        <5> HIDE DEF Writes
        <5> QED  BY <4>1, <5>1, <3>2 DEF Premium!Activated
      <4> QED
        BY <3>3, <4>1 DEF Premium!Redeem, Premium!LockBatch, Premium!ReadSeats, Premium!ReadRow,
                          Premium!ActivationFails, Premium!cacheVars
    <3>4. ASSUME NEW g \in Servers, NEW end \in Grants, Premium!Grant(g, end) PROVE Writes
      <4> HIDE DEF Writes
      <4> QED  BY <3>4, <3>2 DEF Premium!Grant, Premium!Put
    <3>5. ASSUME NEW g \in Servers,
                 Premium!Trial(g) \/ Premium!Revoke(g) \/ Premium!StripOne(g) PROVE Writes
      <4> HIDE DEF Writes
      <4> QED
        BY <3>5, <3>2 DEF Premium!Trial, Premium!Put, Premium!Revoke, Premium!StripOne,
                          Premium!TakeAway
    <3> HIDE DEF Writes
    <3> QED
      BY <1>2, <3>1, <3>3, <3>4, <3>5
      DEF Premium!MCNext, Premium!Next, Premium!Operator, Premium!TurnedDown, Premium!Activate,
          Premium!RevokeBatch, Premium!Reactivate, Premium!ReleaseSeat, Premium!RequestLost,
          Premium!Midnight, Premium!BotRestarts, Premium!Reboot, Premium!cacheVars
  <2>3. db' = [g \in Servers |-> db'[g]]
    BY <2>2 DEF Table
  <2> QED  BY <2>1, <2>3 DEF Table
<1> QED  BY <1>1, <1>2

LEMMA ExtendedKept == BatchInv /\ [Premium!MCNext]_(Premium!mcVars) => Extended'
<1> SUFFICES ASSUME BatchInv, [Premium!MCNext]_(Premium!mcVars), ~torn' PROVE
        \A s \in Sessions : Looked(s)' /\ extends'[s] => asked'[s] \in seats'
  BY DEF Extended
<1> USE DEF BatchInv, SeatsInv, KeyTypes, Looked
<1>0. ~torn /\ (Premium!MCNext => Premium!Busy = {} \/ ~Premium!Releasing)
  <2> DEFINE Cause == Premium!Busy # {} /\ Premium!Releasing
  <2>1. Premium!MCNext => torn' = (torn \/ Premium!RequestLost \/ Cause)
    BY DEF Premium!MCNext
  <2>2. Premium!MCNext \/ torn' = torn
    BY DEF Premium!mcVars
  <2> HIDE DEF Cause
  <2>3. Premium!MCNext => ~torn /\ ~Cause
    <3> SUFFICES ASSUME Premium!MCNext PROVE ~torn /\ ~Cause
      OBVIOUS
    <3>1. torn' = (torn \/ Premium!RequestLost \/ Cause)
      BY <2>1
    <3>2. ~(torn \/ Premium!RequestLost \/ Cause)
      BY <3>1
    <3> QED  BY <3>2
  <2>4. ~torn
    BY <2>2, <2>3
  <2> USE DEF Cause
  <2> QED  BY <2>3, <2>4
<1>s. ASSUME seats \subseteq seats',
             \A s \in Sessions : Looked(s)' /\ extends'[s] =>
                 Looked(s) /\ extends[s] /\ asked'[s] = asked[s]
      PROVE  \A s \in Sessions : Looked(s)' /\ extends'[s] => asked'[s] \in seats'
  BY <1>0, <1>s DEF Extended
<1>1. ASSUME NEW s \in Sessions, NEW k \in Keys, NEW g \in Servers, Premium!Activate(s, k, g)
      PROVE  \A t \in Sessions : Looked(t)' /\ extends'[t] => asked'[t] \in seats'
  BY <1>1, <1>s DEF Premium!Activate
<1>2. ASSUME NEW s \in Sessions, Premium!LockBatch(s)
      PROVE  \A t \in Sessions : Looked(t)' /\ extends'[t] => asked'[t] \in seats'
  BY <1>2, <1>s DEF Premium!LockBatch, Premium!Leave
<1>3. ASSUME NEW s \in Sessions, Premium!ReadSeats(s)
      PROVE  \A t \in Sessions : Looked(t)' /\ extends'[t] => asked'[t] \in seats'
  <2>1. CASE Premium!IsFull(s)
    BY <1>3, <2>1, <1>s DEF Premium!ReadSeats, Premium!Leave
  <2>2. CASE ~Premium!IsFull(s)
    <3>1. /\ pc' = [pc EXCEPT ![s] = "row"] /\ UNCHANGED <<asked, seats>>
          /\ extends' = [extends EXCEPT ![s] = Premium!Server(s) \in
                                                Premium!TakenBy(Premium!Key(s))]
          /\ pc[s] = "seats"
      BY <1>3, <2>2 DEF Premium!ReadSeats
    <3>2. extends'[s] => asked[s] \in seats
      <4>1. PICK k \in Keys, g \in Servers : asked[s] = <<k, g>>
        BY <3>1
      <4>2. extends'[s] = (g \in Premium!TakenBy(k))
        BY <3>1, <4>1 DEF Premium!Server, Premium!Key
      <4> QED  BY <4>1, <4>2 DEF Premium!TakenBy
    <3>3. \A t \in Sessions \ {s} : pc'[t] = pc[t] /\ extends'[t] = extends[t]
      BY <3>1
    <3> QED  BY <3>1, <3>2, <3>3, <1>0 DEF Extended
  <2> QED  BY <2>1, <2>2
<1>4. ASSUME NEW s \in Sessions, Premium!ReadRow(s)
      PROVE  \A t \in Sessions : Looked(t)' /\ extends'[t] => asked'[t] \in seats'
  BY <1>4, <1>s DEF Premium!ReadRow
<1>5. ASSUME NEW s \in Sessions, Premium!Activated(s)
      PROVE  \A t \in Sessions : Looked(t)' /\ extends'[t] => asked'[t] \in seats'
  BY <1>5, <1>s DEF Premium!Activated, Premium!Leave
<1>6. ASSUME NEW s \in Sessions, Premium!ActivationFails(s)
      PROVE  \A t \in Sessions : Looked(t)' /\ extends'[t] => asked'[t] \in seats'
  BY <1>6, <1>s DEF Premium!ActivationFails, Premium!Leave
<1>7. ASSUME NEW b \in Premium!Batches,
             (\E h \in BOOLEAN : Premium!RevokeBatch(b, h)) \/ Premium!Reactivate(b)
      PROVE  \A t \in Sessions : Looked(t)' /\ extends'[t] => asked'[t] \in seats'
  BY <1>7, <1>s DEF Premium!RevokeBatch, Premium!Reactivate, Premium!activations
<1>8. ASSUME NEW k \in Keys, NEW g \in Servers, Premium!ReleaseSeat(k, g), Premium!MCNext
      PROVE  \A t \in Sessions : Looked(t)' /\ extends'[t] => asked'[t] \in seats'
  <2>1. Premium!Releasing
    BY <1>8 DEF Premium!Releasing
  <2>2. \A t \in Sessions : pc[t] = "idle"
    BY <2>1, <1>8, <1>0 DEF Premium!Busy
  <2>3. UNCHANGED pc
    BY <1>8 DEF Premium!ReleaseSeat, Premium!activations
  <2> QED  BY <2>2, <2>3
<1>9. CASE Premium!BotRestarts
  BY <1>9 DEF Premium!BotRestarts
<1>10. CASE UNCHANGED SeatState
  BY <1>10, <1>s DEF SeatState
<1>11. [Premium!Next]_(Premium!vars) /\ (UNCHANGED SeatState \/ Premium!MCNext)
  BY DEF Premium!MCNext, Premium!mcVars, Premium!vars, SeatState, Premium!activations
<1> QED
  BY <1>1, <1>2, <1>3, <1>4, <1>5, <1>6, <1>7, <1>8, <1>9, <1>10, <1>11, KeySteps
  DEF Premium!Redeem

(* What an activation pays for with its batch: it has a seat there, and    *)
(* nobody has revoked the batch.                                           *)
LEMMA PayerSeated ==
    ASSUME BatchInv, ~torn, NEW s \in Sessions, Premium!Activating(s)
    PROVE  /\ Seated(seats', Premium!Server(s), Premium!Batch(s))
           /\ Premium!Batch(s) \notin revoked'
           /\ UNCHANGED strip
<1>1. /\ asked[s] \in Keys \X Servers /\ Looked(s) /\ Under(s)
      /\ seats' = seats \cup Premium!NewSeat(s) /\ UNCHANGED <<revoked, strip>>
  BY DEF Premium!Activating, Premium!Activated, Looked, Under, BatchInv, SeatsInv, KeyTypes
<1>2. asked[s] \in seats'
  BY <1>1 DEF Premium!NewSeat, Extended, BatchInv
<1>3. Premium!Batch(s) \notin revoked
  BY <1>1 DEF BatchInv, SeatsInv, Locked
<1>4. PICK k \in Keys, g \in Servers : asked[s] = <<k, g>>
  BY <1>1
<1>5. <<k, g>> \in seats' /\ Premium!Server(s) = g /\ Premium!Batch(s) = BatchOf(k)
  BY <1>2, <1>4 DEF Premium!Server, Premium!Batch, Premium!Key
<1>6. Seated(seats', g, BatchOf(k))
  BY <1>5 DEF Seated
<1> QED  BY <1>1, <1>3, <1>5, <1>6 DEF Seated

LEMMA StripGone ==
    ASSUME Table, NEW g \in Servers, Premium!StripOne(g)
    PROVE  ~Premium!HasRow(g)' /\ strip' = strip \ {g} /\ UNCHANGED <<seats, revoked>>
<1>1. Premium!End = "end"
  BY DEF Premium!End
<1>2. db' = [db EXCEPT ![g] = Premium!Merge([c \in {Premium!End} |-> Absent], @)]
  BY DEF Premium!StripOne, Premium!TakeAway, Premium!Commit
<1>3. db'[g] = Premium!Merge([c \in {Premium!End} |-> Absent], db[g])
  BY <1>2 DEF Table
<1>4. db'[g]["end"] = Absent
  BY <1>1, <1>3 DEF Premium!Merge
<1> QED  BY <1>1, <1>4 DEF Premium!HasRow, Premium!StripOne

LEMMA PaidKept == BatchInv /\ [Premium!MCNext]_(Premium!mcVars) => Paid' /\ Stripped'
<1>1. CASE UNCHANGED Premium!mcVars
  BY <1>1 DEF BatchInv, Paid, Stripped, Seated, Premium!HasRow, Premium!mcVars, Premium!vars,
              Premium!cacheVars
<1>2. CASE Premium!MCNext
  <2> SUFFICES ASSUME BatchInv, ~torn', NEW g \in Servers, Premium!HasRow(g)'
               PROVE  /\ paidBy'[g] # "operator" => g \in strip' \/ Seated(seats', g, paidBy'[g])
                      /\ paidBy'[g] \in hard' => g \in strip'
    BY <1>2 DEF Paid, Stripped, Seated
  <2>0. Premium!Next /\ ~torn /\ ~Premium!RequestLost
    BY <1>2 DEF Premium!MCNext
  <2>h. hard' \subseteq revoked' /\ revoked' \subseteq Premium!Batches
    <3>1. [Premium!Next]_(Premium!vars)
      BY <2>0
    <3>2. KeyTypes'
      BY <3>1, KeyTypesKept DEF BatchInv, SeatsInv
    <3> QED  BY <3>2, <1>2, HardSteps DEF KeyTypes
  <2>1. ASSUME NEW s \in Sessions, Premium!Activating(s), Premium!Server(s) = g,
               paidBy'[g] = Premium!Batch(s)
        PROVE  /\ paidBy'[g] # "operator" => g \in strip' \/ Seated(seats', g, paidBy'[g])
               /\ paidBy'[g] \in hard' => g \in strip'
    BY <2>0, <2>1, <2>h, PayerSeated DEF Seated
  <2>2. CASE paidBy'[g] = "operator"
    <3>1. "operator" \notin Premium!Batches
      BY LedgersAssumption DEF Premium!Batches
    <3> QED  BY <2>2, <2>h, <3>1
  <2>3. CASE paidBy'[g] = paidBy[g] /\ db'[g] = db[g]
    <3>1. /\ paidBy[g] # "operator" => g \in strip \/ Seated(seats, g, paidBy[g])
          /\ paidBy[g] \in hard => g \in strip
      BY <2>0, <2>3 DEF BatchInv, Paid, Stripped, Premium!HasRow
    <3>2. \A b \in hard' : b \in hard \/ Premium!Revoking(b)
      BY <1>2, HardSteps
    <3>3. \A b : Premium!Revoking(b) => strip = {} /\ UNCHANGED seats
                                       /\ strip' = Premium!HoldersOf(b)
      BY DEF Premium!Revoking, Premium!RevokeBatch, Premium!Act
    <3>4. \A b : Seated(seats, g, b) <=> g \in Premium!HoldersOf(b)
      BY DEF Seated, Premium!HoldersOf
    <3>5. CASE \E b \in hard' : Premium!Revoking(b)
      <4>1. PICK b \in hard' : Premium!Revoking(b)
        BY <3>5
      <4>2. strip = {} /\ seats' = seats
        BY <4>1, <3>3
      <4>3. paidBy'[g] = paidBy[g] /\ paidBy[g] \notin hard
        BY <3>1, <4>2, <2>3
      <4>4. paidBy[g] # "operator" => Seated(seats, g, paidBy[g])
        BY <3>1, <4>2
      <4>5. paidBy'[g] \in hard' => g \in strip'
        <5> SUFFICES ASSUME paidBy[g] \in hard' PROVE g \in strip'
          BY <4>3
        <5>1. Premium!Revoking(paidBy[g]) /\ paidBy[g] # "operator"
          BY <3>2, <4>3, <2>h, LedgersAssumption DEF Premium!Batches
        <5> QED  BY <5>1, <4>4, <3>3, <3>4
      <4> QED  BY <4>2, <4>3, <4>4, <4>5
    <3>6. CASE \A b \in hard' : ~Premium!Revoking(b)
      <4>1. /\ paidBy'[g] # "operator" => g \in strip \/ Seated(seats, g, paidBy[g])
            /\ paidBy'[g] \in hard' => g \in strip
        BY <3>1, <3>2, <3>6, <2>3
      <4>2. ASSUME g \in strip PROVE g \in strip'
        <5>1. ASSUME NEW b \in Premium!Batches,
                     (\E h \in BOOLEAN : Premium!RevokeBatch(b, h)) \/ Premium!Reactivate(b)
              PROVE  FALSE
          BY <4>2, <5>1 DEF Premium!RevokeBatch, Premium!Reactivate, Premium!Act
        <5>2. ASSUME NEW k \in Keys, NEW f \in Servers, Premium!ReleaseSeat(k, f) PROVE FALSE
          BY <4>2, <5>2 DEF Premium!ReleaseSeat, Premium!Act
        <5>3. ASSUME NEW f \in Servers, Premium!StripOne(f) PROVE g \in strip'
          BY <4>2, <5>3, StripGone DEF BatchInv
        <5>4. ASSUME NEW s \in Sessions, Premium!Activated(s) PROVE UNCHANGED strip
          BY <5>4 DEF Premium!Activated
        <5> QED  BY <4>2, <2>0, <5>1, <5>2, <5>3, <5>4, BatchSteps
      <4>3. ASSUME NEW b, Seated(seats, g, b) PROVE g \in strip' \/ Seated(seats', g, b)
        <5>1. ASSUME NEW c \in Premium!Batches,
                     (\E h \in BOOLEAN : Premium!RevokeBatch(c, h)) \/ Premium!Reactivate(c)
              PROVE  UNCHANGED seats
          BY <5>1 DEF Premium!RevokeBatch, Premium!Reactivate
        <5>2. ASSUME NEW k \in Keys, NEW f \in Servers, Premium!ReleaseSeat(k, f)
              PROVE  g \in strip' \/ Seated(seats', g, b)
          BY <4>3, <5>2 DEF Premium!ReleaseSeat, Seated
        <5>3. ASSUME NEW f \in Servers, Premium!StripOne(f) PROVE UNCHANGED seats
          BY <5>3 DEF Premium!StripOne
        <5>4. ASSUME NEW s \in Sessions, Premium!Activated(s) PROVE seats \subseteq seats'
          BY <5>4 DEF Premium!Activated
        <5>5. seats \subseteq seats' => Seated(seats', g, b)
          BY <4>3 DEF Seated
        <5> QED  BY <2>0, <5>1, <5>2, <5>3, <5>4, <5>5, BatchSteps
      <4> QED  BY <4>1, <4>2, <4>3, <2>3 DEF Seated
    <3> QED  BY <3>5, <3>6
  <2> QED  BY <1>2, <2>1, <2>2, <2>3, Payers
<1> QED  BY <1>1, <1>2

LEMMA BatchInit == Premium!MCInit => BatchInv
<1> SUFFICES ASSUME Premium!MCInit PROVE BatchInv
  OBVIOUS
<1>1. SeatsInv
  BY SeatsInit DEF Premium!MCInit
<1>2. Table /\ Extended /\ Paid /\ Stripped
  BY DEF Premium!MCInit, Premium!Init, Premium!CacheInit, Table, Extended, Paid, Stripped, Looked
<1> QED  BY <1>1, <1>2 DEF BatchInv

(* However activations, revocations, strips and restarts overlap, a key    *)
(* serves no more servers than it has seats; and once a batch is revoked   *)
(* with what it has given, no server has a tariff from it, unless a seat   *)
(* was taken back in the middle of an activation or a request was lost.    *)
THEOREM BatchesKept == Premium!MCSpec => []BatchesHold
<1>1. BatchInv /\ [Premium!MCNext]_(Premium!mcVars) => BatchInv'
  <2>1. ASSUME [Premium!MCNext]_(Premium!mcVars) PROVE [Premium!Next]_(Premium!vars)
    BY <2>1 DEF Premium!MCNext, Premium!mcVars
  <2> QED  BY <2>1, SeatsStep, TableKept, ExtendedKept, PaidKept DEF BatchInv, SeatsInv
<1>2. BatchInv => BatchesHold
  <2>1. SeatsInv => Premium!SeatsWithinKey
    BY SameSize DEF SeatsInv, SeatFree, Premium!SeatsWithinKey
  <2> QED  BY <2>1 DEF BatchInv, BatchesHold, Premium!BatchesHold, Stripped
<1> QED  BY BatchInit, <1>1, <1>2, PTL DEF Premium!MCSpec

-----------------------------------------------------------------------------
(* Terms (PremiumKeys, MCPremium). What is to be done to the bot's copy.   *)
Bot == Premium!JobsOf("bot")
IsTask(j) ==
    /\ j = [proc |-> j.proc, slot |-> j.slot, kind |-> j.kind, at |-> j.at,
            rows |-> j.rows, news |-> j.news]
    /\ j.at \in {"select", "apply"} /\ j.rows \subseteq Servers
    /\ Servers # {} => j.rows # {}

IsEnd(end) == end \in Nat \cup {Absent, Forever}
TariffTypes ==
    /\ \A j \in jobs : IsTask(j)
    /\ IsFiniteSet(jobs) /\ today \in Nat
    /\ link = [p \in {"bot"} |-> link[p]] /\ link["bot"] \in {"up", "sync", "down"}
    /\ copy = [p \in {"bot"} |-> [g \in Servers |-> copy[p][g]]]
    /\ db = [g \in Servers |-> [c \in {"end"} |-> db[g][c]]]
    /\ \A g \in Servers : IsEnd(db[g]["end"])

(* While the bot hears of changes, what it has read is still so and a row  *)
(* that nothing is about to change is right; while it reads everything,    *)
(* nothing else is under way.                                              *)
Unasked(g) == \A j \in Bot : g \notin j.rows
Hearing ==
    /\ \A j \in Bot : j.kind # "resync"
    /\ \A j \in Bot : j.at = "apply" => \A g \in j.rows : j.news[g] = db[g]
    /\ \A g \in Servers : Unasked(g) => copy["bot"][g] = db[g]
Present(g) == [c \in Premium!Present(db[g]) |-> db[g][c]]
Reloading ==
    \E j \in Bot :
       /\ Bot = {j} /\ j.kind = "resync" /\ j.rows = Servers
       /\ j.at = "apply" => \A g \in Servers : j.news[g] = Present(g)
       /\ \A g \in Servers : copy["bot"][g] = Premium!NoRow
BotFollows ==
    /\ link["bot"] = "up" => Hearing
    /\ link["bot"] = "sync" => Reloading
    /\ link["bot"] = "down" => \A j \in Bot : j.kind # "resync"

(* An activation has added a term to what the bot's copy shows, whatever   *)
(* the day is by now.                                                      *)
Shown(s) == copy["bot"][Premium!Server(s)]["end"]
TermAdded(s) ==
    Premium!InForce(Shown(s)) /\ Shown(s) # Forever => until[s] = Shown(s) + Premium!Term
Added ==
    /\ until \in [Sessions -> Nat]
    /\ \A s \in Sessions : Looked(s) => TermAdded(s)
TermInv == ~crossed => TariffTypes /\ BotFollows /\ Premium!Alone /\ Added

(* A new job finds a slot.                                                 *)
LEMMA Smallest ==
  ASSUME NEW S, S \subseteq Nat, S # {}
  PROVE  Premium!Min(S) \in S
<1> DEFINE R == OpToRel(<, Nat)
<1>1. \A m, n \in Nat : m < n => <<m, n>> \in R
  BY DEF OpToRel
<1>2. IsWellFoundedOn(R, Nat)
  BY NatLessThanWellFounded
<1> HIDE DEF R
<1>3. PICK x \in S : \A y \in S : ~(<<y, x>> \in R)
  BY <1>2, WFMin
<1>4. \A y \in S : ~(y < x)
  BY <1>1, <1>3
<1>5. \A y \in S : x <= y
  BY <1>4
<1> QED  BY <1>5 DEF Premium!Min

LEMMA SlotIsFree ==
  ASSUME IsFiniteSet(Bot), Premium!Cardinality(Bot) < MaxJobs
  PROVE  Premium!FreeSlot("bot") \notin {j.slot : j \in Bot}
<1> DEFINE Used == {j.slot : j \in Bot}
           f == [j \in Bot |-> j.slot]
<1>1. f \in Surjection(Bot, Used)
  BY DEF Surjection
<1>2. IsFiniteSet(Used) /\ Cardinality(Used) <= Cardinality(Bot)
  BY <1>1, FS_Surjection
<1>3. MaxJobs \in Nat
  BY LedgersAssumption
<1>4. Cardinality(1 .. MaxJobs) = MaxJobs
  <2>1. Cardinality(1 .. MaxJobs) = IF 1 > MaxJobs THEN 0 ELSE MaxJobs - 1 + 1
    BY <1>3, FS_Interval
  <2> QED  BY <1>3, <2>1
<1>5. Cardinality(Bot) < MaxJobs /\ Cardinality(Bot) \in Nat /\ Cardinality(Used) \in Nat
  BY <1>2, SameSize, FS_CardinalityType
<1>6. ~(1 .. MaxJobs \subseteq Used)
  <2>1. SUFFICES ASSUME 1 .. MaxJobs \subseteq Used  PROVE FALSE
    OBVIOUS
  <2>2. Cardinality(1 .. MaxJobs) <= Cardinality(Used)
    BY <1>2, <2>1, FS_Subset
  <2> QED  BY <1>2, <1>3, <1>4, <1>5, <2>2
<1> HIDE DEF Used
<1> DEFINE S == 1 .. MaxJobs \ Used
<1>7. S # {} /\ S \subseteq Nat
  BY <1>3, <1>6
<1>8. Premium!Min(S) \in S
  BY <1>7, Smallest
<1>9. Premium!FreeSlot("bot") = Premium!Min(S)
  BY DEF Premium!FreeSlot, Used, Bot
<1> QED  BY <1>8, <1>9 DEF Used

(* A change that reaches the bot while another is under way to one of its  *)
(* rows races with it.                                                     *)
LEMMA NoRace ==
  ASSUME NEW n, NEW g, ~Premium!Races("bot"), n \in jobs', n.proc = "bot", g \in n.rows,
         n.slot \notin {j.slot : j \in Bot}
  PROVE  Unasked(g)
<1>1. SUFFICES ASSUME NEW i \in Bot, g \in i.rows  PROVE FALSE
  BY DEF Unasked
<1>2. n \notin jobs /\ \A k \in Bot : k.slot # n.slot
  BY DEF Bot, Premium!JobsOf
<1> QED  BY <1>1, <1>2 DEF Premium!Races, Bot

(* Steps that leave the bot's copy, and what is to be done to it, alone.   *)
LEMMA FollowsStill ==
  ASSUME BotFollows, Bot' = Bot, db' = db, copy' = copy, link' = link
  PROVE  BotFollows'
<1>1. \A g : (Unasked(g) <=> Unasked(g)') /\ Present(g)' = Present(g)
  BY DEF Unasked, Present, Premium!Present
<1>2. Hearing => Hearing'
  BY <1>1 DEF Hearing
<1>3. Reloading => Reloading'
  BY <1>1 DEF Reloading, Premium!NoRow
<1> QED  BY <1>2, <1>3 DEF BotFollows

(* Jobs, as records.                                                       *)
LEMMA TaskIs ==
  ASSUME NEW rows, NEW kind
  PROVE  Premium!Reader("bot", rows, kind) =
           [proc |-> "bot", slot |-> Premium!FreeSlot("bot"), kind |-> kind, at |-> "select",
            rows |-> rows, news |-> [g \in rows |-> Premium!NoRow]]
  BY DEF Premium!Reader

LEMMA OwnTaskIs ==
  ASSUME NEW g
  PROVE  Premium!OwnReader("bot", g) =
           [proc |-> "bot", slot |-> Premium!SecondSlot("bot"), kind |-> "own", at |-> "select",
            rows |-> {g}, news |-> [x \in {g} |-> Premium!NoRow]]
  BY TaskIs DEF Premium!OwnReader

LEMMA AnsweredTask ==
  ASSUME NEW j, NEW n, IsTask(j)
  PROVE  /\ Premium!Holding(j, n) = [proc |-> j.proc, slot |-> j.slot, kind |-> j.kind,
                                     at |-> "apply", rows |-> j.rows, news |-> n]
         /\ IsTask(Premium!Holding(j, n))
<1> DEFINE a == [proc |-> j.proc, slot |-> j.slot, kind |-> j.kind, at |-> j.at,
                 rows |-> j.rows, news |-> j.news]
           b == [proc |-> j.proc, slot |-> j.slot, kind |-> j.kind, at |-> "apply",
                 rows |-> j.rows, news |-> j.news]
           new == [proc |-> j.proc, slot |-> j.slot, kind |-> j.kind, at |-> "apply",
                   rows |-> j.rows, news |-> n]
<1>1. [a EXCEPT !.at = "apply"] = b
  OBVIOUS
<1>2. [b EXCEPT !.news = n] = new
  OBVIOUS
<1>3. [a EXCEPT !.at = "apply", !.news = n] = [[a EXCEPT !.at = "apply"] EXCEPT !.news = n]
  OBVIOUS
<1>4. j = a
  BY DEF IsTask
<1> HIDE DEF a, b, new
<1>5. [j EXCEPT !.at = "apply", !.news = n] = new
  BY <1>1, <1>2, <1>3, <1>4
<1>6. Premium!Holding(j, n) = new
  BY <1>5 DEF Premium!Holding
<1>7. IsTask(new)
  BY DEF IsTask, new
<1> QED  BY <1>6, <1>7 DEF new

(* A commit that changes the tariff of a server.                           *)
LEMMA PutTypes ==
  ASSUME NEW g \in Servers, NEW end, NEW heard, NEW own, TariffTypes, IsEnd(end),
         Premium!Commit(g, [c \in {"end"} |-> end], heard, own), today' = today,
         heard = {} \/ heard = Premium!Heard(g), own \subseteq {Premium!OwnReader("bot", g)}
  PROVE  /\ TariffTypes' /\ db'[g]["end"] = end
         /\ \A f \in Servers \ {g} : db'[f] = db[f]
<1>1. /\ db' = [db EXCEPT ![g] = Premium!Merge([c \in {"end"} |-> end], @)]
      /\ jobs' = jobs \cup heard \cup own
      /\ copy' = copy /\ link' = link
  BY DEF Premium!Commit
<1>2. db' = [f \in Servers |-> [c \in {"end"} |-> IF f = g THEN end ELSE db[f][c]]]
  BY <1>1 DEF Premium!Merge, TariffTypes
<1>3. IsTask(Premium!Reader("bot", {g}, "notified")) /\ IsTask(Premium!OwnReader("bot", g))
  <2>1. \A slot, kind, news :
           IsTask([proc |-> "bot", slot |-> slot, kind |-> kind, at |-> "select",
                   rows |-> {g}, news |-> news])
    BY DEF IsTask
  <2>2. IsTask(Premium!Reader("bot", {g}, "notified"))
    BY <2>1, TaskIs
  <2>3. IsTask(Premium!OwnReader("bot", g))
    <3>1. Premium!OwnReader("bot", g) =
            [proc |-> "bot", slot |-> Premium!SecondSlot("bot"), kind |-> "own",
             at |-> "select", rows |-> {g}, news |-> [x \in {g} |-> Premium!NoRow]]
      BY OwnTaskIs
    <3> QED  BY <2>1, <3>1
  <2> QED  BY <2>2, <2>3
<1> DEFINE two == {Premium!Reader("bot", {g}, "notified")} \cup {Premium!OwnReader("bot", g)}
<1>4. heard \cup own \subseteq two
  BY DEF Premium!Heard
<1>5. IsFiniteSet(jobs')
  <2>1. IsFiniteSet(two)
    <3>1. \A a, b : IsFiniteSet({a} \cup {b})
      BY FS_Singleton, FS_AddElement
    <3> QED  BY <3>1
  <2>2. IsFiniteSet(heard \cup own)
    BY <1>4, <2>1, FS_Subset
  <2>3. jobs' = jobs \cup (heard \cup own)
    BY <1>1
  <2> QED  BY <2>2, <2>3, FS_Union DEF TariffTypes
<1>6. (\A j \in jobs : IsTask(j))'
  BY <1>1, <1>3, <1>4 DEF TariffTypes, IsTask
<1>7. \A f \in Servers : db'[f] = [c \in {"end"} |-> IF f = g THEN end ELSE db[f][c]]
  BY <1>2
<1>8. \A f \in Servers \ {g} : db'[f] = db[f]
  BY <1>7 DEF TariffTypes
<1>9. db'[g]["end"] = end
  BY <1>7
<1>10. \A f \in Servers : IsEnd(db'[f]["end"])
  BY <1>8, <1>9 DEF TariffTypes
<1>11. db' = [f \in Servers |-> [c \in {"end"} |-> db'[f][c]]]
  BY <1>2
<1>12. (\A f \in Servers : IsEnd(db[f]["end"]))'
  BY <1>10 DEF IsEnd
<1> QED  BY <1>1, <1>5, <1>6, <1>8, <1>9, <1>11, <1>12, SMTT(60) DEF TariffTypes

LEMMA PutFollows ==
  ASSUME NEW g \in Servers, NEW end, NEW heard, NEW own, TariffTypes, BotFollows, IsEnd(end),
         ~Premium!Races("bot"),
         Premium!Commit(g, [c \in {"end"} |-> end], heard, own), today' = today,
         heard = {} \/ heard = Premium!Heard(g), own \subseteq {Premium!OwnReader("bot", g)},
         heard = {} /\ link["bot"] # "down" => own = {} /\ db' = db
  PROVE  BotFollows'
<1> DEFINE task == Premium!Reader("bot", {g}, "notified")
<1>1. /\ jobs' = jobs \cup heard \cup own /\ copy' = copy /\ link' = link
  BY DEF Premium!Commit
<1>2. task = [proc |-> "bot", slot |-> Premium!FreeSlot("bot"), kind |-> "notified",
              at |-> "select", rows |-> {g}, news |-> [f \in {g} |-> Premium!NoRow]]
  BY TaskIs
<1> HIDE DEF task
<1>3. CASE link["bot"] = "down"
  <2> DEFINE mine == Premium!OwnReader("bot", g)
  <2>1. mine = [proc |-> "bot", slot |-> Premium!SecondSlot("bot"), kind |-> "own",
                at |-> "select", rows |-> {g}, news |-> [x \in {g} |-> Premium!NoRow]]
    BY OwnTaskIs
  <2> HIDE DEF mine
  <2>2. \A j \in heard \cup own : j = mine \/ j.kind = "notified"
    BY TaskIs DEF Premium!Heard, mine
  <2>3. \A j \in Bot' : j.kind # "resync"
    BY <1>1, <1>3, <2>1, <2>2 DEF BotFollows, Bot, Premium!JobsOf
  <2> QED  BY <1>1, <1>3, <2>3 DEF BotFollows
<1>4. CASE link["bot"] # "down" /\ heard = {}
  <2>1. jobs' = jobs /\ db' = db
    BY <1>1, <1>4
  <2> QED  BY <1>1, <2>1, FollowsStill DEF Bot, Premium!JobsOf
<1>5. CASE link["bot"] # "down" /\ heard # {}
  <2>1. heard = {task}
    BY <1>5 DEF Premium!Heard, task
  <2>2. Unasked(g)
    <3>1. IsFiniteSet(Bot)
      BY FS_Subset DEF TariffTypes, Bot, Premium!JobsOf
    <3>2. Premium!Cardinality(Bot) < MaxJobs - 1
      BY DEF Premium!Commit, Premium!HasRoom, Bot
    <3>3. Premium!Cardinality(Bot) < MaxJobs
      BY <3>1, <3>2, SameSize, FS_CardinalityType, LedgersAssumption
    <3>4. task.slot \notin {j.slot : j \in Bot}
      BY <1>2, <3>1, <3>3, SlotIsFree
    <3>5. task \in jobs' /\ task.proc = "bot" /\ g \in task.rows
      BY <1>1, <1>2, <2>1
    <3> QED  BY <3>4, <3>5, NoRace
  <2>3. link["bot"] = "up"
    <3>1. CASE link["bot"] = "sync"
      <4>1. PICK j \in Bot : j.rows = Servers
        BY <3>1 DEF BotFollows, Reloading
      <4> QED  BY <2>2, <4>1 DEF Unasked
    <3> QED  BY <1>5, <3>1 DEF TariffTypes
  <2>4. Hearing
    BY <2>3 DEF BotFollows
  <2>5. \A j \in Bot' : j \in Bot \/ (j.rows = {g} /\ j.at = "select" /\ j.kind # "resync")
    <3> DEFINE mine == Premium!OwnReader("bot", g)
    <3>1. mine = [proc |-> "bot", slot |-> Premium!SecondSlot("bot"), kind |-> "own",
                  at |-> "select", rows |-> {g}, news |-> [x \in {g} |-> Premium!NoRow]]
      BY OwnTaskIs
    <3> HIDE DEF mine
    <3>2. mine.rows = {g} /\ mine.at = "select" /\ mine.kind # "resync"
      BY <3>1
    <3>3. \A j \in own : j.rows = {g} /\ j.at = "select" /\ j.kind # "resync"
      BY <3>2 DEF mine
    <3> QED  BY <1>1, <1>2, <2>1, <3>3 DEF Bot, Premium!JobsOf
  <2>6. Bot \subseteq Bot' /\ task \in Bot'
    BY <1>1, <1>2, <2>1 DEF Bot, Premium!JobsOf
  <2>7. \A f \in Servers \ {g} : db'[f] = db[f]
    BY PutTypes
  <2>8. \A j \in Bot' : j.kind # "resync"
    BY <2>4, <2>5 DEF Hearing
  <2>9. \A j \in Bot' : j.at = "apply" => \A f \in j.rows : j.news[f] = db'[f]
    <3> SUFFICES ASSUME NEW j \in Bot', j.at = "apply", NEW f \in j.rows
                 PROVE  j.news[f] = db'[f]
      OBVIOUS
    <3>1. j \in Bot /\ j.rows \subseteq Servers
      BY <2>5 DEF TariffTypes, IsTask, Bot, Premium!JobsOf
    <3>2. f # g
      BY <2>2, <3>1 DEF Unasked
    <3> QED  BY <2>4, <2>7, <3>1, <3>2 DEF Hearing
  <2>10. \A f \in Servers : Unasked(f)' => copy'["bot"][f] = db'[f]
    <3> SUFFICES ASSUME NEW f \in Servers, \A j \in Bot' : f \notin j.rows
                 PROVE  copy'["bot"][f] = db'[f]
      BY DEF Unasked
    <3>1. f # g /\ Unasked(f)
      BY <1>2, <2>6 DEF Unasked
    <3> QED  BY <1>1, <2>4, <2>7, <3>1 DEF Hearing
  <2>11. Hearing'
    BY <2>8, <2>9, <2>10 DEF Hearing
  <2> QED  BY <1>1, <2>3, <2>11 DEF BotFollows
<1> QED  BY <1>3, <1>4, <1>5

LEMMA EndIs == Premium!End = "end"
  BY DEF Premium!End

(* What happens to the bot's copy besides commits.                         *)
LEMMA SelectTask ==
  ASSUME NEW j \in Bot, TariffTypes, BotFollows, Premium!Select(j), today' = today
  PROVE  TariffTypes' /\ BotFollows'
<1> DEFINE n == Premium!Holding(j, Premium!News(j))
<1>1. IsTask(j) /\ j \in jobs /\ j.proc = "bot"
  BY DEF TariffTypes, Bot, Premium!JobsOf
<1>2. /\ n = [proc |-> j.proc, slot |-> j.slot, kind |-> j.kind, at |-> "apply",
              rows |-> j.rows, news |-> Premium!News(j)]
      /\ IsTask(n)
  BY <1>1, AnsweredTask
<1> HIDE DEF n
<1>3. /\ jobs' = (jobs \ {j}) \cup {n} /\ j.at = "select"
      /\ db' = db /\ copy' = copy /\ link' = link
  BY DEF Premium!Select, n
<1>4. TariffTypes'
  <2>1. (\A i \in jobs : IsTask(i))'
    BY <1>2, <1>3 DEF TariffTypes, IsTask
  <2>2. IsFiniteSet(jobs')
    BY <1>3, FS_AddElement, FS_RemoveElement DEF TariffTypes
  <2>3. (\A g \in Servers : IsEnd(db[g]["end"]))'
    BY <1>3 DEF TariffTypes, IsEnd
  <2> QED  BY <1>3, <2>1, <2>2, <2>3 DEF TariffTypes
<1>5. Bot' = (Bot \ {j}) \cup {n}
  BY <1>1, <1>2, <1>3 DEF Bot, Premium!JobsOf
<1>6. n.kind = j.kind /\ n.rows = j.rows /\ n.at = "apply" /\ n.news = Premium!News(j)
  BY <1>2
<1>7. ASSUME Hearing  PROVE Hearing'
  <2>1. \A i \in Bot' : i.kind # "resync"
    BY <1>5, <1>6, <1>7 DEF Hearing
  <2>2. \A g \in n.rows : n.news[g] = db[g]
    BY <1>6, <1>7 DEF Hearing, Premium!News
  <2>3. \A i \in Bot' : i.at = "apply" => \A g \in i.rows : i.news[g] = db'[g]
    BY <1>3, <1>5, <1>7, <2>2 DEF Hearing
  <2>4. \A g \in Servers : (\A i \in Bot' : g \notin i.rows) => copy'["bot"][g] = db'[g]
    BY <1>3, <1>5, <1>6, <1>7 DEF Hearing, Unasked
  <2> QED  BY <2>1, <2>3, <2>4 DEF Hearing, Unasked
<1>8. ASSUME Reloading  PROVE Reloading'
  <2>1. Bot = {j} /\ j.kind = "resync" /\ j.rows = Servers
    BY <1>8 DEF Reloading
  <2>2. \A g \in Servers : n.news[g] = Present(g)
    BY <1>6, <2>1 DEF Premium!News, Premium!Restrict, Present
  <2>3. \A g : Present(g)' = Present(g)
    BY <1>3 DEF Present, Premium!Present
  <2>4. \A g \in Servers : copy'["bot"][g] = Premium!NoRow
    BY <1>3, <1>8 DEF Reloading
  <2>5. Bot' = {n} /\ n.kind = "resync" /\ n.rows = Servers
    BY <1>5, <1>6, <2>1
  <2> QED  BY <2>2, <2>3, <2>4, <2>5 DEF Reloading, Premium!NoRow
<1>9. (\A i \in Bot : i.kind # "resync") => \A i \in Bot' : i.kind # "resync"
  BY <1>5, <1>6
<1> QED  BY <1>3, <1>4, <1>7, <1>8, <1>9 DEF BotFollows

LEMMA ApplyTask ==
  ASSUME NEW j \in Bot, TariffTypes, BotFollows, Premium!Apply(j), today' = today
  PROVE  /\ TariffTypes' /\ BotFollows'
         /\ link["bot"] = "up" => \A g \in Servers : Unasked(g) => copy'["bot"][g] = copy["bot"][g]
<1>1. IsTask(j) /\ j \in jobs /\ j.proc = "bot"
  BY DEF TariffTypes, Bot, Premium!JobsOf
<1>2. /\ j.at = "apply" /\ jobs' = jobs \ {j} /\ db' = db
      /\ link' = IF j.kind = "resync" THEN [link EXCEPT !["bot"] = "up"] ELSE link
      /\ copy' = [copy EXCEPT !["bot"] = [g \in Servers |->
                    IF g \in j.rows THEN Premium!Merge(j.news[g], @[g]) ELSE @[g]]]
  BY <1>1 DEF Premium!Apply
<1>3. copy'["bot"] = [g \in Servers |->
                    IF g \in j.rows THEN Premium!Merge(j.news[g], copy["bot"][g])
                                    ELSE copy["bot"][g]]
  BY <1>2 DEF TariffTypes
<1>4. TariffTypes'
  <2>1. (\A i \in jobs : IsTask(i))'
    BY <1>2 DEF TariffTypes, IsTask
  <2>2. IsFiniteSet(jobs')
    BY <1>2, FS_RemoveElement DEF TariffTypes
  <2>3. (\A g \in Servers : IsEnd(db[g]["end"]))'
    BY <1>2 DEF TariffTypes, IsEnd
  <2>4. copy' = [p \in {"bot"} |-> [g \in Servers |-> copy'[p][g]]]
    BY <1>2, <1>3 DEF TariffTypes
  <2>5. link' = [p \in {"bot"} |-> link'[p]] /\ link'["bot"] \in {"up", "sync", "down"}
    BY <1>2 DEF TariffTypes
  <2> QED  BY <1>2, <2>1, <2>2, <2>3, <2>4, <2>5 DEF TariffTypes
<1>5. Bot' = Bot \ {j}
  BY <1>2 DEF Bot, Premium!JobsOf
<1>6. ASSUME Hearing, link["bot"] = "up"
      PROVE  BotFollows' /\ \A g \in Servers : Unasked(g) => copy'["bot"][g] = copy["bot"][g]
  <2>1. link'["bot"] = "up"
    BY <1>2, <1>6 DEF Hearing
  <2>2. \A i \in Bot' : i.kind # "resync"
    BY <1>5, <1>6 DEF Hearing
  <2>3. \A i \in Bot' : i.at = "apply" => \A g \in i.rows : i.news[g] = db'[g]
    BY <1>2, <1>5, <1>6 DEF Hearing
  <2>4. ASSUME NEW g \in Servers, g \notin j.rows  PROVE copy'["bot"][g] = copy["bot"][g]
    BY <1>3, <2>4
  <2>5. ASSUME NEW g \in Servers, g \in j.rows  PROVE copy'["bot"][g] = db'[g]
    <3>1. j.news[g] = db[g]
      BY <1>2, <1>6, <2>5 DEF Hearing
    <3>2. copy'["bot"][g] = [c \in {"end"} |-> db[g][c]]
      BY <1>3, <2>5, <3>1 DEF Premium!Merge, TariffTypes
    <3> QED  BY <1>2, <3>2 DEF TariffTypes
  <2>6. ASSUME NEW g \in Servers, \A i \in Bot' : g \notin i.rows
        PROVE  copy'["bot"][g] = db'[g]
    <3>1. CASE g \in j.rows
      BY <2>5, <3>1
    <3>2. CASE g \notin j.rows
      <4>1. Unasked(g)
        BY <1>5, <2>6, <3>2 DEF Unasked
      <4> QED  BY <1>2, <1>6, <2>4, <3>2, <4>1 DEF Hearing
    <3> QED  BY <3>1, <3>2
  <2>7. Hearing'
    BY <2>2, <2>3, <2>6 DEF Hearing, Unasked
  <2>8. \A g \in Servers : Unasked(g) => copy'["bot"][g] = copy["bot"][g]
    BY <2>4 DEF Unasked
  <2> QED  BY <2>1, <2>7, <2>8 DEF BotFollows
<1>7. ASSUME Reloading, link["bot"] = "sync"  PROVE BotFollows'
  <2>1. /\ Bot = {j} /\ j.kind = "resync" /\ j.rows = Servers
        /\ \A g \in Servers : j.news[g] = Present(g) /\ copy["bot"][g] = Premium!NoRow
    BY <1>2, <1>7 DEF Reloading
  <2>2. Bot' = {} /\ link'["bot"] = "up"
    BY <1>2, <1>5, <2>1 DEF TariffTypes
  <2>3. ASSUME NEW g \in Servers  PROVE copy'["bot"][g] = db'[g]
    <3>1. copy'["bot"][g] = Premium!Merge(Present(g), Premium!NoRow)
      BY <1>3, <2>1, <2>3
    <3>2. copy'["bot"][g] = [c \in {"end"} |-> db[g][c]]
      BY <3>1 DEF Premium!Merge, Premium!NoRow, Present, Premium!Present
    <3> QED  BY <1>2, <3>2 DEF TariffTypes
  <2>4. Hearing'
    BY <2>2, <2>3 DEF Hearing
  <2> QED  BY <2>2, <2>4 DEF BotFollows
<1>8. ASSUME link["bot"] = "down"  PROVE BotFollows'
  <2>1. \A i \in Bot : i.kind # "resync"
    BY <1>8 DEF BotFollows
  <2>2. link'["bot"] = "down" /\ \A i \in Bot' : i.kind # "resync"
    BY <1>2, <1>5, <1>8, <2>1
  <2> QED  BY <2>2 DEF BotFollows
<1> QED  BY <1>4, <1>6, <1>7, <1>8 DEF BotFollows, TariffTypes

LEMMA ReconnectBot ==
  ASSUME TariffTypes, BotFollows, ~Premium!Races("bot"), Premium!Connect("bot"), today' = today,
         Servers # {}
  PROVE  TariffTypes' /\ BotFollows'
<1> DEFINE n == Premium!Reader("bot", Servers, "resync")
<1>1. n = [proc |-> "bot", slot |-> Premium!FreeSlot("bot"), kind |-> "resync", at |-> "select",
           rows |-> Servers, news |-> [g \in Servers |-> Premium!NoRow]]
  BY TaskIs
<1> HIDE DEF n
<1>2. /\ link["bot"] = "down" /\ Premium!Cardinality(Bot) < MaxJobs
      /\ link' = [link EXCEPT !["bot"] = "sync"] /\ jobs' = jobs \cup {n} /\ db' = db
      /\ copy' = [copy EXCEPT !["bot"] = [g \in Servers |-> Premium!NoRow]]
  BY DEF Premium!Connect, Bot, n
<1>3. copy'["bot"] = [g \in Servers |-> Premium!NoRow] /\ link'["bot"] = "sync"
  BY <1>2 DEF TariffTypes
<1>4. TariffTypes'
  <2>0. IsTask(n)
    BY <1>1 DEF IsTask
  <2>1. (\A i \in jobs : IsTask(i))'
    BY <1>2, <2>0 DEF TariffTypes, IsTask
  <2>2. IsFiniteSet(jobs')
    BY <1>2, FS_AddElement DEF TariffTypes
  <2>3. (\A g \in Servers : IsEnd(db[g]["end"]))'
    BY <1>2 DEF TariffTypes, IsEnd
  <2>4. copy' = [p \in {"bot"} |-> [g \in Servers |-> copy'[p][g]]]
    BY <1>2, <1>3 DEF TariffTypes
  <2>5. link' = [p \in {"bot"} |-> link'[p]]
    BY <1>2 DEF TariffTypes
  <2> QED  BY <1>2, <1>3, <2>1, <2>2, <2>3, <2>4, <2>5 DEF TariffTypes
<1>5. Bot = {}
  <2>1. IsFiniteSet(Bot)
    BY FS_Subset DEF TariffTypes, Bot, Premium!JobsOf
  <2>2. n.slot \notin {j.slot : j \in Bot}
    BY <1>1, <1>2, <2>1, SlotIsFree
  <2>3. n \in jobs' /\ n.proc = "bot" /\ n.rows = Servers
    BY <1>1, <1>2
  <2>4. \A g \in Servers : Unasked(g)
    BY <2>2, <2>3, NoRace
  <2>5. \A j \in Bot : j.rows \subseteq Servers /\ j.rows # {}
    BY DEF TariffTypes, IsTask, Bot, Premium!JobsOf
  <2> QED  BY <2>4, <2>5 DEF Unasked
<1>6. Bot' = {n}
  BY <1>1, <1>2, <1>5 DEF Bot, Premium!JobsOf
<1>7. Reloading'
  BY <1>1, <1>3, <1>6 DEF Reloading, Premium!NoRow
<1> QED  BY <1>3, <1>4, <1>7 DEF BotFollows

LEMMA DisconnectBot ==
  ASSUME TariffTypes, BotFollows, Premium!Disconnect("bot"), today' = today
  PROVE  TariffTypes' /\ BotFollows'
<1>1. /\ link["bot"] = "up" /\ link' = [link EXCEPT !["bot"] = "down"] /\ db' = db
      /\ copy' = copy /\ jobs' \subseteq jobs
  BY DEF Premium!Disconnect
<1>2. TariffTypes'
  <2>1. (\A i \in jobs : IsTask(i))'
    BY <1>1 DEF TariffTypes, IsTask
  <2>2. IsFiniteSet(jobs')
    BY <1>1, FS_Subset DEF TariffTypes
  <2>3. (\A g \in Servers : IsEnd(db[g]["end"]))'
    BY <1>1 DEF TariffTypes, IsEnd
  <2> QED  BY <1>1, <2>1, <2>2, <2>3 DEF TariffTypes
<1>3. \A j \in Bot' : j.kind # "resync"
  BY <1>1 DEF BotFollows, Hearing, Bot, Premium!JobsOf
<1>4. link'["bot"] = "down"
  BY <1>1 DEF TariffTypes
<1> QED  BY <1>2, <1>3, <1>4 DEF BotFollows

LEMMA RebootBot ==
  ASSUME TariffTypes, Premium!Reboot("bot"), today' = today
  PROVE  TariffTypes' /\ BotFollows'
<1>1. /\ link' = [link EXCEPT !["bot"] = "down"] /\ db' = db /\ jobs' = jobs \ Bot
      /\ copy' = [copy EXCEPT !["bot"] = [g \in Servers |-> Premium!NoRow]]
  BY DEF Premium!Reboot, Bot
<1>2. copy'["bot"] = [g \in Servers |-> Premium!NoRow] /\ link'["bot"] = "down"
  BY <1>1 DEF TariffTypes
<1>3. TariffTypes'
  <2>1. (\A i \in jobs : IsTask(i))'
    BY <1>1 DEF TariffTypes, IsTask
  <2>2. IsFiniteSet(jobs')
    BY <1>1, FS_Subset DEF TariffTypes
  <2>3. (\A g \in Servers : IsEnd(db[g]["end"]))'
    BY <1>1 DEF TariffTypes, IsEnd
  <2>4. copy' = [p \in {"bot"} |-> [g \in Servers |-> copy'[p][g]]]
    BY <1>1, <1>2 DEF TariffTypes
  <2>5. link' = [p \in {"bot"} |-> link'[p]]
    BY <1>1 DEF TariffTypes
  <2> QED  BY <1>1, <1>2, <2>1, <2>2, <2>3, <2>4, <2>5 DEF TariffTypes
<1>4. Bot' = {}
  BY <1>1 DEF Bot, Premium!JobsOf
<1> QED  BY <1>2, <1>3, <1>4 DEF BotFollows

(* Everything that the bot's copy goes through.                            *)
LEMMA CachingBot ==
  ASSUME TariffTypes, BotFollows, ~Premium!Races("bot"), Premium!Caching("bot"), Servers # {}
  PROVE  /\ TariffTypes' /\ BotFollows'
         /\ link["bot"] = "up" => \A g \in Servers : Unasked(g) => copy'["bot"][g] = copy["bot"][g]
<1>1. today' = today
  BY DEF Premium!Caching
<1>2. CASE \E j \in Bot : Premium!Select(j)
  BY <1>1, <1>2, SelectTask DEF Premium!Select
<1>3. CASE \E j \in Bot : Premium!Apply(j)
  BY <1>1, <1>3, ApplyTask
<1>4. CASE Premium!Disconnect("bot")
  BY <1>1, <1>4, DisconnectBot DEF Premium!Disconnect
<1>5. CASE Premium!Connect("bot")
  BY <1>1, <1>5, ReconnectBot DEF Premium!Connect
<1>6. \A j \in Bot : ~Premium!ReadFails(j)
  BY DEF Premium!Races, Bot
<1> QED  BY <1>2, <1>3, <1>4, <1>5, <1>6 DEF Premium!Caching, Bot

(* Steps that do not touch the tariffs or the copy of them.                *)
LEMMA TariffStill ==
  ASSUME TariffTypes, BotFollows, UNCHANGED <<db, copy, link, jobs>>, today' \in Nat
  PROVE  TariffTypes' /\ BotFollows'
<1>1. Bot' = Bot
  BY DEF Bot, Premium!JobsOf
<1>2. (\A j \in jobs : IsTask(j))' /\ (\A g \in Servers : IsEnd(db[g]["end"]))'
  BY DEF TariffTypes, IsTask, IsEnd
<1>3. TariffTypes'
  BY <1>2 DEF TariffTypes
<1> QED  BY <1>1, <1>3, FollowsStill

(* What an activation has looked at is as it was when it looked.           *)
LEMMA SettledIsFresh ==
  ASSUME BotFollows, NEW g \in Servers, Premium!Settled("bot", g)
  PROVE  link["bot"] = "up" /\ Unasked(g) /\ copy["bot"][g] = db[g]
<1>1. link["bot"] = "up" /\ Unasked(g)
  BY DEF Premium!Settled, Unasked, Bot
<1> QED  BY <1>1 DEF BotFollows, Hearing

LEMMA BusySettled ==
  ASSUME KeyTypes, BotFollows, Premium!Alone, NEW s \in Sessions, pc[s] # "idle"
  PROVE  LET g == Premium!Server(s) IN
         g \in Servers /\ link["bot"] = "up" /\ Unasked(g) /\ copy["bot"][g] = db[g]
<1>1. Premium!Server(s) \in Servers
  BY DEF KeyTypes, Premium!Server
<1>2. Premium!Settled("bot", Premium!Server(s))
  BY DEF Premium!Alone, Premium!Busy
<1> QED  BY <1>1, <1>2, SettledIsFresh

LEMMA AddedStill ==
  ASSUME KeyTypes, TariffTypes, BotFollows, Premium!Alone, Added,
         today' \in Nat, today <= today', until' \in [Sessions -> Nat],
         \A s \in Sessions : Looked(s)' =>
             Looked(s) /\ until'[s] = until[s] /\ asked'[s] = asked[s],
         link["bot"] = "up" =>
             \A g \in Servers : Unasked(g) => copy'["bot"][g] = copy["bot"][g]
  PROVE  Added'
<1> SUFFICES ASSUME NEW s \in Sessions, Looked(s)'  PROVE TermAdded(s)'
  BY DEF Added
<1>1. Looked(s) /\ until'[s] = until[s] /\ asked'[s] = asked[s]
  OBVIOUS
<1> DEFINE g == Premium!Server(s)
<1>2. g \in Servers /\ link["bot"] = "up" /\ Unasked(g) /\ copy["bot"][g] = db[g]
  BY <1>1, BusySettled DEF Looked
<1>3. copy'["bot"][g] = copy["bot"][g] /\ Premium!Server(s)' = g
  BY <1>1, <1>2 DEF Premium!Server
<1>4. IsEnd(Shown(s))
  BY <1>2 DEF TariffTypes, Shown
<1>5. Shown(s)' = Shown(s)
  BY <1>3 DEF Shown
<1>6. Premium!InForce(Shown(s))' /\ Shown(s) # Forever => Premium!InForce(Shown(s))
  <2>1. today \in Nat
    BY DEF TariffTypes
  <2> QED  BY <1>4, <1>5, <2>1 DEF Premium!InForce, IsEnd
<1> QED  BY <1>1, <1>5, <1>6 DEF Added, TermAdded, Premium!Term

(* Nothing hears of a change if the bot does not listen.                   *)
LEMMA HeardIs ==
  ASSUME NEW g
  PROVE  Premium!Heard(g) = {} => link["bot"] = "down"
  BY DEF Premium!Heard

LEMMA PutStep ==
  ASSUME NEW g \in Servers, NEW end, TariffTypes, BotFollows, IsEnd(end), ~Premium!Races("bot"),
         Premium!Put(g, end), today' = today
  PROVE  TariffTypes' /\ BotFollows' /\ copy' = copy
<1>1. Premium!Commit(g, [c \in {"end"} |-> end], Premium!Heard(g), {})
  BY EndIs DEF Premium!Put, Premium!OwnPanel
<1>2. copy' = copy
  BY <1>1 DEF Premium!Commit
<1> DEFINE none == {}
           heard == Premium!Heard(g)
<1>3. none \subseteq {Premium!OwnReader("bot", g)}
  OBVIOUS
<1>4. heard = {} => link["bot"] = "down"
  BY HeardIs
<1>5. heard = {} \/ heard = Premium!Heard(g)
  OBVIOUS
<1>6. Premium!Commit(g, [c \in {"end"} |-> end], heard, none)
  BY <1>1
<1> HIDE DEF heard, none
<1>7. TariffTypes'
  BY <1>3, <1>5, <1>6, PutTypes
<1>8. BotFollows'
  BY <1>3, <1>4, <1>5, <1>6, PutFollows
<1> QED  BY <1>2, <1>7, <1>8

LEMMA TakeAwayStep ==
  ASSUME NEW g \in Servers, TariffTypes, BotFollows, ~Premium!Races("bot"),
         Premium!TakeAway(g), today' = today
  PROVE  TariffTypes' /\ BotFollows' /\ copy' = copy
<1> DEFINE none == {}
           heard == IF Premium!HasRow(g) THEN Premium!Heard(g) ELSE none
<1>1. Premium!Commit(g, [c \in {"end"} |-> Absent], heard, none)
  BY EndIs DEF Premium!TakeAway, Premium!OwnPanel
<1>2. /\ IsEnd(Absent) /\ (heard = {} \/ heard = Premium!Heard(g))
      /\ none \subseteq {Premium!OwnReader("bot", g)} /\ none = {}
  BY DEF IsEnd
<1>3. copy' = copy
  BY <1>1 DEF Premium!Commit
<1> HIDE DEF heard, none
<1>4. TariffTypes' /\ db'[g]["end"] = Absent /\ \A f \in Servers \ {g} : db'[f] = db[f]
  BY <1>1, <1>2, PutTypes
<1>5. heard = {} /\ link["bot"] # "down" => db' = db
  <2>1. SUFFICES ASSUME heard = {}, link["bot"] # "down"  PROVE db' = db
    OBVIOUS
  <2>2. db[g]["end"] = Absent
    BY <2>1, HeardIs, EndIs DEF Premium!HasRow, heard, none
  <2>3. /\ db = [f \in Servers |-> [c \in {"end"} |-> db[f][c]]]
        /\ db' = [f \in Servers |-> [c \in {"end"} |-> db'[f][c]]]
    BY <1>4 DEF TariffTypes
  <2>4. \A f \in Servers : db'[f]["end"] = db[f]["end"]
    BY <1>4, <2>2
  <2>5. \A f \in Servers : [c \in {"end"} |-> db'[f][c]] = [c \in {"end"} |-> db[f][c]]
    BY <2>4
  <2> QED  BY <2>3, <2>5
<1>6. BotFollows'
  BY <1>1, <1>2, <1>5, PutFollows
<1> QED  BY <1>3, <1>4, <1>6

LEMMA ActivatedStep ==
  ASSUME NEW s \in Sessions, KeyTypes, TariffTypes, BotFollows, Added, ~Premium!Races("bot"),
         Premium!Activated(s)
  PROVE  /\ TariffTypes' /\ BotFollows' /\ copy' = copy
         /\ db'[Premium!Server(s)]["end"] = until[s]
<1> DEFINE g == Premium!Server(s)
<1>1. /\ Premium!Commit(g, [c \in {"end"} |-> until[s]], Premium!Heard(g),
                        {Premium!OwnReader("bot", g)})
      /\ pc[s] = "save" /\ today' = today
  BY EndIs DEF Premium!Activated
<1>2. g \in Servers
  BY <1>1 DEF KeyTypes, Premium!Server
<1>3. IsEnd(until[s])
  BY <1>1 DEF Added, TermAdded, Looked, IsEnd
<1>4. copy' = copy
  BY <1>1 DEF Premium!Commit
<1> HIDE DEF g
<1>5. Premium!Heard(g) = {} /\ link["bot"] # "down" => FALSE
  BY HeardIs
<1>6. TariffTypes' /\ db'[g]["end"] = until[s]
  BY <1>1, <1>2, <1>3, PutTypes
<1>7. BotFollows'
  BY <1>1, <1>2, <1>3, <1>5, PutFollows
<1> QED  BY <1>4, <1>6, <1>7 DEF g

(* An activation computes the end from what it has been shown.             *)
LEMMA ReadSeatsStep ==
  ASSUME NEW s \in Sessions, KeyTypes, TariffTypes, BotFollows, Premium!Alone, Added,
         Premium!ReadSeats(s)
  PROVE  TariffTypes' /\ BotFollows' /\ Added'
<1>1. /\ UNCHANGED <<db, copy, link, jobs>> /\ today' = today /\ today \in Nat
      /\ pc[s] = "seats"
  BY DEF Premium!ReadSeats, Premium!cacheVars, TariffTypes
<1>2. TariffTypes' /\ BotFollows'
  BY <1>1, TariffStill
<1>3. CASE Premium!IsFull(s)
  <2>1. /\ until' = [until EXCEPT ![s] = 0] /\ pc' = [pc EXCEPT ![s] = "idle"]
        /\ asked' = [asked EXCEPT ![s] = <<>>]
    BY <1>3 DEF Premium!ReadSeats, Premium!Leave
  <2>2. \A t \in Sessions : Looked(t)' =>
            Looked(t) /\ until'[t] = until[t] /\ asked'[t] = asked[t]
    BY <2>1 DEF Looked, KeyTypes
  <2>3. until' \in [Sessions -> Nat]
    BY <2>1 DEF Added
  <2> QED  BY <1>1, <1>2, <2>2, <2>3, AddedStill
<1>4. CASE ~Premium!IsFull(s)
  <2> DEFINE g == Premium!Server(s)
             base == Premium!Base("bot", g)
  <2>1. /\ pc' = [pc EXCEPT ![s] = "row"] /\ asked' = asked
        /\ until' = [until EXCEPT ![s] = base + Premium!Term]
    BY <1>4 DEF Premium!ReadSeats
  <2>2. g \in Servers /\ copy["bot"][g] = db[g]
    BY <1>1, BusySettled
  <2>3. IsEnd(Shown(s)) /\ Shown(s) = copy["bot"][g]["end"]
    BY <2>2 DEF Shown, TariffTypes
  <2>4. base = IF Premium!InForce(Shown(s)) /\ Shown(s) # Forever THEN Shown(s) ELSE today
    BY <2>3, EndIs DEF Premium!Base
  <2>5. base \in Nat
    BY <1>1, <2>3, <2>4 DEF Premium!InForce, IsEnd
  <2> HIDE DEF base
  <2>6. until' \in [Sessions -> Nat] /\ until'[s] = base + Premium!Term
    BY <2>1, <2>5 DEF Added, Premium!Term
  <2>7. \A t \in Sessions : Shown(t)' = Shown(t)
    BY <1>1, <2>1 DEF Shown, Premium!Server
  <2>8. TermAdded(s)'
    BY <1>1, <2>4, <2>6, <2>7 DEF TermAdded, Premium!InForce, Premium!Term
  <2>9. ASSUME NEW t \in Sessions \ {s}, Looked(t)'  PROVE TermAdded(t)'
    <3>1. Looked(t) /\ until'[t] = until[t]
      BY <2>1, <2>9 DEF Looked, KeyTypes, Added
    <3>2. TermAdded(t)
      BY <3>1 DEF Added
    <3> QED  BY <1>1, <2>7, <3>1, <3>2 DEF TermAdded, Premium!InForce, Premium!Term
  <2> QED  BY <1>2, <2>6, <2>8, <2>9 DEF Added
<1> QED  BY <1>3, <1>4

(* The other steps of an activation.                                       *)
LEMMA OtherSteps ==
  ASSUME NEW s \in Sessions, KeyTypes, TariffTypes, BotFollows, Premium!Alone, Added,
         \/ \E k \in Keys, g \in Servers : Premium!Activate(s, k, g)
         \/ Premium!LockBatch(s) \/ Premium!ReadRow(s) \/ Premium!ActivationFails(s)
  PROVE  TariffTypes' /\ BotFollows' /\ Added'
<1>1. UNCHANGED <<db, copy, link, jobs, today>> /\ today \in Nat
  BY DEF Premium!Activate, Premium!LockBatch, Premium!ReadRow, Premium!ActivationFails,
         Premium!cacheVars, TariffTypes
<1>2. TariffTypes' /\ BotFollows'
  BY <1>1, TariffStill
<1>3. /\ until' = until \/ until' = [until EXCEPT ![s] = 0]
      /\ \A t \in Sessions : Looked(t)' =>
             Looked(t) /\ until'[t] = until[t] /\ asked'[t] = asked[t]
  <2>1. CASE \E k \in Keys, g \in Servers : Premium!Activate(s, k, g)
    BY <2>1 DEF Premium!Activate, Looked, KeyTypes
  <2>2. CASE Premium!LockBatch(s)
    <3>1. CASE Premium!Batch(s) \in revoked
      <4>1. /\ pc' = [pc EXCEPT ![s] = "idle"] /\ until' = [until EXCEPT ![s] = 0]
            /\ asked' = [asked EXCEPT ![s] = <<>>]
        BY <2>2, <3>1 DEF Premium!LockBatch, Premium!Leave
      <4> QED  BY <4>1 DEF Looked, KeyTypes, Added
    <3>2. CASE Premium!Batch(s) \notin revoked
      <4>1. pc' = [pc EXCEPT ![s] = "seats"] /\ UNCHANGED <<asked, until>>
        BY <2>2, <3>2 DEF Premium!LockBatch
      <4> QED  BY <4>1 DEF Looked, KeyTypes
    <3> QED  BY <3>1, <3>2
  <2>3. CASE Premium!ReadRow(s)
    BY <2>3 DEF Premium!ReadRow, Looked, KeyTypes
  <2>4. CASE Premium!ActivationFails(s)
    <3>1. /\ pc' = [pc EXCEPT ![s] = "idle"] /\ until' = [until EXCEPT ![s] = 0]
          /\ asked' = [asked EXCEPT ![s] = <<>>]
      BY <2>4 DEF Premium!ActivationFails, Premium!Leave
    <3> QED  BY <3>1 DEF Looked, KeyTypes, Added
  <2> QED  BY <2>1, <2>2, <2>3, <2>4
<1>4. until' \in [Sessions -> Nat]
  BY <1>3 DEF Added
<1> QED  BY <1>1, <1>2, <1>3, <1>4, AddedStill

(* Which steps concern the tariffs and the activations at all.             *)
LEMMA TermSteps ==
  ASSUME [Premium!Next]_(Premium!vars)
  PROVE  \/ \E s \in Sessions : \/ \E k \in Keys, g \in Servers : Premium!Activate(s, k, g)
                                \/ Premium!Redeem(s)
         \/ \E g \in Servers : (\E end \in Grants : Premium!Grant(g, end)) \/ Premium!Trial(g)
                               \/ Premium!Revoke(g) \/ Premium!StripOne(g)
         \/ Premium!BotRestarts \/ Premium!Caching("bot")
         \/ /\ UNCHANGED <<db, copy, link, jobs, pc, asked, until>>
            /\ today' = today \/ today' = today + 1
  BY DEF Premium!Next, Premium!Operator, Premium!vars, Premium!activations, Premium!cacheVars,
         Premium!TurnedDown, Premium!RevokeBatch, Premium!Reactivate, Premium!ReleaseSeat,
         Premium!RequestLost, Premium!Midnight

LEMMA TermsFollow ==
  ASSUME KeyTypes, TariffTypes, BotFollows, Premium!Alone, Added, Servers # {},
         ~Premium!Races("bot"), [Premium!Next]_(Premium!vars)
  PROVE  TariffTypes' /\ BotFollows' /\ Added'
<1>t. today \in Nat
  BY DEF TariffTypes
<1>c. ASSUME UNCHANGED <<pc, asked, until>>, today' = today, copy' = copy  PROVE Added'
  <2>1. \A s \in Sessions : Looked(s)' =>
            Looked(s) /\ until'[s] = until[s] /\ asked'[s] = asked[s]
    BY <1>c DEF Looked
  <2>2. until' \in [Sessions -> Nat]
    BY <1>c DEF Added
  <2>3. today' \in Nat /\ today <= today'
    BY <1>c, <1>t
  <2> QED  BY <1>c, <2>1, <2>2, <2>3, AddedStill
<1>1. CASE \E s \in Sessions : \/ \E k \in Keys, g \in Servers : Premium!Activate(s, k, g)
                               \/ Premium!Redeem(s)
  <2>1. PICK s \in Sessions : \/ \E k \in Keys, g \in Servers : Premium!Activate(s, k, g)
                              \/ Premium!Redeem(s)
    BY <1>1
  <2>2. CASE Premium!Activated(s)
    <3>1. TariffTypes' /\ BotFollows' /\ copy' = copy
      BY <2>2, ActivatedStep
    <3>2. /\ pc' = [pc EXCEPT ![s] = "idle"] /\ until' = [until EXCEPT ![s] = 0]
          /\ asked' = [asked EXCEPT ![s] = <<>>] /\ today' = today
      BY <2>2 DEF Premium!Activated, Premium!Leave
    <3>3. \A t \in Sessions : Looked(t)' =>
              Looked(t) /\ until'[t] = until[t] /\ asked'[t] = asked[t]
      BY <3>2 DEF Looked, KeyTypes
    <3>4. until' \in [Sessions -> Nat] /\ today' \in Nat /\ today <= today'
      BY <1>t, <3>2 DEF Added
    <3> QED  BY <3>1, <3>3, <3>4, AddedStill
  <2>3. CASE Premium!ReadSeats(s)
    BY <2>3, ReadSeatsStep
  <2> QED  BY <2>1, <2>2, <2>3, OtherSteps DEF Premium!Redeem
<1>2. CASE \E g \in Servers : (\E end \in Grants : Premium!Grant(g, end)) \/ Premium!Trial(g)
                              \/ Premium!Revoke(g) \/ Premium!StripOne(g)
  <2>1. PICK g \in Servers : (\E end \in Grants : Premium!Grant(g, end)) \/ Premium!Trial(g)
                             \/ Premium!Revoke(g) \/ Premium!StripOne(g)
    BY <1>2
  <2>2. UNCHANGED <<pc, asked, until>> /\ today' = today
    BY <2>1 DEF Premium!Grant, Premium!Trial, Premium!Revoke, Premium!StripOne,
                Premium!activations
  <2>3. (\E end : IsEnd(end) /\ Premium!Put(g, end)) \/ Premium!TakeAway(g)
    BY <1>t, <2>1, LedgersAssumption
    DEF Premium!Grant, Premium!Trial, Premium!Revoke, Premium!StripOne, Premium!TrialTerm, IsEnd
  <2>4. TariffTypes' /\ BotFollows' /\ copy' = copy
    BY <2>2, <2>3, PutStep, TakeAwayStep
  <2> QED  BY <1>c, <2>2, <2>4
<1>3. CASE Premium!BotRestarts
  <2>1. TariffTypes' /\ BotFollows'
    BY <1>3, RebootBot DEF Premium!BotRestarts
  <2>2. pc' = [s \in Sessions |-> "idle"] /\ until' = [s \in Sessions |-> 0]
    BY <1>3 DEF Premium!BotRestarts
  <2>3. Added'
    BY <2>2 DEF Added, Looked
  <2> QED  BY <2>1, <2>3
<1>4. CASE Premium!Caching("bot")
  <2>1. /\ TariffTypes' /\ BotFollows'
        /\ link["bot"] = "up" =>
               \A g \in Servers : Unasked(g) => copy'["bot"][g] = copy["bot"][g]
    BY <1>4, CachingBot
  <2>2. UNCHANGED <<pc, asked, until>> /\ today' = today
    BY <1>4 DEF Premium!Caching, Premium!activations
  <2>3. \A s \in Sessions : Looked(s)' =>
            Looked(s) /\ until'[s] = until[s] /\ asked'[s] = asked[s]
    BY <2>2 DEF Looked
  <2>4. until' \in [Sessions -> Nat] /\ today' \in Nat /\ today <= today'
    BY <1>t, <2>2 DEF Added
  <2> QED  BY <2>1, <2>3, <2>4, AddedStill
<1>5. CASE /\ UNCHANGED <<db, copy, link, jobs, pc, asked, until>>
           /\ today' = today \/ today' = today + 1
  <2>1. \A s \in Sessions : Looked(s)' =>
            Looked(s) /\ until'[s] = until[s] /\ asked'[s] = asked[s]
    BY <1>5 DEF Looked
  <2>2. until' \in [Sessions -> Nat] /\ today' \in Nat /\ today <= today'
    BY <1>5, <1>t DEF Added
  <2>3. TariffTypes' /\ BotFollows'
    BY <1>5, <2>2, TariffStill
  <2>4. copy' = copy
    BY <1>5
  <2> QED  BY <2>1, <2>2, <2>3, <2>4, AddedStill
<1> QED  BY <1>1, <1>2, <1>3, <1>4, <1>5, TermSteps

TermsInv == KeyTypes /\ Locked /\ SeatFree /\ (Servers # {} => TermInv)

LEMMA TermsInit == Premium!MCInit => TermsInv
<1> SUFFICES ASSUME Premium!MCInit  PROVE TermsInv
  OBVIOUS
<1>1. SeatsInv /\ Premium!Init
  BY SeatsInit DEF Premium!MCInit
<1>2. /\ db = [g \in Servers |-> [c \in {"end"} |-> Absent]]
      /\ copy = [p \in {"bot"} |-> db] /\ link = [p \in {"bot"} |-> "up"]
      /\ jobs = {} /\ today = 0 /\ pc = [s \in Sessions |-> "idle"]
      /\ until = [s \in Sessions |-> 0]
  BY <1>1 DEF Premium!Init, Premium!CacheInit, Premium!NoRow
<1>3. Bot = {}
  BY <1>2 DEF Bot, Premium!JobsOf
<1>4. TariffTypes
  <2>1. \A g \in Servers : IsEnd(db[g]["end"])
    BY <1>2 DEF IsEnd
  <2>2. IsFiniteSet(jobs)
    BY <1>2, FS_EmptySet
  <2>3. copy = [p \in {"bot"} |-> [g \in Servers |-> copy[p][g]]]
    BY <1>2
  <2> QED  BY <1>2, <2>1, <2>2, <2>3 DEF TariffTypes
<1>5. BotFollows
  BY <1>2, <1>3 DEF BotFollows, Hearing
<1>6. Premium!Alone /\ Added
  <2>1. Premium!Busy = {}
    BY <1>2 DEF Premium!Busy
  <2>2. Premium!Cardinality({}) = 0
    BY SameSize, FS_EmptySet
  <2>3. Premium!Alone
    BY <2>1, <2>2 DEF Premium!Alone
  <2>4. Added
    BY <1>2 DEF Added, Looked
  <2> QED  BY <2>3, <2>4
<1> QED  BY <1>1, <1>4, <1>5, <1>6 DEF TermsInv, TermInv, SeatsInv

LEMMA TermsStep == TermsInv /\ [Premium!MCNext]_(Premium!mcVars) => TermsInv'
<1> SUFFICES ASSUME TermsInv, [Premium!MCNext]_(Premium!mcVars)  PROVE TermsInv'
  OBVIOUS
<1>1. [Premium!Next]_(Premium!vars)
  BY DEF Premium!MCNext, Premium!mcVars
<1>2. SeatsInv'
  BY <1>1, SeatsStep DEF TermsInv, SeatsInv
<1>3. ASSUME Servers # {}, ~crossed'  PROVE TariffTypes' /\ BotFollows' /\ Premium!Alone' /\ Added'
  <2>1. CASE Premium!MCNext
    <3>1. ~crossed /\ Premium!Alone' /\ ~Premium!Races("bot")
      BY <1>3, <2>1 DEF Premium!MCNext
    <3>2. TariffTypes /\ BotFollows /\ Premium!Alone /\ Added
      BY <1>3, <3>1 DEF TermsInv, TermInv
    <3> QED  BY <1>1, <1>3, <3>1, <3>2, TermsFollow DEF TermsInv
  <2>2. CASE UNCHANGED Premium!mcVars
    <3>1. /\ UNCHANGED <<db, copy, link, jobs, pc, asked, until, crossed>> /\ today' = today
      BY <2>2 DEF Premium!mcVars, Premium!vars, Premium!cacheVars, Premium!activations
    <3>2. TariffTypes /\ BotFollows /\ Premium!Alone /\ Added
      BY <1>3, <3>1 DEF TermsInv, TermInv
    <3>3. TariffTypes' /\ BotFollows'
      BY <3>1, <3>2, TariffStill DEF TariffTypes
    <3>4. Premium!Alone'
      BY <3>1, <3>2 DEF Premium!Alone, Premium!Busy, Premium!Settled, Premium!JobsOf,
                        Premium!Server
    <3>5. Added'
      BY <3>1, <3>2 DEF Added, TermAdded, Shown, Looked, Premium!InForce, Premium!Server,
                        Premium!Term
    <3> QED  BY <3>3, <3>4, <3>5
  <2> QED  BY <2>1, <2>2
<1>4. (Servers # {} => TermInv)'
  BY <1>3 DEF TermInv
<1> QED  BY <1>2, <1>4 DEF TermsInv, SeatsInv

(* An activation that nothing comes in the way of adds a whole term to     *)
(* whatever finite tariff is in force.                                     *)
LEMMA ActivationAdds ==
  ASSUME TermsInv, NEW s \in Sessions, Premium!Activating(s), ~crossed
  PROVE  Premium!Adds(s)
<1> DEFINE g == Premium!Server(s)
<1>1. Premium!Activated(s) /\ pc[s] = "save" /\ g \in Servers
  BY DEF Premium!Activating, TermsInv, KeyTypes, Premium!Server
<1>2. TariffTypes /\ BotFollows /\ Premium!Alone /\ Added
  BY <1>1 DEF TermsInv, TermInv
<1>3. copy["bot"][g] = db[g]
  BY <1>1, <1>2, BusySettled DEF TermsInv
<1>4. TermAdded(s)
  BY <1>1, <1>2 DEF Added, Looked
<1>5. db'[g]["end"] = until[s]
  <2>1. db' = [db EXCEPT ![g] = Premium!Merge([c \in {"end"} |-> until[s]], @)]
    BY <1>1, EndIs DEF Premium!Activated, Premium!Commit
  <2>2. db'[g] = Premium!Merge([c \in {"end"} |-> until[s]], db[g])
    BY <1>1, <1>2, <2>1 DEF TariffTypes
  <2> QED  BY <2>2 DEF Premium!Merge
<1> QED  BY <1>3, <1>4, <1>5, EndIs DEF Premium!Adds, TermAdded, Shown

(* Nothing a user has paid for is lost: as long as nothing has come in the *)
(* way of an activation and no two changes have raced to the bot's copy,   *)
(* each activation adds the term of its key to the finite tariff that is   *)
(* in force, through midnights, restarts and broken connections.           *)
THEOREM TermsAdded == Premium!MCSpec => TermsStackAlone
<1>1. Premium!MCSpec => []TermsInv
  <2>1. Premium!MCInit => TermsInv
    BY TermsInit
  <2>2. TermsInv /\ [Premium!MCNext]_(Premium!mcVars) => TermsInv'
    BY TermsStep
  <2> QED  BY <2>1, <2>2, PTL DEF Premium!MCSpec
<1>2. TermsInv /\ [Premium!MCNext]_(Premium!mcVars) =>
          [\A s \in Sessions : Premium!Activating(s) /\ ~crossed => Premium!Adds(s)]_(Premium!mcVars)
  BY ActivationAdds, SMTT(60)
<1> QED  BY <1>1, <1>2, PTL DEF Premium!MCSpec, Premium!TermsStackAlone, TermsStackAlone

-----------------------------------------------------------------------------
(* Personas.                                                               *)

(* A version of the table is known by the number of its commit.            *)
Versions ==
    /\ table = [rows |-> table.rows, live |-> table.live, at |-> table.at] /\ table.at \in Nat
    /\ \A q \in Review!Procs :
          /\ known[q].at \in Nat /\ known[q].at <= table.at
          /\ known[q].at = table.at => known[q] = table
    /\ \A x \in Review!Loaders : loader[x] = "install" =>
          /\ load[x].at \in Nat /\ load[x].at <= table.at
          /\ load[x].at = table.at => load[x] = table

(* A process that is behind the table will hear of it, or is reading it.   *)
Catching(q) ==
    \/ known[q] = table
    \/ listener[q] = "down"
    \/ due[q] > 0
    \/ \E x \in Review!Loaders : /\ Review!ProcOf(x) = q
                                 /\ \/ loader[x] = "read"
                                    \/ loader[x] = "install" /\ load[x] = table
CopyTypes ==
    /\ known = [q \in Review!Procs |-> known[q]] /\ due \in [Review!Procs -> Nat]
    /\ listener \in [Review!Procs -> {"up", "down"}]
    /\ loader \in [Review!Loaders -> {"idle", "commit", "read", "install"}]
    /\ load = [x \in Review!Loaders |-> load[x]]
CopyInv == CopyTypes /\ Versions /\ \A q \in Review!Procs : q \notin missed => Catching(q)

CopyState == <<table, known, due, listener, loader, load, missed>>

LEMMA ReviewSteps ==
    ASSUME [Review!Next]_(Review!personaVars)
    PROVE  \/ \E r \in Requests : \E j : Review!Begin(r, j)
           \/ \E r \in Requests : Review!Commit(r)
           \/ \E x \in Review!Loaders : Review!Read(x) \/ Review!Install(x) \/ Review!LoadFails(x)
           \/ \E x \in Review!Tasks : Review!Notified(x)
           \/ \E q \in Review!Procs : \/ Review!Disconnect(q) \/ Review!Reconnect(q)
                                      \/ Review!Restart(q)
           \/ UNCHANGED Review!personaVars
  BY DEF Review!Next, Review!Reload, Review!CreateDraft, Review!CreatePersona, Review!Assign,
         Review!SubmitForReview, Review!RejectSubmission, Review!ApproveSubmission, Review!Edit,
         Review!DeletePersona

LEMMA CopiesKept == CopyInv /\ [Review!Next]_(Review!personaVars) => CopyInv'
<1> SUFFICES ASSUME CopyInv, [Review!Next]_(Review!personaVars) PROVE CopyInv'
  OBVIOUS
<1> USE DEF CopyInv, CopyTypes
<1>r. \A x \in Review!Loaders : Review!ProcOf(x) \in Review!Procs
  BY DEF Review!ProcOf, Review!Procs
<1>1. ASSUME NEW r \in Requests, NEW j, Review!Begin(r, j) PROVE CopyInv'
  <2>1. /\ UNCHANGED <<table, known, due, listener, load, missed>> /\ r \in Review!Loaders
        /\ loader[r] = "idle" /\ loader' = [loader EXCEPT ![r] = "commit"]
    BY <1>1 DEF Review!Begin, Review!Goto, Review!Loaders
  <2> QED  BY <2>1 DEF Versions, Catching
<1>2. ASSUME NEW r \in Requests, Review!Commit(r) PROVE CopyInv'
  <2>1. /\ UNCHANGED <<known, listener, load, missed>> /\ r \in Review!Loaders
        /\ loader[r] = "commit" /\ loader' = [loader EXCEPT ![r] = "read"]
    BY <1>2, SMTT(60) DEF Review!Commit, Review!Goto, Review!Loaders
  <2>2. \/ UNCHANGED <<table, due>>
        \/ \E rows, live : Review!Write(rows, live)
    BY <1>2 DEF Review!Commit, Review!Created, Review!Edited, Review!Deleted, Review!Moderated,
                Review!Approved, Review!Assigned
  <2>3. CASE UNCHANGED <<table, due>>
    BY <2>1, <2>3 DEF Versions, Catching
  <2>4. ASSUME NEW rows, NEW live, Review!Write(rows, live) PROVE CopyInv'
    <3>1. /\ table' = [rows |-> rows, live |-> live, at |-> table.at + 1]
          /\ due' = [q \in Review!Procs |-> IF listener[q] = "up" THEN due[q] + 1 ELSE due[q]]
      BY <2>4 DEF Review!Write
    <3>2. Versions'
      BY <2>1, <3>1 DEF Versions
    <3>3. \A q \in Review!Procs : Catching(q)'
      BY <2>1, <3>1 DEF Catching
    <3>4. CopyTypes'
      BY <2>1, <3>1
    <3> QED  BY <3>2, <3>3, <3>4
  <2> QED  BY <2>2, <2>3, <2>4
<1>3. ASSUME NEW x \in Review!Loaders, Review!Read(x) PROVE CopyInv'
  <2>1. /\ UNCHANGED <<table, known, due, listener, missed>>
        /\ loader[x] = "read" /\ loader' = [loader EXCEPT ![x] = "install"]
        /\ load' = [load EXCEPT ![x] = table]
    BY <1>3 DEF Review!Read, Review!Goto, Review!history
  <2>2. Versions'
    BY <2>1 DEF Versions
  <2>3. ASSUME NEW q \in Review!Procs, q \notin missed' PROVE Catching(q)'
    BY <2>1, <2>3 DEF Catching
  <2> QED  BY <2>1, <2>2, <2>3
<1>4. ASSUME NEW x \in Review!Loaders, Review!Install(x) PROVE CopyInv'
  <2> DEFINE p == Review!ProcOf(x)
  <2>1. /\ UNCHANGED <<table, due, listener>> /\ loader[x] = "install"
        /\ known' = [known EXCEPT ![p] = load[x]]
        /\ missed' = IF load[x].at < known[p].at THEN missed \cup {p} ELSE missed
        /\ loader' \in [Review!Loaders -> {"idle", "commit", "read", "install"}]
        /\ load' = [y \in Review!Loaders |-> load'[y]]
        /\ \A y \in Review!Loaders \ {x} : loader'[y] = loader[y] /\ load'[y] = load[y]
        /\ loader'[x] \in {"idle", "commit"}
    BY <1>4 DEF Review!Install, Review!GoIdle, Review!Goto
  <2>2. p \in Review!Procs
    BY <1>r
  <2> HIDE DEF p
  <2>3. Versions'
    BY <2>1, <2>2 DEF Versions
  <2>4. ASSUME NEW q \in Review!Procs, q \notin missed', q # p PROVE Catching(q)'
    BY <2>1, <2>2, <2>4 DEF Catching, p
  <2>5. ASSUME p \notin missed' PROVE Catching(p)'
    <3>1. known'[p] = load[x]
      BY <2>1, <2>2
    <3>2. CASE known[p] = table
      <4>1. ~(load[x].at < known[p].at)
        BY <2>1, <2>5
      <4>2. load[x].at \in Nat /\ load[x].at <= table.at /\ table.at \in Nat
        BY <2>1 DEF Versions
      <4>3. load[x] = table
        <5>1. load[x].at = table.at
          BY <3>2, <4>1, <4>2
        <5> QED  BY <2>1, <5>1 DEF Versions
      <4> QED  BY <2>1, <3>1, <4>3 DEF Catching
    <3>3. CASE known[p] # table
      BY <2>1, <2>2, <2>5, <3>1, <3>3 DEF Catching
    <3> QED  BY <3>2, <3>3
  <2> QED  BY <2>1, <2>2, <2>3, <2>4, <2>5
<1>5. ASSUME NEW x \in Review!Loaders, Review!LoadFails(x) PROVE CopyInv'
  <2>1. /\ UNCHANGED <<table, known, due, listener>> /\ loader[x] = "read"
        /\ missed' = missed \cup {Review!ProcOf(x)}
        /\ loader' = [y \in Review!Loaders |-> IF y = x THEN "idle" ELSE loader[y]]
        /\ load' = [y \in Review!Loaders |-> IF y = x THEN Review!Nothing ELSE load[y]]
    BY <1>5 DEF Review!LoadFails, Review!GoIdle
  <2>2. Versions'
    BY <2>1 DEF Versions
  <2>3. ASSUME NEW q \in Review!Procs, q \notin missed' PROVE Catching(q)'
    BY <2>1, <2>3 DEF Catching
  <2> QED  BY <2>1, <2>2, <2>3
<1>6. ASSUME NEW x \in Review!Tasks, Review!Notified(x) PROVE CopyInv'
  <2>1. /\ UNCHANGED <<table, known, listener, load, missed>> /\ x \in Review!Loaders
        /\ loader[x] = "idle" /\ loader' = [loader EXCEPT ![x] = "read"]
        /\ due[Review!ProcOf(x)] > 0
        /\ due' = [due EXCEPT ![Review!ProcOf(x)] = @ - 1]
    BY <1>6 DEF Review!Notified, Review!Goto, Review!Loaders, Review!history
  <2>2. Versions'
    BY <2>1 DEF Versions
  <2>3. ASSUME NEW q \in Review!Procs, q \notin missed' PROVE Catching(q)'
    BY <2>1, <2>3 DEF Catching
  <2>4. CopyTypes'
    BY <2>1, <1>r
  <2> QED  BY <2>2, <2>3, <2>4
<1>7. ASSUME NEW q \in Review!Procs, Review!Disconnect(q) \/ Review!Reconnect(q) PROVE CopyInv'
  <2>1. /\ UNCHANGED <<table, known, loader, load, missed>>
        /\ \/ /\ listener' = [listener EXCEPT ![q] = "down"]
              /\ due' = [due EXCEPT ![q] = 0]
           \/ /\ listener' = [listener EXCEPT ![q] = "up"]
              /\ due' = [due EXCEPT ![q] = due[q] + 1]
    BY <1>7 DEF Review!Disconnect, Review!Reconnect, Review!Again, Review!history
  <2>2. Versions'
    BY <2>1 DEF Versions
  <2>3. ASSUME NEW o \in Review!Procs, o \notin missed' PROVE Catching(o)'
    BY <2>1, <2>3 DEF Catching
  <2> QED  BY <2>1, <2>2, <2>3
<1>8. ASSUME NEW q \in Review!Procs, Review!Restart(q) PROVE CopyInv'
  <2>1. /\ UNCHANGED <<table, missed>>
        /\ known' = [known EXCEPT ![q] = table]
        /\ listener' = [listener EXCEPT ![q] = "down"] /\ due' = [due EXCEPT ![q] = 0]
        /\ loader' = [y \in Review!Loaders |-> IF Review!ProcOf(y) = q THEN "idle" ELSE loader[y]]
        /\ load' = [y \in Review!Loaders |->
                       IF Review!ProcOf(y) = q THEN Review!Nothing ELSE load[y]]
    BY <1>8 DEF Review!Restart, Review!GoIdle, Review!history
  <2>2. Versions'
    BY <2>1 DEF Versions
  <2>3. ASSUME NEW o \in Review!Procs, o \notin missed' PROVE Catching(o)'
    BY <2>1, <2>3 DEF Catching
  <2> QED  BY <2>1, <2>2, <2>3
<1>9. CASE UNCHANGED Review!personaVars
  <2>1. UNCHANGED CopyState
    BY <1>9 DEF Review!personaVars, Review!history, CopyState
  <2> QED  BY <2>1 DEF CopyState, Versions, Catching
<1> QED  BY <1>1, <1>2, <1>3, <1>4, <1>5, <1>6, <1>7, <1>8, <1>9, ReviewSteps

LEMMA CopiesInit == Review!Init => CopyInv
<1> SUFFICES ASSUME Review!Init PROVE CopyInv
  OBVIOUS
<1>1. CopyTypes
  BY DEF Review!Init, CopyTypes
<1>2. table = [rows |-> table.rows, live |-> table.live, at |-> table.at] /\ table.at = 0
  BY DEF Review!Init, Review!Starts, Review!Nothing
<1>3. \A q \in Review!Procs : known[q] = table
  BY DEF Review!Init
<1>4. \A x \in Review!Loaders : loader[x] = "idle"
  BY DEF Review!Init
<1> QED  BY <1>1, <1>2, <1>3, <1>4 DEF CopyInv, Versions, Catching

(* The copies of the bot and the panel follow the table, through lost      *)
(* connections and restarts, unless a reload failed or an older one came   *)
(* in last.                                                                *)
THEOREM CopiesFollowed == Review!Spec => []Review!CopiesFollow
<1>1. CopyInv => Review!CopiesFollow
  BY DEF CopyInv, CopyTypes, Catching, Review!CopiesFollow, Review!Quiet
<1> QED  BY CopiesInit, CopiesKept, <1>1, PTL DEF Review!Spec

(* The texts on the server, as the review should leave them: rows, the one *)
(* its members hear, the last id, the texts the operator had before them,  *)
(* and what the operator has put there by hand.                            *)
Statuses == {"none", "draft", "pending", "rejected", "approved"}
PersonaRows == [status : Statuses, custom : BOOLEAN, text : Nat]
IsOpen(rows, p) == rows[p].custom /\ rows[p].status \in {"draft", "pending", "rejected"}
IsApproved(rows, p) == rows[p].custom /\ rows[p].status = "approved"

WellTyped(rows, live, last, approved) ==
    /\ rows \in [Review!Ids -> PersonaRows] /\ live \in Review!Ids \cup {0}
    /\ last \in 0 .. MaxIds /\ approved \in [Review!Ids -> Nat]
OneEach(rows) ==
    /\ \A p, o \in Review!Ids : IsOpen(rows, p) /\ IsOpen(rows, o) => p = o
    /\ \A p, o \in Review!Ids : IsApproved(rows, p) /\ IsApproved(rows, o) => p = o
Read(rows, approved) ==
    \A p \in Review!Ids : IsApproved(rows, p) => rows[p].text = approved[p]
Heard(rows, live, byHand) ==
    live # 0 => /\ rows[live].status # "none"
                /\ rows[live].custom /\ live \notin byHand => IsApproved(rows, live)
Unused(rows, last) == \A p \in Review!Ids : p > last => rows[p].status = "none"
Well(rows, live, last, approved, byHand) ==
    /\ WellTyped(rows, live, last, approved) /\ OneEach(rows) /\ Read(rows, approved)
    /\ Heard(rows, live, byHand) /\ Unused(rows, last)
Reviewed == Well(table.rows, table.live, made, shown, placed)

(* A request about the table as it is.                                     *)
Jobs == [kind : {"none", "draft", "create", "edit", "delete", "pending", "rejected", "approve",
                 "assign"},
         who : {"operator", "manager"}, on : Review!Ids \cup {0}, text : Nat,
         old : SUBSET Review!Ids]
Sound(rows, j) ==
    /\ j \in Jobs
    /\ j.kind \in {"edit", "delete", "pending", "rejected", "approve"} => j.on \in Review!Ids
    /\ j.kind = "draft" => \A p \in Review!Ids : ~IsOpen(rows, p)
    /\ j.kind \in {"edit", "delete"} /\ j.who = "manager" => IsOpen(rows, j.on)
    /\ j.kind \in {"pending", "rejected", "approve"} => IsOpen(rows, j.on)
    /\ j.kind = "approve" => /\ j.text = rows[j.on].text
                             /\ \A o \in Review!Ids \ {j.on} : o \in j.old <=> IsApproved(rows, o)
                             /\ j.on \notin j.old
    /\ j.kind = "assign" /\ j.on # 0 => rows[j.on].status # "none"

(* What a change of one row leaves as it was.                              *)
LEMMA OthersStay ==
    ASSUME NEW rows, NEW rows2, NEW o \in Review!Ids, rows2[o] = rows[o]
    PROVE  /\ IsOpen(rows2, o) = IsOpen(rows, o)
           /\ IsApproved(rows2, o) = IsApproved(rows, o)
  BY DEF IsOpen, IsApproved

LEMMA WellCreated ==
    ASSUME NEW rows, NEW live, NEW last, NEW approved, NEW byHand,
           Well(rows, live, last, approved, byHand), last < MaxIds,
           NEW row \in PersonaRows, row.status \in {"draft", "approved"},
           row.custom => row.status = "draft" /\ \A p \in Review!Ids : ~IsOpen(rows, p)
    PROVE  Well([rows EXCEPT ![last + 1] = row], live, last + 1, approved, byHand)
<1> DEFINE n == last + 1
           rows2 == [rows EXCEPT ![n] = row]
<1>1. n \in Review!Ids /\ n \in 0 .. MaxIds
  BY LedgersAssumption DEF Well, WellTyped, Review!Ids
<1>2. rows \in [Review!Ids -> PersonaRows] /\ rows[n].status = "none"
  BY <1>1 DEF Well, WellTyped, Unused, Review!Ids
<1>3. \A p \in Review!Ids : p > n => p > last /\ p # n
  BY DEF Well, WellTyped, Review!Ids
<1> HIDE DEF n
<1>4. rows2[n] = row /\ \A o \in Review!Ids \ {n} : rows2[o] = rows[o]
  BY <1>1, <1>2
<1>5. rows2 \in [Review!Ids -> PersonaRows]
  BY <1>1, <1>2
<1> HIDE DEF rows2
<1>6. ~IsApproved(rows2, n) /\ (IsOpen(rows2, n) => row.custom) /\ rows2[n].status # "none"
  BY <1>4 DEF IsApproved, IsOpen
<1>7. \A o \in Review!Ids : o # n => /\ rows2[o] = rows[o]
                                    /\ IsOpen(rows2, o) = IsOpen(rows, o)
                                    /\ IsApproved(rows2, o) = IsApproved(rows, o)
  BY <1>4, OthersStay
<1>8. OneEach(rows2)
  <2>1. IsOpen(rows2, n) => \A p \in Review!Ids : ~IsOpen(rows, p)
    BY <1>6
  <2>2. OneEach(rows)
    BY DEF Well
  <2> SUFFICES ASSUME NEW p \in Review!Ids, NEW o \in Review!Ids, p # o
               PROVE  /\ ~(IsOpen(rows2, p) /\ IsOpen(rows2, o))
                      /\ ~(IsApproved(rows2, p) /\ IsApproved(rows2, o))
    BY DEF OneEach
  <2>3. /\ ~(IsOpen(rows, p) /\ IsOpen(rows, o))
        /\ ~(IsApproved(rows, p) /\ IsApproved(rows, o))
    BY <2>2 DEF OneEach
  <2>4. CASE p # n /\ o # n
    BY <2>3, <2>4, <1>7
  <2>5. CASE p = n
    BY <2>1, <2>5, <1>6, <1>7
  <2>6. CASE o = n
    BY <2>1, <2>6, <1>6, <1>7
  <2> QED  BY <2>4, <2>5, <2>6
<1>9. Read(rows2, approved)
  <2>1. Read(rows, approved)
    BY DEF Well
  <2> SUFFICES ASSUME NEW p \in Review!Ids, IsApproved(rows2, p)
               PROVE  rows2[p].text = approved[p]
    BY DEF Read
  <2>2. p # n
    BY <1>6
  <2>3. rows2[p] = rows[p] /\ IsApproved(rows, p)
    BY <2>2, <1>7
  <2> QED  BY <2>1, <2>3 DEF Read
<1>10. Heard(rows2, live, byHand)
  <2>1. live # n \/ live = 0
    BY <1>2 DEF Well, Heard
  <2> QED  BY <2>1, <1>4, <1>7 DEF Heard, Well, WellTyped
<1>11. Unused(rows2, n)
  BY <1>3, <1>4 DEF Unused, Well
<1>12. WellTyped(rows2, live, n, approved)
  BY <1>1, <1>5 DEF Well, WellTyped
<1> QED  BY <1>8, <1>9, <1>10, <1>11, <1>12 DEF Well, n, rows2

(* A row that is edited keeps its place in the review.                     *)
LEMMA WellEdited ==
    ASSUME NEW rows, NEW live, NEW last, NEW approved, NEW approved2, NEW byHand,
           Well(rows, live, last, approved, byHand),
           NEW p \in Review!Ids, NEW text \in Nat, NEW rows2,
           rows2 = [rows EXCEPT ![p] = IF @.status = "none" THEN @
                                       ELSE [rows[p] EXCEPT !.text = text]],
           \/ approved2 = [approved EXCEPT ![p] = text]
           \/ approved2 = approved /\ IsOpen(rows, p)
    PROVE  Well(rows2, live, last, approved2, byHand) /\ IsOpen(rows2, p) = IsOpen(rows, p)
<1>1. rows \in [Review!Ids -> PersonaRows] /\ approved \in [Review!Ids -> Nat]
  BY DEF Well, WellTyped
<1>2. /\ rows2 \in [Review!Ids -> PersonaRows] /\ approved2 \in [Review!Ids -> Nat]
      /\ rows2[p].status = rows[p].status /\ rows2[p].custom = rows[p].custom
      /\ \A o \in Review!Ids : o # p => rows2[o] = rows[o] /\ approved2[o] = approved[o]
      /\ rows[p].status # "none" => rows2[p].text = text
  BY <1>1 DEF PersonaRows
<1>3. \A o \in Review!Ids : /\ IsOpen(rows2, o) = IsOpen(rows, o)
                           /\ IsApproved(rows2, o) = IsApproved(rows, o)
                           /\ rows2[o].status = rows[o].status /\ rows2[o].custom = rows[o].custom
  <2> SUFFICES ASSUME NEW o \in Review!Ids
               PROVE  /\ IsOpen(rows2, o) = IsOpen(rows, o)
                      /\ IsApproved(rows2, o) = IsApproved(rows, o)
                      /\ rows2[o].status = rows[o].status /\ rows2[o].custom = rows[o].custom
    OBVIOUS
  <2>1. CASE o = p  BY <2>1, <1>2 DEF IsOpen, IsApproved
  <2>2. CASE o # p  BY <2>2, <1>2 DEF IsOpen, IsApproved
  <2> QED  BY <2>1, <2>2
<1>4. OneEach(rows2)
  BY <1>3 DEF Well, OneEach
<1>5. Read(rows2, approved2)
  <2> SUFFICES ASSUME NEW o \in Review!Ids, IsApproved(rows2, o)
               PROVE  rows2[o].text = approved2[o]
    BY DEF Read
  <2>1. IsApproved(rows, o)
    BY <1>3
  <2>2. CASE o # p
    BY <2>1, <2>2, <1>2 DEF Well, Read
  <2>3. CASE o = p
    <3>1. ~IsOpen(rows, p) /\ rows[p].status # "none"
      BY <2>1, <2>3 DEF IsOpen, IsApproved
    <3> QED  BY <3>1, <2>3, <1>1, <1>2
  <2> QED  BY <2>2, <2>3
<1>6. Heard(rows2, live, byHand)
  BY <1>3 DEF Well, WellTyped, Heard
<1>7. Unused(rows2, last)
  BY <1>3 DEF Well, Unused
<1> QED  BY <1>2, <1>3, <1>4, <1>5, <1>6, <1>7 DEF Well, WellTyped

(* A submission that is sent in or back stays the one at work.             *)
LEMMA WellModerated ==
    ASSUME NEW rows, NEW live, NEW last, NEW approved, NEW byHand,
           Well(rows, live, last, approved, byHand),
           NEW p \in Review!Ids, IsOpen(rows, p), NEW status \in {"pending", "rejected"},
           NEW rows2,
           rows2 = [rows EXCEPT ![p] = IF @.status = "none" THEN @
                                       ELSE [rows[p] EXCEPT !.status = status]]
    PROVE  Well(rows2, live, last, approved, byHand)
<1>1. rows \in [Review!Ids -> PersonaRows] /\ rows[p].status # "none" /\ rows[p].custom
  BY DEF Well, WellTyped, IsOpen
<1>2. /\ rows2 \in [Review!Ids -> PersonaRows]
      /\ rows2[p].status = status /\ rows2[p].custom = rows[p].custom
      /\ \A o \in Review!Ids : o # p => rows2[o] = rows[o]
  BY <1>1 DEF PersonaRows, Statuses
<1>3. ~IsApproved(rows2, p) /\ ~IsApproved(rows, p) /\ IsOpen(rows2, p)
  BY <1>1, <1>2 DEF IsOpen, IsApproved
<1>4. \A o \in Review!Ids : /\ IsOpen(rows2, o) = IsOpen(rows, o)
                           /\ IsApproved(rows2, o) = IsApproved(rows, o)
                           /\ rows2[o].custom = rows[o].custom
  <2> SUFFICES ASSUME NEW o \in Review!Ids
               PROVE  /\ IsOpen(rows2, o) = IsOpen(rows, o)
                      /\ IsApproved(rows2, o) = IsApproved(rows, o)
                      /\ rows2[o].custom = rows[o].custom
    OBVIOUS
  <2>1. CASE o = p  BY <2>1, <1>1, <1>2 DEF IsOpen, IsApproved
  <2>2. CASE o # p  BY <2>2, <1>2 DEF IsOpen, IsApproved
  <2> QED  BY <2>1, <2>2
<1>n. \A o \in Review!Ids : (rows2[o].status = "none") = (rows[o].status = "none")
  BY <1>1, <1>2
<1>5. OneEach(rows2)
  BY <1>4 DEF Well, OneEach
<1>6. Read(rows2, approved)
  <2> SUFFICES ASSUME NEW o \in Review!Ids, IsApproved(rows2, o)
               PROVE  rows2[o].text = approved[o]
    BY DEF Read
  <2>1. IsApproved(rows, o) /\ o # p
    BY <1>3, <1>4
  <2> QED  BY <2>1, <1>2 DEF Well, Read
<1>7. Heard(rows2, live, byHand)
  BY <1>4, <1>n DEF Well, WellTyped, Heard
<1>8. Unused(rows2, last)
  BY <1>n DEF Well, Unused
<1> QED  BY <1>2, <1>5, <1>6, <1>7, <1>8 DEF Well, WellTyped

(* Personas that are removed do no harm, if the one that is live goes with *)
(* its assignment.                                                         *)
LEMMA WellWithout ==
    ASSUME NEW rows, NEW live, NEW last, NEW approved, NEW byHand,
           Well(rows, live, last, approved, byHand), NEW ps \in SUBSET Review!Ids,
           NEW live2, live2 = IF live \in ps THEN 0 ELSE live
    PROVE  Well(Review!Without(rows, ps), live2, last, approved, byHand)
<1> DEFINE rows2 == Review!Without(rows, ps)
<1>1. rows \in [Review!Ids -> PersonaRows]
  BY DEF Well, WellTyped
<1>2. Review!NoRow \in PersonaRows /\ Review!NoRow.status = "none" /\ Review!NoRow.custom = FALSE
  BY DEF Review!NoRow, PersonaRows, Statuses
<1>3. /\ \A o \in Review!Ids : rows2[o] = IF o \in ps THEN Review!NoRow ELSE rows[o]
      /\ rows2 \in [Review!Ids -> PersonaRows]
  BY <1>1, <1>2 DEF Review!Without
<1> HIDE DEF rows2
<1>4. \A o \in Review!Ids : o \in ps => /\ ~IsOpen(rows2, o) /\ ~IsApproved(rows2, o)
                                      /\ rows2[o].status = "none"
  BY <1>2, <1>3 DEF IsOpen, IsApproved
<1>5. \A o \in Review!Ids : o \notin ps => /\ IsOpen(rows2, o) = IsOpen(rows, o)
                                         /\ IsApproved(rows2, o) = IsApproved(rows, o)
                                         /\ rows2[o] = rows[o]
  BY <1>3, OthersStay
<1>6. OneEach(rows2)
  <2> SUFFICES ASSUME NEW p \in Review!Ids, NEW o \in Review!Ids, p # o
               PROVE  /\ ~(IsOpen(rows2, p) /\ IsOpen(rows2, o))
                      /\ ~(IsApproved(rows2, p) /\ IsApproved(rows2, o))
    BY DEF OneEach
  <2>1. /\ ~(IsOpen(rows, p) /\ IsOpen(rows, o))
        /\ ~(IsApproved(rows, p) /\ IsApproved(rows, o))
    BY DEF OneEach, Well
  <2>2. CASE p \in ps \/ o \in ps
    BY <2>2, <1>4
  <2>3. CASE p \notin ps /\ o \notin ps
    BY <2>1, <2>3, <1>5
  <2> QED  BY <2>2, <2>3
<1>7. Read(rows2, approved)
  BY <1>4, <1>5 DEF Read, Well
<1>8. Heard(rows2, live2, byHand)
  BY <1>5 DEF Heard, Well, WellTyped
<1>9. Unused(rows2, last)
  BY <1>4, <1>5 DEF Unused, Well
<1> QED  BY <1>3, <1>6, <1>7, <1>8, <1>9 DEF Well, WellTyped, rows2

(* The approved submission takes the place of the one before it, and the   *)
(* operator has had its text before them.                                  *)
LEMMA WellApproved ==
    ASSUME NEW rows, NEW live, NEW last, NEW approved, NEW byHand,
           Well(rows, live, last, approved, byHand),
           NEW p \in Review!Ids, IsOpen(rows, p), NEW old \in SUBSET Review!Ids,
           p \notin old, \A o \in Review!Ids \ {p} : o \in old <=> IsApproved(rows, o),
           NEW put,
           put = [rows EXCEPT ![p] = IF @.status = "none" THEN @
                                     ELSE [rows[p] EXCEPT !.status = "approved"]]
    PROVE  Well(Review!Without(put, old), p, last, [approved EXCEPT ![p] = rows[p].text], byHand)
<1> DEFINE rows2 == Review!Without(put, old)
           approved2 == [approved EXCEPT ![p] = rows[p].text]
<1>1. /\ rows \in [Review!Ids -> PersonaRows] /\ approved \in [Review!Ids -> Nat]
      /\ rows[p].status # "none" /\ rows[p].custom /\ rows[p].text \in Nat
  BY DEF Well, WellTyped, IsOpen, PersonaRows
<1>2. /\ put \in [Review!Ids -> PersonaRows]
      /\ put[p].status = "approved" /\ put[p].custom = rows[p].custom /\ put[p].text = rows[p].text
      /\ \A o \in Review!Ids : o # p => put[o] = rows[o]
  BY <1>1 DEF PersonaRows, Statuses
<1>3. Review!NoRow \in PersonaRows /\ Review!NoRow.status = "none" /\ Review!NoRow.custom = FALSE
  BY DEF Review!NoRow, PersonaRows, Statuses
<1>4. /\ \A o \in Review!Ids : o # p => rows2[o] = IF o \in old THEN Review!NoRow ELSE rows[o]
      /\ rows2[p] = put[p] /\ rows2 \in [Review!Ids -> PersonaRows]
  BY <1>1, <1>2, <1>3 DEF Review!Without
<1>5. /\ approved2 \in [Review!Ids -> Nat] /\ approved2[p] = rows[p].text
      /\ \A o \in Review!Ids : o # p => approved2[o] = approved[o]
  BY <1>1
<1> HIDE DEF rows2, approved2
<1>6. ~IsOpen(rows2, p) /\ IsApproved(rows2, p)
  BY <1>1, <1>2, <1>4 DEF IsOpen, IsApproved
<1>7. ASSUME NEW o \in Review!Ids, o # p
      PROVE  ~IsOpen(rows2, o) /\ ~IsApproved(rows2, o)
  <2>1. CASE o \in old
    BY <1>3, <1>4, <1>7, <2>1 DEF IsOpen, IsApproved
  <2>2. CASE o \notin old
    <3>1. ~IsApproved(rows, o)
      BY <1>7, <2>2
    <3>2. ~IsOpen(rows, o)
      BY <1>7 DEF Well, OneEach
    <3>3. rows2[o] = rows[o]
      BY <1>4, <1>7, <2>2
    <3> QED  BY <3>1, <3>2, <3>3, OthersStay
  <2> QED  BY <2>1, <2>2
<1>8. OneEach(rows2)
  BY <1>6, <1>7 DEF OneEach
<1>9. Read(rows2, approved2)
  BY <1>2, <1>4, <1>5, <1>7 DEF Read
<1>10. Heard(rows2, p, byHand)
  BY <1>2, <1>4, <1>6 DEF Heard
<1>11. Unused(rows2, last)
  <2> SUFFICES ASSUME NEW o \in Review!Ids, o > last PROVE rows2[o].status = "none"
    BY DEF Unused
  <2>1. rows[o].status = "none" /\ o # p
    BY <1>1 DEF Well, Unused
  <2> QED  BY <2>1, <1>3, <1>4
<1>12. WellTyped(rows2, p, last, approved2)
  BY <1>4, <1>5 DEF Well, WellTyped
<1> QED  BY <1>8, <1>9, <1>10, <1>11, <1>12 DEF Well, rows2, approved2

(* Another persona is made the live one by hand.                           *)
LEMMA WellAssigned ==
    ASSUME NEW rows, NEW live, NEW last, NEW approved, NEW byHand,
           Well(rows, live, last, approved, byHand),
           NEW p \in Review!Ids \cup {0}, p # 0 => rows[p].status # "none",
           NEW byHand2,
           byHand2 = IF p # 0 /\ rows[p].status # "approved" THEN byHand \cup {p} ELSE byHand
    PROVE  Well(rows, p, last, approved, byHand2)
<1>1. Heard(rows, p, byHand2)
  <2> SUFFICES ASSUME p # 0, rows[p].custom, p \notin byHand2 PROVE IsApproved(rows, p)
    BY DEF Heard
  <2>1. rows[p].status = "approved"
    OBVIOUS
  <2> QED  BY <2>1 DEF IsApproved
<1> QED  BY <1>1 DEF Well, WellTyped

-----------------------------------------------------------------------------
(* While requests come one at a time on a copy that is up to date, each is *)
(* about the table as it is.                                               *)
LoaderTypes ==
    /\ loader \in [Review!Loaders -> {"idle", "commit", "read", "install"}]
    /\ job = [r \in Requests |-> job[r]] /\ texts \in Nat
OneAtWork == \A r, o \in Requests : loader[r] # "idle" /\ loader[o] # "idle" => r = o
SoundWork ==
    \A r \in Requests : \/ loader[r] # "commit" /\ job[r].kind # "edit"
                        \/ loader[r] # "idle" /\ Sound(table.rows, job[r])
ReviewInv == ~raced => LoaderTypes /\ Reviewed /\ OneAtWork /\ SoundWork

LEMMA SoundRequests ==
    ASSUME Reviewed, known["panel"] = table, texts \in Nat,
           [Review!Next]_(Review!personaVars)
    PROVE  \/ \E r \in Requests : \E j : Review!Begin(r, j) /\ Sound(table.rows, j)
           \/ \E r \in Requests : Review!Commit(r)
           \/ \E x \in Review!Loaders : Review!Read(x) \/ Review!Install(x) \/ Review!LoadFails(x)
           \/ \E x \in Review!Tasks : Review!Notified(x)
           \/ \E q \in Review!Procs : \/ Review!Disconnect(q) \/ Review!Reconnect(q)
                                      \/ Review!Restart(q)
           \/ UNCHANGED Review!personaVars
<1> DEFINE Begins == \E r \in Requests : \E j : Review!Begin(r, j) /\ Sound(table.rows, j)
<1>0. /\ table.rows \in [Review!Ids -> PersonaRows] /\ table.live \in Review!Ids \cup {0}
      /\ 0 \notin Review!Ids
  BY DEF Reviewed, Well, WellTyped, Review!Ids
<1>r. \A p : Review!Row(p) = table.rows[p]
  BY DEF Review!Row
<1>s. \A p : p \in Review!Submissions <=> p \in Review!Ids /\ IsOpen(table.rows, p)
  BY <1>r DEF Review!Submissions, Review!Open, IsOpen
<1>k. \A p : p \in Review!Known <=> p = 0 \/ (p \in Review!Ids /\ table.rows[p].status # "none")
  BY <1>r DEF Review!Known, Review!Default
<1>t. \A p \in Review!Ids \cup {0} : Review!Text(p) \in Nat
  BY <1>0, <1>r DEF Review!Text, Review!Default, PersonaRows
<1>m. \A who \in {"operator", "manager"}, p \in Review!Ids : Review!MayEdit(who, p) =>
          p \in Review!Known /\ (who = "operator" \/ IsOpen(table.rows, p))
  BY <1>s DEF Review!MayEdit
<1> USE DEF Jobs, Review!NoJob, Review!Default
<1>1. ASSUME NEW r \in Requests, Review!CreateDraft(r) PROVE Begins
  <2> DEFINE j == [Review!NoJob EXCEPT !.kind = "draft", !.text = Review!Text(table.live)]
  <2>1. Review!Begin(r, j) /\ Review!Submissions = {}
    BY <1>1 DEF Review!CreateDraft
  <2>2. Sound(table.rows, j)
    BY <2>1, <1>0, <1>s, <1>t DEF Sound
  <2> HIDE DEF j
  <2> QED  BY <2>1, <2>2
<1>2. ASSUME NEW r \in Requests, NEW p \in Review!Ids \cup {0}, Review!CreatePersona(r, p)
      PROVE  Begins
  <2> DEFINE j == [Review!NoJob EXCEPT !.kind = "create", !.text = Review!Text(p)]
  <2>1. Review!Begin(r, j)
    BY <1>2 DEF Review!CreatePersona
  <2>2. Sound(table.rows, j)
    BY <1>t DEF Sound
  <2> HIDE DEF j
  <2> QED  BY <2>1, <2>2
<1>3. ASSUME NEW r \in Requests, NEW p \in Review!Ids \cup {0}, Review!Assign(r, p) PROVE Begins
  <2> DEFINE j == [Review!NoJob EXCEPT !.kind = "assign", !.on = p]
  <2>1. Review!Begin(r, j) /\ p \in Review!Known
    BY <1>3 DEF Review!Assign
  <2>2. Sound(table.rows, j)
    BY <2>1, <1>k DEF Sound
  <2> HIDE DEF j
  <2> QED  BY <2>1, <2>2
<1>4. ASSUME NEW r \in Requests, NEW p \in Review!Ids,
             Review!SubmitForReview(r, p) \/ Review!RejectSubmission(r, p)
      PROVE  Begins
  <2>1. PICK kind \in {"pending", "rejected"} :
            Review!Begin(r, [Review!NoJob EXCEPT !.kind = kind, !.on = p])
    BY <1>4 DEF Review!SubmitForReview, Review!RejectSubmission
  <2> DEFINE j == [Review!NoJob EXCEPT !.kind = kind, !.on = p]
  <2>2. IsOpen(table.rows, p)
    BY <1>4, <1>s DEF Review!SubmitForReview, Review!RejectSubmission
  <2>3. Sound(table.rows, j)
    BY <2>2 DEF Sound
  <2> HIDE DEF j
  <2>4. Review!Begin(r, j)
    BY <2>1 DEF j
  <2> QED  BY <2>3, <2>4
<1>5. ASSUME NEW r \in Requests, NEW p \in Review!Ids, Review!ApproveSubmission(r, p)
      PROVE  Begins
  <2> DEFINE j == [Review!NoJob EXCEPT !.kind = "approve", !.on = p,
                                       !.text = table.rows[p].text,
                                       !.old = Review!Superseded(p)]
  <2>1. Review!Begin(r, j) /\ IsOpen(table.rows, p)
    BY <1>5, <1>r, <1>s DEF Review!ApproveSubmission
  <2>2. \A o \in Review!Ids \ {p} : o \in Review!Superseded(p) <=> IsApproved(table.rows, o)
    BY <1>r DEF Review!Superseded, IsApproved
  <2>3. p \notin Review!Superseded(p) /\ Review!Superseded(p) \subseteq Review!Ids
    BY DEF Review!Superseded
  <2>4. table.rows[p].text \in Nat
    BY <1>0 DEF PersonaRows
  <2>5. /\ j \in Jobs /\ j.kind = "approve" /\ j.on = p /\ j.text = table.rows[p].text
        /\ j.old = Review!Superseded(p)
    BY <2>3, <2>4
  <2> HIDE DEF j
  <2>6. Sound(table.rows, j)
    BY <2>1, <2>2, <2>3, <2>5 DEF Sound
  <2> QED  BY <2>1, <2>6
<1>6. ASSUME NEW r \in Requests, NEW p \in Review!Ids, NEW who \in {"operator", "manager"},
             Review!Edit(r, who, p)
      PROVE  Begins
  <2> DEFINE j == [Review!NoJob EXCEPT !.kind = "edit", !.who = who, !.on = p, !.text = texts + 1]
  <2>1. Review!Begin(r, j) /\ (who = "manager" => IsOpen(table.rows, p))
    BY <1>6, <1>m DEF Review!Edit
  <2>2. Sound(table.rows, j)
    <3>1. texts + 1 \in Nat
      OBVIOUS
    <3>2. j \in Jobs /\ j.kind = "edit" /\ j.who = who /\ j.on = p
      BY <3>1
    <3> HIDE DEF j
    <3> QED  BY <2>1, <3>2 DEF Sound
  <2> HIDE DEF j
  <2> QED  BY <2>1, <2>2
<1>7. ASSUME NEW r \in Requests, NEW p \in Review!Ids, NEW who \in {"operator", "manager"},
             Review!DeletePersona(r, who, p)
      PROVE  Begins
  <2> DEFINE j == [Review!NoJob EXCEPT !.kind = "delete", !.who = who, !.on = p]
  <2>1. Review!Begin(r, j) /\ (who = "manager" => IsOpen(table.rows, p))
    BY <1>7, <1>m DEF Review!DeletePersona
  <2>2. Sound(table.rows, j)
    BY <2>1 DEF Sound
  <2> HIDE DEF j
  <2> QED  BY <2>1, <2>2
<1> HIDE DEF Begins
<1> QED
  BY <1>1, <1>2, <1>3, <1>4, <1>5, <1>6, <1>7 DEF Review!Next, Review!Reload, Begins

(* What a request commits leaves the review as it should be, and an edit   *)
(* one that may go on.                                                     *)
LEMMA CommitWell ==
    ASSUME Reviewed, NEW r \in Requests, Sound(table.rows, job[r]), Review!Commit(r)
    PROVE  Reviewed' /\ (job[r].kind = "edit" => Sound(table'.rows, job[r]))
<1> DEFINE j == job[r]
<1>j. j \in Jobs /\ j.on \in Review!Ids \cup {0} /\ j.text \in Nat
  BY DEF Sound, Jobs
<1> HIDE DEF j
<1>s. Sound(table.rows, j)
  BY DEF j
<1>c. \/ Review!Created(j) \/ Review!Edited(j) \/ Review!Deleted(j)
      \/ Review!Moderated(j) \/ Review!Approved(j) \/ Review!Assigned(j)
  BY DEF Review!Commit, j
<1>1. CASE Review!Created(j)
  <2>1. CASE made < MaxIds
    <3> DEFINE row == [status |-> IF j.kind = "draft" THEN "draft" ELSE "approved",
                       custom |-> j.kind = "draft", text |-> j.text]
    <3>1. /\ made' = made + 1 /\ UNCHANGED <<shown, placed>>
          /\ table'.rows = [table.rows EXCEPT ![made + 1] = row] /\ table'.live = table.live
      BY <1>1, <2>1 DEF Review!Created, Review!Write
    <3>2. /\ row \in PersonaRows /\ row.status \in {"draft", "approved"}
          /\ row.custom => row.status = "draft" /\ \A p \in Review!Ids : ~IsOpen(table.rows, p)
      BY <1>j, <1>s DEF PersonaRows, Statuses, Sound
    <3> HIDE DEF row
    <3>3. Well([table.rows EXCEPT ![made + 1] = row], table.live, made + 1, shown, placed)
      BY <2>1, <3>2, WellCreated DEF Reviewed
    <3> QED  BY <3>1, <3>3, <1>1 DEF Reviewed, Review!Created, j
  <2>2. CASE ~(made < MaxIds)
    BY <1>1, <2>2, SMTT(60) DEF Review!Created, Reviewed, j
  <2> QED  BY <2>1, <2>2
<1>2. CASE Review!Edited(j)
  <2>1. j.kind = "edit" /\ j.on \in Review!Ids /\ (j.who = "manager" => IsOpen(table.rows, j.on))
    BY <1>2, <1>s DEF Review!Edited, Sound
  <2>2. /\ table'.rows = [table.rows EXCEPT ![j.on] =
              IF @.status = "none" THEN @ ELSE [table.rows[j.on] EXCEPT !.text = j.text]]
        /\ table'.live = table.live
        /\ UNCHANGED <<made, placed>>
    BY <1>2 DEF Review!Edited, Review!Write, Review!Put
  <2>3. \/ shown' = [shown EXCEPT ![j.on] = j.text]
        \/ shown' = shown /\ IsOpen(table.rows, j.on)
    BY <1>2, <1>j, <2>1 DEF Review!Edited, Jobs
  <2>4. /\ Well(table'.rows, table.live, made, shown', placed)
        /\ IsOpen(table'.rows, j.on) = IsOpen(table.rows, j.on)
    BY <1>j, <2>1, <2>2, <2>3, WellEdited DEF Reviewed
  <2>5. Sound(table'.rows, j)
    BY <1>j, <2>1, <2>4 DEF Sound
  <2> QED  BY <2>2, <2>4, <2>5 DEF Reviewed, j
<1>3. CASE Review!Deleted(j)
  <2>1. j.kind = "delete" /\ j.on \in Review!Ids
    BY <1>3, <1>s DEF Review!Deleted, Sound
  <2>2. /\ table'.rows = Review!Without(table.rows, {j.on})
        /\ table'.live = IF table.live \in {j.on} THEN 0 ELSE table.live
        /\ UNCHANGED <<made, shown, placed>>
    BY <1>3 DEF Review!Deleted, Review!Write, Review!Unassigned, Review!Default
  <2>3. Well(table'.rows, table'.live, made, shown, placed)
    BY <2>1, <2>2, WellWithout DEF Reviewed
  <2> QED  BY <2>1, <2>2, <2>3 DEF Reviewed, j
<1>4. CASE Review!Moderated(j)
  <2>1. j.kind \in {"pending", "rejected"} /\ j.on \in Review!Ids /\ IsOpen(table.rows, j.on)
    BY <1>4, <1>s DEF Review!Moderated, Sound
  <2>2. /\ table'.rows = [table.rows EXCEPT ![j.on] =
              IF @.status = "none" THEN @ ELSE [table.rows[j.on] EXCEPT !.status = j.kind]]
        /\ table'.live = table.live
        /\ UNCHANGED <<made, shown, placed>>
    BY <1>4 DEF Review!Moderated, Review!Write, Review!Put
  <2>3. Well(table'.rows, table.live, made, shown, placed)
    BY <2>1, <2>2, WellModerated DEF Reviewed
  <2> QED  BY <2>1, <2>2, <2>3 DEF Reviewed, j
<1>5. CASE Review!Approved(j)
  <2> DEFINE put == [table.rows EXCEPT ![j.on] =
              IF @.status = "none" THEN @ ELSE [table.rows[j.on] EXCEPT !.status = "approved"]]
  <2>1. /\ j.kind = "approve" /\ j.on \in Review!Ids /\ IsOpen(table.rows, j.on)
        /\ j.text = table.rows[j.on].text /\ j.on \notin j.old
        /\ \A o \in Review!Ids \ {j.on} : o \in j.old <=> IsApproved(table.rows, o)
    BY <1>5, <1>s DEF Review!Approved, Sound
  <2>2. j.old \in SUBSET Review!Ids
    BY <1>j DEF Jobs
  <2>3. /\ table'.rows = Review!Without(put, j.old) /\ table'.live = j.on
        /\ shown' = [shown EXCEPT ![j.on] = table.rows[j.on].text]
        /\ UNCHANGED <<made, placed>>
    BY <1>5, <2>1 DEF Review!Approved, Review!Write, Review!Put
  <2>p. put = [table.rows EXCEPT ![j.on] =
              IF @.status = "none" THEN @ ELSE [table.rows[j.on] EXCEPT !.status = "approved"]]
    OBVIOUS
  <2> HIDE DEF put
  <2>4. Well(Review!Without(put, j.old), j.on, made,
             [shown EXCEPT ![j.on] = table.rows[j.on].text], placed)
    BY <2>1, <2>2, <2>p, WellApproved, SMTT(60) DEF Reviewed
  <2> QED  BY <2>1, <2>3, <2>4 DEF Reviewed, j
<1>6. CASE Review!Assigned(j)
  <2>1. j.kind = "assign" /\ (j.on # 0 => table.rows[j.on].status # "none")
    BY <1>6, <1>s DEF Review!Assigned, Sound
  <2>2. /\ table'.rows = table.rows /\ table'.live = j.on /\ UNCHANGED <<made, shown>>
        /\ placed' = IF j.on # 0 /\ table.rows[j.on].status # "approved"
                     THEN placed \cup {j.on} ELSE placed
    BY <1>6 DEF Review!Assigned, Review!Write, Review!Default
  <2>3. Well(table.rows, j.on, made, shown, placed')
    BY <1>j, <2>1, <2>2, WellAssigned DEF Reviewed
  <2> QED  BY <2>1, <2>2, <2>3 DEF Reviewed, j
<1> QED  BY <1>c, <1>1, <1>2, <1>3, <1>4, <1>5, <1>6

LEMMA ReviewKept == ReviewInv /\ [Review!Next]_(Review!personaVars) => ReviewInv'
<1> SUFFICES ASSUME ReviewInv, [Review!Next]_(Review!personaVars), ~raced' PROVE
        LoaderTypes' /\ Reviewed' /\ OneAtWork' /\ SoundWork'
  BY DEF ReviewInv
<1>t. Requests \subseteq Review!Loaders /\ \A x \in Review!Tasks : x \notin Requests
  BY LedgersAssumption DEF Review!Loaders, Review!Tasks
<1>w. ~raced => LoaderTypes /\ Reviewed /\ OneAtWork /\ SoundWork
  BY DEF ReviewInv
<1> USE DEF LoaderTypes
<1> DEFINE Kept == LoaderTypes' /\ Reviewed' /\ OneAtWork' /\ SoundWork'
<1>1. ASSUME ~raced, known["panel"] = table, NEW r \in Requests, NEW j, Review!Begin(r, j),
             Sound(table.rows, j)
      PROVE  Kept
  <2>1. /\ \A o \in Requests : loader[o] = "idle"
        /\ UNCHANGED <<table, made, shown, placed>>
        /\ loader' = [loader EXCEPT ![r] = "commit"] /\ job' = [job EXCEPT ![r] = j]
        /\ texts' = IF j.kind = "edit" THEN j.text ELSE texts
    BY <1>1 DEF Review!Begin, Review!Goto
  <2>2. j.text \in Nat
    BY <1>1 DEF Sound, Jobs
  <2>3. LoaderTypes'
    BY <1>1, <1>w, <1>t, <2>1, <2>2
  <2>4. Reviewed'
    BY <1>1, <1>w, <2>1 DEF Reviewed
  <2>5. \A o \in Requests : o # r => loader'[o] = "idle" /\ job'[o] = job[o]
    BY <1>1, <1>w, <1>t, <2>1
  <2>6. job'[r] = j
    BY <1>1, <1>w, <2>1
  <2>7. OneAtWork'
    BY <2>5 DEF OneAtWork
  <2>8. SoundWork'
    <3> SUFFICES ASSUME NEW o \in Requests
                 PROVE  \/ loader'[o] # "commit" /\ job'[o].kind # "edit"
                        \/ loader'[o] # "idle" /\ Sound(table'.rows, job'[o])
      BY DEF SoundWork
    <3>1. CASE o = r
      <4>1. loader'[o] = "commit"
        BY <3>1, <1>1, <2>1, <1>w, <1>t
      <4> QED  BY <3>1, <4>1, <1>1, <2>1, <2>6
    <3>2. CASE o # r
      BY <3>2, <1>1, <1>w, <2>1, <2>5 DEF SoundWork
    <3> QED  BY <3>1, <3>2
  <2> QED  BY <2>3, <2>4, <2>7, <2>8
<1>2. ASSUME NEW r \in Requests, Review!Commit(r) PROVE Kept
  <2>1. /\ UNCHANGED <<texts, raced>> /\ loader[r] = "commit"
        /\ loader' = [loader EXCEPT ![r] = "read"]
        /\ job' = IF job[r].kind = "edit" THEN job ELSE [job EXCEPT ![r] = Review!NoJob]
    BY <1>2 DEF Review!Commit, Review!Goto
  <2>w. LoaderTypes /\ Reviewed /\ OneAtWork /\ SoundWork
    BY <1>w, <2>1
  <2>2. Sound(table.rows, job[r])
    BY <2>1, <2>w DEF SoundWork
  <2>3. Reviewed' /\ (job[r].kind = "edit" => Sound(table'.rows, job[r]))
    BY <1>2, <2>2, <2>w, CommitWell
  <2>4. LoaderTypes'
    BY <2>1, <2>w, <1>t
  <2>5. \A o \in Requests : loader'[o] # "idle" => o = r
    BY <2>1, <2>w, <1>t DEF OneAtWork
  <2>6. OneAtWork'
    BY <2>5 DEF OneAtWork
  <2>7. SoundWork'
    <3> SUFFICES ASSUME NEW o \in Requests
                 PROVE  \/ loader'[o] # "commit" /\ job'[o].kind # "edit"
                        \/ loader'[o] # "idle" /\ Sound(table'.rows, job'[o])
      BY DEF SoundWork
    <3>1. CASE o = r
      <4>1. loader'[o] = "read"
        BY <3>1, <2>1, <2>w, <1>t
      <4>2. CASE job[r].kind = "edit"
        BY <3>1, <4>1, <4>2, <2>1, <2>3
      <4>3. CASE job[r].kind # "edit"
        BY <3>1, <4>1, <4>3, <2>1, <2>w DEF Review!NoJob
      <4> QED  BY <4>2, <4>3
    <3>2. CASE o # r
      <4>1. loader'[o] = "idle" /\ loader[o] = "idle" /\ job'[o] = job[o]
        BY <3>2, <2>1, <2>5, <2>w, <1>t DEF OneAtWork
      <4> QED  BY <4>1, <2>w DEF SoundWork
    <3> QED  BY <3>1, <3>2
  <2> QED  BY <2>3, <2>4, <2>6, <2>7
<1>3. ASSUME UNCHANGED <<raced, table, made, shown, placed, job, texts>>,
             LoaderTypes => loader' \in [Review!Loaders -> {"idle", "commit", "read", "install"}],
             LoaderTypes => \A o \in Requests : /\ (loader'[o] = "idle") = (loader[o] = "idle")
                                              /\ (loader'[o] = "commit") = (loader[o] = "commit")
      PROVE  Kept
  <2>1. LoaderTypes /\ Reviewed /\ OneAtWork /\ SoundWork
    BY <1>3, <1>w
  <2>2. LoaderTypes' /\ Reviewed'
    BY <1>3, <2>1 DEF Reviewed
  <2>3. OneAtWork'
    BY <1>3, <2>1 DEF OneAtWork
  <2>4. SoundWork'
    BY <1>3, <2>1 DEF SoundWork
  <2> QED  BY <2>2, <2>3, <2>4
<1>4. ASSUME NEW x \in Review!Loaders, Review!Read(x) PROVE Kept
  BY <1>4, <1>3 DEF Review!Read, Review!Goto, Review!acts, Review!history
<1>5. ASSUME NEW x \in Review!Tasks, Review!Notified(x) PROVE Kept
  BY <1>5, <1>3, <1>t DEF Review!Notified, Review!Goto, Review!history, Review!Loaders
<1>6. ASSUME NEW q \in Review!Procs, Review!Disconnect(q) \/ Review!Reconnect(q) PROVE Kept
  BY <1>6, <1>3 DEF Review!Disconnect, Review!Reconnect, Review!acts, Review!history
<1>7. CASE UNCHANGED Review!personaVars
  BY <1>7, <1>3 DEF Review!personaVars, Review!acts, Review!history
<1>8. ASSUME NEW xs, Review!GoIdle(xs),
             UNCHANGED <<raced, table, made, shown, placed, texts>>
      PROVE  Kept
  <2>1. LoaderTypes /\ Reviewed /\ OneAtWork /\ SoundWork
    BY <1>8, <1>w
  <2>2. /\ loader' = [x \in Review!Loaders |-> IF x \in xs THEN "idle" ELSE loader[x]]
        /\ job' = [r \in Requests |-> IF r \in xs THEN Review!NoJob ELSE job[r]]
    BY <1>8 DEF Review!GoIdle
  <2>3. LoaderTypes' /\ Reviewed'
    BY <1>8, <2>1, <2>2 DEF Reviewed
  <2>4. ASSUME NEW o \in Requests
        PROVE  \/ loader'[o] = "idle" /\ job'[o].kind # "edit"
               \/ loader'[o] = loader[o] /\ job'[o] = job[o]
    <3>1. CASE o \in xs
      BY <3>1, <2>2, <1>t DEF Review!NoJob
    <3>2. CASE o \notin xs
      BY <3>2, <2>2, <1>t
    <3> QED  BY <3>1, <3>2
  <2>5. OneAtWork'
    BY <2>1, <2>4 DEF OneAtWork
  <2>6. SoundWork'
    BY <1>8, <2>1, <2>4 DEF SoundWork
  <2> QED  BY <2>3, <2>5, <2>6
<1>9. ASSUME NEW x \in Review!Loaders, Review!LoadFails(x) PROVE Kept
  BY <1>9, <1>8 DEF Review!LoadFails
<1>10. ASSUME NEW q \in Review!Procs, Review!Restart(q) PROVE Kept
  BY <1>10, <1>8 DEF Review!Restart, Review!history
<1>11. ASSUME NEW x \in Review!Loaders, Review!Install(x) PROVE Kept
  <2>1. CASE Review!GoIdle({x}) /\ UNCHANGED texts
    BY <1>11, <2>1, <1>8 DEF Review!Install
  <2>2. CASE ~(Review!GoIdle({x}) /\ UNCHANGED texts)
    <3>1. /\ x \in Requests /\ job[x].kind = "edit" /\ loader[x] = "install"
          /\ texts' = texts + 1 /\ job' = [job EXCEPT ![x].text = texts + 1]
          /\ loader' = [loader EXCEPT ![x] = "commit"]
          /\ UNCHANGED <<raced, table, made, shown, placed>>
      BY <1>11, <2>2 DEF Review!Install, Review!Goto
    <3>2. LoaderTypes /\ Reviewed /\ OneAtWork /\ SoundWork
      BY <3>1, <1>w
    <3>3. LoaderTypes' /\ Reviewed'
      BY <3>1, <3>2 DEF Reviewed
    <3>4. \A o \in Requests : o # x => loader'[o] = loader[o] /\ job'[o] = job[o]
      BY <3>1, <3>2, <1>t
    <3>5. OneAtWork'
      BY <3>1, <3>2, <3>4 DEF OneAtWork
    <3>6. Sound(table.rows, job[x])
      BY <3>1, <3>2 DEF SoundWork
    <3>7. loader'[x] = "commit" /\ job'[x] = [job[x] EXCEPT !.text = texts + 1]
      BY <3>1, <3>2, <1>t
    <3>8. Sound(table.rows, job'[x])
      <4>1. /\ job'[x] \in Jobs /\ job'[x].kind = "edit" /\ job'[x].on = job[x].on
            /\ job'[x].who = job[x].who
        BY <3>1, <3>2, <3>6, <3>7 DEF Sound, Jobs
      <4> QED  BY <3>1, <3>6, <4>1 DEF Sound
    <3>9. SoundWork'
      BY <3>1, <3>2, <3>4, <3>7, <3>8 DEF SoundWork
    <3> QED  BY <3>3, <3>5, <3>9
  <2> QED  BY <2>1, <2>2
<1> HIDE DEF Kept
<1>12. CASE \E r \in Requests : \E j : Review!Begin(r, j)
  <2>1. ~raced /\ known["panel"] = table
    BY <1>12 DEF Review!Begin
  <2>2. Reviewed /\ texts \in Nat
    BY <1>w, <2>1
  <2>3. \/ \E r \in Requests : \E j : Review!Begin(r, j) /\ Sound(table.rows, j)
        \/ \E r \in Requests : Review!Commit(r)
        \/ \E x \in Review!Loaders : Review!Read(x) \/ Review!Install(x) \/ Review!LoadFails(x)
        \/ \E x \in Review!Tasks : Review!Notified(x)
        \/ \E q \in Review!Procs : \/ Review!Disconnect(q) \/ Review!Reconnect(q)
                                   \/ Review!Restart(q)
        \/ UNCHANGED Review!personaVars
    BY <2>1, <2>2, SoundRequests
  <2>4. CASE \E r \in Requests : \E j : Review!Begin(r, j) /\ Sound(table.rows, j)
    BY <2>1, <2>4, <1>1 DEF Kept
  <2>5. CASE ~\E r \in Requests : \E j : Review!Begin(r, j) /\ Sound(table.rows, j)
    BY <2>3, <2>5, <1>2, <1>4, <1>5, <1>6, <1>7, <1>9, <1>10, <1>11 DEF Kept
  <2> QED  BY <2>4, <2>5
<1> QED
  BY <1>12, <1>2, <1>4, <1>5, <1>6, <1>7, <1>9, <1>10, <1>11, ReviewSteps DEF Kept

LEMMA SameNumber == \A S : Review!Cardinality(S) = Cardinality(S)
  BY DEF Review!Cardinality, Cardinality

LEMMA ReviewInit == Review!Init => ReviewInv
<1> SUFFICES ASSUME Review!Init PROVE ReviewInv
  OBVIOUS
<1>1. LoaderTypes /\ OneAtWork /\ SoundWork
  BY LedgersAssumption
  DEF Review!Init, LoaderTypes, OneAtWork, SoundWork, Review!NoJob, Review!Loaders
<1>2. 1 \in Review!Ids
  BY LedgersAssumption DEF Review!Ids
<1>3. PICK second \in {Review!NoRow, Review!Own("pending")} :
          /\ table.live = 1 /\ DOMAIN table.rows = Review!Ids
          /\ table.rows = [p \in Review!Ids |-> IF p = 1 THEN Review!Own("approved")
                                             ELSE IF p = 2 THEN second ELSE Review!NoRow]
  BY DEF Review!Init, Review!Starts, Review!Nothing
<1>4. /\ Review!NoRow \in PersonaRows /\ second \in PersonaRows
      /\ Review!Own("approved") \in PersonaRows
  <2>1. Review!NoRow \in PersonaRows
    BY DEF Review!NoRow, PersonaRows, Statuses
  <2>2. Review!Own("approved") \in PersonaRows /\ Review!Own("pending") \in PersonaRows
    BY DEF Review!Own, PersonaRows, Statuses
  <2> QED  BY <2>1, <2>2
<1>5. table.rows \in [Review!Ids -> PersonaRows] /\ shown = [p \in Review!Ids |-> 0]
  BY <1>3, <1>4 DEF Review!Init
<1>6. /\ table.rows[1] = Review!Own("approved")
      /\ \A p \in Review!Ids : p # 1 => table.rows[p] \in {Review!NoRow, Review!Own("pending")}
      /\ \A p \in Review!Ids : p \notin {1, 2} => table.rows[p] = Review!NoRow
  BY <1>2, <1>3
<1>7. ASSUME NEW p \in Review!Ids
      PROVE  /\ IsApproved(table.rows, p) = (p = 1)
             /\ p # 2 => ~IsOpen(table.rows, p)
             /\ p = 1 => table.rows[p].text = 0 /\ table.rows[p].status # "none"
  <2>1. CASE p = 1
    BY <2>1, <1>6 DEF IsApproved, IsOpen, Review!Own
  <2>2. CASE p # 1
    BY <2>2, <1>6 DEF IsApproved, IsOpen, Review!Own, Review!NoRow
  <2> QED  BY <2>1, <2>2
<1>8. OneEach(table.rows)
  <2> SUFFICES ASSUME NEW p \in Review!Ids, NEW o \in Review!Ids, p # o
               PROVE  /\ ~(IsOpen(table.rows, p) /\ IsOpen(table.rows, o))
                      /\ ~(IsApproved(table.rows, p) /\ IsApproved(table.rows, o))
    BY DEF OneEach
  <2>1. p # 2 \/ o # 2
    OBVIOUS
  <2>2. p # 1 \/ o # 1
    OBVIOUS
  <2> QED  BY <2>1, <2>2, <1>7
<1>9. Read(table.rows, shown)
  <2> SUFFICES ASSUME NEW p \in Review!Ids, IsApproved(table.rows, p)
               PROVE  table.rows[p].text = shown[p]
    BY DEF Read
  <2>1. table.rows[p].text = 0
    BY <1>7
  <2> QED  BY <2>1, <1>5
<1>10. Heard(table.rows, 1, placed)
  <2>1. IsApproved(table.rows, 1) /\ table.rows[1].status # "none"
    BY <1>2, <1>7
  <2> QED  BY <2>1 DEF Heard
<1>11. made \in 0 .. MaxIds /\ Unused(table.rows, made)
  <2> DEFINE used == {p \in Review!Ids : table.rows[p] # Review!NoRow}
  <2>1. used = {1} \/ (used = {1, 2} /\ 2 \in Review!Ids)
    <3>1. 1 \in used
      BY <1>2, <1>6 DEF Review!Own, Review!NoRow
    <3>2. used \subseteq {1, 2}
      BY <1>6
    <3> QED  BY <3>1, <3>2
  <2>2. Cardinality({1}) = 1
    BY FS_Singleton
  <2>3. Cardinality({1, 2}) = 2
    <3>1. IsFiniteSet({1}) /\ 2 \notin {1}
      BY FS_Singleton
    <3>2. {1, 2} = {1} \cup {2}
      OBVIOUS
    <3>3. Cardinality({1} \cup {2}) = Cardinality({1}) + 1
      BY <3>1, FS_AddElement
    <3> QED  BY <3>2, <3>3, <2>2
  <2>4. made = Cardinality(used)
    BY SameNumber DEF Review!Init
  <2>5. CASE used = {1}
    <3>1. made = 1
      BY <2>2, <2>4, <2>5
    <3>2. \A p \in Review!Ids : p > 1 => p \notin used
      BY <2>5
    <3>3. \A p \in Review!Ids : p > 1 => table.rows[p].status = "none"
      BY <3>2 DEF Review!NoRow
    <3> QED  BY <3>1, <3>3, LedgersAssumption DEF Unused
  <2>6. CASE used = {1, 2} /\ 2 \in Review!Ids
    <3>1. made = 2
      BY <2>3, <2>4, <2>6
    <3>2. 2 \in 0 .. MaxIds
      BY <2>6, LedgersAssumption DEF Review!Ids
    <3>3. \A p \in Review!Ids : p > 2 => p \notin used
      BY <2>6
    <3>4. \A p \in Review!Ids : p > 2 => table.rows[p].status = "none"
      BY <3>3 DEF Review!NoRow
    <3> QED  BY <3>1, <3>2, <3>4 DEF Unused
  <2> HIDE DEF used
  <2> QED  BY <2>1, <2>5, <2>6
<1>12. WellTyped(table.rows, table.live, made, shown)
  BY <1>2, <1>3, <1>5, <1>11 DEF WellTyped
<1> QED  BY <1>1, <1>3, <1>8, <1>9, <1>10, <1>11, <1>12 DEF ReviewInv, Reviewed, Well

LEMMA ReviewedHolds == ReviewInv => Review!ReviewHoldsAlone
<1> SUFFICES ASSUME ReviewInv, ~raced PROVE Review!ReviewHolds
  BY DEF Review!ReviewHoldsAlone
<1>1. Reviewed
  BY DEF ReviewInv
<1>2. ASSUME NEW S, \A p, o \in S : p = o PROVE Review!Cardinality(S) <= 1
  <2>1. CASE S = {}
    BY <2>1, FS_EmptySet, SameNumber
  <2>2. CASE S # {}
    <3>1. PICK p \in S : TRUE
      BY <2>2
    <3>2. S = {p}
      BY <1>2, <3>1
    <3>3. Cardinality({p}) = 1
      BY FS_Singleton
    <3> QED  BY <3>2, <3>3, SameNumber
  <2> QED  BY <2>1, <2>2
<1>3. Review!Cardinality(Review!Custom({"draft", "pending", "rejected"})) <= 1
  <2>1. \A p, o \in Review!Custom({"draft", "pending", "rejected"}) : p = o
    BY <1>1 DEF Review!Custom, Reviewed, Well, OneEach, IsOpen
  <2> QED  BY <2>1, <1>2
<1>4. Review!Cardinality(Review!Custom({"approved"})) <= 1
  <2>1. \A p, o \in Review!Custom({"approved"}) : p = o
    BY <1>1 DEF Review!Custom, Reviewed, Well, OneEach, IsApproved
  <2> QED  BY <2>1, <1>2
<1>5. table.live # 0 => Review!LiveReviewed(table.live)
  BY <1>1 DEF Review!LiveReviewed, Reviewed, Well, WellTyped, Heard, Read, IsApproved
<1> QED  BY <1>3, <1>4, <1>5 DEF Review!ReviewHolds, Review!Default

(* Members hear what was approved, while requests come one at a time on a  *)
(* copy that is up to date; and the copies of the bot and the panel follow *)
(* the table whatever fails.                                               *)
THEOREM PersonasCorrect == Review!Spec => []PersonasHold
  BY CopiesFollowed, ReviewInit, ReviewKept, ReviewedHolds, PTL
  DEF Review!Spec, PersonasHold
=============================================================================
