---------------------------- MODULE SchedulerProofs ----------------------------
(***************************************************************************)
(* Proofs about the timers, the player and the film club, for any          *)
(* constants:                                                              *)
(*   Scheduler  types with the registry's entries, and that the last timer *)
(*              of a key stands;                                           *)
(*   Player     what is heard is what is shown, and no track is lost;      *)
(*   MusicRoom  a session that is heard is not ended by a timer;           *)
(*   MCCinema   the rules of the film club, while transactions do not      *)
(*              overlap.                                                   *)
(***************************************************************************)
EXTENDS MCTimers, SequenceTheorems, FiniteSetTheorems, TLAPS

States == Live \cup {"unused", "cancelling", "finished", "gone"}

Types ==
    /\ timers \in [Keys -> Tasks \cup {None}]
    /\ state \in [Tasks -> States]
    /\ keyOf \in [Tasks -> Keys]
    /\ started \subseteq Tasks
    /\ last \in [Keys -> Tasks \cup {None}]
    /\ calls \in [Keys -> 0..MaxPerKey]

(* What the registry holds of a key was scheduled for it and is not gone;  *)
(* the last task of a key was scheduled for it.                            *)
Entries ==
    /\ \A k \in Keys : timers[k] # None =>
        keyOf[timers[k]] = k /\ state[timers[k]] \notin {"unused", "gone"}
    /\ \A k \in Keys : last[k] # None =>
        keyOf[last[k]] = k /\ state[last[k]] # "unused"
    /\ \A t \in Tasks : state[t] = "running" => t \in started

IInv == Types /\ Entries /\ LastStands

-----------------------------------------------------------------------------
LEMMA InitInv == Init => IInv
BY SchedulerAssumption DEF Init, IInv, Types, Entries, LastStands, States

LEMMA CancelledType ==
  ASSUME Types, NEW S
  PROVE  /\ Cancelled(S) \in [Tasks -> States]
         /\ \A t \in Tasks : Cancelled(S)[t] = state[t] \/ t \in S
         /\ \A t \in Tasks : Cancelled(S)[t] # state[t] =>
                state[t] \in Live /\ Cancelled(S)[t] = "cancelling"
BY DEF Types, Cancelled, States, Live

LEMMA ScheduleInv ==
  ASSUME IInv, NEW k \in Keys, NEW t \in Tasks, Schedule(k, t)
  PROVE  IInv'
<1> DEFINE c == Cancelled({timers[k]})
<1>1. /\ c \in [Tasks -> States]
      /\ \A u \in Tasks : c[u] = state[u] \/ u = timers[k]
      /\ \A u \in Tasks : c[u] # state[u] => state[u] \in Live /\ c[u] = "cancelling"
  BY CancelledType DEF IInv
<1>2. state' = [c EXCEPT ![t] = "sleeping"] /\ state[t] = "unused"
  BY DEF Schedule, Replaced
<1> HIDE DEF c
<1>3. Types'
  <2>1. state' \in [Tasks -> States]
    <3>1. "sleeping" \in States
      BY DEF States, Live
    <3>2. QED
      BY <3>1, <1>1, <1>2
  <2>2. calls' \in [Keys -> 0..MaxPerKey]
    <3>1. calls[k] \in 0..MaxPerKey /\ calls[k] < MaxPerKey
      BY DEF IInv, Types, Schedule
    <3>2. calls[k] + 1 \in 0..MaxPerKey
      BY <3>1, SchedulerAssumption
    <3>3. QED
      BY <3>2 DEF IInv, Types, Schedule
  <2>3. QED
    BY <2>1, <2>2 DEF IInv, Types, Schedule
<1>4. Entries'
  <2>1. \A u \in Tasks : u # t => \/ state'[u] = state[u]
                                  \/ state[u] \in Live /\ state'[u] = "cancelling"
    BY <1>1, <1>2
  <2>2. state'[t] = "sleeping"
    BY <1>1, <1>2
  <2>3. ASSUME NEW j \in Keys, timers'[j] # None
        PROVE  keyOf'[timers'[j]] = j /\ state'[timers'[j]] \notin {"unused", "gone"}
    BY <2>1, <2>2, <2>3, <1>2 DEF IInv, Types, Entries, Schedule, Live
  <2>4. ASSUME NEW j \in Keys, last'[j] # None
        PROVE  keyOf'[last'[j]] = j /\ state'[last'[j]] # "unused"
    BY <2>1, <2>2, <2>4, <1>2 DEF IInv, Types, Entries, Schedule, Live
  <2>5. ASSUME NEW u \in Tasks, state'[u] = "running"
        PROVE  u \in started'
    BY <2>1, <2>2, <2>5 DEF IInv, Types, Entries, Schedule
  <2>6. QED
    BY <2>3, <2>4, <2>5 DEF Entries
<1>5. LastStands'
  BY <1>1, <1>2, SchedulerAssumption DEF IInv, Types, Entries, LastStands, Schedule, Live
<1>6. QED
  BY <1>3, <1>4, <1>5 DEF IInv

LEMMA CancelInv ==
  ASSUME IInv, NEW k \in Keys, Cancel(k)
  PROVE  IInv'
<1> DEFINE c == Cancelled({timers[k]})
<1>1. /\ c \in [Tasks -> States]
      /\ \A u \in Tasks : c[u] = state[u] \/ u = timers[k]
      /\ \A u \in Tasks : c[u] # state[u] => state[u] \in Live /\ c[u] = "cancelling"
  BY CancelledType DEF IInv
<1>2. state' = c
  BY DEF Cancel
<1> HIDE DEF c
<1>3. Types'
  BY <1>1, <1>2 DEF IInv, Types, Cancel
<1>4. Entries'
  <2>1. \A u \in Tasks : \/ state'[u] = state[u]
                         \/ state[u] \in Live /\ state'[u] = "cancelling"
    BY <1>1, <1>2
  <2>2. ASSUME NEW j \in Keys, timers'[j] # None
        PROVE  keyOf'[timers'[j]] = j /\ state'[timers'[j]] \notin {"unused", "gone"}
    BY <2>1, <2>2, SMTT(60) DEF IInv, Types, Entries, Cancel, Live
  <2>3. ASSUME NEW j \in Keys, last'[j] # None
        PROVE  keyOf'[last'[j]] = j /\ state'[last'[j]] # "unused"
    BY <2>1, <2>3, SMTT(60) DEF IInv, Types, Entries, Cancel, Live
  <2>4. ASSUME NEW u \in Tasks, state'[u] = "running"
        PROVE  u \in started'
    BY <2>1, <2>4 DEF IInv, Types, Entries, Cancel
  <2>5. QED
    BY <2>2, <2>3, <2>4 DEF Entries
<1>5. LastStands'
  BY <1>1, <1>2, SchedulerAssumption DEF IInv, Types, Entries, LastStands, Cancel, Live
<1>6. QED
  BY <1>3, <1>4, <1>5 DEF IInv

LEMMA CancelAllInv == IInv /\ CancelAll => IInv'
<1> SUFFICES ASSUME IInv, CancelAll PROVE IInv'
  OBVIOUS
<1>1. state' \in [Tasks -> States]
  BY CancelledType DEF CancelAll, IInv
<1>2. \A t \in Tasks : state'[t] = "running" => state[t] = "running"
  BY CancelledType DEF CancelAll, IInv
<1>3. QED
  BY <1>1, <1>2 DEF IInv, Types, Entries, LastStands, CancelAll

LEMMA TurnInv ==
  ASSUME IInv, NEW t \in Tasks, Turn(t)
  PROVE  IInv'
<1> USE SchedulerAssumption DEF IInv, Types, Entries, LastStands, Live, States, history
<1>1. CASE Wake(t)
  BY <1>1 DEF Wake
<1>2. CASE Ends(t)
  <2>1. Types' /\ Entries'
    BY <1>2 DEF Ends
  <2>2. LastStands'
    <3> SUFFICES ASSUME NEW k \in Keys, last[k] = t
                 PROVE  t \in started
      BY <1>2 DEF Ends
    <3>1. t \in started \/ state[t] \in Live
      OBVIOUS
    <3>2. state[t] = "running" => t \in started
      OBVIOUS
    <3>3. QED
      BY <3>1, <3>2, <1>2 DEF Ends
  <2>3. QED
    BY <2>1, <2>2
<1>3. CASE DoneCallback(t)
  BY <1>3 DEF DoneCallback, Popped
<1>4. QED
  BY <1>1, <1>2, <1>3 DEF Turn

LEMMA NextInv == IInv /\ [Next]_vars => IInv'
<1>1. IInv /\ UNCHANGED vars => IInv'
  BY DEF vars, history, IInv, Types, Entries, LastStands
<1>2. QED
  BY <1>1, ScheduleInv, CancelInv, CancelAllInv, TurnInv DEF Next

LEMMA Invariant == Spec => []IInv
BY InitInv, NextInv, PTL DEF Spec

(* The registry never names a task that is gone or was scheduled under     *)
(* another key.                                                            *)
THEOREM TypeCorrect == Spec => []TypeOK
<1>1. IInv => TypeOK
  <2> SUFFICES ASSUME IInv PROVE TypeOK
    OBVIOUS
  <2>1. \A k \in Keys : timers[k] # None =>
            timers[k] \in TasksOf(k) /\ state[timers[k]] # "gone"
    BY DEF IInv, Types, Entries, TasksOf
  <2>2. QED
    BY <2>1 DEF IInv, Types, TypeOK, States
<1>2. QED
  BY <1>1, Invariant, PTL

(* Whatever callers do, the last timer of a key is stopped only by a later *)
(* call for its key.                                                       *)
THEOREM LastTimerStands == Spec => []LastStands
<1>1. IInv => LastStands
  BY DEF IInv
<1>2. QED
  BY <1>1, Invariant, PTL

-----------------------------------------------------------------------------
(* The player. First what its helpers do with sequences.                   *)
LEMMA ToSetIs ==
  ASSUME NEW T, NEW q \in Seq(T)
  PROVE  /\ Music!ToSet(q) = {q[i] : i \in 1 .. Len(q)}
         /\ Music!ToSet(q) \subseteq T
<1>1. Len(q) \in Nat /\ DOMAIN q = 1 .. Len(q) /\ \A i \in 1 .. Len(q) : q[i] \in T
  BY LenProperties, ElementOfSeq
<1>2. QED
  BY <1>1 DEF Music!ToSet

LEMMA ToSetEmpty == Music!ToSet(<<>>) = {}
BY DEF Music!ToSet

LEMMA ToSetFew ==
  ASSUME NEW x, NEW y
  PROVE  Music!ToSet(<<x>>) = {x} /\ Music!ToSet(<<x, y>>) = {x, y}
BY DEF Music!ToSet

LEMMA ToSetConcat ==
  ASSUME NEW T, NEW p \in Seq(T), NEW q \in Seq(T)
  PROVE  p \o q \in Seq(T) /\ Music!ToSet(p \o q) = Music!ToSet(p) \cup Music!ToSet(q)
<1> DEFINE r == p \o q
           m == Len(p)
           n == Len(q)
<1>1. r \in Seq(T) /\ Len(r) = m + n /\ m \in Nat /\ n \in Nat
      /\ \A i \in 1 .. m + n : r[i] = IF i <= m THEN p[i] ELSE q[i - m]
  BY ConcatProperties, LenProperties
<1>2. /\ Music!ToSet(r) = {r[i] : i \in 1 .. m + n}
      /\ Music!ToSet(p) = {p[i] : i \in 1 .. m}
      /\ Music!ToSet(q) = {q[i] : i \in 1 .. n}
  BY <1>1, ToSetIs
<1> HIDE DEF r, m, n
<1>3. \A x \in Music!ToSet(r) : x \in Music!ToSet(p) \cup Music!ToSet(q)
  <2> SUFFICES ASSUME NEW i \in 1 .. m + n PROVE r[i] \in Music!ToSet(p) \cup Music!ToSet(q)
    BY <1>2
  <2>1. CASE i <= m
    BY <2>1, <1>1, <1>2
  <2>2. CASE i > m
    <3>1. i - m \in 1 .. n /\ r[i] = q[i - m]
      BY <2>2, <1>1
    <3>2. QED
      BY <3>1, <1>2
  <2>3. QED
    BY <2>1, <2>2, <1>1
<1>4. \A x \in Music!ToSet(p) : x \in Music!ToSet(r)
  <2> SUFFICES ASSUME NEW i \in 1 .. m PROVE p[i] \in Music!ToSet(r)
    BY <1>2
  <2>1. i \in 1 .. m + n /\ r[i] = p[i]
    BY <1>1
  <2>2. QED
    BY <2>1, <1>2
<1>5. \A x \in Music!ToSet(q) : x \in Music!ToSet(r)
  <2> SUFFICES ASSUME NEW i \in 1 .. n PROVE q[i] \in Music!ToSet(r)
    BY <1>2
  <2>1. i + m \in 1 .. m + n /\ r[i + m] = q[i]
    BY <1>1
  <2>2. QED
    BY <2>1, <1>2
<1>6. QED
  BY <1>1, <1>3, <1>4, <1>5 DEF r

LEMMA ToSetHeadTail ==
  ASSUME NEW T, NEW q \in Seq(T), q # <<>>
  PROVE  /\ Head(q) \in T /\ Tail(q) \in Seq(T)
         /\ Music!ToSet(q) = {Head(q)} \cup Music!ToSet(Tail(q))
<1> DEFINE r == Tail(q)
           n == Len(q)
<1>1. Head(q) \in T /\ r \in Seq(T) /\ n \in Nat \ {0} /\ Len(r) = n - 1
      /\ \A i \in 1 .. n - 1 : r[i] = q[i + 1]
  BY HeadTailProperties, EmptySeq
<1>2. Head(q) = q[1]
  OBVIOUS
<1>3. Music!ToSet(q) = {q[i] : i \in 1 .. n} /\ Music!ToSet(r) = {r[i] : i \in 1 .. n - 1}
  BY <1>1, ToSetIs
<1> HIDE DEF r, n
<1>4. \A i \in 1 .. n : q[i] = q[1] \/ q[i] \in Music!ToSet(r)
  <2> TAKE i \in 1 .. n
  <2>1. CASE i # 1
    <3>1. i - 1 \in 1 .. n - 1 /\ r[i - 1] = q[i]
      BY <2>1, <1>1
    <3>2. QED
      BY <3>1, <1>3
  <2>2. QED
    BY <2>1
<1>5. \A i \in 1 .. n - 1 : r[i] \in Music!ToSet(q)
  <2> TAKE i \in 1 .. n - 1
  <2>1. i + 1 \in 1 .. n /\ r[i] = q[i + 1]
    BY <1>1
  <2>2. QED
    BY <2>1, <1>3
<1>6. 1 \in 1 .. n
  BY <1>1
<1>7. QED
  BY <1>1, <1>2, <1>3, <1>4, <1>5, <1>6 DEF r

LEMMA ToSetFrontLast ==
  ASSUME NEW T, NEW q \in Seq(T), q # <<>>
  PROVE  /\ Music!Last(q) \in T /\ Music!Front(q) \in Seq(T)
         /\ Music!ToSet(q) = Music!ToSet(Music!Front(q)) \cup {Music!Last(q)}
<1> DEFINE r == SubSeq(q, 1, Len(q) - 1)
           n == Len(q)
<1>1. n \in Nat \ {0} /\ \A i \in 1 .. n : q[i] \in T
  BY EmptySeq, ElementOfSeq
<1>2. r \in Seq(T) /\ Len(r) = n - 1 /\ \A i \in 1 .. n - 1 : r[i] = q[i]
  <2>1. /\ r \in Seq(T)
        /\ Len(r) = IF 1 <= n - 1 THEN n - 1 - 1 + 1 ELSE 0
        /\ \A i \in 1 .. n - 1 - 1 + 1 : r[i] = q[1 + i - 1]
    <3>1. 1 \in Int /\ n - 1 \in Int /\ \A i \in 1 .. n - 1 : q[i] \in T
      BY <1>1
    <3> HIDE DEF n
    <3>2. QED
      BY <3>1, SubSeqProperties DEF n
  <2> HIDE DEF n, r
  <2>2. QED
    BY <2>1, <1>1
<1>4. Music!Last(q) = q[n] /\ Music!Front(q) = r /\ n = Len(q)
  BY DEF Music!Last, Music!Front
<1> HIDE DEF r, n
<1>3. Music!ToSet(q) = {q[i] : i \in 1 .. n} /\ Music!ToSet(r) = {r[i] : i \in 1 .. n - 1}
  <2>1. Music!ToSet(q) = {q[i] : i \in 1 .. Len(q)} /\ Music!ToSet(r) = {r[i] : i \in 1 .. Len(r)}
    BY <1>2, ToSetIs
  <2>2. QED
    BY <2>1, <1>2, <1>4
<1>5. \A i \in 1 .. n : q[i] = q[n] \/ q[i] \in Music!ToSet(r)
  <2> TAKE i \in 1 .. n
  <2>1. CASE i # n
    <3>1. i \in 1 .. n - 1 /\ r[i] = q[i]
      BY <2>1, <1>1, <1>2
    <3>2. QED
      BY <3>1, <1>3
  <2>2. QED
    BY <2>1
<1>6. \A i \in 1 .. n - 1 : r[i] \in Music!ToSet(q)
  <2> TAKE i \in 1 .. n - 1
  <2>1. i \in 1 .. n /\ r[i] = q[i]
    BY <1>1, <1>2
  <2>2. QED
    BY <2>1, <1>3
<1>7. n \in 1 .. n
  BY <1>1
<1>8. QED
  BY <1>1, <1>2, <1>3, <1>4, <1>5, <1>6, <1>7, SMTT(60)

LEMMA ToSetAppend ==
  ASSUME NEW T, NEW q \in Seq(T), NEW x \in T
  PROVE  Append(q, x) \in Seq(T) /\ Music!ToSet(Append(q, x)) = Music!ToSet(q) \cup {x}
<1>1. Append(q, x) = q \o <<x>> /\ <<x>> \in Seq(T)
  BY AppendIsConcat
<1>2. Music!ToSet(<<x>>) = {x}
  BY ToSetFew
<1>3. q \o <<x>> \in Seq(T)
      /\ Music!ToSet(q \o <<x>>) = Music!ToSet(q) \cup Music!ToSet(<<x>>)
  BY <1>1, ToSetConcat, ZenonT(60)
<1>4. QED
  BY <1>1, <1>2, <1>3

LEMMA ToSetReverse ==
  ASSUME NEW T, NEW q \in Seq(T)
  PROVE  /\ Music!Reverse(q) \in Seq(T)
         /\ Music!ToSet(Music!Reverse(q)) = Music!ToSet(q)
<1> DEFINE r == Music!Reverse(q)
           n == Len(q)
<1>1. n \in Nat /\ \A i \in 1 .. n : q[i] \in T
  BY LenProperties, ElementOfSeq
<1>2. r = [i \in 1 .. n |-> q[(n - i) + 1]]
  BY DEF Music!Reverse
<1> HIDE DEF n, r
<1>3. \A i \in 1 .. n : (n - i) + 1 \in 1 .. n /\ (n - ((n - i) + 1)) + 1 = i
  BY <1>1
<1>4. r \in [1 .. n -> T] /\ \A i \in 1 .. n : r[i] = q[(n - i) + 1]
  BY <1>1, <1>2, <1>3
<1>5. r \in Seq(T) /\ DOMAIN r = 1 .. n
  BY <1>1, <1>4, SeqDef
<1>6. Music!ToSet(q) = {q[i] : i \in 1 .. n} /\ Music!ToSet(r) = {r[i] : i \in 1 .. n}
  BY <1>5, ToSetIs DEF Music!ToSet, n
<1>7. \A i \in 1 .. n : r[i] \in Music!ToSet(q) /\ q[i] \in Music!ToSet(r)
  <2> TAKE i \in 1 .. n
  <2>1. (n - i) + 1 \in 1 .. n /\ r[(n - i) + 1] = q[i] /\ r[i] = q[(n - i) + 1]
    BY <1>3, <1>4
  <2>2. QED
    BY <2>1, <1>6
<1>8. QED
  BY <1>5, <1>6, <1>7 DEF r

LEMMA RemoveAtType ==
  ASSUME NEW T, NEW q \in Seq(T), NEW i \in DOMAIN q
  PROVE  Music!RemoveAt(q, i) \in Seq(T)
<1>1. Len(q) \in Nat /\ i \in 1 .. Len(q) /\ \A j \in 1 .. Len(q) : q[j] \in T
  BY LenProperties, ElementOfSeq
<1>2. SubSeq(q, 1, i - 1) \in Seq(T) /\ SubSeq(q, i + 1, Len(q)) \in Seq(T)
  BY <1>1, SubSeqProperties
<1>3. QED
  BY <1>2, ConcatProperties DEF Music!RemoveAt

(* What is put at the end of the history is kept, as it holds one track at *)
(* least.                                                                  *)
LEMMA KeepsLast ==
  ASSUME NEW T, NEW h \in Seq(T), NEW x \in T
  PROVE  /\ Music!Keep(Append(h, x)) \in Seq(T)
         /\ x \in Music!ToSet(Music!Keep(Append(h, x)))
<1> DEFINE q == Append(h, x)
           n == Len(q)
           m == Music!Max({1, n - HistoryLimit + 1})
           r == SubSeq(q, m, n)
<1>1. q \in Seq(T) /\ n \in Nat \ {0} /\ q[n] = x /\ \A i \in 1 .. n : q[i] \in T
  <2>1. q \in Seq(T) /\ n = Len(h) + 1 /\ q[Len(h) + 1] = x /\ Len(h) \in Nat
    BY AppendProperties, LenProperties
  <2>2. QED
    BY <2>1, ElementOfSeq
<1>2. Music!Keep(q) = r
  BY DEF Music!Keep
<1> HIDE DEF q, n
<1>3. m \in 1 .. n
  <2>1. HistoryLimit \in Nat \ {0}
    BY TimersAssumption
  <2>2. n - HistoryLimit + 1 \in Int /\ n - HistoryLimit + 1 <= n
    BY <2>1, <1>1
  <2>3. CASE n - HistoryLimit + 1 <= 1
    <3>1. m = 1
      BY <2>2, <2>3 DEF Music!Max
    <3>2. QED
      BY <3>1, <1>1
  <2>4. CASE n - HistoryLimit + 1 > 1
    <3>1. m = n - HistoryLimit + 1
      BY <2>2, <2>4 DEF Music!Max
    <3>2. QED
      BY <3>1, <2>2, <2>4, <1>1
  <2>5. QED
    BY <2>2, <2>3, <2>4
<1> HIDE DEF m
<1>4. r \in Seq(T) /\ Len(r) = (IF m <= n THEN n - m + 1 ELSE 0)
      /\ \A i \in 1 .. n - m + 1 : r[i] = q[m + i - 1]
  <2>1. m \in Int /\ n \in Int /\ \A i \in m .. n : q[i] \in T
    BY <1>1, <1>3
  <2>2. QED
    BY <2>1, SubSeqProperties
<1> HIDE DEF r
<1>5. n - m + 1 \in 1 .. Len(r) /\ r[n - m + 1] = x
  <2>1. n - m + 1 \in 1 .. n - m + 1 /\ Len(r) = n - m + 1 /\ m + (n - m + 1) - 1 = n
    BY <1>1, <1>3, <1>4
  <2>2. QED
    BY <2>1, <1>1, <1>4
<1>6. x \in Music!ToSet(r)
  BY <1>4, <1>5, ToSetIs
<1>7. QED
  BY <1>2, <1>4, <1>6 DEF q

-----------------------------------------------------------------------------
(* The inductive invariant of the player.                                  *)
MusicTypes ==
    /\ queue \in Seq(Tracks) /\ past \in Seq(Tracks)
    /\ current \in Tracks \cup {None} /\ heard \in Tracks \cup {None}
    /\ loaders \in [Slots -> Tracks \cup {None}]
    /\ ended \in Nat /\ settling \in Nat
    /\ skipping \in BOOLEAN /\ suppress \in BOOLEAN /\ seekTo \in BOOLEAN
    /\ stopping \in BOOLEAN /\ muted \in BOOLEAN /\ fresh \subseteq Tracks
    /\ crowded \in BOOLEAN /\ hasty \in BOOLEAN

(* The voice connection, the callbacks and the loaders take turns: what is *)
(* heard is shown and has not ended; a callback has a track it is about;   *)
(* a stream is looked up when nothing is heard and no callback is due.     *)
OneLoader == \A s, r \in Slots : loaders[s] # None /\ loaders[r] # None => s = r
InTurn ==
    /\ heard # None => heard = current /\ ended = 0
    /\ ended # 0 => ended = 1 /\ current # None /\ heard = None
    /\ \A s \in Slots : loaders[s] # None => heard = None /\ ended = 0
RoundInv ==
    /\ heard # None => ~stopping
    /\ ~crowded => OneLoader /\ (~stopping => InTurn)

Listed == Music!ToSet(queue) \cup Music!ToSet(past)

(* A step back has put the current track into the queue, and the callback  *)
(* that must not put it into the history is due; a seek has its callback   *)
(* or its answer to come; and a track whose successor is being looked up   *)
(* has a place elsewhere.                                                  *)
BackDue ==
    suppress => ended = 1 /\ ~seekTo /\ current \in Music!ToSet(queue) \cup gone
SeekDue == seekTo => ended = 1 \/ settling > 0
Replaceable ==
    \A s \in Slots : loaders[s] # None /\ current # None =>
        current \in Listed \cup {loaders[s]} \cup gone
Placed ==
    \A t \in Tracks : t \in fresh \cup gone \cup Listed \cup {current}
                     \/ \E s \in Slots : loaders[s] = t
PlacesInv ==
    ~crowded /\ ~hasty =>
        \/ stopping /\ Tracks \subseteq gone
        \/ ~stopping /\ BackDue /\ SeekDue /\ Replaceable /\ Placed

(* A coroutine that announces a failure has a track that is given up.      *)
FailedInv ==
    failed \subseteq Slots /\ \A s \in failed : loaders[s] # None /\ loaders[s] \in gone

MusicInv == MusicTypes /\ FailedInv /\ RoundInv /\ PlacesInv

-----------------------------------------------------------------------------
(* What the history variables have noted after a step.                     *)
LEMMA MoreThanOne ==
  ASSUME NEW S, S \subseteq Slots, NEW a \in S, NEW b \in S, a # b
  PROVE  Music!Cardinality(S) > 1
<1>1. IsFiniteSet(S)
  BY TimersAssumption, FS_Subset
<1>2. {a, b} \subseteq S /\ {a} \subseteq {a, b}
  OBVIOUS
<1>3. IsFiniteSet({a}) /\ Cardinality({a}) = 1
  BY FS_Singleton
<1>4. Cardinality({a} \cup {b}) = 2
  <2>1. b \notin {a}
    OBVIOUS
  <2>2. Cardinality({a} \cup {b}) = Cardinality({a}) + 1
    BY <2>1, <1>3, FS_AddElement
  <2>3. QED
    BY <2>2, <1>3
<1>5. Cardinality({a} \cup {b}) <= Cardinality(S) /\ Cardinality(S) \in Nat
  <2>1. {a} \cup {b} \subseteq S
    OBVIOUS
  <2>2. QED
    BY <2>1, <1>1, FS_Subset, FS_CardinalityType
<1>6. Music!Cardinality(S) = Cardinality(S)
  BY DEF Music!Cardinality, Cardinality
<1>7. QED
  BY <1>4, <1>5, <1>6

LEMMA Noted ==
  ASSUME MusicTypes, Music!MCNext
  PROVE  /\ crowded' \in BOOLEAN /\ hasty' \in BOOLEAN
         /\ ~crowded' => ~crowded /\ OneLoader'
         /\ ~hasty' => ~hasty /\ ~Music!Hasty
         /\ gone \subseteq gone'
         /\ stopping' => Tracks \subseteq gone'
<1>1. /\ crowded' = (crowded \/ Music!Cardinality(Music!Loading') > 1)
      /\ hasty' = (hasty \/ Music!Hasty)
  BY DEF Music!MCNext
<1>2. gone \subseteq gone' /\ (stopping' => Tracks \subseteq gone')
  BY DEF Music!MCNext
<1>3. ASSUME ~crowded' PROVE OneLoader'
  <2>1. SUFFICES ASSUME NEW s \in Slots, NEW r \in Slots, loaders'[s] # None, loaders'[r] # None,
                        s # r
                 PROVE  FALSE
    BY DEF OneLoader
  <2>2. s \in Music!Loading' /\ r \in Music!Loading' /\ Music!Loading' \subseteq Slots
    BY <2>1 DEF Music!Loading, Music!Idle
  <2>3. Music!Cardinality(Music!Loading') > 1
    BY <2>1, <2>2, MoreThanOne
  <2>4. QED
    BY <2>3, <1>1, <1>3
<1>4. QED
  BY <1>1, <1>2, <1>3 DEF MusicTypes

LEMMA SlotIsFree ==
  ASSUME Music!HasSlot
  PROVE  Music!FreeSlot \in Slots /\ loaders[Music!FreeSlot] = None
BY DEF Music!HasSlot, Music!FreeSlot, Music!Idle

(* _play_next, on sets: the head of the queue goes to the loader, or       *)
(* nothing is shown any more.                                              *)
LEMMA PlayNextDoes ==
  ASSUME MusicTypes, NEW s \in Slots, NEW q \in Seq(Tracks), Music!PlayNext(s, q)
  PROVE  /\ queue' \in Seq(Tracks) /\ current' \in Tracks \cup {None}
         /\ loaders' \in [Slots -> Tracks \cup {None}]
         /\ \A r \in Slots : r # s => loaders'[r] = loaders[r]
         /\ \/ /\ loaders'[s] = None /\ current' = None
               /\ Music!ToSet(q) = {} /\ Music!ToSet(queue') = {}
            \/ /\ loaders'[s] \in Tracks /\ current' = current
               /\ Music!ToSet(q) = {loaders'[s]} \cup Music!ToSet(queue')
<1>1. CASE q = <<>>
  <2>1. queue' = q /\ current' = None /\ loaders' = [loaders EXCEPT ![s] = None]
    BY <1>1 DEF Music!PlayNext
  <2>2. QED
    BY <2>1, <1>1, ToSetEmpty DEF MusicTypes
<1>2. CASE q # <<>>
  <2>1. queue' = Tail(q) /\ current' = current /\ loaders' = [loaders EXCEPT ![s] = Head(q)]
    BY <1>2 DEF Music!PlayNext
  <2>2. /\ Head(q) \in Tracks /\ Tail(q) \in Seq(Tracks)
        /\ Music!ToSet(q) = {Head(q)} \cup Music!ToSet(Tail(q))
    BY <1>2, ToSetHeadTail
  <2>3. QED
    BY <2>1, <2>2 DEF MusicTypes
<1>3. QED
  BY <1>1, <1>2

LEMMA VoiceStopDoes ==
  ASSUME MusicTypes, Music!VoiceStop
  PROVE  /\ heard' = None /\ muted' \in BOOLEAN /\ ended' \in Nat
         /\ heard = None => ended' = ended
         /\ heard # None => ended' = ended + 1
<1>1. heard' = None /\ muted' = FALSE
  BY DEF Music!VoiceStop
<1>2. ended' = (IF heard = None THEN ended ELSE ended + 1) /\ ended \in Nat
  BY DEF Music!VoiceStop, MusicTypes
<1>3. /\ ended' \in Nat
      /\ heard = None => ended' = ended
      /\ heard # None => ended' = ended + 1
  BY <1>2
<1>4. muted' \in BOOLEAN
  BY <1>1
<1>5. QED
  BY <1>1, <1>3, <1>4

LEMMA AdvanceDoes ==
  ASSUME MusicTypes, Music!Advance
  PROVE  ended' \in Nat /\ ended' = ended - 1 /\ ended # 0 /\ Music!FreeSlot \in Slots
         /\ loaders[Music!FreeSlot] = None
<1>1. ended \in Nat /\ ended > 0 /\ ended' = ended - 1
  BY DEF MusicTypes, Music!Advance
<1>2. QED
  BY <1>1, SlotIsFree DEF Music!Advance

(* The actions of the player, one by one.                                  *)
LEMMA MusicActions ==
  ASSUME Music!MCNext
  PROVE  \/ \E t \in fresh, front \in BOOLEAN : Music!Enqueue(<<t>>, front)
         \/ Music!Skip \/ Music!Previous \/ Music!TogglePause \/ Music!CycleRepeat
         \/ Music!Seek \/ Music!Shuffle \/ Music!RemoveOne \/ Music!Stop
         \/ \E s \in Slots : Music!Loaded(s) \/ Music!LoadFails(s) \/ Music!TriesNext(s)
         \/ Music!TrackEnds \/ Music!AdvanceStopped \/ Music!AdvanceSeek \/ Music!AdvanceOn
         \/ Music!Settle
<1>1. Music!Next
  BY DEF Music!MCNext
<1>2. ASSUME fresh # {}, NEW front \in BOOLEAN, Music!Enqueue(<<Music!NextTrack>>, front)
      PROVE  \E t \in fresh, f \in BOOLEAN : Music!Enqueue(<<t>>, f)
  <2>1. Music!NextTrack \in fresh
    BY <1>2 DEF Music!NextTrack
  <2>2. QED
    BY <2>1, <1>2
<1>3. Music!Asked =>
         \/ \E t \in fresh, front \in BOOLEAN : Music!Enqueue(<<t>>, front)
         \/ Music!Skip \/ Music!Previous \/ Music!TogglePause \/ Music!CycleRepeat
         \/ Music!Seek \/ Music!Shuffle \/ Music!RemoveOne \/ Music!Stop
  BY <1>2 DEF Music!Asked
<1>4. QED
  BY <1>1, <1>3 DEF Music!Next, Music!Load, Music!Answer

LEMMA FailureNoted ==
  ASSUME Music!MCNext, NEW s \in Slots, Music!LoadFails(s)
  PROVE  loaders[s] \in gone'
<1>1. s \in {r \in Music!Loading : Music!LoadFails(r)}
  BY DEF Music!Loading, Music!LoadFails
<1>2. {loaders[r] : r \in {u \in Music!Loading : Music!LoadFails(u)}} \subseteq gone'
  BY DEF Music!MCNext
<1>3. QED
  BY <1>1, <1>2

LEMMA FailedKept == MusicTypes /\ FailedInv /\ Music!MCNext => FailedInv'
<1> SUFFICES ASSUME MusicTypes, FailedInv, Music!MCNext PROVE FailedInv'
  OBVIOUS
<1> DEFINE Kept == /\ failed' \subseteq failed
                   /\ \A r \in Slots : r \in failed' => loaders'[r] = loaders[r]
<1>1. gone \subseteq gone'
  BY Noted
<1>2. Kept => FailedInv'
  BY <1>1 DEF FailedInv
<1>3. ASSUME NEW s \in Slots, NEW q \in Seq(Tracks), Music!PlayNext(s, q) PROVE Kept
  <2>1. \A r \in Slots : r # s => loaders'[r] = loaders[r]
    BY <1>3, PlayNextDoes
  <2>2. failed' = failed \ {s}
    BY <1>3 DEF Music!PlayNext
  <2>3. QED
    BY <2>1, <2>2
<1>4. UNCHANGED <<failed, loaders>> => Kept
  OBVIOUS
<1> HIDE DEF Kept
<1>5. ASSUME Music!HasSlot, NEW q \in Seq(Tracks), Music!PlayNext(Music!FreeSlot, q) PROVE Kept
  <2>1. Music!FreeSlot \in Slots
    BY <1>5, SlotIsFree
  <2>2. QED
    BY <2>1, <1>5, <1>3
<1>6. ASSUME NEW t \in fresh, NEW front \in BOOLEAN, Music!Enqueue(<<t>>, front) PROVE Kept
  <2> DEFINE q == IF front THEN <<t>> \o queue ELSE queue \o <<t>>
  <2>1. Music!HasSlot
    BY <1>6 DEF Music!Enqueue, Music!Command
  <2>2. q \in Seq(Tracks)
    BY DEF MusicTypes
  <2>3. IF current = None THEN Music!PlayNext(Music!FreeSlot, q) ELSE Music!Stay(q)
    BY <1>6 DEF Music!Enqueue
  <2> HIDE DEF q
  <2>4. QED
    BY <2>1, <2>2, <2>3, <1>5, <1>4 DEF Music!Stay
<1>7. ASSUME Music!Skip PROVE Kept
  <2>1. Music!HasSlot
    BY <1>7 DEF Music!Skip, Music!Command
  <2>2. Music!PlayNext(Music!FreeSlot, queue) \/ UNCHANGED <<failed, loaders>>
    BY <1>7 DEF Music!Skip, Music!Stay
  <2>3. queue \in Seq(Tracks)
    BY DEF MusicTypes
  <2>4. QED
    BY <2>1, <2>2, <2>3, <1>5, <1>4
<1>8. ASSUME Music!Previous PROVE Kept
  <2> DEFINE q == <<Music!Last(past)>> \o queue
  <2>1. Music!HasSlot
    BY <1>8 DEF Music!Previous, Music!Command
  <2>2. Music!PlayNext(Music!FreeSlot, q) \/ UNCHANGED <<failed, loaders>>
    BY <1>8 DEF Music!Previous, Music!Stay
  <2>3. q \in Seq(Tracks)
    <3>1. past # <<>> /\ past \in Seq(Tracks)
      BY <1>8 DEF Music!Previous, MusicTypes
    <3>2. Music!Last(past) \in Tracks
      BY <3>1, ToSetFrontLast
    <3>3. <<Music!Last(past)>> \in Seq(Tracks) /\ queue \in Seq(Tracks)
      BY <3>2 DEF MusicTypes
    <3>4. QED
      BY <3>3, ToSetConcat
  <2> HIDE DEF q
  <2>4. QED
    BY <2>1, <2>3, <2>2, <1>5, <1>4
<1>9. ASSUME \/ Music!TogglePause \/ Music!CycleRepeat \/ Music!Seek \/ Music!Shuffle
             \/ Music!RemoveOne \/ Music!Stop \/ Music!TrackEnds \/ Music!AdvanceStopped
             \/ Music!Settle
      PROVE  Kept
  BY <1>9, <1>4 DEF Music!TogglePause, Music!CycleRepeat, Music!Seek, Music!Shuffle,
     Music!RemoveOne, Music!Stop, Music!TrackEnds, Music!AdvanceStopped, Music!Settle
<1>10. ASSUME NEW s \in Slots, Music!Loaded(s) PROVE Kept
  <2>1. s \notin failed /\ failed' = failed /\ loaders' = [loaders EXCEPT ![s] = None]
    BY <1>10 DEF Music!Loaded
  <2>2. QED
    BY <2>1 DEF Kept, MusicTypes
<1>11. ASSUME NEW s \in Slots, Music!LoadFails(s) PROVE FailedInv'
  <2>1. loaders[s] # None /\ loaders' = loaders /\ failed' = failed \cup {s}
    BY <1>11 DEF Music!LoadFails, Music!Idle
  <2>2. loaders[s] \in gone'
    BY <1>11, FailureNoted
  <2>3. QED
    BY <2>1, <2>2, <1>1 DEF FailedInv
<1>12. ASSUME NEW s \in Slots, Music!TriesNext(s) PROVE Kept
  BY <1>12, <1>3 DEF Music!TriesNext, MusicTypes
<1>13. ASSUME Music!AdvanceSeek PROVE Kept
  <2>1. Music!HasSlot
    BY <1>13 DEF Music!AdvanceSeek, Music!Advance
  <2>2. Music!PlayNext(Music!FreeSlot, queue) \/ UNCHANGED <<failed, loaders>>
    BY <1>13 DEF Music!AdvanceSeek
  <2>3. queue \in Seq(Tracks)
    BY DEF MusicTypes
  <2>4. QED
    BY <2>1, <2>2, <2>3, <1>5, <1>4
<1>14. ASSUME Music!AdvanceOn PROVE Kept
  <2> DEFINE counts == current # None /\ ~suppress
             replayed == repeat = "one" /\ ~skipping
             q == IF counts /\ repeat = "all" THEN Append(queue, current) ELSE queue
  <2>1. Music!HasSlot
    BY <1>14 DEF Music!AdvanceOn, Music!Advance
  <2>2. q \in Seq(Tracks)
    BY ToSetAppend DEF MusicTypes
  <2>3. \/ Music!PlayNext(Music!FreeSlot, q)
        \/ failed' = failed /\ loaders' = [loaders EXCEPT ![Music!FreeSlot] = current]
    BY <1>14 DEF Music!AdvanceOn
  <2> HIDE DEF q, counts, replayed
  <2>4. Music!FreeSlot \in Slots /\ loaders[Music!FreeSlot] = None
    BY <2>1, SlotIsFree
  <2>5. Music!FreeSlot \notin failed
    BY <2>4 DEF FailedInv
  <2>6. failed' = failed /\ loaders' = [loaders EXCEPT ![Music!FreeSlot] = current] => Kept
    BY <2>4, <2>5 DEF Kept, MusicTypes
  <2>7. QED
    BY <2>1, <2>2, <2>3, <2>6, <1>5
<1>15. QED
  BY <1>2, <1>6, <1>7, <1>8, <1>9, <1>10, <1>11, <1>12, <1>13, <1>14, MusicActions

(* A step keeps the invariant if it keeps what depends on the history      *)
(* variables as long as they say nothing.                                  *)
Calm == ~stopping /\ OneLoader /\ InTurn
Safe == BackDue /\ SeekDue /\ Replaceable /\ Placed
LEMMA Assembled ==
  ASSUME MusicInv, Music!MCNext, MusicTypes',
         stopping => stopping',
         heard' # None => ~stopping',
         ~crowded' /\ ~stopping' /\ Calm => InTurn',
         ~crowded' /\ ~stopping' /\ Calm /\ Safe /\ ~Music!Hasty => Safe'
  PROVE  MusicInv'
<1>1. /\ ~crowded' => ~crowded /\ OneLoader'
      /\ ~hasty' => ~hasty /\ ~Music!Hasty
      /\ stopping' => Tracks \subseteq gone'
  BY Noted DEF MusicInv
<1>2. ~crowded' /\ ~stopping' => Calm
  BY <1>1 DEF MusicInv, RoundInv, Calm
<1>3. ~crowded' /\ ~hasty' /\ ~stopping' => Safe
  BY <1>1 DEF MusicInv, PlacesInv, Safe
<1>4. RoundInv'
  BY <1>1, <1>2 DEF RoundInv
<1>5. PlacesInv'
  BY <1>1, <1>2, <1>3 DEF PlacesInv, Safe
<1>6. FailedInv'
  BY FailedKept DEF MusicInv
<1>7. QED
  BY <1>4, <1>5, <1>6 DEF MusicInv

LEMMA MusicTypesKept ==
  ASSUME MusicTypes, Music!MCNext
  PROVE  MusicTypes'
<1>1. crowded' \in BOOLEAN /\ hasty' \in BOOLEAN
  BY Noted
<1> DEFINE
      Lists == queue' \in Seq(Tracks) /\ past' \in Seq(Tracks)
      Shown == /\ current' \in Tracks \cup {None} /\ heard' \in Tracks \cup {None}
               /\ loaders' \in [Slots -> Tracks \cup {None}]
      Rest == /\ ended' \in Nat /\ settling' \in Nat /\ fresh' \subseteq Tracks
              /\ skipping' \in BOOLEAN /\ suppress' \in BOOLEAN /\ seekTo' \in BOOLEAN
              /\ stopping' \in BOOLEAN /\ muted' \in BOOLEAN
<1>2. SUFFICES Lists /\ Shown /\ Rest
  BY <1>1 DEF MusicTypes
<1> USE DEF Music!lists, Music!flags, Music!voice, Music!Command
<1>3. ASSUME NEW t \in fresh, NEW front \in BOOLEAN, Music!Enqueue(<<t>>, front)
      PROVE  Lists /\ Shown /\ Rest
  <2>1. t \in Tracks /\ <<t>> \in Seq(Tracks) /\ <<t>> \o queue \in Seq(Tracks)
        /\ queue \o <<t>> \in Seq(Tracks)
    <3>1. t \in Tracks
      BY DEF MusicTypes
    <3>2. <<t>> \in Seq(Tracks)
      BY <3>1
    <3>3. QED
      BY <3>1, <3>2, ToSetConcat DEF MusicTypes
  <2>2. Music!FreeSlot \in Slots
    BY <1>3, SlotIsFree DEF Music!Enqueue
  <2>3. queue' \in Seq(Tracks) /\ current' \in Tracks \cup {None}
        /\ loaders' \in [Slots -> Tracks \cup {None}]
    <3> DEFINE q == IF front THEN <<t>> \o queue ELSE queue \o <<t>>
    <3>1. q \in Seq(Tracks)
      BY <2>1
    <3>2. IF current = None THEN Music!PlayNext(Music!FreeSlot, q) ELSE Music!Stay(q)
      BY <1>3 DEF Music!Enqueue
    <3> HIDE DEF q
    <3>3. CASE current = None
      BY <3>1, <3>2, <3>3, <2>2, PlayNextDoes
    <3>4. CASE current # None
      BY <3>1, <3>2, <3>4 DEF Music!Stay, MusicTypes
    <3>5. QED
      BY <3>3, <3>4
  <2>4. past' = past /\ heard' = heard /\ Rest
    BY <1>3 DEF Music!Enqueue, MusicTypes
  <2>5. QED
    BY <2>3, <2>4 DEF MusicTypes
<1>4. CASE Music!Skip
  <2>1. Music!FreeSlot \in Slots
    BY <1>4, SlotIsFree DEF Music!Skip
  <2>2. CASE current = None
    <3>1. Music!PlayNext(Music!FreeSlot, queue) /\ UNCHANGED <<skipping, heard, muted, ended>>
      BY <1>4, <2>2 DEF Music!Skip
    <3>2. queue' \in Seq(Tracks) /\ current' \in Tracks \cup {None}
          /\ loaders' \in [Slots -> Tracks \cup {None}]
      BY <3>1, <2>1, PlayNextDoes DEF MusicTypes
    <3>3. QED
      BY <3>1, <3>2, <1>4 DEF Music!Skip, MusicTypes
  <2>3. CASE current # None
    <3>1. Music!VoiceStop /\ Music!Stay(queue) /\ skipping' = TRUE
      BY <1>4, <2>3 DEF Music!Skip
    <3>2. QED
      BY <1>4, <3>1, VoiceStopDoes DEF Music!Skip, Music!Stay, MusicTypes
  <2>4. QED
    BY <2>2, <2>3
<1>5. CASE Music!Previous
  <2>1. Music!FreeSlot \in Slots /\ past # <<>>
    BY <1>5, SlotIsFree DEF Music!Previous
  <2>2. Music!Last(past) \in Tracks /\ Music!Front(past) \in Seq(Tracks)
    BY <2>1, ToSetFrontLast DEF MusicTypes
  <2>3. past' \in Seq(Tracks)
    BY <1>5, <2>2 DEF Music!Previous
  <2>4. CASE current = None
    <3>1. /\ Music!PlayNext(Music!FreeSlot, <<Music!Last(past)>> \o queue)
          /\ UNCHANGED <<skipping, heard, muted, ended>>
      BY <1>5, <2>4 DEF Music!Previous
    <3>2. <<Music!Last(past)>> \o queue \in Seq(Tracks)
      <4>1. <<Music!Last(past)>> \in Seq(Tracks)
        BY <2>2
      <4>2. QED
        BY <4>1, ToSetConcat DEF MusicTypes
    <3>3. queue' \in Seq(Tracks) /\ current' \in Tracks \cup {None}
          /\ loaders' \in [Slots -> Tracks \cup {None}]
      BY <3>1, <3>2, <2>1, PlayNextDoes
    <3>4. QED
      BY <3>1, <3>3, <2>3, <1>5 DEF Music!Previous, MusicTypes
  <2>5. CASE current # None
    <3>1. <<Music!Last(past), current>> \o queue \in Seq(Tracks)
      <4>1. <<Music!Last(past), current>> \in Seq(Tracks)
        BY <2>2, <2>5 DEF MusicTypes
      <4>2. QED
        BY <4>1, ToSetConcat DEF MusicTypes
    <3>2. queue' = <<Music!Last(past), current>> \o queue /\ Music!VoiceStop
          /\ UNCHANGED <<current, loaders>> /\ skipping' = TRUE
      BY <1>5, <2>5 DEF Music!Previous, Music!Stay
    <3>3. QED
      BY <3>1, <3>2, <2>3, <1>5, VoiceStopDoes DEF Music!Previous, MusicTypes
  <2>6. QED
    BY <2>4, <2>5
<1>6. CASE Music!TogglePause
  BY <1>6 DEF Music!TogglePause, MusicTypes
<1>7. CASE Music!CycleRepeat
  BY <1>7 DEF Music!CycleRepeat, MusicTypes
<1>8. CASE Music!Seek
  BY <1>8, VoiceStopDoes DEF Music!Seek, MusicTypes
<1>9. CASE Music!Shuffle
  <2>1. queue' \in Seq(Tracks)
    BY <1>9, ToSetReverse DEF Music!Shuffle, MusicTypes
  <2>2. QED
    BY <1>9, <2>1 DEF Music!Shuffle, MusicTypes
<1>10. CASE Music!RemoveOne
  <2>1. queue' \in Seq(Tracks)
    BY <1>10, RemoveAtType DEF Music!RemoveOne, MusicTypes
  <2>2. QED
    BY <1>10, <2>1 DEF Music!RemoveOne, MusicTypes
<1>11. CASE Music!Stop
  BY <1>11, VoiceStopDoes, EmptySeq DEF Music!Stop, MusicTypes
<1>12. ASSUME NEW s \in Slots, Music!Loaded(s)
       PROVE  Lists /\ Shown /\ Rest
  <2>1. loaders[s] \in Tracks \cup {None}
    BY DEF MusicTypes
  <2>2. QED
    BY <1>12, <2>1 DEF Music!Loaded, Music!Play, MusicTypes
<1>13. ASSUME NEW s \in Slots, Music!LoadFails(s)
       PROVE  Lists /\ Shown /\ Rest
  BY <1>13 DEF Music!LoadFails, MusicTypes
<1>14. ASSUME NEW s \in Slots, Music!TriesNext(s)
       PROVE  Lists /\ Shown /\ Rest
  <2>1. queue' \in Seq(Tracks) /\ current' \in Tracks \cup {None}
        /\ loaders' \in [Slots -> Tracks \cup {None}]
    BY <1>14, PlayNextDoes DEF Music!TriesNext, MusicTypes
  <2>2. QED
    BY <1>14, <2>1 DEF Music!TriesNext, MusicTypes
<1>15. CASE Music!TrackEnds
  BY <1>15, VoiceStopDoes DEF Music!TrackEnds, MusicTypes
<1>16. CASE Music!AdvanceStopped
  BY <1>16, AdvanceDoes DEF Music!AdvanceStopped, MusicTypes
<1>17. CASE Music!AdvanceSeek
  <2>1. Music!FreeSlot \in Slots
    BY <1>17, SlotIsFree DEF Music!AdvanceSeek, Music!Advance
  <2>2. CASE current = None
    <3>1. Music!PlayNext(Music!FreeSlot, queue)
      BY <1>17, <2>2 DEF Music!AdvanceSeek
    <3>2. queue' \in Seq(Tracks) /\ current' \in Tracks \cup {None}
          /\ loaders' \in [Slots -> Tracks \cup {None}]
      BY <3>1, <2>1, PlayNextDoes DEF MusicTypes
    <3>3. QED
      BY <3>2, <2>2, <1>17, AdvanceDoes DEF Music!AdvanceSeek, MusicTypes
  <2>3. CASE current # None
    <3>1. ended' \in Nat /\ settling' \in Nat
      <4>1. settling \in Nat /\ settling + 1 \in Nat
        BY DEF MusicTypes
      <4>2. settling' = settling \/ settling' = settling + 1
        BY <1>17, <2>3 DEF Music!AdvanceSeek
      <4>3. QED
        BY <4>1, <4>2, <1>17, AdvanceDoes DEF Music!AdvanceSeek
    <3>2. Music!Play(current)
      BY <1>17, <2>3 DEF Music!AdvanceSeek
    <3>3. heard' \in {current, heard} /\ current' = current /\ muted' \in BOOLEAN
      BY <3>2 DEF Music!Play, MusicTypes
    <3>4. QED
      BY <3>1, <3>3, <2>3, <1>17 DEF Music!AdvanceSeek, MusicTypes
  <2>4. QED
    BY <2>2, <2>3
<1>18. CASE Music!Settle
  <2>1. settling' \in Nat
    <3>1. settling \in Nat /\ settling > 0 /\ settling' = settling - 1
      BY <1>18 DEF Music!Settle, MusicTypes
    <3>2. QED
      BY <3>1
  <2>2. QED
    BY <1>18, <2>1 DEF Music!Settle, MusicTypes
<1>19. CASE Music!AdvanceOn
  <2>1. Music!FreeSlot \in Slots
    BY <1>19, SlotIsFree DEF Music!AdvanceOn, Music!Advance
  <2> DEFINE counts == current # None /\ ~suppress
             replayed == repeat = "one" /\ ~skipping
             q == IF counts /\ repeat = "all" THEN Append(queue, current) ELSE queue
             h == IF counts THEN Music!Keep(Append(past, current)) ELSE past
  <2>2. q \in Seq(Tracks) /\ h \in Seq(Tracks)
    BY ToSetAppend, KeepsLast DEF MusicTypes
  <2>3. IF counts /\ replayed
        THEN loaders' = [loaders EXCEPT ![Music!FreeSlot] = current]
             /\ UNCHANGED <<queue, past, current>>
        ELSE past' = h /\ Music!PlayNext(Music!FreeSlot, q)
    BY <1>19 DEF Music!AdvanceOn
  <2> HIDE DEF q, h, counts, replayed
  <2>4. Rest /\ heard' = heard
    BY <1>19, AdvanceDoes DEF Music!AdvanceOn, MusicTypes
  <2>5. CASE counts /\ replayed
    BY <2>1, <2>3, <2>4, <2>5 DEF MusicTypes
  <2>6. CASE ~(counts /\ replayed)
    <3>1. queue' \in Seq(Tracks) /\ current' \in Tracks \cup {None}
          /\ loaders' \in [Slots -> Tracks \cup {None}]
      BY <2>1, <2>2, <2>3, <2>6, PlayNextDoes
    <3>2. QED
      BY <3>1, <2>2, <2>3, <2>4, <2>6 DEF MusicTypes
  <2>7. QED
    BY <2>5, <2>6
<1>20. QED
  BY <1>3, <1>4, <1>5, <1>6, <1>7, <1>8, <1>9, <1>10, <1>11, <1>12, <1>13, <1>14, <1>15,
     <1>16, <1>17, <1>18, <1>19, MusicActions

-----------------------------------------------------------------------------
(* The invariant, action by action.                                        *)
LEMMA Unmoved ==
  ASSUME gone \subseteq gone',
         UNCHANGED <<queue, past, current, heard, loaders, ended, settling, suppress, seekTo,
                     stopping, fresh>>
  PROVE  (InTurn => InTurn') /\ (Safe => Safe')
<1>1. InTurn => InTurn'
  BY DEF InTurn
<1>2. BackDue => BackDue'
  BY DEF BackDue
<1>3. SeekDue => SeekDue'
  BY DEF SeekDue
<1>4. Replaceable => Replaceable'
  BY DEF Replaceable, Listed
<1>5. Placed => Placed'
  BY DEF Placed, Listed
<1>6. QED
  BY <1>1, <1>2, <1>3, <1>4, <1>5 DEF Safe

(* A track that is in the list or with another loader stays in sight.      *)
LEMMA StaysInSight ==
  ASSUME MusicTypes, NEW s \in Slots, NEW q \in Seq(Tracks), Music!PlayNext(s, q),
         NEW t \in Tracks,
         t \in Music!ToSet(q) \/ \E r \in Slots : r # s /\ loaders[r] = t
  PROVE  t \in Music!ToSet(queue') \/ \E r \in Slots : loaders'[r] = t
BY PlayNextDoes

LEMMA QuietInTurn ==
  ASSUME heard' = None, ended' = 0
  PROVE  InTurn'
BY DEF InTurn

LEMMA EnqueueKept ==
  ASSUME MusicInv, Music!MCNext, MusicTypes',
         NEW t \in fresh, NEW front \in BOOLEAN, Music!Enqueue(<<t>>, front)
  PROVE  MusicInv'
<1> DEFINE q == IF front THEN <<t>> \o queue ELSE queue \o <<t>>
<1>1. t \in Tracks /\ q \in Seq(Tracks) /\ Music!ToSet(q) = Music!ToSet(queue) \cup {t}
  <2>1. t \in Tracks
    BY DEF MusicInv, MusicTypes
  <2>2. <<t>> \in Seq(Tracks) /\ queue \in Seq(Tracks)
    BY <2>1 DEF MusicInv, MusicTypes
  <2>3. Music!ToSet(<<t>>) = {t}
    BY ToSetFew
  <2>4. <<t>> \o queue \in Seq(Tracks)
        /\ Music!ToSet(<<t>> \o queue) = Music!ToSet(<<t>>) \cup Music!ToSet(queue)
    BY ZenonT(60), <2>2, ToSetConcat
  <2>5. queue \o <<t>> \in Seq(Tracks)
        /\ Music!ToSet(queue \o <<t>>) = Music!ToSet(queue) \cup Music!ToSet(<<t>>)
    BY ZenonT(60), <2>2, ToSetConcat
  <2>6. QED
    BY <2>1, <2>3, <2>4, <2>5
<1>2. /\ IF current = None THEN Music!PlayNext(Music!FreeSlot, q) ELSE Music!Stay(q)
      /\ fresh' = fresh \ Music!ToSet(<<t>>)
      /\ UNCHANGED <<past, suppress, seekTo, stopping, heard, ended, settling>>
  BY DEF Music!Enqueue, Music!flags, Music!voice
<1>3. fresh' = fresh \ {t}
  BY <1>2, ToSetFew
<1>4. Music!FreeSlot \in Slots /\ loaders[Music!FreeSlot] = None
  BY SlotIsFree DEF Music!Enqueue, Music!Command
<1>5. MusicTypes /\ RoundInv /\ gone \subseteq gone' /\ None \notin Tracks
  BY Noted, TimersAssumption DEF MusicInv
<1> HIDE DEF q
<1>6. ASSUME Calm PROVE InTurn'
  <2>1. CASE current = None
    <3>1. heard' = None /\ ended' = 0
      BY <2>1, <1>2, <1>6 DEF Calm, InTurn
    <3>2. QED
      BY <3>1, QuietInTurn
  <2>2. CASE current # None
    BY <2>2, <1>2, <1>6 DEF Calm, InTurn, Music!Stay
  <2>3. QED
    BY <2>1, <2>2
<1>7. ASSUME Calm, Safe PROVE Safe'
  <2>1. CASE current = None
    <3>1. Music!PlayNext(Music!FreeSlot, q) /\ ended = 0 /\ ~suppress
      BY <2>1, <1>2, <1>7 DEF Calm, InTurn, Safe, BackDue
    <3>2. current' = None
      BY <3>1, <2>1, <1>1, <1>4, <1>5, PlayNextDoes
    <3>3. BackDue'
      BY <3>1, <1>2 DEF BackDue
    <3>4. SeekDue'
      BY <1>2, <1>7 DEF SeekDue, Safe
    <3>5. Replaceable'
      BY <3>2 DEF Replaceable
    <3>6. ASSUME NEW x \in Tracks
          PROVE  \/ x \in fresh' \cup gone' \cup Listed' \cup {current'}
                 \/ \E s \in Slots : loaders'[s] = x
      <4>1. \/ x \in fresh \cup gone \cup Listed
            \/ \E s \in Slots : loaders[s] = x
        BY <1>7, <2>1, <1>5 DEF Safe, Placed
      <4>2. CASE x \in fresh' \cup gone \cup Music!ToSet(past)
        BY <4>2, <1>2, <1>5 DEF Listed
      <4>3. CASE x \in Music!ToSet(q) \/ \E s \in Slots : loaders[s] = x
        <5>1. x \in Music!ToSet(queue') \/ \E r \in Slots : loaders'[r] = x
          BY <4>3, <3>1, <1>1, <1>4, <1>5, StaysInSight
        <5>2. QED
          BY <5>1 DEF Listed
      <4>4. QED
        BY <4>1, <4>2, <4>3, <1>1, <1>3 DEF Listed
    <3>7. QED
      BY <3>3, <3>4, <3>5, <3>6 DEF Safe, Placed
  <2>2. CASE current # None
    <3>1. queue' = q /\ UNCHANGED <<current, loaders>>
      BY <2>2, <1>2 DEF Music!Stay
    <3>2. Music!ToSet(queue') = Music!ToSet(queue) \cup {t}
      BY <3>1, <1>1
    <3>3. BackDue'
      BY <3>1, <3>2, <1>2, <1>5, <1>7 DEF Safe, BackDue
    <3>4. SeekDue'
      BY <1>2, <1>7 DEF Safe, SeekDue
    <3>5. Replaceable'
      BY <3>1, <3>2, <1>2, <1>5, <1>7 DEF Safe, Replaceable, Listed
    <3>6. Placed'
      BY <3>1, <3>2, <1>2, <1>3, <1>5, <1>7 DEF Safe, Placed, Listed
    <3>7. QED
      BY <3>3, <3>4, <3>5, <3>6 DEF Safe
  <2>3. QED
    BY <2>1, <2>2
<1>8. stopping' = stopping /\ (heard' # None => ~stopping')
  BY <1>2, <1>5 DEF RoundInv
<1>9. QED
  BY <1>6, <1>7, <1>8, Assembled

LEMMA SkipKept ==
  ASSUME MusicInv, Music!MCNext, MusicTypes', Music!Skip
  PROVE  MusicInv'
<1>1. /\ ~stopping
      /\ UNCHANGED <<past, suppress, seekTo, stopping, settling, fresh>>
      /\ MusicTypes /\ RoundInv /\ gone \subseteq gone' /\ None \notin Tracks
  BY Noted, TimersAssumption DEF MusicInv, Music!Skip
<1>2. Music!FreeSlot \in Slots /\ loaders[Music!FreeSlot] = None
  BY SlotIsFree DEF Music!Skip, Music!Command
<1>3. CASE current = None
  <2>1. Music!PlayNext(Music!FreeSlot, queue) /\ UNCHANGED <<heard, ended>>
    BY <1>3 DEF Music!Skip, Music!voice
  <2>2. current' = None
    BY <2>1, <1>1, <1>2, <1>3, PlayNextDoes DEF MusicTypes
  <2>3. ASSUME Calm PROVE InTurn'
    <3>1. heard' = None /\ ended' = 0
      BY <2>1, <2>3, <1>3 DEF Calm, InTurn
    <3>2. QED
      BY <3>1, QuietInTurn
  <2>4. ASSUME Calm, Safe PROVE Safe'
    <3>1. ended = 0 /\ ~suppress
      BY <2>4, <1>3 DEF Calm, InTurn, Safe, BackDue
    <3>2. BackDue'
      BY <3>1, <1>1 DEF BackDue
    <3>3. SeekDue'
      BY <2>1, <1>1, <2>4 DEF SeekDue, Safe
    <3>4. Replaceable'
      BY <2>2 DEF Replaceable
    <3>5. ASSUME NEW x \in Tracks
          PROVE  \/ x \in fresh' \cup gone' \cup Listed' \cup {current'}
                 \/ \E s \in Slots : loaders'[s] = x
      <4>1. \/ x \in fresh \cup gone \cup Music!ToSet(past)
            \/ x \in Music!ToSet(queue) \/ \E s \in Slots : loaders[s] = x
        BY <2>4, <1>1, <1>3 DEF Safe, Placed, Listed
      <4>2. CASE x \in Music!ToSet(queue) \/ \E s \in Slots : loaders[s] = x
        <5>1. x \in Music!ToSet(queue') \/ \E r \in Slots : loaders'[r] = x
          BY <4>2, <2>1, <1>1, <1>2, StaysInSight DEF MusicTypes
        <5>2. QED
          BY <5>1 DEF Listed
      <4>3. QED
        BY <4>1, <4>2, <1>1 DEF Listed
    <3>6. QED
      BY <3>2, <3>3, <3>4, <3>5 DEF Safe, Placed
  <2>5. heard' # None => ~stopping'
    BY <1>1
  <2>6. QED
    BY <2>3, <2>4, <2>5, <1>1, Assembled
<1>4. CASE current # None
  <2>1. Music!VoiceStop /\ queue' = queue /\ UNCHANGED <<current, loaders>>
    BY <1>4 DEF Music!Skip, Music!Stay
  <2>2. heard' = None /\ ended' = IF heard = None THEN ended ELSE ended + 1
    BY <2>1 DEF Music!VoiceStop
  <2>3. ASSUME Calm PROVE InTurn'
    <3>1. ended' = 0 \/ ended' = 1
      BY <2>2, <2>3 DEF Calm, InTurn
    <3>2. \A s \in Slots : loaders'[s] # None => ended' = 0
      BY <2>1, <2>2, <2>3 DEF Calm, InTurn
    <3>3. QED
      BY <3>1, <3>2, <2>1, <2>2, <1>4 DEF InTurn
  <2>4. ASSUME Calm, Safe, ~Music!Hasty PROVE Safe'
    <3>1. heard # None /\ ended' = 1
      <4>1. heard # None /\ ~(ended > 0)
        BY <2>4, <1>4 DEF Music!Hasty
      <4>2. ended = 0
        BY <4>1, <2>4 DEF Calm, InTurn
      <4>3. QED
        BY <4>1, <4>2, <2>2
    <3>2. ~suppress
      BY <3>1, <2>4 DEF Calm, InTurn, Safe, BackDue
    <3>3. BackDue' /\ SeekDue'
      BY <3>1, <3>2, <1>1 DEF BackDue, SeekDue
    <3>4. Replaceable'
      BY <2>1, <1>1, <2>4 DEF Safe, Replaceable, Listed
    <3>5. Placed'
      BY <2>1, <1>1, <2>4 DEF Safe, Placed, Listed
    <3>6. QED
      BY <3>3, <3>4, <3>5 DEF Safe
  <2>5. heard' # None => ~stopping'
    BY <1>1
  <2>6. QED
    BY <2>3, <2>4, <2>5, <1>1, Assembled
<1>5. QED
  BY <1>3, <1>4

LEMMA PreviousKept ==
  ASSUME MusicInv, Music!MCNext, MusicTypes', Music!Previous
  PROVE  MusicInv'
<1> DEFINE x == Music!Last(past)
           h == Music!Front(past)
<1>1. /\ ~stopping /\ past # <<>> /\ past' = h /\ suppress' = TRUE
      /\ UNCHANGED <<seekTo, stopping, settling, fresh>>
      /\ MusicTypes /\ RoundInv /\ gone \subseteq gone' /\ None \notin Tracks
  BY Noted, TimersAssumption DEF MusicInv, Music!Previous
<1>2. x \in Tracks /\ h \in Seq(Tracks) /\ Music!ToSet(past) = Music!ToSet(h) \cup {x}
  BY <1>1, ToSetFrontLast DEF MusicTypes
<1>3. heard' # None => ~stopping'
  BY <1>1
<1>4. CASE current = None
  <2>1. UNCHANGED <<heard, ended>> /\ Music!Hasty
    BY <1>4 DEF Music!Previous, Music!Hasty, Music!voice
  <2>2. ASSUME Calm PROVE InTurn'
    <3>1. heard' = None /\ ended' = 0
      BY <2>1, <2>2, <1>4 DEF Calm, InTurn
    <3>2. QED
      BY <3>1, QuietInTurn
  <2>3. QED
    BY <2>1, <2>2, <1>1, <1>3, Assembled
<1>5. CASE current # None
  <2>1. /\ Music!VoiceStop /\ UNCHANGED <<current, loaders>>
        /\ queue' = <<x, current>> \o queue
    BY <1>5 DEF Music!Previous, Music!Stay
  <2>2. heard' = None /\ ended' = IF heard = None THEN ended ELSE ended + 1
    BY <2>1 DEF Music!VoiceStop
  <2>3. ASSUME Calm PROVE InTurn'
    <3>1. ended' = 0 \/ ended' = 1
      BY <2>2, <2>3 DEF Calm, InTurn
    <3>2. \A s \in Slots : loaders'[s] # None => ended' = 0
      BY <2>1, <2>2, <2>3 DEF Calm, InTurn
    <3>3. QED
      BY <3>1, <3>2, <2>1, <2>2, <1>5 DEF InTurn
  <2>4. Music!ToSet(queue') = {x, current} \cup Music!ToSet(queue)
    <3>1. <<x, current>> \in Seq(Tracks) /\ queue \in Seq(Tracks)
      BY <1>1, <1>2, <1>5 DEF MusicTypes
    <3>2. Music!ToSet(<<x, current>>) = {x, current}
      BY ToSetFew
    <3> HIDE DEF x
    <3>3. Music!ToSet(<<x, current>> \o queue)
            = Music!ToSet(<<x, current>>) \cup Music!ToSet(queue)
      BY ZenonT(60), <3>1, ToSetConcat
    <3>4. QED
      BY <3>2, <3>3, <2>1
  <2> HIDE DEF x, h
  <2>5. ASSUME Calm, Safe, ~Music!Hasty PROVE Safe'
    <3>1. heard # None /\ ended = 0 /\ ended' = 1 /\ ~(settling > 0)
      <4>1. heard # None /\ ~(ended > 0) /\ ~(settling > 0)
        BY <2>5, <1>5 DEF Music!Hasty
      <4>2. ended = 0
        BY <4>1, <2>5 DEF Calm, InTurn
      <4>3. QED
        BY <4>1, <4>2, <2>2
    <3>2. ~seekTo
      BY <3>1, <2>5 DEF Safe, SeekDue
    <3>3. BackDue' /\ SeekDue'
      BY <3>1, <3>2, <2>1, <2>4, <1>1 DEF BackDue, SeekDue
    <3>4. Replaceable'
      BY <2>1, <2>4 DEF Replaceable, Listed
    <3>5. Listed \subseteq Listed'
      BY <2>4, <1>1, <1>2 DEF Listed
    <3>6. Placed'
      BY <3>5, <2>1, <1>1, <2>5 DEF Safe, Placed
    <3>7. QED
      BY <3>3, <3>4, <3>6 DEF Safe
  <2>6. QED
    BY <2>3, <2>5, <1>1, <1>3, Assembled
<1>6. QED
  BY <1>4, <1>5

LEMMA SeekKept ==
  ASSUME MusicInv, Music!MCNext, MusicTypes', Music!Seek
  PROVE  MusicInv'
<1>1. /\ ~stopping /\ current # None /\ seekTo' = TRUE /\ Music!VoiceStop
      /\ UNCHANGED <<queue, past, current, suppress, stopping, loaders, settling, fresh>>
      /\ gone \subseteq gone'
  BY Noted DEF MusicInv, Music!Seek, Music!lists
<1>2. heard' = None /\ ended' = IF heard = None THEN ended ELSE ended + 1
  BY <1>1 DEF Music!VoiceStop
<1>3. ASSUME Calm PROVE InTurn'
  <2>1. ended' = 0 \/ ended' = 1
    BY <1>2, <1>3 DEF Calm, InTurn
  <2>2. \A s \in Slots : loaders'[s] # None => ended' = 0
    BY <1>1, <1>2, <1>3 DEF Calm, InTurn
  <2>3. QED
    BY <2>1, <2>2, <1>1, <1>2 DEF InTurn
<1>4. ASSUME Calm, Safe, ~Music!Hasty PROVE Safe'
  <2>1. ended = 0 /\ ended' = 1
    <3>1. heard # None /\ ~(ended > 0)
      BY <1>1, <1>4 DEF Music!Hasty
    <3>2. ended = 0
      BY <3>1, <1>4 DEF Calm, InTurn
    <3>3. QED
      BY <3>1, <3>2, <1>2
  <2>2. ~suppress
    BY <2>1, <1>4 DEF Safe, BackDue
  <2>3. BackDue' /\ SeekDue'
    BY <2>1, <2>2, <1>1 DEF BackDue, SeekDue
  <2>4. Replaceable'
    BY <1>1, <1>4 DEF Safe, Replaceable, Listed
  <2>5. Placed'
    BY <1>1, <1>4 DEF Safe, Placed, Listed
  <2>6. QED
    BY <2>3, <2>4, <2>5 DEF Safe
<1>5. heard' # None => ~stopping'
  BY <1>1
<1>6. QED
  BY <1>1, <1>3, <1>4, <1>5, Assembled

(* The queue is shuffled, or a track is taken out of it.                   *)
LEMMA ReorderKept ==
  ASSUME MusicInv, Music!MCNext, MusicTypes', Music!Shuffle \/ Music!RemoveOne
  PROVE  MusicInv'
<1>1. /\ UNCHANGED <<past, current, suppress, seekTo, stopping, heard, ended, loaders,
                     settling, fresh>>
      /\ MusicTypes /\ RoundInv /\ gone \subseteq gone'
  BY Noted DEF MusicInv, Music!Shuffle, Music!RemoveOne, Music!flags, Music!voice
<1>2. Music!ToSet(queue) \subseteq Music!ToSet(queue') \cup gone'
  <2>1. CASE Music!Shuffle
    BY <2>1, <1>1, ToSetReverse DEF Music!Shuffle, MusicTypes
  <2>2. CASE Music!RemoveOne
    <3>1. Music!ToSet(queue) \ Music!ToSet(queue') \subseteq gone'
      BY <2>2 DEF Music!MCNext
    <3>2. QED
      BY <3>1
  <2>3. QED
    BY <2>1, <2>2
<1>3. ASSUME Calm PROVE InTurn'
  BY <1>1, <1>3 DEF Calm, InTurn
<1>4. ASSUME Safe PROVE Safe'
  <2>1. BackDue'
    BY <1>1, <1>2, <1>4 DEF Safe, BackDue
  <2>2. SeekDue'
    BY <1>1, <1>4 DEF Safe, SeekDue
  <2>3. Replaceable'
    BY <1>1, <1>2, <1>4 DEF Safe, Replaceable, Listed
  <2>4. Placed'
    BY <1>1, <1>2, <1>4 DEF Safe, Placed, Listed
  <2>5. QED
    BY <2>1, <2>2, <2>3, <2>4 DEF Safe
<1>5. heard' # None => ~stopping'
  BY <1>1 DEF RoundInv
<1>6. QED
  BY <1>1, <1>3, <1>4, <1>5, Assembled

LEMMA LoadedKept ==
  ASSUME MusicInv, Music!MCNext, MusicTypes', NEW s \in Slots, Music!Loaded(s)
  PROVE  MusicInv'
<1> DEFINE t == loaders[s]
<1>1. /\ t # None /\ current' = t /\ loaders' = [loaders EXCEPT ![s] = None]
      /\ IF Music!VoiceRefuses THEN heard' = heard ELSE heard' = t
      /\ UNCHANGED <<queue, past, suppress, seekTo, stopping, ended, settling, fresh>>
  BY DEF Music!Loaded, Music!Idle, Music!Play, Music!voice, Music!lists, Music!flags
<1>2. MusicTypes /\ RoundInv /\ gone \subseteq gone' /\ t \in Tracks
  BY <1>1, Noted DEF MusicInv, MusicTypes
<1>3. loaders'[s] = None /\ \A r \in Slots : r # s => loaders'[r] = loaders[r]
  BY <1>1, <1>2 DEF MusicTypes
<1> HIDE DEF t
<1>4. heard' # None => ~stopping'
  <2>1. CASE stopping
    <3>1. heard' = heard
      BY <2>1, <1>1 DEF Music!VoiceRefuses
    <3>2. QED
      BY <3>1, <2>1, <1>2 DEF RoundInv
  <2>2. QED
    BY <2>1, <1>1
<1>5. ASSUME Calm
      PROVE  /\ heard' = current' /\ ended = 0 /\ ended' = 0
             /\ \A r \in Slots : loaders'[r] = None
  <2>1. heard = None /\ ended = 0
    BY <1>1, <1>5 DEF Calm, InTurn, t
  <2>2. heard' = current'
    BY <2>1, <1>1, <1>5 DEF Calm, Music!VoiceRefuses
  <2>3. \A r \in Slots : r # s => loaders[r] = None
    BY <1>1, <1>5 DEF Calm, OneLoader, t
  <2>4. QED
    BY <2>1, <2>2, <2>3, <1>1, <1>3
<1>6. ASSUME Calm PROVE InTurn'
  BY <1>5, <1>6 DEF InTurn
<1>7. ASSUME Calm, Safe PROVE Safe'
  <2>1. BackDue'
    BY <1>1, <1>5, <1>7 DEF Safe, BackDue
  <2>2. SeekDue'
    BY <1>1, <1>7 DEF Safe, SeekDue
  <2>3. Replaceable'
    BY <1>5, <1>7 DEF Replaceable
  <2>4. current \in Listed \cup {t} \cup gone \cup {None}
    BY <1>1, <1>7 DEF Safe, Replaceable, t
  <2>5. \A x \in Tracks : (\E r \in Slots : loaders[r] = x) => x = t
    <3>1. \A r \in Slots : r = s \/ loaders[r] = None
      BY <1>3, <1>5, <1>7
    <3>2. None \notin Tracks
      BY TimersAssumption
    <3>3. QED
      BY <3>1, <3>2 DEF t
  <2>6. Placed'
    <3>1. Listed' = Listed /\ fresh' = fresh /\ current' = t
      BY <1>1 DEF Listed
    <3>2. SUFFICES ASSUME NEW x \in Tracks
                   PROVE  x \in fresh \cup gone' \cup Listed \cup {t}
      BY <3>1 DEF Placed
    <3>3. x # None
      BY TimersAssumption
    <3>4. \/ x \in fresh \cup gone \cup Listed \cup {current}
          \/ \E r \in Slots : loaders[r] = x
      BY <1>7 DEF Safe, Placed
    <3>5. QED
      BY <3>3, <3>4, <2>4, <2>5, <1>2
  <2>7. QED
    BY <2>1, <2>2, <2>3, <2>6 DEF Safe
<1>8. QED
  BY <1>1, <1>4, <1>6, <1>7, Assembled

LEMMA LoadFailsKept ==
  ASSUME MusicInv, Music!MCNext, MusicTypes', NEW s \in Slots, Music!LoadFails(s)
  PROVE  MusicInv'
<1>1. UNCHANGED <<queue, past, current, heard, loaders, ended, settling, suppress, seekTo,
                  stopping, fresh>>
  BY DEF Music!LoadFails, Music!lists, Music!flags, Music!voice
<1>2. gone \subseteq gone' /\ RoundInv
  BY Noted DEF MusicInv
<1>3. (InTurn => InTurn') /\ (Safe => Safe')
  BY <1>1, <1>2, Unmoved
<1>4. heard' # None => ~stopping'
  BY <1>1, <1>2 DEF RoundInv
<1>5. QED
  BY <1>1, <1>3, <1>4, Assembled DEF Calm

LEMMA TriesNextKept ==
  ASSUME MusicInv, Music!MCNext, MusicTypes', NEW s \in Slots, Music!TriesNext(s)
  PROVE  MusicInv'
<1>1. /\ loaders[s] # None /\ Music!PlayNext(s, queue)
      /\ UNCHANGED <<past, suppress, seekTo, stopping, heard, ended, settling, fresh>>
  BY DEF Music!TriesNext, Music!flags, Music!voice, MusicInv, FailedInv
<1>2. MusicTypes /\ RoundInv /\ gone \subseteq gone' /\ None \notin Tracks
  BY Noted, TimersAssumption DEF MusicInv
<1>3. loaders[s] \in gone'
  BY <1>2 DEF Music!TriesNext, MusicInv, FailedInv
<1>4. /\ \A r \in Slots : r # s => loaders'[r] = loaders[r]
      /\ \/ /\ loaders'[s] = None /\ current' = None
            /\ Music!ToSet(queue) = {} /\ Music!ToSet(queue') = {}
         \/ /\ loaders'[s] \in Tracks /\ current' = current
            /\ Music!ToSet(queue) = {loaders'[s]} \cup Music!ToSet(queue')
  BY <1>1, <1>2, PlayNextDoes DEF MusicTypes
<1>5. ASSUME Calm
      PROVE  heard = None /\ ended = 0 /\ \A r \in Slots : r # s => loaders[r] = None
  BY <1>1, <1>5 DEF Calm, InTurn, OneLoader
<1>6. ASSUME Calm PROVE InTurn'
  <2>1. heard' = None /\ ended' = 0
    BY <1>1, <1>5, <1>6
  <2>2. QED
    BY <2>1, QuietInTurn
<1>7. ASSUME Calm, Safe PROVE Safe'
  <2>1. BackDue'
    BY <1>1, <1>5, <1>7 DEF Safe, BackDue
  <2>2. SeekDue'
    BY <1>1, <1>7 DEF Safe, SeekDue
  <2>3. current = None \/ current \in Listed \cup gone'
    BY <1>1, <1>2, <1>3, <1>7 DEF Safe, Replaceable
  <2>4. Replaceable'
    <3>1. SUFFICES ASSUME NEW r \in Slots, loaders'[r] # None, current' # None
                   PROVE  current' \in Listed' \cup {loaders'[r]} \cup gone'
      BY DEF Replaceable
    <3>2. r = s
      BY <3>1, <1>4, <1>5, <1>7
    <3>3. QED
      BY <3>1, <3>2, <2>3, <1>1, <1>4 DEF Listed
  <2>5. Placed'
    <3>1. SUFFICES ASSUME NEW x \in Tracks
                   PROVE  \/ x \in fresh' \cup gone' \cup Listed' \cup {current'}
                          \/ \E r \in Slots : loaders'[r] = x
      BY DEF Placed
    <3>2. x # None
      BY <1>2
    <3>3. \/ x \in fresh \cup gone \cup Listed \cup {current}
          \/ \E r \in Slots : loaders[r] = x
      BY <1>7 DEF Safe, Placed
    <3>4. \A r \in Slots : loaders[r] = x => x \in gone'
      BY <3>2, <1>3, <1>5, <1>7
    <3>5. x \in fresh \cup gone' \cup Listed
          \/ (current' = current /\ x = current)
      BY <3>2, <3>3, <3>4, <2>3, <1>2
    <3>6. CASE x \in Music!ToSet(queue)
      BY <3>6, <1>4 DEF Listed
    <3>7. QED
      BY <3>5, <3>6, <1>1 DEF Listed
  <2>6. QED
    BY <2>1, <2>2, <2>4, <2>5 DEF Safe
<1>8. heard' # None => ~stopping'
  BY <1>1, <1>2 DEF RoundInv
<1>9. QED
  BY <1>1, <1>6, <1>7, <1>8, Assembled

LEMMA TrackEndsKept ==
  ASSUME MusicInv, Music!MCNext, MusicTypes', Music!TrackEnds
  PROVE  MusicInv'
<1>1. /\ heard # None /\ heard' = None /\ ended' = ended + 1
      /\ UNCHANGED <<queue, past, current, suppress, seekTo, stopping, loaders, settling, fresh>>
      /\ gone \subseteq gone'
  BY Noted DEF MusicInv, Music!TrackEnds, Music!VoiceStop, Music!lists, Music!flags
<1>2. ASSUME Calm
      PROVE  ended = 0 /\ ended' = 1 /\ current # None /\ \A s \in Slots : loaders[s] = None
  BY <1>1, <1>2 DEF Calm, InTurn
<1>3. ASSUME Calm PROVE InTurn'
  BY <1>1, <1>2, <1>3 DEF InTurn
<1>4. ASSUME Calm, Safe PROVE Safe'
  <2>1. BackDue' /\ SeekDue'
    BY <1>1, <1>2, <1>4 DEF Safe, BackDue, SeekDue
  <2>2. Replaceable'
    BY <1>1, <1>4 DEF Safe, Replaceable, Listed
  <2>3. Placed'
    BY <1>1, <1>4 DEF Safe, Placed, Listed
  <2>4. QED
    BY <2>1, <2>2, <2>3 DEF Safe
<1>5. QED
  BY <1>1, <1>3, <1>4, Assembled

LEMMA SettleKept ==
  ASSUME MusicInv, Music!MCNext, MusicTypes', Music!Settle
  PROVE  MusicInv'
<1>1. /\ seekTo' = FALSE
      /\ UNCHANGED <<queue, past, current, suppress, stopping, heard, ended, loaders, fresh>>
      /\ RoundInv /\ gone \subseteq gone'
  BY Noted DEF MusicInv, Music!Settle, Music!lists, Music!voice
<1>2. ASSUME Calm PROVE InTurn'
  BY <1>1, <1>2 DEF Calm, InTurn
<1>3. ASSUME Safe PROVE Safe'
  <2>1. BackDue' /\ SeekDue'
    BY <1>1, <1>3 DEF Safe, BackDue, SeekDue
  <2>2. Replaceable'
    BY <1>1, <1>3 DEF Safe, Replaceable, Listed
  <2>3. Placed'
    BY <1>1, <1>3 DEF Safe, Placed, Listed
  <2>4. QED
    BY <2>1, <2>2, <2>3 DEF Safe
<1>4. heard' # None => ~stopping'
  BY <1>1 DEF RoundInv
<1>5. QED
  BY <1>1, <1>2, <1>3, <1>4, Assembled

(* Steps that change neither lists nor tracks, or end the session.         *)
LEMMA AsideKept ==
  ASSUME MusicInv, Music!MCNext, MusicTypes',
         \/ Music!TogglePause \/ Music!CycleRepeat \/ Music!Stop \/ Music!AdvanceStopped
  PROVE  MusicInv'
<1>1. RoundInv /\ gone \subseteq gone'
  BY Noted DEF MusicInv
<1>2. CASE Music!TogglePause \/ Music!CycleRepeat
  <2>1. UNCHANGED <<queue, past, current, heard, loaders, ended, settling, suppress, seekTo,
                    stopping, fresh>>
    BY <1>2 DEF Music!TogglePause, Music!CycleRepeat, Music!lists, Music!flags, Music!voice
  <2>2. (InTurn => InTurn') /\ (Safe => Safe')
    BY <2>1, <1>1, Unmoved
  <2>3. heard' # None => ~stopping'
    BY <2>1, <1>1 DEF RoundInv
  <2>4. QED
    BY <2>1, <2>2, <2>3, Assembled DEF Calm
<1>3. CASE Music!Stop
  <2>1. stopping' = TRUE /\ heard' = None
    BY <1>3 DEF Music!Stop, Music!VoiceStop
  <2>2. QED
    BY <2>1, Assembled
<1>4. CASE Music!AdvanceStopped
  <2>1. stopping /\ stopping' = stopping /\ heard' = heard
    BY <1>4 DEF Music!AdvanceStopped, Music!voice
  <2>2. heard' # None => ~stopping'
    BY <2>1, <1>1 DEF RoundInv
  <2>3. QED
    BY <2>1, <2>2, Assembled
<1>5. QED
  BY <1>2, <1>3, <1>4

LEMMA AdvanceSeekKept ==
  ASSUME MusicInv, Music!MCNext, MusicTypes', Music!AdvanceSeek
  PROVE  MusicInv'
<1>1. /\ ~stopping /\ seekTo /\ ended # 0 /\ ended' = ended - 1
      /\ UNCHANGED <<past, suppress, seekTo, stopping, fresh>>
      /\ settling \in Nat /\ gone \subseteq gone'
  BY Noted, AdvanceDoes DEF MusicInv, MusicTypes, Music!AdvanceSeek, Music!flags
<1>2. ASSUME Calm
      PROVE  /\ ended = 1 /\ ended' = 0 /\ current # None /\ heard' = current
             /\ settling' = settling + 1 /\ UNCHANGED <<queue, current, loaders>>
             /\ \A s \in Slots : loaders[s] = None
  <2>1. ended = 1 /\ current # None /\ heard = None /\ \A s \in Slots : loaders[s] = None
    BY <1>1, <1>2 DEF Calm, InTurn
  <2>2. ~Music!VoiceRefuses
    BY <1>1, <2>1 DEF Music!VoiceRefuses
  <2>3. /\ Music!Play(current) /\ UNCHANGED <<queue, loaders>>
        /\ settling' = settling + 1
    BY <2>1, <2>2 DEF Music!AdvanceSeek
  <2>4. current' = current /\ heard' = current
    BY <2>2, <2>3 DEF Music!Play
  <2>5. QED
    BY <2>1, <2>3, <2>4, <1>1
<1>3. ASSUME Calm PROVE InTurn'
  BY <1>2, <1>3 DEF InTurn
<1>4. ASSUME Calm, Safe PROVE Safe'
  <2>1. settling' > 0
    BY <1>1, <1>2, <1>4
  <2>2. BackDue' /\ SeekDue'
    BY <2>1, <1>1, <1>4 DEF Safe, BackDue, SeekDue
  <2>3. Replaceable'
    BY <1>2, <1>4 DEF Replaceable
  <2>4. Placed'
    BY <1>1, <1>2, <1>4 DEF Safe, Placed, Listed
  <2>5. QED
    BY <2>2, <2>3, <2>4 DEF Safe
<1>5. heard' # None => ~stopping'
  BY <1>1
<1>6. QED
  BY <1>1, <1>3, <1>4, <1>5, Assembled

LEMMA AdvanceOnKept ==
  ASSUME MusicInv, Music!MCNext, MusicTypes', Music!AdvanceOn
  PROVE  MusicInv'
<1> DEFINE counts == current # None /\ ~suppress
           replayed == repeat = "one" /\ ~skipping
           q == IF counts /\ repeat = "all" THEN Append(queue, current) ELSE queue
           h == IF counts THEN Music!Keep(Append(past, current)) ELSE past
           s == Music!FreeSlot
<1>1. /\ ~stopping /\ ended # 0 /\ ended' = ended - 1 /\ suppress' = FALSE /\ ~seekTo
      /\ UNCHANGED <<heard, seekTo, stopping, settling, fresh>>
      /\ MusicTypes /\ RoundInv /\ gone \subseteq gone' /\ None \notin Tracks
      /\ s \in Slots /\ loaders[s] = None
  BY Noted, AdvanceDoes, TimersAssumption DEF MusicInv, Music!AdvanceOn, Music!voice
<1>2. IF counts /\ replayed
      THEN loaders' = [loaders EXCEPT ![s] = current] /\ UNCHANGED <<queue, past, current>>
      ELSE past' = h /\ Music!PlayNext(s, q)
  BY DEF Music!AdvanceOn, Music!lists
<1>3. q \in Seq(Tracks) /\ Music!ToSet(queue) \subseteq Music!ToSet(q)
  <2>1. CASE counts
    <3>1. current \in Tracks /\ queue \in Seq(Tracks)
      BY <2>1, <1>1 DEF MusicTypes
    <3>2. QED
      BY <3>1, ToSetAppend
  <2>2. CASE ~counts
    BY <2>2, <1>1 DEF MusicTypes
  <2>3. QED
    BY <2>1, <2>2
<1>4. counts => current \in Music!ToSet(h)
  <2>1. SUFFICES ASSUME counts PROVE current \in Music!ToSet(Music!Keep(Append(past, current)))
    OBVIOUS
  <2>2. current \in Tracks /\ past \in Seq(Tracks)
    BY <2>1, <1>1 DEF MusicTypes
  <2>3. QED
    BY <2>2, KeepsLast
<1>5. Music!ToSet(past) \subseteq Music!ToSet(past') \cup gone'
  <2>1. Music!ToSet(past) \ Music!ToSet(past') \subseteq gone'
    BY DEF Music!MCNext
  <2>2. QED
    BY <2>1
<1>6. counts = (current # None /\ ~suppress)
  OBVIOUS
<1> HIDE DEF counts, replayed, q, h, s
<1>7. ASSUME Calm
      PROVE  /\ ended = 1 /\ ended' = 0 /\ heard' = None /\ current # None
             /\ \A r \in Slots : loaders[r] = None
  BY <1>1, <1>7 DEF Calm, InTurn
<1>8. ASSUME Calm PROVE InTurn'
  BY <1>7, <1>8, QuietInTurn
<1>9. ASSUME Calm, Safe PROVE Safe'
  <2>1. BackDue' /\ SeekDue'
    BY <1>1 DEF BackDue, SeekDue
  <2>2. \A x \in Tracks : x \in fresh \cup gone \cup Listed \cup {current}
    BY <1>1, <1>7, <1>9 DEF Safe, Placed
  <2>3. CASE counts /\ replayed
    <3>1. /\ loaders'[s] = current /\ UNCHANGED <<queue, past, current>>
          /\ \A r \in Slots : r # s => loaders'[r] = loaders[r]
      BY <2>3, <1>1, <1>2 DEF MusicTypes
    <3>2. Replaceable'
      BY <3>1, <1>7, <1>9 DEF Replaceable
    <3>3. Placed'
      BY <3>1, <2>2, <1>1 DEF Placed, Listed
    <3>4. QED
      BY <2>1, <3>2, <3>3 DEF Safe
  <2>4. CASE ~(counts /\ replayed)
    <3>1. past' = h /\ Music!PlayNext(s, q)
      BY <2>4, <1>2
    <3>2. /\ \A r \in Slots : r # s => loaders'[r] = loaders[r]
          /\ \/ /\ loaders'[s] = None /\ current' = None
                /\ Music!ToSet(q) = {} /\ Music!ToSet(queue') = {}
             \/ /\ loaders'[s] \in Tracks /\ current' = current
                /\ Music!ToSet(q) = {loaders'[s]} \cup Music!ToSet(queue')
      BY <3>1, <1>1, <1>3, PlayNextDoes
    <3>3. current \in Music!ToSet(q) \cup Music!ToSet(past') \cup gone'
      <4>1. CASE counts
        BY <4>1, <3>1, <1>4
      <4>2. CASE ~counts
        <5>1. suppress
          BY <4>2, <1>6, <1>7, <1>9
        <5>2. current \in Music!ToSet(queue) \cup gone
          BY <5>1, <1>9 DEF Safe, BackDue
        <5>3. QED
          BY <5>2, <1>1, <1>3
      <4>3. QED
        BY <4>1, <4>2
    <3>4. Replaceable'
      <4>1. SUFFICES ASSUME NEW r \in Slots, loaders'[r] # None, current' # None
                     PROVE  current' \in Listed' \cup {loaders'[r]} \cup gone'
        BY DEF Replaceable
      <4>2. r = s
        BY <4>1, <3>2, <1>7, <1>9
      <4>3. QED
        BY <4>1, <4>2, <3>2, <3>3 DEF Listed
    <3>5. Placed'
      <4>1. SUFFICES ASSUME NEW x \in Tracks
                     PROVE  \/ x \in fresh' \cup gone' \cup Listed'
                            \/ \E r \in Slots : loaders'[r] = x
        BY DEF Placed
      <4>2. x \in fresh' \cup gone' \cup Music!ToSet(q) \cup Music!ToSet(past')
        BY <2>2, <3>3, <1>1, <1>3, <1>5 DEF Listed
      <4>3. CASE x \in Music!ToSet(q)
        BY <4>3, <3>2, <1>1 DEF Listed
      <4>4. QED
        BY <4>2, <4>3 DEF Listed
    <3>6. QED
      BY <2>1, <3>4, <3>5 DEF Safe
  <2>5. QED
    BY <2>3, <2>4
<1>10. heard' # None => ~stopping'
  BY <1>1
<1>11. QED
  BY <1>1, <1>8, <1>9, <1>10, Assembled

LEMMA MusicInit == Music!MCInit => MusicInv
<1> SUFFICES ASSUME Music!MCInit PROVE MusicInv
  OBVIOUS
<1> USE DEF Music!MCInit, Music!Init
<1>1. MusicTypes
  BY EmptySeq DEF MusicTypes
<1>2. RoundInv
  <2>1. OneLoader
    BY DEF OneLoader
  <2>2. InTurn
    BY DEF InTurn
  <2>3. QED
    BY <2>1, <2>2 DEF RoundInv
<1>3. PlacesInv
  BY DEF PlacesInv, BackDue, SeekDue, Replaceable, Placed, Listed
<1>4. FailedInv
  BY DEF FailedInv
<1>5. QED
  BY <1>1, <1>2, <1>3, <1>4 DEF MusicInv

LEMMA MusicStep == MusicInv /\ [Music!MCNext]_(Music!mcVars) => MusicInv'
<1> SUFFICES ASSUME MusicInv, [Music!MCNext]_(Music!mcVars) PROVE MusicInv'
  OBVIOUS
<1>1. CASE Music!MCNext
  <2>1. MusicTypes'
    BY <1>1, MusicTypesKept DEF MusicInv
  <2>2. QED
    BY <1>1, <2>1, MusicActions, EnqueueKept, SkipKept, PreviousKept, SeekKept, ReorderKept,
       LoadedKept, LoadFailsKept, TriesNextKept, TrackEndsKept, SettleKept, AsideKept, AdvanceSeekKept,
       AdvanceOnKept
<1>2. CASE UNCHANGED Music!mcVars
  <2>1. UNCHANGED <<queue, past, current, heard, loaders, ended, settling, suppress, seekTo,
                    stopping, fresh, skipping, muted, crowded, hasty, gone, failed>>
    BY <1>2 DEF Music!mcVars, Music!vars, Music!lists, Music!flags, Music!voice
  <2>2. MusicTypes'
    BY <2>1 DEF MusicInv, MusicTypes
  <2>3. RoundInv'
    BY <2>1 DEF MusicInv, RoundInv, OneLoader, InTurn
  <2>4. PlacesInv'
    BY <2>1 DEF MusicInv, PlacesInv, BackDue, SeekDue, Replaceable, Placed, Listed
  <2>5. FailedInv'
    BY <2>1 DEF MusicInv, FailedInv
  <2>6. QED
    BY <2>2, <2>3, <2>4, <2>5 DEF MusicInv
<1>3. QED
  BY <1>1, <1>2

(* Whatever is asked of the player, while one stream is looked up at a     *)
(* time what is heard is the track it shows, and no track is lost that     *)
(* was not removed, refused by its source, or too old; and nothing is      *)
(* heard once the session is over.                                         *)
THEOREM PlayedRight == Music!MCInit /\ [][Music!MCNext]_(Music!mcVars) => []PlayedRightAlone
<1>1. MusicInv => PlayedRightAlone
  <2> SUFFICES ASSUME MusicInv PROVE Music!ShownIsHeardAlone /\ Music!NothingLostAlone
    BY DEF PlayedRightAlone
  <2>1. Music!ShownIsHeardAlone
    BY DEF MusicInv, RoundInv, InTurn, Music!ShownIsHeardAlone
  <2>2. ASSUME ~crowded, ~hasty, NEW t \in Tracks, t \notin fresh \cup gone
        PROVE  t \in Music!ToSet(queue) \cup Music!ToSet(past) \cup {current}
                      \cup {loaders[s] : s \in Slots}
    BY <2>2 DEF MusicInv, PlacesInv, Placed, Listed
  <2>3. Music!NothingLostAlone
    BY <2>2 DEF Music!NothingLostAlone
  <2>4. QED
    BY <2>1, <2>3
<1>2. QED
  BY <1>1, MusicInit, MusicStep, PTL
-----------------------------------------------------------------------------
(* The bot's stay in a voice channel (MusicRoom).                          *)
Sessions == 1..MaxAsks
Wants == {"searching", "found", "connecting", "moving"}
Wanting == {c \in Coroutines : pc[c] \in Wants}

(* A command makes one session at most, so that there is always a number   *)
(* for the next one.                                                       *)
Counted ==
    /\ asks \in 0..MaxAsks /\ made \in Nat
    /\ made + Cardinality(Wanting) <= asks
    /\ session \in 0..made
RoomTypes ==
    /\ sound \in [Sessions -> BOOLEAN] /\ onAir \in [Sessions -> BOOLEAN]
    /\ waiting \in [Sessions -> Nat]
    /\ pc = [c \in Coroutines |-> pc[c]] /\ own \in [Coroutines -> 0..MaxAsks]
    /\ \A c \in Coroutines :
          pc[c] \in {"load", "refill", "failed", "refailed", "fill", "ask_radio", "posting"}
            => own[c] # 0

(* A session that is heard has a current track, and nobody looks for its   *)
(* stream or announces that it failed; otherwise one coroutine at most does.*)
Loading == {"load", "refill", "failed", "refailed"}
Loads(c) == pc[c] \in Loading
HeardIsCurrent ==
    /\ \A s \in Sessions : sound[s] => onAir[s]
    /\ \A c \in Coroutines : Loads(c) => ~sound[own[c]]
    /\ \A c, d \in Coroutines : Loads(c) /\ Loads(d) /\ own[c] = own[d] => c = d

StayInv == Counted /\ RoomTypes /\ (~jammed => HeardIsCurrent)

LEMMA WantingIsFinite ==
    /\ IsFiniteSet(Wanting) /\ Cardinality(Wanting) \in Nat
    /\ IsFiniteSet(Wanting') /\ Cardinality(Wanting') \in Nat
<1>1. /\ IsFiniteSet(Coroutines)
      /\ Wanting \subseteq Coroutines /\ Wanting' \subseteq Coroutines
  BY TimersAssumption DEF Wanting
<1> QED
  BY <1>1, FS_Subset, FS_CardinalityType

(* A coroutine that goes on, and how many want a session then.             *)
LEMMA GoesOn ==
    ASSUME pc = [d \in Coroutines |-> pc[d]], NEW c \in Coroutines, NEW label,
           pc' = [pc EXCEPT ![c] = label]
    PROVE  /\ pc' = [d \in Coroutines |-> pc'[d]]
           /\ pc'[c] = label /\ \A d \in Coroutines \ {c} : pc'[d] = pc[d]
           /\ label \in Wants => Cardinality(Wanting') <= Cardinality(Wanting) + 1
           /\ c \in Wanting => Cardinality(Wanting') <= Cardinality(Wanting)
           /\ label \notin Wants => Cardinality(Wanting') <= Cardinality(Wanting)
           /\ label \notin Wants /\ c \in Wanting
                => Cardinality(Wanting') <= Cardinality(Wanting) - 1
<1>1. /\ pc' = [d \in Coroutines |-> pc'[d]]
      /\ pc'[c] = label /\ \A d \in Coroutines \ {c} : pc'[d] = pc[d]
  OBVIOUS
<1>2. /\ Wanting' \subseteq Wanting \cup {c}
      /\ label \notin Wants => Wanting' \subseteq Wanting \ {c}
  BY <1>1 DEF Wanting
<1> DEFINE W == Wanting
           V == Wanting'
<1>3. IsFiniteSet(W) /\ Cardinality(W) \in Nat /\ IsFiniteSet(V) /\ Cardinality(V) \in Nat
  BY WantingIsFinite
<1>4. V \subseteq W \cup {c} /\ (label \notin Wants => V \subseteq W \ {c})
  BY <1>2
<1> HIDE DEF W, V
<1>5. /\ IsFiniteSet(W \cup {c}) /\ Cardinality(W \cup {c}) \in Nat
      /\ Cardinality(W \cup {c}) = IF c \in W THEN Cardinality(W) ELSE Cardinality(W) + 1
  BY <1>3, FS_AddElement, FS_CardinalityType
<1>6. /\ IsFiniteSet(W \ {c}) /\ Cardinality(W \ {c}) \in Nat
      /\ Cardinality(W \ {c}) = IF c \in W THEN Cardinality(W) - 1 ELSE Cardinality(W)
  BY <1>3, FS_RemoveElement, FS_CardinalityType
<1>7. Cardinality(V) <= Cardinality(W \cup {c})
  BY <1>4, <1>5, FS_Subset
<1>8. label \notin Wants => Cardinality(V) <= Cardinality(W \ {c})
  BY <1>4, <1>6, FS_Subset
<1>9. /\ Cardinality(V) <= Cardinality(W) + 1
      /\ c \in W => Cardinality(V) <= Cardinality(W)
      /\ label \notin Wants => Cardinality(V) <= Cardinality(W)
      /\ label \notin Wants /\ c \in W => Cardinality(V) <= Cardinality(W) - 1
  BY <1>3, <1>5, <1>6, <1>7, <1>8
<1> QED
  BY <1>1, <1>9 DEF W, V

LEMMA CountedStill ==
    ASSUME Counted, pc' = pc, made' = made, asks' = asks, session' \in {session, 0}
    PROVE  Counted'
  BY DEF Counted, Wanting

LEMMA CountedOn ==
    ASSUME Counted, RoomTypes, NEW c \in Coroutines, NEW label, pc' = [pc EXCEPT ![c] = label],
           \/ /\ label \notin Wants /\ made' = made /\ session' = session
              /\ asks' \in {asks, asks + 1} /\ asks' <= MaxAsks
           \/ /\ made' = made /\ session' = session
              /\ \/ c \in Wanting /\ asks' = asks
                 \/ asks < MaxAsks /\ asks' = asks + 1
           \/ /\ label \notin Wants /\ c \in Wanting /\ asks' = asks
              /\ \/ made' = made + 1 /\ session' = made + 1
                 \/ made' = made /\ session' = session
    PROVE  Counted'
<1>1. /\ label \in Wants => Cardinality(Wanting') <= Cardinality(Wanting) + 1
      /\ c \in Wanting => Cardinality(Wanting') <= Cardinality(Wanting)
      /\ label \notin Wants => Cardinality(Wanting') <= Cardinality(Wanting)
      /\ label \notin Wants /\ c \in Wanting
           => Cardinality(Wanting') <= Cardinality(Wanting) - 1
  BY GoesOn DEF RoomTypes
<1>2. Cardinality(Wanting) \in Nat /\ Cardinality(Wanting') \in Nat /\ MaxAsks \in Nat
  BY WantingIsFinite, TimersAssumption
<1> QED
  BY <1>1, <1>2 DEF Counted

(* _play_next keeps a heard session current and its stream sought by one.  *)
LEMMA RoomPlayNextKeeps ==
    ASSUME RoomTypes, Counted, ~jammed => HeardIsCurrent,
           NEW c \in Coroutines, NEW s \in Sessions, NEW q \in Nat, NEW anew,
           Room!PlayNext(c, s, q, anew),
           sound' \in [Sessions -> BOOLEAN], \A x \in Sessions \ {s} : sound'[x] = sound[x],
           ~jammed => ~sound'[s]
    PROVE  /\ RoomTypes' /\ (~jammed => HeardIsCurrent)'
           /\ \E label : label \notin Wants /\ pc' = [pc EXCEPT ![c] = label]
<1>0. s \in 0..MaxAsks /\ s # 0 /\ session \in 0..MaxAsks
  <2>1. MaxAsks \in Nat /\ Cardinality(Wanting) \in Nat
    BY TimersAssumption, WantingIsFinite
  <2> QED
    BY <2>1 DEF Sessions, Counted
<1>1. waiting' \in [Sessions -> Nat]
  <2>1. waiting' = [waiting EXCEPT ![s] = IF q > 0 THEN q - 1 ELSE 0]
    BY DEF Room!PlayNext
  <2> QED
    BY <2>1 DEF RoomTypes
<1>2. ASSUME q > 0
      PROVE  \E label \in {"load", "refill"} :
                /\ pc' = [pc EXCEPT ![c] = label] /\ own' = [own EXCEPT ![c] = s]
                /\ onAir' = onAir
                /\ ~jammed' => ~jammed /\ \A d \in Coroutines \ {c} : ~(Loads(d) /\ own[d] = s)
  BY <1>2 DEF Room!PlayNext, Room!Becomes, Room!Goto, Room!Loading, Room!Seeking, Loads, Loading
<1>3. ASSUME ~(q > 0)
      PROVE  \E label \in {"done", "presence", "fill"}, o \in 0..MaxAsks :
                /\ pc' = [pc EXCEPT ![c] = label] /\ own' = [own EXCEPT ![c] = o]
                /\ label = "fill" => o # 0
                /\ onAir' = [onAir EXCEPT ![s] = FALSE] /\ (~jammed' => ~jammed)
  BY <1>0, <1>3 DEF Room!PlayNext, Room!Becomes, Room!Goto
<1>4. CASE q > 0
  <2>1. PICK label \in {"load", "refill"} :
                /\ pc' = [pc EXCEPT ![c] = label] /\ own' = [own EXCEPT ![c] = s]
                /\ onAir' = onAir
                /\ ~jammed' => ~jammed /\ \A d \in Coroutines \ {c} : ~(Loads(d) /\ own[d] = s)
    BY <1>2, <1>4
  <2>2. /\ pc' = [d \in Coroutines |-> pc'[d]] /\ own' \in [Coroutines -> 0..MaxAsks]
        /\ pc'[c] = label /\ own'[c] = s
        /\ \A d \in Coroutines \ {c} : pc'[d] = pc[d] /\ own'[d] = own[d]
    BY <1>0, <2>1 DEF RoomTypes
  <2>3. RoomTypes'
    BY <1>0, <1>1, <2>1, <2>2 DEF RoomTypes
  <2>4. ASSUME ~jammed' PROVE HeardIsCurrent'
    <3>1. \A d \in Coroutines : Loads(d)' => own'[d] \in Sessions
      BY <2>3 DEF RoomTypes, Loads, Loading, Sessions
    <3>2. \A x \in Sessions : sound'[x] => sound[x] /\ x # s
      BY <2>1, <2>4
    <3>3. \A x \in Sessions : sound'[x] => onAir'[x]
      BY <2>1, <2>4, <3>2 DEF HeardIsCurrent
    <3>4. \A d \in Coroutines : Loads(d)' => ~sound'[own'[d]]
      BY <2>1, <2>2, <2>4, <3>1, <3>2 DEF HeardIsCurrent, Loads, Loading
    <3>5. \A d, e \in Coroutines : Loads(d)' /\ Loads(e)' /\ own'[d] = own'[e] => d = e
      BY <2>1, <2>2, <2>4 DEF HeardIsCurrent, Loads, Loading
    <3> QED
      BY <3>3, <3>4, <3>5 DEF HeardIsCurrent
  <2> QED
    BY <2>1, <2>3, <2>4 DEF Wants
<1>5. CASE ~(q > 0)
  <2>1. PICK label \in {"done", "presence", "fill"}, o \in 0..MaxAsks :
                /\ pc' = [pc EXCEPT ![c] = label] /\ own' = [own EXCEPT ![c] = o]
                /\ label = "fill" => o # 0
                /\ onAir' = [onAir EXCEPT ![s] = FALSE] /\ (~jammed' => ~jammed)
    BY <1>3, <1>5
  <2>2. /\ pc' = [d \in Coroutines |-> pc'[d]] /\ own' \in [Coroutines -> 0..MaxAsks]
        /\ pc'[c] = label /\ own'[c] = o
        /\ \A d \in Coroutines \ {c} : pc'[d] = pc[d] /\ own'[d] = own[d]
    BY <2>1 DEF RoomTypes
  <2>5. onAir' \in [Sessions -> BOOLEAN] /\ \A x \in Sessions \ {s} : onAir'[x] = onAir[x]
    BY <2>1 DEF RoomTypes
  <2>3. RoomTypes'
    BY <1>0, <1>1, <2>1, <2>2, <2>5 DEF RoomTypes
  <2>4. ASSUME ~jammed' PROVE HeardIsCurrent'
    <3>1. \A d \in Coroutines : Loads(d)' => own'[d] \in Sessions
      BY <2>3 DEF RoomTypes, Loads, Loading, Sessions
    <3>2. \A x \in Sessions : sound'[x] => sound[x] /\ x # s
      BY <2>1, <2>4
    <3>3. \A x \in Sessions : sound'[x] => onAir'[x]
      BY <2>1, <2>4, <2>5, <3>2 DEF HeardIsCurrent
    <3>6. \A d \in Coroutines : Loads(d)' => Loads(d) /\ own'[d] = own[d]
      BY <2>1, <2>2 DEF Loads, Loading
    <3>4. \A d \in Coroutines : Loads(d)' => ~sound'[own'[d]]
      BY <2>1, <2>4, <3>1, <3>2, <3>6 DEF HeardIsCurrent
    <3>5. \A d, e \in Coroutines : Loads(d)' /\ Loads(e)' /\ own'[d] = own'[e] => d = e
      BY <2>1, <2>4, <3>6 DEF HeardIsCurrent
    <3> QED
      BY <3>3, <3>4, <3>5 DEF HeardIsCurrent
  <2> QED
    BY <2>1, <2>3, <2>4 DEF Wants
<1> QED
  BY <1>4, <1>5

LEMMA RoomPutKeeps ==
    ASSUME RoomTypes, Counted, ~jammed => HeardIsCurrent,
           NEW c \in Coroutines, NEW s \in Sessions, NEW anew,
           Room!Put(c, s, anew), sound' = sound
    PROVE  /\ RoomTypes' /\ (~jammed => HeardIsCurrent)'
           /\ \E label : label \notin Wants /\ pc' = [pc EXCEPT ![c] = label]
<1>1. CASE onAir[s]
  <2>1. /\ waiting' = [waiting EXCEPT ![s] = @ + 1] /\ pc' = [pc EXCEPT ![c] = "done"]
        /\ UNCHANGED <<onAir, own, jammed>>
    BY <1>1 DEF Room!Put, Room!Goto
  <2>2. /\ pc' = [d \in Coroutines |-> pc'[d]] /\ pc'[c] = "done"
        /\ \A d \in Coroutines \ {c} : pc'[d] = pc[d]
        /\ waiting' \in [Sessions -> Nat]
    BY <2>1 DEF RoomTypes
  <2>3. RoomTypes'
    BY <2>1, <2>2 DEF RoomTypes
  <2>4. \A d \in Coroutines : Loads(d)' => Loads(d)
    BY <2>2 DEF Loads, Loading
  <2>5. (~jammed => HeardIsCurrent)'
    BY <2>1, <2>4 DEF HeardIsCurrent
  <2> QED
    BY <2>1, <2>3, <2>5 DEF Wants
<1>2. CASE ~onAir[s]
  <2>1. Room!PlayNext(c, s, waiting[s] + 1, anew) /\ waiting[s] + 1 \in Nat
    BY <1>2 DEF Room!Put, RoomTypes
  <2>2. ~jammed => ~sound'[s]
    BY <1>2 DEF HeardIsCurrent
  <2>3. sound' \in [Sessions -> BOOLEAN]
    BY DEF RoomTypes
  <2> HIDE DEF Room!PlayNext
  <2> QED
    BY <2>1, <2>2, <2>3, RoomPlayNextKeeps
<1> QED
  BY <1>1, <1>2

(* A session that ends is not heard any more, nor current.                 *)
LEMMA RoomEndedKeeps ==
    ASSUME RoomTypes, ~jammed => HeardIsCurrent, NEW s \in Sessions, NEW ring,
           Room!Ended(s, ring), UNCHANGED <<pc, own, jammed>>
    PROVE  RoomTypes' /\ (~jammed => HeardIsCurrent)'
<1>1. /\ waiting' = [waiting EXCEPT ![s] = 0] /\ onAir' = [onAir EXCEPT ![s] = FALSE]
      /\ sound' = [sound EXCEPT ![s] = FALSE]
  BY DEF Room!Ended
<1>2. waiting' \in [Sessions -> Nat]
  BY <1>1 DEF RoomTypes
<1>3. /\ onAir' \in [Sessions -> BOOLEAN] /\ sound' \in [Sessions -> BOOLEAN]
      /\ \A x \in Sessions \ {s} : onAir'[x] = onAir[x] /\ sound'[x] = sound[x]
      /\ ~onAir'[s] /\ ~sound'[s]
  BY <1>1 DEF RoomTypes
<1>4. RoomTypes'
  BY <1>2, <1>3 DEF RoomTypes
<1>5. \A c \in Coroutines : Loads(c) => own[c] \in Sessions
  BY DEF RoomTypes, Loads, Loading, Sessions
<1>6. ASSUME ~jammed PROVE HeardIsCurrent'
  <2>1. \A x \in Sessions : sound'[x] => onAir'[x]
    BY <1>3, <1>6 DEF HeardIsCurrent
  <2>2. \A c \in Coroutines : Loads(c)' => ~sound'[own'[c]]
    BY <1>3, <1>5, <1>6 DEF HeardIsCurrent, Loads, Loading
  <2> QED
    BY <1>6, <2>1, <2>2 DEF HeardIsCurrent, Loads, Loading
<1> QED
  BY <1>4, <1>6

(* Steps that touch no player, of a coroutine and of others.               *)
LEMMA RoomAside ==
    ASSUME RoomTypes, ~jammed => HeardIsCurrent, UNCHANGED <<waiting, onAir, sound, jammed>>,
           NEW c \in Coroutines, NEW label, NEW o \in 0..MaxAsks,
           pc' = [pc EXCEPT ![c] = label], own' = own \/ own' = [own EXCEPT ![c] = o],
           label \notin Loading,
           label \in {"fill", "ask_radio", "posting"} => own' = [own EXCEPT ![c] = o] /\ o # 0
    PROVE  RoomTypes' /\ (~jammed => HeardIsCurrent)'
<1>1. /\ pc' = [d \in Coroutines |-> pc'[d]] /\ own' \in [Coroutines -> 0..MaxAsks]
      /\ pc'[c] = label /\ (label \in {"fill", "ask_radio", "posting"} => own'[c] # 0)
      /\ \A d \in Coroutines \ {c} : pc'[d] = pc[d] /\ own'[d] = own[d]
  BY DEF RoomTypes
<1>2. RoomTypes'
  BY <1>1 DEF RoomTypes, Loading
<1>3. \A d \in Coroutines : Loads(d)' => Loads(d) /\ own'[d] = own[d]
  BY <1>1 DEF Loads, Loading
<1> QED
  BY <1>2, <1>3 DEF HeardIsCurrent
LEMMA RoomStill ==
    ASSUME RoomTypes, ~jammed => HeardIsCurrent,
           UNCHANGED <<waiting, onAir, sound, jammed, pc, own>>
    PROVE  RoomTypes' /\ (~jammed => HeardIsCurrent)'
  BY DEF RoomTypes, HeardIsCurrent, Loads, Loading

LEMMA RoomFoundKeeps ==
    ASSUME StayInv, NEW c \in Coroutines, Room!Found(c) PROVE StayInv'
<1> DEFINE s == own[c]
<1> USE DEF StayInv
<1>1. /\ Loads(c) /\ onAir' = [onAir EXCEPT ![s] = TRUE]
      /\ sound' = [sound EXCEPT ![s] = @ \/ Room!CanPlay(s)]
      /\ UNCHANGED <<waiting, own, jammed, made, session, asks>>
  BY DEF Room!Found, Room!Seeking, Loads, Loading, Room!place, Room!bounds
<1>2. \E label \in {"presence", "done"} : pc' = [pc EXCEPT ![c] = label]
  BY DEF Room!Found, Room!Goto
<1>3. PICK label \in {"presence", "done"} : pc' = [pc EXCEPT ![c] = label]
  BY <1>2
<1>4. s \in Sessions
  BY <1>1 DEF RoomTypes, Loads, Loading, Sessions
<1> HIDE DEF s
<1>5. /\ onAir' \in [Sessions -> BOOLEAN] /\ onAir'[s]
      /\ \A x \in Sessions \ {s} : onAir'[x] = onAir[x]
  BY <1>1, <1>4 DEF RoomTypes
<1>6. /\ sound' \in [Sessions -> BOOLEAN] /\ \A x \in Sessions \ {s} : sound'[x] = sound[x]
  <2> DEFINE b == sound[s] \/ Room!CanPlay(s)
  <2>1. sound' = [sound EXCEPT ![s] = b] /\ b \in BOOLEAN
    BY <1>1
  <2> HIDE DEF b
  <2> QED
    BY <1>4, <2>1 DEF RoomTypes
<1>7. /\ pc' = [d \in Coroutines |-> pc'[d]]
      /\ pc'[c] = label /\ \A d \in Coroutines \ {c} : pc'[d] = pc[d]
  BY <1>3 DEF RoomTypes
<1>8. RoomTypes'
  BY <1>1, <1>3, <1>5, <1>6, <1>7 DEF RoomTypes
<1>9. Counted'
  <2>1. label \notin Wants
    BY DEF Wants
  <2>2. asks <= MaxAsks
    BY TimersAssumption DEF Counted
  <2> QED
    BY <1>1, <1>3, <2>1, <2>2, CountedOn
<1>10. ASSUME ~jammed PROVE HeardIsCurrent'
  <2>1. \A d \in Coroutines : Loads(d)' => d # c /\ Loads(d) /\ own[d] # s /\ own[d] \in Sessions
    BY <1>1, <1>3, <1>7, <1>10 DEF HeardIsCurrent, Loads, Loading, s, RoomTypes, Sessions
  <2>2. \A x \in Sessions : sound'[x] => onAir'[x]
    BY <1>5, <1>6, <1>10 DEF HeardIsCurrent
  <2>3. \A d \in Coroutines : Loads(d)' => ~sound'[own'[d]]
    BY <1>1, <1>6, <1>10, <2>1 DEF HeardIsCurrent
  <2>4. \A d, e \in Coroutines : Loads(d)' /\ Loads(e)' /\ own'[d] = own'[e] => d = e
    BY <1>1, <1>10, <2>1 DEF HeardIsCurrent
  <2> QED
    BY <2>2, <2>3, <2>4 DEF HeardIsCurrent
<1> QED
  BY <1>1, <1>8, <1>9, <1>10

LEMMA RoomNotFoundKeeps ==
    ASSUME StayInv, NEW c \in Coroutines, Room!NotFound(c) PROVE StayInv'
<1> USE DEF StayInv
<1>1. /\ Loads(c) /\ \E label \in {"failed", "refailed"} : pc' = [pc EXCEPT ![c] = label]
      /\ UNCHANGED <<waiting, onAir, sound, jammed, own, made, session, asks>>
  BY DEF Room!NotFound, Room!Seeking, Room!Goto, Loads, Loading, Room!place, Room!player,
     Room!bounds, Room!history
<1>2. PICK label \in {"failed", "refailed"} : pc' = [pc EXCEPT ![c] = label]
  BY <1>1
<1>3. /\ pc' = [d \in Coroutines |-> pc'[d]]
      /\ pc'[c] = label /\ \A d \in Coroutines \ {c} : pc'[d] = pc[d]
  BY <1>2 DEF RoomTypes
<1>4. own[c] # 0
  BY <1>1 DEF RoomTypes, Loads, Loading
<1>5. RoomTypes'
  BY <1>1, <1>3, <1>4 DEF RoomTypes
<1>6. \A d \in Coroutines : Loads(d)' => Loads(d)
  BY <1>1, <1>3 DEF Loads, Loading
<1>7. (~jammed => HeardIsCurrent)'
  BY <1>1, <1>6 DEF HeardIsCurrent
<1>8. Counted'
  <2>1. label \notin Wants /\ asks <= MaxAsks
    BY TimersAssumption DEF Wants, Counted
  <2> QED
    BY <1>1, <1>2, <2>1, CountedOn
<1> QED
  BY <1>5, <1>7, <1>8

(* From a session to the queue (InSession): a session more, perhaps, of    *)
(* one coroutine less that wants one.                                      *)
LEMMA InSessionKeeps ==
    ASSUME StayInv, NEW c \in Coroutines, c \in Wanting, NEW l, Room!InSession(c, l),
           UNCHANGED <<sound, asks>>
    PROVE  StayInv'
<1> USE DEF StayInv
<1> DEFINE s == IF session = 0 THEN made + 1 ELSE session
<1>1. /\ session' = s /\ made' = IF session = 0 THEN made + 1 ELSE made
      /\ \/ Room!Put(c, s, FALSE)
         \/ Room!Becomes(c, "posting", s) /\ UNCHANGED <<waiting, onAir, jammed>>
  BY DEF Room!InSession
<1>2. s \in Sessions
  <2>1. Cardinality(Wanting) \in Nat /\ Cardinality(Wanting) >= 1
    <3>1. IsFiniteSet(Wanting) /\ IsFiniteSet({c}) /\ Cardinality({c}) = 1 /\ {c} \subseteq Wanting
      BY WantingIsFinite, FS_Singleton
    <3> QED
      BY <3>1, WantingIsFinite, FS_Subset
  <2> QED
    BY <2>1, TimersAssumption DEF Counted, Sessions
<1> HIDE DEF s
<1>3. /\ RoomTypes' /\ (~jammed => HeardIsCurrent)'
      /\ \E label : label \notin Wants /\ pc' = [pc EXCEPT ![c] = label]
  <2>1. CASE Room!Put(c, s, FALSE)
    BY <1>2, <2>1, RoomPutKeeps
  <2>2. CASE Room!Becomes(c, "posting", s) /\ UNCHANGED <<waiting, onAir, jammed>>
    <3>1. pc' = [pc EXCEPT ![c] = "posting"] /\ own' = [own EXCEPT ![c] = s]
      BY <2>2 DEF Room!Becomes, Room!Goto
    <3>2. s \in 0..MaxAsks /\ s # 0
      BY <1>2, TimersAssumption DEF Sessions
    <3> QED
      BY <2>2, <3>1, <3>2, RoomAside DEF Wants, Loading
  <2> QED
    BY <1>1, <2>1, <2>2
<1>4. PICK label : label \notin Wants /\ pc' = [pc EXCEPT ![c] = label]
  BY <1>3
<1>5. \/ made' = made + 1 /\ session' = made + 1
      \/ made' = made /\ session' = session
  BY <1>1 DEF s
<1>6. Counted'
  BY <1>4, <1>5, CountedOn
<1> QED
  BY <1>3, <1>6

(* A coroutine that is not in a session's queue goes on.                   *)
LEMMA StayAside ==
    ASSUME StayInv, UNCHANGED <<waiting, onAir, sound, jammed, made, session>>,
           NEW c \in Coroutines, NEW label, NEW o \in 0..MaxAsks,
           pc' = [pc EXCEPT ![c] = label], own' = own \/ own' = [own EXCEPT ![c] = o],
           label \notin Loading,
           label \in {"fill", "ask_radio", "posting"} => own' = [own EXCEPT ![c] = o] /\ o # 0,
           \/ asks' = asks + 1 /\ asks < MaxAsks
           \/ asks' = asks /\ (label \notin Wants \/ c \in Wanting)
    PROVE  StayInv'
<1>1. RoomTypes' /\ (~jammed => HeardIsCurrent)'
  BY RoomAside DEF StayInv
<1>2. asks <= MaxAsks /\ asks \in Nat /\ MaxAsks \in Nat
  BY TimersAssumption DEF StayInv, Counted
<1>3. Counted'
  BY <1>2, CountedOn DEF StayInv
<1> QED
  BY <1>1, <1>3 DEF StayInv
LEMMA StayStill ==
    ASSUME StayInv, UNCHANGED <<waiting, onAir, sound, jammed, pc, own, made, session, asks>>
    PROVE  StayInv'
  BY RoomStill, CountedStill DEF StayInv
LEMMA StayEnded ==
    ASSUME StayInv, NEW ring, session # 0, Room!Ended(session, ring),
           UNCHANGED <<pc, own, jammed, made, asks>>
    PROVE  StayInv'
<1>1. session \in Sessions
  BY WantingIsFinite, TimersAssumption DEF StayInv, Counted, Sessions
<1>2. RoomTypes' /\ (~jammed => HeardIsCurrent)'
  BY <1>1, RoomEndedKeeps DEF StayInv
<1>3. Counted'
  BY CountedStill DEF StayInv, Room!Ended
<1> QED
  BY <1>2, <1>3 DEF StayInv

LEMMA ZeroIsNumber == 0 \in 0..MaxAsks
  BY TimersAssumption
LEMMA LiveSession ==
    ASSUME StayInv, session # 0 PROVE session \in 0..MaxAsks /\ session \in Sessions
  BY WantingIsFinite, TimersAssumption DEF StayInv, Counted, Sessions

(* A coroutine that puts a track into a queue, or plays the next one.      *)
LEMMA QueueKeeps ==
    ASSUME StayInv, NEW c \in Coroutines, NEW s \in Sessions, NEW anew,
           UNCHANGED <<made, session, asks>>,
           \/ Room!Put(c, s, anew) /\ sound' = sound
           \/ /\ Room!PlayNext(c, s, waiting[s], anew)
              /\ \/ Loads(c) /\ own[c] = s /\ sound' = sound
                 \/ sound' = [sound EXCEPT ![s] = FALSE]
    PROVE  StayInv'
<1>1. /\ RoomTypes' /\ (~jammed => HeardIsCurrent)'
      /\ \E label : label \notin Wants /\ pc' = [pc EXCEPT ![c] = label]
  <2>1. CASE Room!Put(c, s, anew) /\ sound' = sound
    BY <2>1, RoomPutKeeps DEF StayInv
  <2>2. CASE /\ Room!PlayNext(c, s, waiting[s], anew)
             /\ \/ Loads(c) /\ own[c] = s /\ sound' = sound
                \/ sound' = [sound EXCEPT ![s] = FALSE]
    <3>1. /\ sound' \in [Sessions -> BOOLEAN] /\ \A x \in Sessions \ {s} : sound'[x] = sound[x]
          /\ ~jammed => ~sound'[s]
      BY <2>2 DEF StayInv, RoomTypes, HeardIsCurrent
    <3>2. waiting[s] \in Nat
      BY DEF StayInv, RoomTypes
    <3> QED
      BY <2>2, <3>1, <3>2, RoomPlayNextKeeps DEF StayInv
  <2> QED
    BY <2>1, <2>2
<1>2. PICK label : label \notin Wants /\ pc' = [pc EXCEPT ![c] = label]
  BY <1>1
<1>3. asks <= MaxAsks
  BY TimersAssumption DEF StayInv, Counted
<1>4. Counted'
  BY <1>2, <1>3, CountedOn DEF StayInv
<1> QED
  BY <1>1, <1>4 DEF StayInv

LEMMA CoroutineKeeps ==
    ASSUME StayInv, NEW c \in Coroutines, Room!Proceed(c) PROVE StayInv'
<1> USE DEF Room!place, Room!task, Room!bounds, Room!history, Room!player, Room!Goto
<1>1. CASE Room!Found(c)
  BY <1>1, RoomFoundKeeps
<1>2. CASE Room!NotFound(c)
  BY <1>2, RoomNotFoundKeeps
<1>3. CASE Room!TriesNext(c)
  <2>1. /\ Loads(c) /\ Room!PlayNext(c, own[c], waiting[own[c]], pc[c] = "refailed")
        /\ UNCHANGED <<made, session, asks, sound>>
    BY <1>3 DEF Room!TriesNext, Loads, Loading
  <2>2. own[c] \in Sessions
    BY <2>1 DEF StayInv, RoomTypes, Loads, Loading, Sessions
  <2> HIDE DEF Room!PlayNext
  <2> QED
    BY <2>1, <2>2, QueueKeeps
<1>4. CASE Room!Fill(c, TRUE)
  <2>1. /\ Room!Put(c, own[c], TRUE) /\ UNCHANGED <<made, session, asks, sound>>
        /\ pc[c] \in {"fill", "ask_radio"}
    BY <1>4 DEF Room!Fill
  <2>2. own[c] \in Sessions
    BY <2>1 DEF StayInv, RoomTypes, Sessions
  <2> QED
    BY <2>1, <2>2, QueueKeeps
<1>5. CASE Room!Fill(c, FALSE)
  <2>1. /\ \E label \in {"presence", "done"} : pc' = [pc EXCEPT ![c] = label]
        /\ UNCHANGED <<waiting, onAir, sound, jammed, made, session, own, asks>>
    BY <1>5 DEF Room!Fill
  <2> QED
    BY <2>1, StayAside, ZeroIsNumber DEF Wants, Loading
<1>6. CASE Room!Quiet(c)
  <2>1. /\ UNCHANGED <<waiting, onAir, sound, jammed, made, session, asks>>
        /\ \/ pc' = [pc EXCEPT ![c] = "done"] /\ own' = own
           \/ /\ session # 0 /\ pc' = [pc EXCEPT ![c] = "deleting"]
              /\ own' = [own EXCEPT ![c] = session]
    BY <1>6 DEF Room!Quiet, Room!Becomes
  <2> QED
    BY <2>1, StayAside, ZeroIsNumber, LiveSession DEF Wants, Loading
<1>7. CASE Room!Deleted(c) \/ Room!NothingFound(c) \/ Room!ConnectFails(c) \/ Room!PostFails(c)
  <2>1. /\ UNCHANGED <<waiting, onAir, sound, jammed, made, session, own, asks>>
        /\ pc' = [pc EXCEPT ![c] = "done"]
    BY <1>7 DEF Room!Deleted, Room!NothingFound, Room!ConnectFails, Room!PostFails, Room!Fault
  <2> QED
    BY <2>1, StayAside, ZeroIsNumber DEF Wants, Loading
<1>8. CASE Room!Join(c)
  <2>1. c \in Wanting
    BY <1>8 DEF Room!Join, Wanting, Wants
  <2>2. \/ /\ \E label \in {"done", "connecting", "moving"} : pc' = [pc EXCEPT ![c] = label]
           /\ UNCHANGED <<waiting, onAir, sound, jammed, made, session, own, asks>>
        \/ Room!InSession(c, line) /\ UNCHANGED <<sound, asks>>
    BY <1>8 DEF Room!Join
  <2> QED
    BY <2>1, <2>2, StayAside, InSessionKeeps, ZeroIsNumber DEF Wants, Loading
<1>9. CASE Room!Connected(c) \/ Room!Moved(c)
  <2>1. c \in Wanting
    BY <1>9 DEF Room!Connected, Room!Moved, Wanting, Wants
  <2>2. (\E l : Room!InSession(c, l)) /\ UNCHANGED <<sound, asks>>
    BY <1>9 DEF Room!Connected, Room!Moved
  <2> QED
    BY <2>1, <2>2, InSessionKeeps
<1>10. CASE Room!Posted(c)
  <2>1. /\ Room!Put(c, own[c], FALSE) /\ UNCHANGED <<made, session, asks, sound>>
        /\ pc[c] = "posting"
    BY <1>10 DEF Room!Posted
  <2>2. own[c] \in Sessions
    BY <2>1 DEF StayInv, RoomTypes, Sessions
  <2> QED
    BY <2>1, <2>2, QueueKeeps
<1> QED
  BY <1>1, <1>2, <1>3, <1>4, <1>5, <1>6, <1>7, <1>8, <1>9, <1>10 DEF Room!Proceed

LEMMA TrackEndsStays ==
    ASSUME StayInv, NEW c \in Coroutines, NEW s \in Sessions, Room!TrackEnds(c, s) PROVE StayInv'
<1>1. sound' = [sound EXCEPT ![s] = FALSE] /\ UNCHANGED <<made, session, asks>>
  BY DEF Room!TrackEnds, Room!place, Room!bounds
<1>2. CASE UNCHANGED <<waiting, onAir, pc, own, jammed>>
  <2>1. /\ sound' \in [Sessions -> BOOLEAN]
        /\ \A x \in Sessions : sound'[x] => sound[x]
    BY <1>1 DEF StayInv, RoomTypes
  <2>2. RoomTypes' /\ Counted'
    BY <1>1, <1>2, <2>1, CountedStill DEF StayInv, RoomTypes
  <2>3. \A d \in Coroutines : Loads(d) => own[d] \in Sessions
    BY DEF StayInv, RoomTypes, Loads, Loading, Sessions
  <2>4. ASSUME ~jammed' PROVE HeardIsCurrent'
    BY <1>2, <2>1, <2>3, <2>4 DEF StayInv, HeardIsCurrent, Loads, Loading
  <2> QED
    BY <2>2, <2>4 DEF StayInv
<1>3. CASE Room!PlayNext(c, s, waiting[s], FALSE)
  BY <1>1, <1>3, QueueKeeps
<1> QED
  BY <1>2, <1>3 DEF Room!TrackEnds

LEMMA RoomStep == StayInv /\ [Room!Next]_(Room!vars) => StayInv'
<1> SUFFICES ASSUME StayInv, [Room!Next]_(Room!vars) PROVE StayInv'
  OBVIOUS
<1> DEFINE Still == UNCHANGED <<waiting, onAir, sound, jammed, pc, own, made, session, asks>>
           Over == /\ session # 0 /\ \E ring : Room!Ended(session, ring)
                   /\ UNCHANGED <<pc, own, jammed, made, asks>>
<1>a. Still \/ Over => StayInv'
  BY StayStill, StayEnded
<1> HIDE DEF Still, Over
<1>1. ASSUME NEW c \in Coroutines, Room!Proceed(c) PROVE StayInv'
  BY <1>1, CoroutineKeeps
<1>2. ASSUME NEW c \in Coroutines, Room!Play(c) \/ Room!Pick(c) \/ Room!ToggleRadio(c) PROVE StayInv'
  <2>1. /\ UNCHANGED <<waiting, onAir, sound, jammed, made, session>>
        /\ asks' = asks + 1 /\ asks < MaxAsks
    BY <1>2 DEF Room!Play, Room!Pick, Room!Ask, Room!ToggleRadio, Room!place, Room!task, Room!player, Room!history
  <2>2. CASE Room!Play(c) \/ Room!Pick(c)
    <3>1. own' = own /\ \E label \in {"searching", "found"} : pc' = [pc EXCEPT ![c] = label]
      BY <2>2 DEF Room!Play, Room!Pick, Room!Ask, Room!Goto
    <3> QED
      BY <2>1, <3>1, StayAside, ZeroIsNumber DEF Loading
  <2>3. CASE Room!ToggleRadio(c)
    <3>1. CASE /\ session # 0 /\ pc' = [pc EXCEPT ![c] = "ask_radio"]
               /\ own' = [own EXCEPT ![c] = session]
      BY <2>1, <3>1, StayAside, LiveSession DEF Loading
    <3>2. CASE UNCHANGED <<pc, own>>
      <4>1. RoomTypes' /\ (~jammed => HeardIsCurrent)'
        BY <2>1, <3>2, RoomStill DEF StayInv
      <4>2. Counted'
        BY <2>1, <3>2, TimersAssumption, WantingIsFinite DEF StayInv, Counted, Wanting
      <4> QED
        BY <4>1, <4>2 DEF StayInv
    <3> QED
      BY <2>3, <3>1, <3>2 DEF Room!ToggleRadio, Room!Becomes, Room!Goto
  <2> QED
    BY <1>2, <2>2, <2>3
<1>3. ASSUME NEW c \in Coroutines, NEW s \in Room!Sessions, Room!TrackEnds(c, s) PROVE StayInv'
  BY <1>3, TrackEndsStays DEF Room!Sessions, Sessions
<1> USE DEF Room!place, Room!task, Room!bounds, Room!history, Room!player
<1>4. CASE Room!Wakes
  <2>1. ASSUME NEW s \in Room!Sessions, Room!AskMore(s) PROVE Still
    BY <2>1 DEF Room!AskMore, Still
  <2>2. ASSUME NEW s \in Room!Sessions, Room!GiveUp(s) PROVE Still \/ Over
    BY <2>2 DEF Room!GiveUp, Still, Over
  <2>3. ASSUME Room!GraceEnds PROVE Still \/ Over
    BY <2>3 DEF Room!GraceEnds, Room!Cleanup, Still, Over
  <2> QED
    BY <1>4, <1>a, <2>1, <2>2, <2>3 DEF Room!Wakes
<1>5. CASE Room!Stop \/ Room!Kicked
  <2>1. Still \/ Over
    BY <1>5 DEF Room!Stop, Room!Cleanup, Room!Kicked, Room!Out, Room!Fault, Still, Over
  <2> QED
    BY <1>a, <2>1
<1>6. ASSUME NEW l \in closing, Room!Disconnected(l) PROVE StayInv'
  <2>1. Still \/ Over
    BY <1>6 DEF Room!Disconnected, Room!Out, Still, Over
  <2> QED
    BY <1>a, <2>1
<1>7. ASSUME NEW where, Room!Move(where) \/ Room!Dragged(where) PROVE StayInv'
  <2>1. Still
    BY <1>7 DEF Room!Move, Room!Dragged, Still
  <2> QED
    BY <1>a, <2>1
<1>8. CASE UNCHANGED Room!vars
  <2>1. Still
    BY <1>8 DEF Room!vars, Still
  <2> QED
    BY <1>a, <2>1
<1> QED
  BY <1>1, <1>2, <1>3, <1>4, <1>5, <1>6, <1>7, <1>8 DEF Room!Next

(* No timer ends a session that is heard while somebody is there, unless   *)
(* two coroutines were in _play_next of it at once, looking for a stream   *)
(* or announcing a failure; whatever people, timers and the lines do in    *)
(* between.                                                                *)
THEOREM NobodyCutShort == Room!Spec => Room!NotCutShort
<1>1. Room!Init => StayInv
  <2> SUFFICES ASSUME Room!Init PROVE StayInv
    OBVIOUS
  <2>1. RoomTypes
    BY TimersAssumption DEF Room!Init, RoomTypes, Room!Sessions, Sessions
  <2>2. Wanting = {}
    BY DEF Room!Init, Wanting, Wants
  <2>3. Counted
    BY <2>2, FS_EmptySet, TimersAssumption DEF Room!Init, Counted
  <2>4. HeardIsCurrent
    BY DEF Room!Init, HeardIsCurrent, Loads, Loading, Room!Sessions, Sessions
  <2> QED
    BY <2>1, <2>3, <2>4 DEF StayInv
<1>2. StayInv /\ [Room!Next]_(Room!vars) => StayInv'
  BY RoomStep
<1>3. StayInv => [Room!Wakes /\ session' # session
                    => ~sound[session] \/ Room!Deserted \/ jammed]_(Room!vars)
  <2> SUFFICES ASSUME StayInv, Room!Wakes, session' # session, ~jammed
               PROVE  ~sound[session] \/ Room!Deserted
    OBVIOUS
  <2>1. ASSUME NEW s \in Room!Sessions, Room!AskMore(s) PROVE FALSE
    BY <2>1 DEF Room!AskMore, Room!place
  <2>2. ASSUME NEW s \in Room!Sessions, Room!GiveUp(s) PROVE ~sound[session]
    <3>1. session # 0 /\ ~onAir[session]
      BY <2>2 DEF Room!GiveUp, Room!Playing
    <3> QED
      BY <3>1, LiveSession DEF StayInv, HeardIsCurrent
  <2>3. ASSUME Room!GraceEnds PROVE Room!Deserted
    BY <2>3 DEF Room!GraceEnds
  <2> QED
    BY <2>1, <2>2, <2>3 DEF Room!Wakes
<1> QED
  BY <1>1, <1>2, <1>3, PTL DEF Room!Spec, Room!NotCutShort
-----------------------------------------------------------------------------
(* The film club (MCCinema), with calls that fail, overlapping             *)
(* transactions and crashes.                                               *)
ClubTypes ==
    /\ movie = [m \in Movies |-> movie[m]] /\ night = [n \in Nights |-> night[n]]
    /\ winner = [n \in Nights |-> winner[n]]
    /\ rated = [m \in Movies |-> rated[m]] /\ counted = [m \in Movies |-> counted[m]]
    /\ starter = [s \in Starters |-> starter[s]] /\ click = [u \in Users |-> click[u]]
    /\ final = [m \in Movies |-> final[m]] /\ removing \subseteq Movies
    /\ met \in BOOLEAN

(* One transaction at most has read and not yet written, and what it has   *)
(* read still stands.                                                      *)
ReadStands ==
    /\ \A x, y \in Club!InProgress : x = y
    /\ \A s \in Starters : starter[s] = "insert" => Club!Active = {}
    /\ \A u \in Users : click[u] # None /\ click[u].kind # "vote" => movie[click[u].movie] = "rating"
    /\ \A m \in Movies : final[m] # None =>
          /\ movie[m] = "rating" /\ final[m].ratings = rated[m]
          /\ final[m].nights = Club!Waiting(m)
    /\ \A m \in removing : movie[m] = "listed"
ClubRules ==
    /\ Club!OneActiveNight /\ Club!EveryRatingCounts /\ Club!DoneIsWatched
    /\ \A n \in Nights : night[n] = "done" => winner[n] \in Movies
ClubInv == ClubTypes /\ (~met => ReadStands /\ ClubRules)

LEMMA Begun ==
    /\ \A s \in Starters : starter[s] = "insert" => <<"start", s>> \in Club!InProgress
    /\ \A u \in Users : click[u] # None => <<"click", u>> \in Club!InProgress
    /\ \A m \in Movies : final[m] # None => <<"final", m>> \in Club!InProgress
    /\ \A m \in removing : <<"remove", m>> \in Club!InProgress
  BY DEF Club!InProgress

(* What the history variable has noted of a step.                          *)
LEMMA NothingMet ==
    ASSUME ~met', Club!MCNext, ClubTypes'
    PROVE  /\ ~met /\ (\A x, y \in Club!InProgress : x = y)'
           /\ UNCHANGED <<starter, removing, click, final>> /\ Club!rows' # Club!rows => Club!InProgress = {}
<1>1. ~met /\ ~Club!Disturbs /\ ~(Club!Cardinality(Club!InProgress') > 1)
  BY DEF Club!MCNext
<1>2. UNCHANGED <<starter, removing, click, final>> => Club!InProgress' = Club!InProgress
  BY DEF Club!InProgress
<1>3. UNCHANGED <<starter, removing, click, final>> /\ Club!rows' # Club!rows => Club!InProgress = {}
  BY <1>1, <1>2 DEF Club!Disturbs
<1> DEFINE S == Club!InProgress'
<1>4. IsFiniteSet(S)
  <2> DEFINE A == {"start"} \X Starters
             B == {"click"} \X Users
             C == {"final"} \X Movies
             D == {"remove"} \X Movies
  <2>1. S \subseteq ((A \cup B) \cup C) \cup D
    BY DEF Club!InProgress, ClubTypes
  <2>2. IsFiniteSet(A) /\ IsFiniteSet(B) /\ IsFiniteSet(C) /\ IsFiniteSet(D)
    BY TimersAssumption, FS_Singleton, FS_Product
  <2> HIDE DEF S, A, B, C, D
  <2>3. IsFiniteSet(((A \cup B) \cup C) \cup D)
    BY <2>2, FS_Union
  <2> QED
    BY <2>1, <2>3, FS_Subset
<1>5. ~(Cardinality(S) > 1)
  BY <1>1, Zenon DEF Club!Cardinality, Cardinality
<1> HIDE DEF S
<1>6. ASSUME NEW x \in S, NEW y \in S, x # y PROVE FALSE
  <2>1. IsFiniteSet({x}) /\ Cardinality({x}) = 1 /\ y \notin {x}
    BY <1>6, FS_Singleton
  <2>2. Cardinality({x} \cup {y}) = 2
    BY <2>1, FS_AddElement
  <2>3. Cardinality({x} \cup {y}) <= Cardinality(S) /\ Cardinality(S) \in Nat
    BY <1>4, FS_Subset, FS_CardinalityType
  <2> QED
    BY <1>5, <2>2, <2>3
<1> QED
  BY <1>1, <1>3, <1>6 DEF S

LEMMA ClubTypesKept == ClubTypes /\ [Club!MCNext]_(Club!mcVars) => ClubTypes'
<1> SUFFICES ASSUME ClubTypes, [Club!MCNext]_(Club!mcVars) PROVE ClubTypes'
  OBVIOUS
<1> USE DEF Club!rows, Club!process
<1> DEFINE Rows == /\ movie = [m \in Movies |-> movie[m]] /\ night = [n \in Nights |-> night[n]]
                   /\ winner = [n \in Nights |-> winner[n]]
                   /\ rated = [m \in Movies |-> rated[m]] /\ counted = [m \in Movies |-> counted[m]]
           Work == /\ starter = [s \in Starters |-> starter[s]] /\ click = [u \in Users |-> click[u]]
                   /\ final = [m \in Movies |-> final[m]] /\ removing \subseteq Movies
<1>0. Rows /\ Work
  BY DEF ClubTypes
<1>1. ASSUME Club!Begun PROVE Rows' /\ Work'
  <2>1. ASSUME NEW s \in Starters, Club!InsertNight(s) PROVE Rows' /\ Work'
    BY <1>0, <2>1 DEF Club!InsertNight
  <2>2. ASSUME NEW s \in Starters, Club!PostPoll(s) PROVE Rows' /\ Work'
    BY <1>0, <2>2 DEF Club!PostPoll
  <2>3. ASSUME NEW u \in Users, Club!WriteClick(u) PROVE Rows' /\ Work'
    BY <1>0, <2>3 DEF Club!WriteClick
  <2>4. ASSUME NEW m \in Movies, Club!ReadFinal(m) PROVE Rows' /\ Work'
    BY <1>0, <2>4 DEF Club!ReadFinal
  <2>5. ASSUME NEW m \in Movies, Club!WriteFinal(m) PROVE Rows' /\ Work'
    BY <1>0, <2>5 DEF Club!WriteFinal, Club!Finished
  <2>6. ASSUME NEW n \in Nights, Club!ClosePoll(n) PROVE Rows' /\ Work'
    BY <1>0, <2>6 DEF Club!ClosePoll, Club!Elect, Club!Crowned
  <2>7. ASSUME NEW m \in Movies, Club!RemoveMovie(m) PROVE Rows' /\ Work'
    BY <1>0, <2>7 DEF Club!RemoveMovie
  <2>8. ASSUME \/ \E n \in Nights : Club!PollEnds(n)
               \/ (\E x \in todo : Club!Post(x)) \/ Club!Restart
        PROVE  Rows' /\ Work'
    BY <1>0, <2>8 DEF Club!PollEnds, Club!Post, Club!Restart
  <2> QED
    BY <1>1, <2>1, <2>2, <2>3, <2>4, <2>5, <2>6, <2>7, <2>8 DEF Club!Begun
<1>2. ASSUME Club!Asked PROVE Rows' /\ Work'
  <2>1. ASSUME NEW s \in Starters, Club!StartNight(s) PROVE Rows' /\ Work'
    BY <1>0, <2>1 DEF Club!StartNight
  <2>2. ASSUME NEW u \in Users, NEW m \in Movies,
               Club!ReadRating(u, m) \/ \E n \in Nights : Club!ReadVote(u, n, m)
        PROVE  Rows' /\ Work'
    BY <1>0, <2>2 DEF Club!ReadRating, Club!ReadVote
  <2>3. ASSUME NEW n \in Nights, Club!CancelNight(n) PROVE Rows' /\ Work'
    BY <1>0, <2>3 DEF Club!CancelNight
  <2>4. ASSUME NEW m \in Movies, Club!StartRemove(m) PROVE Rows' /\ Work'
    BY <1>0, <2>4 DEF Club!StartRemove, Club!Listed
  <2>5. ASSUME NEW m \in Movies, Club!OpenRating(m) PROVE Rows' /\ Work'
    BY <1>0, <2>5 DEF Club!OpenRating
  <2> QED
    BY <1>2, <2>1, <2>2, <2>3, <2>4, <2>5 DEF Club!Asked
<1>3. ASSUME Club!Crash PROVE Rows' /\ Work'
  BY <1>0, <1>3 DEF Club!Crash
<1>4. CASE Club!MCNext
  <2>1. met' \in BOOLEAN
    BY <1>4 DEF Club!MCNext
  <2>2. Rows' /\ Work'
    BY <1>1, <1>2, <1>3, <1>4 DEF Club!MCNext, Club!Next
  <2> QED
    BY <2>1, <2>2 DEF ClubTypes
<1>5. CASE UNCHANGED Club!mcVars
  BY <1>5 DEF ClubTypes, Club!mcVars, Club!vars
<1> QED
  BY <1>4, <1>5

(* What changes no row and begins nothing keeps what holds of them.        *)
LEMMA RowsStill ==
    ASSUME ReadStands, ClubRules, (\A x, y \in Club!InProgress : x = y)',
           UNCHANGED <<movie, night, winner, rated, counted>>,
           \A s \in Starters : starter'[s] = "insert" => starter[s] = "insert" \/ Club!Active = {},
           \A u \in Users : click'[u] # None /\ click'[u].kind # "vote" =>
              click'[u] = click[u] \/ movie[click'[u].movie] = "rating",
           \A m \in Movies : final'[m] # None =>
              \/ final'[m] = final[m]
              \/ /\ movie[m] = "rating" /\ final'[m].ratings = rated[m]
                 /\ final'[m].nights = Club!Waiting(m),
           \A m \in removing' : m \in removing \/ movie[m] = "listed"
    PROVE  (ReadStands /\ ClubRules)'
<1>1. Club!Active' = Club!Active /\ \A m : Club!Waiting(m)' = Club!Waiting(m)
  BY DEF Club!Active, Club!Waiting
<1>2. ClubRules'
  BY <1>1 DEF ClubRules, Club!OneActiveNight, Club!EveryRatingCounts, Club!DoneIsWatched
<1>3. ReadStands'
  BY <1>1 DEF ReadStands
<1> QED
  BY <1>2, <1>3

LEMMA NothingRead ==
    ASSUME (\A x, y \in Club!InProgress : x = y)', \A s \in Starters : starter'[s] # "insert",
           \A u \in Users : click'[u] = None, \A m \in Movies : final'[m] = None,
           removing' = {}
    PROVE  ReadStands'
  BY DEF ReadStands

LEMMA ClubStep ==
    ASSUME ClubTypes, ReadStands, ClubRules, Club!MCNext, ~met' PROVE (ReadStands /\ ClubRules)'
<1> DEFINE Goal == (ReadStands /\ ClubRules)'
           Single == \A x, y \in Club!InProgress : x = y
           Idle == /\ \A s \in Starters : starter[s] # "insert"
                   /\ (\A u \in Users : click[u] = None) /\ \A m \in Movies : final[m] = None
                   /\ removing = {}
<1> SUFFICES Goal
  OBVIOUS
<1>0. /\ Single' /\ Single
      /\ UNCHANGED <<starter, removing, click, final>> /\ Club!rows' # Club!rows => Club!InProgress = {}
  BY NothingMet, ClubTypesKept DEF ReadStands
<1>a. ASSUME UNCHANGED <<starter, removing, click, final>>, Club!rows' # Club!rows PROVE Idle
  BY <1>0, <1>a, Begun
<1> HIDE DEF Goal, Single
<1> USE DEF Club!rows, Club!process
<1>1. ASSUME NEW s \in Starters, Club!StartNight(s) PROVE Goal
  <2>1. /\ starter' = [starter EXCEPT ![s] = "insert"] /\ Club!Active = {}
        /\ UNCHANGED <<movie, night, winner, rated, counted, removing, click, final>>
    BY <1>1 DEF Club!StartNight, Club!MayStart
  <2> QED
    BY <1>0, <2>1, RowsStill DEF Goal, Single
<1>2. ASSUME NEW s \in Starters, Club!InsertNight(s) PROVE Goal
  <2>1. PICK n \in Nights : /\ night[n] = "none" /\ night' = [night EXCEPT ![n] = "poll"]
                            /\ starter' = [starter EXCEPT ![s] = n]
    BY <1>2 DEF Club!InsertNight
  <2>2. starter[s] = "insert" /\ UNCHANGED <<movie, winner, rated, counted, removing, click, final>>
    BY <1>2 DEF Club!InsertNight
  <2>3. /\ \A t \in Starters \ {s} : starter[t] # "insert"
        /\ (\A u \in Users : click[u] = None) /\ \A m \in Movies : final[m] = None
        /\ removing = {}
    BY <1>0, <2>2, Begun DEF Single
  <2>4. \A t \in Starters : starter'[t] # "insert"
    BY <2>1, <2>3, TimersAssumption DEF ClubTypes
  <2>5. Club!Active = {}
    BY <2>2 DEF ReadStands
  <2>6. /\ night'[n] = "poll" /\ \A k \in Nights \ {n} : night'[k] = night[k]
    BY <2>1 DEF ClubTypes
  <2>7. Club!Active' \subseteq {n}
    BY <2>5, <2>6 DEF Club!Active
  <2>8. ClubRules'
    <3>1. Club!OneActiveNight'
      BY <2>7 DEF Club!OneActiveNight
    <3>2. Club!EveryRatingCounts'
      BY <2>2 DEF ClubRules, Club!EveryRatingCounts
    <3>3. \A k \in Nights : night'[k] = "done" => night[k] = "done"
      BY <2>6
    <3> QED
      BY <2>2, <3>1, <3>2, <3>3 DEF ClubRules, Club!DoneIsWatched
  <2>9. ReadStands'
    BY <1>0, <2>2, <2>3, <2>4, NothingRead DEF Single
  <2> QED
    BY <2>8, <2>9 DEF Goal
<1>3. ASSUME NEW s \in Starters, Club!PostPoll(s) PROVE Goal
  <2>1. /\ starter' = [starter EXCEPT ![s] = None]
        /\ UNCHANGED <<movie, night, winner, rated, counted, removing, click, final>>
    BY <1>3 DEF Club!PostPoll
  <2>2. \A t \in Starters : starter'[t] = "insert" => starter[t] = "insert"
    BY <2>1, TimersAssumption DEF ClubTypes
  <2> QED
    BY <1>0, <2>1, <2>2, RowsStill DEF Goal, Single
<1>4. ASSUME NEW u \in Users, NEW m \in Movies,
             Club!ReadRating(u, m) \/ \E n \in Nights : Club!ReadVote(u, n, m)
      PROVE  Goal
  <2>1. /\ UNCHANGED <<movie, night, winner, rated, counted, starter, removing, final>>
        /\ \/ \E n : click' = [click EXCEPT ![u] = [kind |-> "vote", at |-> n, movie |-> m]]
           \/ /\ click' = [click EXCEPT ![u] = [kind |-> "rate", at |-> None, movie |-> m]]
              /\ movie[m] = "rating"
    BY <1>4 DEF Club!ReadRating, Club!ReadVote, Club!Rateable
  <2>2. /\ \A v \in Users \ {u} : click'[v] = click[v]
        /\ \/ click'[u].kind = "vote"
           \/ click'[u].movie = m /\ movie[m] = "rating"
    BY <2>1 DEF ClubTypes
  <2> QED
    BY <1>0, <2>1, <2>2, RowsStill DEF Goal, Single
<1>5. ASSUME NEW u \in Users, Club!WriteClick(u) PROVE Goal
  <2> DEFINE c == click[u]
  <2>1. /\ c # None /\ click' = [click EXCEPT ![u] = None]
        /\ UNCHANGED <<movie, night, winner, counted, starter, removing, final>>
        /\ \/ UNCHANGED rated
           \/ c.kind # "vote" /\ rated' = [rated EXCEPT ![c.movie] = @ \cup {u}]
    BY <1>5 DEF Club!WriteClick
  <2>2. /\ \A s \in Starters : starter[s] # "insert"
        /\ (\A v \in Users \ {u} : click[v] = None) /\ \A m \in Movies : final[m] = None
        /\ removing = {}
    BY <1>0, <2>1, Begun DEF Single
  <2>3. \A v \in Users : click'[v] = None
    BY <2>1, <2>2 DEF ClubTypes
  <2>4. \A m \in Movies : movie[m] = "watched" => rated'[m] = rated[m]
    BY <2>1 DEF ClubTypes, ReadStands
  <2>5. Club!Active' = Club!Active
    BY <2>1 DEF Club!Active
  <2>6. ClubRules'
    BY <2>1, <2>4, <2>5 DEF ClubRules, Club!OneActiveNight, Club!EveryRatingCounts, Club!DoneIsWatched
  <2>7. ReadStands'
    BY <1>0, <2>1, <2>2, <2>3, NothingRead DEF Single
  <2> QED
    BY <2>6, <2>7 DEF Goal
<1>6. ASSUME NEW m \in Movies, Club!ReadFinal(m) PROVE Goal
  <2>1. /\ UNCHANGED <<movie, night, winner, rated, counted, starter, removing, click>>
        /\ \/ final' = final
           \/ /\ movie[m] = "rating"
              /\ final' = [final EXCEPT ![m] = [ratings |-> rated[m], nights |-> Club!Waiting(m)]]
    BY <1>6 DEF Club!ReadFinal
  <2>2. /\ \A k \in Movies \ {m} : final'[k] = final[k]
        /\ \/ final'[m] = final[m]
           \/ /\ movie[m] = "rating" /\ final'[m].ratings = rated[m]
              /\ final'[m].nights = Club!Waiting(m)
    BY <2>1 DEF ClubTypes
  <2> QED
    BY <1>0, <2>1, <2>2, RowsStill DEF Goal, Single
<1>7. ASSUME NEW m \in Movies, Club!WriteFinal(m) PROVE Goal
  <2>1. /\ final[m] # None /\ final' = [final EXCEPT ![m] = None]
        /\ movie' = [movie EXCEPT ![m] = "watched"]
        /\ counted' = [counted EXCEPT ![m] = final[m].ratings]
        /\ night' = Club!Finished(m) /\ UNCHANGED <<winner, rated, starter, removing, click>>
    BY <1>7 DEF Club!WriteFinal
  <2>2. /\ \A s \in Starters : starter[s] # "insert"
        /\ (\A v \in Users : click[v] = None) /\ \A k \in Movies \ {m} : final[k] = None
        /\ removing = {}
    BY <1>0, <2>1, Begun DEF Single
  <2>3. \A k \in Movies : final'[k] = None
    <3>1. final = [k \in Movies |-> final[k]]
      BY DEF ClubTypes
    <3> QED
      BY <2>1, <2>2, <3>1
  <2>4. /\ movie[m] = "rating" /\ final[m].ratings = rated[m]
        /\ final[m].nights = Club!Waiting(m)
    BY <2>1 DEF ReadStands
  <2>5. /\ \A n \in Nights : night'[n] = IF n \in Club!Waiting(m) THEN "done" ELSE night[n]
        /\ movie'[m] = "watched" /\ counted'[m] = rated[m]
        /\ \A k \in Movies \ {m} : movie'[k] = movie[k] /\ counted'[k] = counted[k]
    BY <2>1, <2>4 DEF Club!Finished, ClubTypes
  <2>6. Club!Active' \subseteq Club!Active
    BY <2>5 DEF Club!Active
  <2>7. ClubRules'
    <3>1. Club!OneActiveNight'
      BY <2>6 DEF ClubRules, Club!OneActiveNight
    <3>2. Club!EveryRatingCounts'
      BY <2>1, <2>5 DEF ClubRules, Club!EveryRatingCounts
    <3>3. ASSUME NEW n \in Nights, night'[n] = "done"
          PROVE  winner'[n] \in Movies /\ movie'[winner'[n]] = "watched"
      <4>1. CASE n \in Club!Waiting(m)
        BY <2>1, <2>5, <4>1 DEF Club!Waiting
      <4>2. CASE n \notin Club!Waiting(m)
        BY <2>1, <2>5, <3>3, <4>2 DEF ClubRules, Club!DoneIsWatched
      <4> QED
        BY <4>1, <4>2
    <3> QED
      BY <3>1, <3>2, <3>3 DEF ClubRules, Club!DoneIsWatched
  <2>8. ReadStands'
    BY <1>0, <2>1, <2>2, <2>3, NothingRead DEF Single
  <2> QED
    BY <2>7, <2>8 DEF Goal
<1>b. ASSUME UNCHANGED <<starter, removing, click, final>>, Idle, ClubRules' PROVE Goal
  BY <1>0, <1>b, NothingRead DEF Single, Goal
<1>8. ASSUME NEW n \in Nights, Club!ClosePoll(n) \/ Club!CancelNight(n) PROVE Goal
  <2>1. UNCHANGED <<movie, rated, counted, starter, removing, click, final>>
    BY <1>8 DEF Club!ClosePoll, Club!CancelNight
  <2>2. CASE UNCHANGED <<night, winner>>
    BY <1>0, <2>1, <2>2, RowsStill DEF Goal, Single
  <2>3. CASE /\ night[n] \in {"poll", "scheduled"}
             /\ \/ night' = [night EXCEPT ![n] = "cancelled"] /\ UNCHANGED winner
                \/ /\ night[n] = "poll" /\ night' = [night EXCEPT ![n] = "scheduled"]
                   /\ \E m : winner' = [winner EXCEPT ![n] = m]
    <3>1. /\ night'[n] \in {"cancelled", "scheduled"} /\ night'[n] # night[n]
          /\ \A k \in Nights \ {n} : night'[k] = night[k] /\ winner'[k] = winner[k]
      BY <2>3 DEF ClubTypes
    <3>2. Idle
      BY <1>a, <2>1, <3>1
    <3>3. Club!Active' \subseteq Club!Active
      BY <2>3, <3>1 DEF Club!Active
    <3>4. ClubRules'
      BY <2>1, <3>1, <3>3 DEF ClubRules, Club!OneActiveNight, Club!EveryRatingCounts, Club!DoneIsWatched
    <3> QED
      BY <1>b, <2>1, <3>2, <3>4
  <2>4. ASSUME Club!ClosePoll(n), ~(UNCHANGED <<night, winner>>)
        PROVE  /\ night[n] = "poll"
               /\ \/ night' = [night EXCEPT ![n] = "cancelled"] /\ UNCHANGED winner
                  \/ /\ night' = [night EXCEPT ![n] = "scheduled"]
                     /\ \E m : winner' = [winner EXCEPT ![n] = m]
    BY <2>4 DEF Club!ClosePoll, Club!Elect, Club!Crowned
  <2>5. ASSUME Club!CancelNight(n)
        PROVE  /\ night[n] \in {"poll", "scheduled"}
               /\ night' = [night EXCEPT ![n] = "cancelled"] /\ UNCHANGED winner
    BY <2>5 DEF Club!CancelNight, Club!Active
  <2> QED
    BY <1>8, <2>2, <2>3, <2>4, <2>5
<1>9. ASSUME NEW m \in Movies, Club!OpenRating(m) PROVE Goal
  <2>1. /\ UNCHANGED <<night, winner, rated, counted, starter, removing, click, final>>
        /\ movie[m] = "listed" /\ movie' = [movie EXCEPT ![m] = "rating"]
    BY <1>9 DEF Club!OpenRating, Club!Listed
  <2>2. movie'[m] = "rating" /\ \A k \in Movies \ {m} : movie'[k] = movie[k]
    BY <2>1 DEF ClubTypes
  <2>3. Idle
    BY <1>a, <2>1, <2>2
  <2>4. Club!Active' = Club!Active
    BY <2>1 DEF Club!Active
  <2>5. ClubRules'
    BY <2>1, <2>2, <2>4 DEF ClubRules, Club!OneActiveNight, Club!EveryRatingCounts, Club!DoneIsWatched
  <2> QED
    BY <1>b, <2>1, <2>3, <2>5
<1>10. ASSUME \/ \E n \in Nights : Club!PollEnds(n)
              \/ (\E x \in todo : Club!Post(x)) \/ Club!Restart
       PROVE  Goal
  <2>1. UNCHANGED <<movie, night, winner, rated, counted, starter, removing, click, final>>
    BY <1>10 DEF Club!PollEnds, Club!Post, Club!Restart
  <2> QED
    BY <1>0, <2>1, RowsStill DEF Goal, Single
<1>11. ASSUME Club!Crash PROVE Goal
  <2>1. /\ UNCHANGED <<movie, night, winner, rated, counted>>
        /\ starter' = [s \in Starters |-> None] /\ click' = [u \in Users |-> None]
        /\ final' = [m \in Movies |-> None] /\ removing' = {}
    BY <1>11 DEF Club!Crash
  <2>2. \A s \in Starters : starter'[s] # "insert"
    BY <2>1, TimersAssumption
  <2> QED
    BY <1>0, <2>1, <2>2, RowsStill DEF Goal, Single
<1>12. ASSUME NEW m \in Movies, Club!StartRemove(m) PROVE Goal
  <2>1. /\ UNCHANGED <<movie, night, winner, rated, counted, starter, click, final>>
        /\ removing' = removing \cup {m} /\ movie[m] = "listed"
    BY <1>12 DEF Club!StartRemove, Club!Listed
  <2> QED
    BY <1>0, <2>1, RowsStill DEF Goal, Single
<1>13. ASSUME NEW m \in Movies, Club!RemoveMovie(m) PROVE Goal
  <2>1. /\ UNCHANGED <<night, winner, rated, counted, starter, click, final>>
        /\ m \in removing /\ removing' = removing \ {m}
        /\ movie' = [movie EXCEPT ![m] = "removed"]
    BY <1>13 DEF Club!RemoveMovie
  <2>2. /\ movie[m] = "listed" /\ movie'[m] = "removed"
        /\ \A k \in Movies \ {m} : movie'[k] = movie[k]
    BY <2>1 DEF ReadStands, ClubTypes
  <2>3. /\ (\A s \in Starters : starter[s] # "insert") /\ (\A u \in Users : click[u] = None)
        /\ (\A k \in Movies : final[k] = None) /\ removing \subseteq {m}
    BY <1>0, <2>1, Begun DEF Single
  <2>4. Club!Active' = Club!Active
    BY <2>1 DEF Club!Active
  <2>5. ClubRules'
    BY <2>1, <2>2, <2>4 DEF ClubRules, Club!OneActiveNight, Club!EveryRatingCounts, Club!DoneIsWatched
  <2>6. ReadStands'
    BY <1>0, <2>1, <2>3, NothingRead DEF Single
  <2> QED
    BY <2>5, <2>6 DEF Goal
<1> QED
  BY <1>1, <1>2, <1>3, <1>4, <1>5, <1>6, <1>7, <1>8, <1>9, <1>10, <1>11, <1>12, <1>13
  DEF Club!MCNext, Club!Next, Club!Begun, Club!Asked

(* One night that is not over at a time, an average of all that is rated,  *)
(* nights done only with their movie watched, and ended nights that stay,  *)
(* while transactions do not overlap; whatever calls fail and whenever the *)
(* process dies.                                                           *)
THEOREM ClubRulesHold == Club!MCInit /\ [][Club!MCNext]_(Club!mcVars) => ClubRulesAlone
<1>1. Club!MCInit => ClubInv
  <2> SUFFICES ASSUME Club!MCInit PROVE ClubInv
    OBVIOUS
  <2> USE DEF Club!MCInit, Club!Init
  <2>1. ClubTypes
    BY DEF ClubTypes
  <2>2. Club!InProgress = {} /\ Club!Active = {}
    BY TimersAssumption DEF Club!InProgress, Club!Active
  <2>3. ReadStands
    BY <2>2, TimersAssumption DEF ReadStands
  <2>4. ClubRules
    BY <2>2 DEF ClubRules, Club!OneActiveNight, Club!EveryRatingCounts, Club!DoneIsWatched
  <2> QED
    BY <2>1, <2>3, <2>4 DEF ClubInv
<1>2. ClubInv /\ [Club!MCNext]_(Club!mcVars) => ClubInv'
  <2> SUFFICES ASSUME ClubInv, [Club!MCNext]_(Club!mcVars), ~met' PROVE (ReadStands /\ ClubRules)'
    BY ClubTypesKept DEF ClubInv
  <2>1. CASE Club!MCNext
    <3>1. ~met
      BY <2>1, NothingMet, ClubTypesKept DEF ClubInv
    <3> QED
      BY <2>1, <3>1, ClubStep DEF ClubInv
  <2>2. CASE UNCHANGED Club!mcVars
    <3>1. /\ UNCHANGED <<movie, night, winner, rated, counted, starter, removing, click, final, met>>
      BY <2>2 DEF Club!mcVars, Club!vars, Club!rows, Club!process
    <3>2. Club!InProgress' = Club!InProgress
      BY <3>1 DEF Club!InProgress
    <3>3. ReadStands /\ ClubRules
      BY <3>1 DEF ClubInv
    <3> QED
      BY <3>1, <3>2, <3>3, RowsStill DEF ReadStands
  <2> QED
    BY <2>1, <2>2
<1>3. ClubInv => (~met => Club!OneActiveNight /\ Club!EveryRatingCounts /\ Club!DoneIsWatched)
  BY DEF ClubInv, ClubRules
<1>4. ClubInv /\ [Club!MCNext]_(Club!mcVars)
        => [~met' => \A n \in Nights :
              night[n] \in {"done", "cancelled"} => night'[n] = night[n]]_(Club!mcVars)
  <2> SUFFICES ASSUME ClubInv, Club!MCNext, ~met', NEW n \in Nights,
                      night[n] \in {"done", "cancelled"}
               PROVE  night'[n] = night[n]
    OBVIOUS
  <2>0. ReadStands /\ night = [k \in Nights |-> night[k]]
    BY NothingMet, ClubTypesKept DEF ClubInv, ClubTypes
  <2> USE DEF Club!rows, Club!process
  <2>1. ASSUME NEW s \in Starters, Club!InsertNight(s) PROVE night'[n] = night[n]
    BY <2>0, <2>1 DEF Club!InsertNight
  <2>2. ASSUME NEW k \in Nights, Club!ClosePoll(k) PROVE night'[n] = night[n]
    BY <2>0, <2>2 DEF Club!ClosePoll, Club!Elect
  <2>3. ASSUME NEW k \in Nights, Club!CancelNight(k) PROVE night'[n] = night[n]
    BY <2>0, <2>3 DEF Club!CancelNight, Club!Active
  <2>4. ASSUME NEW m \in Movies, Club!WriteFinal(m) PROVE night'[n] = night[n]
    <3>1. final[m].nights = Club!Waiting(m)
      BY <2>0, <2>4 DEF Club!WriteFinal, ReadStands
    <3> QED
      BY <2>4, <3>1 DEF Club!WriteFinal, Club!Finished, Club!Waiting
  <2>5. \/ night' = night
        \/ \E s \in Starters : Club!InsertNight(s)
        \/ \E k \in Nights : Club!ClosePoll(k) \/ Club!CancelNight(k)
        \/ \E m \in Movies : Club!WriteFinal(m)
    BY DEF Club!MCNext, Club!Next, Club!Begun, Club!Asked, Club!Crash, Club!PostPoll, Club!WriteClick,
           Club!ReadFinal, Club!PollEnds, Club!Post, Club!Restart, Club!StartNight, Club!ReadRating,
           Club!ReadVote, Club!StartRemove, Club!RemoveMovie, Club!OpenRating
  <2> QED
    BY <2>1, <2>2, <2>3, <2>4, <2>5
<1> QED
  BY <1>1, <1>2, <1>3, <1>4, PTL DEF ClubRulesAlone, Club!ClubRulesAlone
=============================================================================
