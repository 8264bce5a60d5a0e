---------------------------------- MODULE Dialogs ---------------------------------
(***************************************************************************)
(* What the bot remembers of its talks with one member: exchanges gather   *)
(* in a session in memory, and a session that has gone quiet is summed up  *)
(* and stored.                                                             *)
(*                                                                         *)
(*   application/ai_chat/service.py          sessions, respond, summaries  *)
(*   infrastructure/discord/cogs/ai_chat.py  messages, the sweep           *)
(*                                                                         *)
(* Replies to several messages of the member may be under way at once.     *)
(* Exchanges are numbered as they are recorded.                            *)
(***************************************************************************)
EXTENDS Integers, FiniteSets

CONSTANTS
    Replies,      \* replies that may be under way at the same time
    MinExchanges, \* ai_dialog_min_exchanges
    Keep,         \* how many exchanges a session keeps (12)
    Limit,        \* ai_rate_limits_by_level, within the window
    MaxExchanges, MaxFaults \* bounds

VARIABLES
    session, \* the exchanges of the session, {} if there is none
    quiet,   \* the gap has passed since its last one
    pc,      \* a reply: "idle", "award", "generate", "send"
    carried, \* the finished session a reply took along
    summing, \* sessions being summed up in the background
    stored,  \* sessions whose summary is stored
    awards, hits,
    given,   \* exchanges recorded so far
    short,   \* history: exchanges of sessions too short, shed beyond Keep, or cut off
    lost,    \* history: exchanges that an error or the end of the process took
    faults

talkVars == <<session, quiet, pc, carried, summing, stored, awards, hits, given, short, lost, faults>>

Init ==
    /\ session = {} /\ quiet = FALSE
    /\ pc = [r \in Replies |-> "idle"] /\ carried = [r \in Replies |-> {}]
    /\ summing = {} /\ stored = {} /\ awards = 0 /\ hits = 0 /\ given = 0
    /\ short = {} /\ lost = {} /\ faults = 0

Fault == faults < MaxFaults /\ faults' = faults + 1
Goto(r, label) == pc' = [pc EXCEPT ![r] = label]
Worthwhile(s) == Cardinality(s) >= MinExchanges
Ended == session # {} /\ quiet

(* respond: a session that has gone quiet is taken along.                  *)
Message(r) ==
    /\ pc[r] = "idle" /\ awards < MaxExchanges
    /\ Goto(r, "award")
    /\ carried' = [carried EXCEPT ![r] = IF Ended /\ Worthwhile(session) THEN session ELSE {}]
    /\ session' = IF Ended THEN {} ELSE session
    /\ short' = IF Ended /\ ~Worthwhile(session) THEN short \cup session ELSE short
    /\ UNCHANGED <<quiet, summing, stored, awards, hits, given, lost, faults>>

(* The point is awarded and committed whatever comes of the reply; beyond  *)
(* the limit of the level a phrase is sent instead.                        *)
Award(r) ==
    /\ pc[r] = "award"
    /\ awards' = awards + 1
    /\ IF hits < Limit THEN hits' = hits + 1 /\ Goto(r, "generate")
                       ELSE Goto(r, "send") /\ UNCHANGED hits
    /\ UNCHANGED <<session, quiet, carried, summing, stored, given, short, lost, faults>>

LastOnes(s) == {e \in s : Cardinality({f \in s : f > e}) < Keep}

(* _record_exchange, when the reply has come.                              *)
Record(r) ==
    /\ pc[r] = "generate" /\ Goto(r, "send")
    /\ given' = given + 1
    /\ session' = LastOnes(session \cup {given'}) /\ quiet' = FALSE
    /\ short' = short \cup ((session \cup {given'}) \ session')
    /\ UNCHANGED <<carried, summing, stored, awards, hits, lost, faults>>

(* The award, the provider or Discord fails: what was taken along is lost. *)
Fails(r) ==
    /\ pc[r] # "idle" /\ Goto(r, "idle") /\ Fault
    /\ lost' = lost \cup carried[r]
    /\ carried' = [carried EXCEPT ![r] = {}]
    /\ UNCHANGED <<session, quiet, summing, stored, awards, hits, given, short>>

(* The reply is sent, and the finished session goes to be summed up.       *)
Send(r) ==
    /\ pc[r] = "send" /\ Goto(r, "idle")
    /\ summing' = summing \cup ({carried[r]} \ {{}})
    /\ carried' = [carried EXCEPT ![r] = {}]
    /\ UNCHANGED <<session, quiet, stored, awards, hits, given, short, lost, faults>>

GapPasses ==
    /\ session # {} /\ ~quiet /\ quiet' = TRUE
    /\ UNCHANGED <<session, pc, carried, summing, stored, awards, hits, given, short, lost, faults>>
WindowPasses ==
    /\ hits > 0 /\ hits' = 0
    /\ UNCHANGED <<session, quiet, pc, carried, summing, stored, awards, given, short, lost, faults>>

NotRemoved == session  \* mutant: the swept session stays
Removed == {}

(* The sweep takes what has gone quiet.                                    *)
Sweep ==
    /\ Ended /\ session' = Removed
    /\ IF Worthwhile(session) THEN summing' = summing \cup {session} /\ UNCHANGED short
                              ELSE short' = short \cup session /\ UNCHANGED summing
    /\ UNCHANGED <<quiet, pc, carried, stored, awards, hits, given, lost, faults>>

(* summarize_dialog: the transcript is cut at its length limit, so the     *)
(* last exchanges may not be part of it; an error of the provider or the   *)
(* database is logged.                                                     *)
UpTo(s, last) == {e \in s : e <= last}
Summarise(s) ==
    /\ s \in summing /\ summing' = summing \ {s}
    /\ \/ \E last \in s :
            /\ stored' = stored \cup {UpTo(s, last)}
            /\ short' = short \cup (s \ UpTo(s, last))
            /\ UNCHANGED <<lost, faults>>
       \/ Fault /\ lost' = lost \cup s /\ UNCHANGED <<stored, short>>
    /\ UNCHANGED <<session, quiet, pc, carried, awards, hits, given>>

Crash ==
    /\ Fault
    /\ lost' = lost \cup session \cup UNION summing \cup UNION {carried[r] : r \in Replies}
    /\ session' = {} /\ quiet' = FALSE /\ summing' = {} /\ hits' = 0
    /\ pc' = [r \in Replies |-> "idle"] /\ carried' = [r \in Replies |-> {}]
    /\ UNCHANGED <<stored, awards, given, short>>

Next ==
    \/ \E r \in Replies : Message(r) \/ Award(r) \/ Record(r) \/ Fails(r) \/ Send(r)
    \/ GapPasses \/ WindowPasses \/ Sweep \/ Crash
    \/ \E s \in summing : Summarise(s)

Spec == Init /\ [][Next]_talkVars

(* Replies and summaries go on, time passes and the sweep comes round.     *)
Fairness ==
    /\ \A r \in Replies : WF_talkVars(Award(r) \/ Record(r) \/ Send(r))
    /\ WF_talkVars(GapPasses) /\ WF_talkVars(Sweep)
    /\ WF_talkVars(\E s \in summing : Summarise(s))

TypeOK ==
    /\ session \cup short \cup lost \subseteq 1 .. given
    /\ summing \cup stored \subseteq SUBSET (1 .. given)
    /\ pc \in [Replies -> {"idle", "award", "generate", "send"}]
    /\ awards \in Nat /\ hits \in 0 .. Limit /\ faults \in 0 .. MaxFaults

-----------------------------------------------------------------------------
(* Where an exchange has ended up, once if all is well.                    *)
Settled(e) ==
    /\ e \notin session
    /\ Cardinality({s \in stored : e \in s})
         + (IF e \in short THEN 1 ELSE 0) + (IF e \in lost THEN 1 ELSE 0) = 1

(* What was said is summed up in the end ("брошенный диалог тоже попадёт в *)
(* память"), if the session was long enough, its transcript too short to   *)
(* be cut, and no error took it, and once although two replies, the sweep  *)
(* and the background work take sessions.                                  *)
TalksRememberedOnce ==
    \A e \in 1 .. MaxExchanges : <>(e \in session) => <>[]Settled(e)
===============================================================================
