-------------------------------- MODULE MCLedgers --------------------------------
(* What is kept in rows and counted, in one run without liveness: hours in *)
(* voice, the counters of activity, premium keys, personas. They are       *)
(* independent instances: part says which of them moves, and the others    *)
(* stay as they are at first. Ids that mean nothing are interchangeable.   *)
EXTENDS VoiceHours, TLC

CONSTANTS
    MaxCount,
    Servers, Sessions, Keys, BatchOf(_), Seats, Limit, Forever, Absent, Grants, Vals,
    MaxJobs, MaxNow, MaxTries, MaxBegun, MaxActs,
    Requests, BotTasks, PanelTasks, MaxIds, MaxTexts, MaxRequests

ASSUME LedgersAssumption ==
    /\ MaxCount \in Nat /\ Seats \in Nat /\ MaxIds \in Nat \ {0}
    /\ Requests \cap (BotTasks \cup PanelTasks) = {}
    /\ MaxJobs \in Nat /\ Grants \subseteq Nat \cup {Forever}
    /\ "free" \notin Sessions /\ "operator" \notin {BatchOf(k) : k \in Keys}

VARIABLES
    part,
    counted, buffer, taken, stored, flush, phase, marred, countFaults,
    db, copy, link, jobs, keyFaults, today, tries, pc, asked, extends, until, hadRow, lock,
    seats, revoked, trials, begun, strip, acts, crossed, paidBy, hard, torn,
    table, known, loader, job, load, due, listener, made, texts, requests, personaFaults,
    shown, placed, raced, missed

countVars == <<counted, buffer, taken, stored, flush, phase, marred, countFaults>>
keyVars == <<db, copy, link, jobs, keyFaults, today, tries, pc, asked, extends, until,
             hadRow, lock, seats, revoked, trials, begun, strip, acts, crossed, paidBy, hard,
             torn>>
personaVars == <<table, known, loader, job, load, due, listener, made, texts, requests,
                 personaFaults, shown, placed, raced, missed>>
allVars == <<part, voiceVars, countVars, keyVars, personaVars>>

OneBatch(k) == "b"
Activity == INSTANCE Counters WITH faults <- countFaults
Premium == INSTANCE MCPremium WITH
    Rows <- Servers, Cols <- {"end"}, Procs <- {"bot"}, faults <- keyFaults, now <- today
Review == INSTANCE Personas WITH
    db <- table, copy <- known, pc <- loader, link <- listener, faults <- personaFaults,
    seen <- shown, met <- raced

Symmetry == Permutations(Servers) \cup Permutations(Sessions)

AllInit ==
    /\ part \in {"voice", "activity", "keys", "personas"}
    /\ Init /\ Activity!Init /\ Premium!MCInit /\ Review!Init
    /\ part # "voice" => place = [m \in Listeners |-> Nowhere]
    /\ part # "keys" => acts = 1
    /\ part # "personas" => made = 1
AllNext ==
    /\ \/ part = "voice" /\ Next /\ UNCHANGED <<countVars, keyVars, personaVars>>
       \/ part = "activity" /\ Activity!Next /\ UNCHANGED <<voiceVars, keyVars, personaVars>>
       \/ part = "keys" /\ Premium!MCNext /\ UNCHANGED <<voiceVars, countVars, personaVars>>
       \/ part = "personas" /\ Review!Next /\ UNCHANGED <<voiceVars, countVars, keyVars>>
    /\ UNCHANGED part
AllSpec == AllInit /\ [][AllNext]_allVars

-----------------------------------------------------------------------------
(* Nobody is paid for more time in voice than they sat (VoiceHours), and   *)
(* every message and every tick in voice is counted once (Counters).       *)
ActivityCounted == PaidForTime /\ Activity!CountedOnce

(* Seats stay within a key, and a batch revoked hard has no server left    *)
(* (MCPremium).                                                            *)
BatchesHold == Premium!BatchesHold

(* A term is added to the one that is running, when nothing comes in the   *)
(* way (MCPremium).                                                        *)
TermsStackAlone == Premium!TermsStackAlone

(* Members hear what was approved, if requests come one at a time, and the *)
(* copies of the bot and the panel follow the table (Personas).            *)
PersonasHold == Review!ReviewHoldsAlone /\ Review!CopiesFollow
=============================================================================
