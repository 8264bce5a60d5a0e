----------------------------- MODULE GuildSettings -----------------------------
(***************************************************************************)
(* The overrides a server has for the bot's settings, and the checks       *)
(* between two of them: a pair such as the shortest and the longest        *)
(* interval of finds, where one value limits the other.                    *)
(*                                                                         *)
(*   infrastructure/guild_settings.py      GuildSettingsService            *)
(*   application/guild_config/schema.py    GuildSettings, its validators   *)
(*   api/routers/settings.py, infrastructure/discord/cogs/config.py        *)
(*                                         who writes: panel and bot       *)
(*                                                                         *)
(* A column that is Absent has the default. set and set_many check the     *)
(* whole model against the copy and only then go to the database.          *)
(***************************************************************************)
EXTENDS NotifiedCache

CONSTANTS
    Writers,   \* requests and commands that may be under way at once
    Home(_),   \* the process a writer runs in
    Low, High, \* the two columns
    Parts,     \* the columns and values a write may set
    Readers,   \* processes that ask for the whole model
    Starts,    \* the rows a server may have at first
    Default,   \* what a column has without an override
    MaxWrites  \* bound on writes

VARIABLES
    pc,    \* how far a writer is: "idle", "look", "save"
    part,  \* the columns it sets
    found, \* the row its transaction has read
    memo,  \* the model resolved() keeps for a server, by process
    writes \* bound: writes begun

settingsVars == <<pc, part, found, memo, writes>>
vars == <<cacheVars, settingsVars>>

Target == CHOOSE r \in Rows : TRUE

(* _build: the defaults under the overrides, and its cross-field check.    *)
Overlay(row) == [c \in Cols |-> IF row[c] = Absent THEN Default[c] ELSE row[c]]
Valid(row) == Overlay(row)[High] >= Overlay(row)[Low]

Init ==
    /\ \E row \in Starts : CacheInit([r \in Rows |-> row])
    /\ pc = [w \in Writers |-> "idle"]
    /\ part = [w \in Writers |-> <<>>]
    /\ found = [w \in Writers |-> NoRow]
    /\ memo = [p \in Procs |-> {}]
    /\ writes = 0

(* set, set_many: refused at once when the copy with the new values in it  *)
(* is not a valid model.                                                   *)
AcceptsAlone(w, new) == Valid(Merge(new, NoRow)) \* mutant
Accepts(w, new) == Valid(Merge(new, copy[Home(w)][Target]))
Begin(w, new) ==
    /\ pc[w] = "idle" /\ writes < MaxWrites
    /\ Accepts(w, new)
    /\ pc' = [pc EXCEPT ![w] = "look"]
    /\ part' = [part EXCEPT ![w] = new]
    /\ writes' = writes + 1
    /\ UNCHANGED <<cacheVars, found, memo>>

Look(w) ==
    /\ pc[w] = "look"
    /\ pc' = [pc EXCEPT ![w] = "save"]
    /\ found' = [found EXCEPT ![w] = db[Target]]
    /\ UNCHANGED <<cacheVars, part, memo, writes>>

(* Only a value that differs from the one read is written. INSERT of a row *)
(* that has appeared meanwhile and UPDATE of one that has gone both fail.  *)
Dirty(w) == {c \in DOMAIN part[w] : part[w][c] # found[w][c]}
Collides(w) == \E c \in Dirty(w) : (found[w][c] = Absent) # (db[Target][c] = Absent)
EndWrite(w) ==
    /\ pc' = [pc EXCEPT ![w] = "idle"]
    /\ part' = [part EXCEPT ![w] = <<>>]
    /\ found' = [found EXCEPT ![w] = NoRow]
    /\ UNCHANGED <<memo, writes>>
Save(w) ==
    /\ pc[w] = "save" /\ ~Collides(w)
    /\ Commit(Target, Restrict(part[w], Dirty(w)), Heard(Target),
              {OwnPart(Home(w), Target, part[w])})
    /\ EndWrite(w)
SaveFails(w) == pc[w] = "save" /\ Collides(w) /\ EndWrite(w) /\ UNCHANGED cacheVars

(* reset: DELETE without a look at the other keys, NOTIFY if it was there. *)
Reset(w, c) ==
    /\ pc[w] = "idle" /\ writes < MaxWrites
    /\ LET gone == [x \in {c} |-> Absent]
           heard == IF db[Target][c] = Absent THEN {} ELSE Heard(Target)
       IN  Commit(Target, gone, heard, {OwnPart(Home(w), Target, gone)})
    /\ writes' = writes + 1
    /\ UNCHANGED <<pc, part, found, memo>>

(* resolved(): the model is built on the first question and kept; building *)
(* an invalid one raises an error instead.                                 *)
Resolve(p) ==
    /\ memo[p] = {} /\ Valid(copy[p][Target])
    /\ memo' = [memo EXCEPT ![p] = {Overlay(copy[p][Target])}]
    /\ UNCHANGED <<cacheVars, pc, part, found, writes>>

Forget(p) == memo' = [memo EXCEPT ![p] = {}]

(* A reload and a write drop the model that is kept; load_all dropped it   *)
(* before it began to wait.                                                *)
CopyChanges(j) ==
    /\ Apply(j)
    /\ IF j.kind = "resync" THEN UNCHANGED memo ELSE Forget(j.proc)
    /\ UNCHANGED <<pc, part, found, writes>>
Reconnect(p) == Connect(p) /\ Forget(p) /\ UNCHANGED <<pc, part, found, writes>>

(* A process dies; the writers in it are gone.                             *)
Restart(p) ==
    /\ Reboot(p) /\ Forget(p)
    /\ LET lost(w) == Home(w) = p IN
       /\ pc' = [w \in Writers |-> IF lost(w) THEN "idle" ELSE pc[w]]
       /\ part' = [w \in Writers |-> IF lost(w) THEN <<>> ELSE part[w]]
       /\ found' = [w \in Writers |-> IF lost(w) THEN NoRow ELSE found[w]]
    /\ UNCHANGED writes

Goes(p) == \E j \in JobsOf(p) : CopyChanges(j) \/ (Select(j) /\ UNCHANGED settingsVars)
Write(w) == Look(w) \/ Save(w) \/ SaveFails(w)
Breaks(p) ==
    \/ Disconnect(p) /\ UNCHANGED settingsVars
    \/ \E j \in JobsOf(p) : ReadFails(j) /\ UNCHANGED settingsVars
    \/ Restart(p)
Next ==
    \/ \E w \in Writers : (\E new \in Parts : Begin(w, new)) \/ Write(w)
                          \/ (\E c \in Cols : Reset(w, c))
    \/ \E p \in Procs : Goes(p) \/ Reconnect(p) \/ Breaks(p)
    \/ \E p \in Readers : Resolve(p)

Spec == Init /\ [][Next]_vars

TypeOK ==
    /\ CacheTypeOK
    /\ pc \in [Writers -> {"idle", "look", "save"}]
    /\ \A w \in Writers : part[w] \in Parts \cup {<<>>} /\ found[w] \in Row
    /\ \A p \in Procs : Cardinality(memo[p]) <= 1
    /\ writes \in 0 .. MaxWrites

-----------------------------------------------------------------------------
(* What the database holds for a server is a valid model.                  *)
StoredIsValid == Valid(db[Target])

(* The model resolved() keeps is the defaults under the overrides the      *)
(* process knows.                                                          *)
ModelIsOverlay(p) == memo[p] \subseteq {Overlay(copy[p][Target])}

-----------------------------------------------------------------------------
(* History variables that tell which of the promises below depend on       *)
(* copies that are current.                                                *)

VARIABLES
    raced, \* processes to whose copy two changes were under way at once, or
           \* one that failed to be read, or that built a model while load_all
           \* was filling the copy, or saved over a row that had changed
    basis, \* the row a writer's check has seen
    blind  \* a write was checked against a copy the table had moved on from,
           \* or saved over a row that had changed, or a key was reset

mcVars == <<vars, raced, basis, blind>>

(* w saves over a row that has changed since it read it: what it does not  *)
(* write, being as it was, its process nevertheless takes for stored.      *)
Overtaken(w) == Save(w) /\ found[w] # db[Target]

MCInit == Init /\ faults = 0 /\ raced = {} /\ blind = FALSE
          /\ basis = [w \in Writers |-> NoRow]
MCNext ==
    /\ Next
    /\ raced' = raced \cup
            {p \in Procs : \/ Races(p) \/ (link[p] = "sync" /\ Resolve(p))
                           \/ \E w \in Writers : Home(w) = p /\ Overtaken(w)}
    /\ basis' = [w \in Writers |-> IF pc[w] = "idle" /\ pc'[w] = "look"
                       THEN copy[Home(w)][Target] ELSE basis[w]]
    /\ blind' = (blind \/ (\E w \in Writers :
                           Overtaken(w) \/ (Save(w) /\ basis[w] # db[Target]))
                       \/ (\E w \in Writers, c \in Cols : Reset(w, c)))

-----------------------------------------------------------------------------
(* A copy that nothing is about to change agrees with the table, through   *)
(* lost connections and restarts, and so does the model resolved() keeps   *)
(* ("Мемоизируется до следующей записи"), unless two changes raced to the  *)
(* copy, or its process saved over a row that had changed, or the model    *)
(* was built while the copy was being read again.                          *)
CopyFollowsAlone ==
    \A p \in Procs : Settled(p, Target) /\ p \notin raced =>
        Fresh(p, Target) /\ ModelIsOverlay(p)

(* The table never holds a pair that the model forbids, as long as writes  *)
(* are checked against what is stored, which has not changed until they    *)
(* save, and no key is reset.                                              *)
StoredIsValidSeen == ~blind => StoredIsValid
=============================================================================
