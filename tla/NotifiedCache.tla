----------------------------- MODULE NotifiedCache -----------------------------
(***************************************************************************)
(* A table that every process keeps a copy of in memory. Each service that *)
(* is read on every event (settings of a server, tariffs) is built this    *)
(* way: reads come from the copy, a write commits to the database with a   *)
(* transactional NOTIFY and then corrects the writer's own copy, and the   *)
(* listener of each process reads a changed row again.                     *)
(*                                                                         *)
(*   infrastructure/guild_settings.py, entitlements.py                     *)
(*                   load_all, reload_guild, what a write does to the copy *)
(*   infrastructure/settings_listener.py, entitlements_listener.py         *)
(*                                                                         *)
(* What a process has still to do to its copy is a set of jobs: coroutines *)
(* that are waiting for their SELECT or have its answer in hand, and       *)
(* writers that have committed. They finish in any order.                  *)
(***************************************************************************)
EXTENDS Integers, FiniteSets, FiniteSetsExt, Functions

CONSTANTS
    Rows,      \* the servers the table has rows for
    Cols,      \* what a row may hold
    Vals,      \* the values of a column
    Absent,    \* not a value: the column has no entry
    Procs,     \* processes that keep a copy: the bot, the panel
    MaxJobs,   \* bound on the jobs of a process
    MaxFaults  \* bound on lost connections, failed reads and restarts

VARIABLES
    db,    \* the table, as committed
    copy,  \* the copy of each process
    link,  \* "up": the listener hears NOTIFY; "sync": and reads all; "down"
    jobs,  \* what is still to be done to the copies
    faults \* bound: faults

cacheVars == <<db, copy, link, jobs, faults>>

Row == [Cols -> Vals \cup {Absent}]
NoRow == [c \in Cols |-> Absent]
Present(row) == {c \in Cols : row[c] # Absent}

CacheInit(table) ==
    /\ db = table
    /\ copy = [p \in Procs |-> db]
    /\ link = [p \in Procs |-> "up"]
    /\ jobs = {} /\ faults \in 0 .. MaxFaults

JobsOf(p) == {j \in jobs : j.proc = p}
FreeSlot(p) == Min(1 .. MaxJobs \ {j.slot : j \in JobsOf(p)})
HasRoom == \A p \in Procs : Cardinality(JobsOf(p)) < MaxJobs - 1

(* A coroutine that will read the rows, and one that has news[r] for them. *)
(* A job overwrites the columns it has values for and no others.           *)
Reader(p, rows, kind) ==
    [proc |-> p, slot |-> FreeSlot(p), kind |-> kind, at |-> "select",
     rows |-> rows, news |-> [r \in rows |-> NoRow]]
Holding(job, news) == [job EXCEPT !.at = "apply", !.news = news]

(* _on_notify: every process that listens starts a task for the row.       *)
HeardWhenSynced(r) == {Reader(p, {r}, "notified") : p \in {q \in Procs : link[q] = "up"}} \* mutant
Heard(r) == {Reader(p, {r}, "notified") : p \in {q \in Procs : link[q] # "down"}}

(* What the writer does to its own copy after the commit, next to the task *)
(* its own NOTIFY starts: it puts part into the row, or reads it again.    *)
SecondSlot(p) == Min(1 .. MaxJobs \ ({j.slot : j \in JobsOf(p)} \cup {FreeSlot(p)}))
OwnReader(p, r) == [Reader(p, {r}, "own") EXCEPT !.slot = SecondSlot(p)]
OwnPart(p, r, part) == Holding(OwnReader(p, r), [x \in {r} |-> part])

(* A transaction that writes some columns of a row, with the NOTIFY it     *)
(* sends (none or one) and the writer's own jobs.                          *)
Merge(part, row) == [c \in Cols |-> IF c \in DOMAIN part THEN part[c] ELSE row[c]]
Commit(r, part, heard, own) ==
    /\ HasRoom
    /\ db' = [db EXCEPT ![r] = Merge(part, @)]
    /\ jobs' = jobs \cup heard \cup own
    /\ UNCHANGED <<copy, link, faults>>

(* The SELECT of reload_guild and of load_all; the latter has no news of   *)
(* columns without a value.                                                *)
News(j) == [r \in j.rows |->
    IF j.kind = "resync" THEN Restrict(db[r], Present(db[r])) ELSE db[r]]
Select(j) ==
    /\ j.at = "select"
    /\ jobs' = (jobs \ {j}) \cup {Holding(j, News(j))}
    /\ UNCHANGED <<db, copy, link, faults>>

Apply(j) ==
    /\ j.at = "apply"
    /\ copy' = [copy EXCEPT ![j.proc] = [r \in Rows |->
                    IF r \in j.rows THEN Merge(j.news[r], @[r]) ELSE @[r]]]
    /\ jobs' = jobs \ {j}
    /\ link' = IF j.kind = "resync" THEN [link EXCEPT ![j.proc] = "up"] ELSE link
    /\ UNCHANGED <<db, faults>>

(* A read fails: the task logs it and ends; the listener connects again.   *)
ReadFails(j) ==
    /\ j.at = "select" /\ faults < MaxFaults
    /\ jobs' = jobs \ {j}
    /\ link' = IF j.kind = "resync" THEN [link EXCEPT ![j.proc] = "down"] ELSE link
    /\ faults' = faults + 1
    /\ UNCHANGED <<db, copy>>

(* The connection breaks. What was on its way over it is gone.             *)
Disconnect(p) ==
    /\ link[p] = "up" /\ faults < MaxFaults
    /\ link' = [link EXCEPT ![p] = "down"]
    /\ LET deaf == {j \in JobsOf(p) : j.kind = "notified" /\ j.at = "select"}
       IN  jobs' \in {jobs, jobs \ deaf}
    /\ faults' = faults + 1
    /\ UNCHANGED <<db, copy>>

(* The listener is back: LISTEN first, then load_all, which empties the    *)
(* copy before it waits for the rows.                                      *)
Connect(p) ==
    /\ link[p] = "down" /\ Cardinality(JobsOf(p)) < MaxJobs
    /\ link' = [link EXCEPT ![p] = "sync"]
    /\ copy' = [copy EXCEPT ![p] = [r \in Rows |-> NoRow]]
    /\ jobs' = jobs \cup {Reader(p, Rows, "resync")}
    /\ UNCHANGED <<db, faults>>

(* A process dies and starts again, with an empty copy and no jobs.        *)
Reboot(p) ==
    /\ faults < MaxFaults
    /\ link' = [link EXCEPT ![p] = "down"]
    /\ copy' = [copy EXCEPT ![p] = [r \in Rows |-> NoRow]]
    /\ jobs' = jobs \ JobsOf(p)
    /\ faults' = faults + 1
    /\ UNCHANGED db


JobType(j) ==
    /\ j.proc \in Procs /\ j.slot \in 1 .. MaxJobs
    /\ j.kind \in {"notified", "own", "resync"} /\ j.at \in {"select", "apply"}
    /\ j.rows \subseteq Rows /\ DOMAIN j.news = j.rows
CacheTypeOK ==
    /\ db \in [Rows -> Row] /\ copy \in [Procs -> [Rows -> Row]]
    /\ link \in [Procs -> {"up", "sync", "down"}]
    /\ \A j \in jobs : JobType(j)
    /\ \A i, j \in jobs : i.proc = j.proc /\ i.slot = j.slot => i = j
    /\ faults \in 0 .. MaxFaults

-----------------------------------------------------------------------------
(* A copy that nothing is about to change agrees with the table, in every  *)
(* process that hears of changes.                                          *)
Settled(p, r) == link[p] = "up" /\ \A j \in JobsOf(p) : r \notin j.rows
Fresh(p, r) == copy[p][r] = db[r]

(* This step makes two changes race to a copy, or a read of it fails.      *)
Races(p) ==
    \/ \E j \in jobs' \ jobs : j.proc = p /\ \E i \in JobsOf(p) :
           i.rows \cap j.rows # {} /\ \A k \in JobsOf(p) : k.slot # j.slot
    \/ \E j \in JobsOf(p) : ReadFails(j)
=============================================================================
