--------------------------------- MODULE Personas ---------------------------------
(***************************************************************************)
(* Personas, the texts the bot speaks with, of one server: the server's    *)
(* managers submit one of their own, an operator approves or rejects it.   *)
(*                                                                         *)
(*   infrastructure/persona_service.py          the copy in memory, writes *)
(*   infrastructure/persona_listener.py         NOTIFY and reconnecting    *)
(*   api/routers/personas.py, dependencies.py   who may do what            *)
(*                                                                         *)
(* A request looks at the panel's copy, writes one transaction, and        *)
(* reloads the copy; every commit is announced, and each process reloads   *)
(* on it. A reload is a read and the moment it is installed. A text        *)
(* is a number, 0 being that of the default persona, which cannot be       *)
(* removed and is edited by operators only, so that it is left as it is.   *)
(***************************************************************************)
EXTENDS Integers, FiniteSets

CONSTANTS
    Requests,             \* requests to the panel that may be under way at once
    BotTasks, PanelTasks, \* reloads on NOTIFY that may be under way at once
    MaxIds, MaxTexts, MaxRequests, \* bounds
    MaxFaults \* bound on what fails, and on what overlaps within a process

VARIABLES
    db,     \* [rows, live, at]: the table, the assignment, commits so far
    copy,   \* what each process knows of it
    pc,     \* a request or task: "idle", "commit", "read", "install"
    job,    \* what a request is about
    load,   \* what its reload has read
    due,    \* NOTIFYs delivered and not yet answered
    link,   \* the listeners' connections, "up" or "down"
    made, texts, requests, faults, \* bounds; made is also the last id
    seen,   \* history: the text the operator had before them, by persona
    placed, \* history: unapproved personas an operator has assigned by hand
    met,    \* history: a request began beside another, or on an old copy
    missed  \* history: processes where a reload failed or came in out of order

acts == <<made, texts, requests, faults>>
history == <<seen, placed, met, missed>>
personaVars == <<db, copy, pc, job, load, due, link, acts, history>>

Ids == 1 .. MaxIds
Default == 0
Procs == {"bot", "panel"}
Tasks == BotTasks \cup PanelTasks
Loaders == Tasks \cup Requests
ProcOf(x) == IF x \in BotTasks THEN "bot" ELSE "panel"
NoRow == [status |-> "none", custom |-> FALSE, text |-> 0]
NoJob == [kind |-> "none", who |-> "operator", on |-> Default, text |-> 0, old |-> {}]

Nothing == [rows |-> [p \in Ids |-> NoRow], live |-> Default, at |-> 0]

(* At first the server has a persona of its own, and may have submitted    *)
(* another.                                                                *)
Own(status) == [status |-> status, custom |-> TRUE, text |-> 0]
Starts ==
    {[Nothing EXCEPT !.live = 1,
        !.rows = [p \in Ids |-> IF p = 1 THEN Own("approved") ELSE IF p = 2 THEN second ELSE NoRow]]
     : second \in {NoRow, Own("pending")}}
Init ==
    /\ db \in Starts
    /\ copy = [q \in Procs |-> db]
    /\ pc = [x \in Loaders |-> "idle"] /\ job = [r \in Requests |-> NoJob]
    /\ load = [x \in Loaders |-> Nothing]
    /\ due = [q \in Procs |-> 0] /\ link = [q \in Procs |-> "up"]
    /\ made = Cardinality({p \in Ids : db.rows[p] # NoRow})
    /\ texts = 0 /\ requests = 0 /\ faults = 0
    /\ seen = [p \in Ids |-> 0] /\ placed = {} /\ met = FALSE /\ missed = {}

Fault == faults < MaxFaults /\ faults' = faults + 1
FaultIf(c) == IF c THEN Fault ELSE UNCHANGED faults
Goto(x, label) == pc' = [pc EXCEPT ![x] = label]
GoIdle(xs) ==
    /\ pc' = [x \in Loaders |-> IF x \in xs THEN "idle" ELSE pc[x]]
    /\ load' = [x \in Loaders |-> IF x \in xs THEN Nothing ELSE load[x]]
    /\ job' = [r \in Requests |-> IF r \in xs THEN NoJob ELSE job[r]]

-----------------------------------------------------------------------------
(* Requests: the checks, against the panel's copy, and what is taken from  *)
(* it. old are the personas that go when one is approved.                  *)
Row(p) == copy["panel"].rows[p]
Known == {Default} \cup {p \in Ids : Row(p).status # "none"}
Text(p) == IF p = Default THEN 0 ELSE Row(p).text
Open(row) == row.custom /\ row.status \in {"draft", "pending", "rejected"}
Submissions == {p \in Ids : Open(Row(p))}
NoneSuperseded(p) == {}  \* mutant
Superseded(p) == {o \in Ids \ {p} : Row(o).custom /\ Row(o).status = "approved"}

Begin(r, j) ==
    /\ pc[r] = "idle" /\ requests < MaxRequests
    /\ requests' = requests + 1
    /\ texts' = IF j.kind = "edit" THEN j.text ELSE texts
    /\ job' = [job EXCEPT ![r] = j]
    /\ Goto(r, "commit")
    /\ met' = (met \/ copy["panel"] # db \/ \E o \in Requests : pc[o] # "idle")
    /\ FaultIf(\E o \in Requests : pc[o] # "idle")
    /\ UNCHANGED <<db, copy, load, due, link, made, seen, placed, missed>>

(* create_guild_draft: a copy of what the server has now.                  *)
CreateDraft(r) ==
    /\ Submissions = {} /\ made < MaxIds
    /\ Begin(r, [NoJob EXCEPT !.kind = "draft", !.text = Text(copy["panel"].live)])

(* An operator's own persona, new or a duplicate.                          *)
CreatePersona(r, p) ==
    /\ p \in Known /\ made < MaxIds
    /\ Begin(r, [NoJob EXCEPT !.kind = "create", !.text = Text(p)])

(* require_persona_editor: operators any persona, managers what is theirs  *)
(* and not approved.                                                       *)
MayEdit(who, p) == p \in Known /\ (who = "operator" \/ p \in Submissions)
Edit(r, who, p) ==
    /\ MayEdit(who, p) /\ texts < MaxTexts
    /\ Begin(r, [NoJob EXCEPT !.kind = "edit", !.who = who, !.on = p, !.text = texts + 1])
DeletePersona(r, who, p) ==
    /\ MayEdit(who, p)
    /\ Begin(r, [NoJob EXCEPT !.kind = "delete", !.who = who, !.on = p])

SubmitForReview(r, p) ==
    /\ p \in Submissions /\ Row(p).status \in {"draft", "rejected"}
    /\ Begin(r, [NoJob EXCEPT !.kind = "pending", !.on = p])
RejectSubmission(r, p) ==
    /\ p \in Submissions /\ Row(p).status = "pending"
    /\ Begin(r, [NoJob EXCEPT !.kind = "rejected", !.on = p])
ApproveSubmission(r, p) ==
    /\ p \in Submissions /\ Row(p).status = "pending"
    /\ Begin(r, [NoJob EXCEPT !.kind = "approve", !.on = p, !.text = Row(p).text,
                              !.old = Superseded(p)])
Assign(r, p) ==
    /\ p \in Known
    /\ Begin(r, [NoJob EXCEPT !.kind = "assign", !.on = p])

-----------------------------------------------------------------------------
(* The transaction. An update of a row that is gone does nothing; an       *)
(* assignment is written all the same.                                     *)
Put(p, row) == [db.rows EXCEPT ![p] = IF @.status = "none" THEN @ ELSE row]
Without(rows, ps) == [p \in Ids |-> IF p \in ps THEN NoRow ELSE rows[p]]
Unassigned(live, ps) == IF live \in ps THEN Default ELSE live

Write(rows, live) ==
    /\ db' = [rows |-> rows, live |-> live, at |-> db.at + 1]
    /\ due' = [q \in Procs |-> IF link[q] = "up" THEN due[q] + 1 ELSE due[q]]

Created(j) ==
    /\ j.kind \in {"draft", "create"}
    /\ IF made < MaxIds
       THEN /\ made' = made + 1
            /\ Write([db.rows EXCEPT ![made'] =
                        [status |-> IF j.kind = "draft" THEN "draft" ELSE "approved",
                         custom |-> j.kind = "draft", text |-> j.text]], db.live)
       ELSE UNCHANGED <<db, due, made>> \* bound
    /\ UNCHANGED <<seen, placed>>

Edited(j) ==
    /\ j.kind = "edit"
    /\ Write(Put(j.on, [db.rows[j.on] EXCEPT !.text = j.text]), db.live)
    /\ seen' = IF j.who = "operator" THEN [seen EXCEPT ![j.on] = j.text] ELSE seen
    /\ UNCHANGED <<made, placed>>

Deleted(j) ==
    /\ j.kind = "delete"
    /\ Write(Without(db.rows, {j.on}), Unassigned(db.live, {j.on}))
    /\ UNCHANGED <<made, seen, placed>>

Moderated(j) ==
    /\ j.kind \in {"pending", "rejected"}
    /\ Write(Put(j.on, [db.rows[j.on] EXCEPT !.status = j.kind]), db.live)
    /\ UNCHANGED <<made, seen, placed>>

Approved(j) ==
    /\ j.kind = "approve"
    /\ Write(Without(Put(j.on, [db.rows[j.on] EXCEPT !.status = "approved"]), j.old), j.on)
    /\ seen' = [seen EXCEPT ![j.on] = j.text]
    /\ UNCHANGED <<made, placed>>

Assigned(j) ==
    /\ j.kind = "assign"
    /\ Write(db.rows, j.on)
    /\ placed' = IF j.on # Default /\ db.rows[j.on].status # "approved"
                 THEN placed \cup {j.on} ELSE placed
    /\ UNCHANGED <<made, seen>>

Commit(r) ==
    /\ pc[r] = "commit"
    /\ \/ Created(job[r]) \/ Edited(job[r]) \/ Deleted(job[r])
       \/ Moderated(job[r]) \/ Approved(job[r]) \/ Assigned(job[r])
    /\ Goto(r, "read")
    /\ job' = IF job[r].kind = "edit" THEN job ELSE [job EXCEPT ![r] = NoJob]
    /\ UNCHANGED <<copy, load, link, texts, requests, faults, met, missed>>

-----------------------------------------------------------------------------
(* load_all. Its three selects are taken as one: what is committed between *)
(* them is announced afterwards.                                           *)
Read(x) ==
    /\ pc[x] = "read" /\ Goto(x, "install")
    /\ load' = [load EXCEPT ![x] = db]
    /\ UNCHANGED <<db, copy, job, due, link, acts, history>>

(* replace_phrases goes on to the next phrase without checking again.      *)
Install(x) ==
    /\ pc[x] = "install"
    /\ copy' = [copy EXCEPT ![ProcOf(x)] = load[x]]
    /\ missed' = IF load[x].at < copy[ProcOf(x)].at THEN missed \cup {ProcOf(x)} ELSE missed
    /\ \/ GoIdle({x}) /\ UNCHANGED texts
       \/ /\ x \in Requests /\ job[x].kind = "edit" /\ texts < MaxTexts
          /\ texts' = texts + 1 /\ job' = [job EXCEPT ![x].text = texts']
          /\ Goto(x, "commit") /\ UNCHANGED load
    /\ UNCHANGED <<db, due, link, made, requests, faults, seen, placed, met>>

(* A reload that fails is not tried again. (The one on connecting is: that *)
(* is to disconnect again.)                                                *)
LoadFails(x) ==
    /\ pc[x] = "read" /\ Fault
    /\ GoIdle({x}) /\ missed' = missed \cup {ProcOf(x)}
    /\ UNCHANGED <<db, copy, due, link, made, texts, requests, seen, placed, met>>

(* The listener.                                                           *)
Notified(x) ==
    /\ pc[x] = "idle" /\ due[ProcOf(x)] > 0
    /\ due' = [due EXCEPT ![ProcOf(x)] = @ - 1]
    /\ Goto(x, "read")
    /\ FaultIf(\E y \in Loaders \ {x} : ProcOf(y) = ProcOf(x) /\ pc[y] # "idle")
    /\ UNCHANGED <<db, copy, job, load, link, made, texts, requests, history>>

Disconnect(q) ==
    /\ link[q] = "up" /\ Fault
    /\ link' = [link EXCEPT ![q] = "down"] /\ due' = [due EXCEPT ![q] = 0]
    /\ UNCHANGED <<db, copy, pc, job, load, made, texts, requests, history>>

NotAgain(q) == due[q]  \* mutant
Again(q) == due[q] + 1
Reconnect(q) ==
    /\ link[q] = "down"
    /\ link' = [link EXCEPT ![q] = "up"] /\ due' = [due EXCEPT ![q] = Again(q)]
    /\ UNCHANGED <<db, copy, pc, job, load, acts, history>>

(* A process dies and is started again: it loads everything, then listens. *)
Restart(q) ==
    /\ Fault
    /\ GoIdle({x \in Loaders : ProcOf(x) = q})
    /\ copy' = [copy EXCEPT ![q] = db]
    /\ link' = [link EXCEPT ![q] = "down"] /\ due' = [due EXCEPT ![q] = 0]
    /\ UNCHANGED <<db, made, texts, requests, history>>

Reload(x) == Read(x) \/ Install(x) \/ LoadFails(x)
Next ==
    \/ \E r \in Requests :
        \/ CreateDraft(r) \/ Commit(r)
        \/ \E p \in Ids \cup {Default} : CreatePersona(r, p) \/ Assign(r, p)
        \/ \E p \in Ids : SubmitForReview(r, p) \/ RejectSubmission(r, p) \/ ApproveSubmission(r, p)
        \/ \E p \in Ids, who \in {"operator", "manager"} : Edit(r, who, p) \/ DeletePersona(r, who, p)
    \/ \E x \in Loaders : Reload(x)
    \/ \E x \in Tasks : Notified(x)
    \/ \E q \in Procs : Disconnect(q) \/ Reconnect(q) \/ Restart(q)

Spec == Init /\ [][Next]_personaVars

TypeOK ==
    /\ \A c \in {db} \cup {copy[q] : q \in Procs} :
        /\ c.live \in Ids \cup {Default}
        /\ c.rows \in [Ids -> [status : {"none", "draft", "pending", "rejected", "approved"},
                               custom : BOOLEAN, text : 0 .. MaxTexts]]
    /\ pc \in [Loaders -> {"idle", "commit", "read", "install"}]
    /\ due \in [Procs -> Nat] /\ missed \subseteq Procs /\ placed \subseteq Ids

-----------------------------------------------------------------------------
(* A server has one submission at work and one approved persona of its     *)
(* own; and what its members hear is there, approved, and the text the     *)
(* operator approved or wrote, unless the operator has put it there by     *)
(* hand ("черновик невидим для живого бота").                              *)
Custom(s) == {p \in Ids : db.rows[p].custom /\ db.rows[p].status \in s}
LiveReviewed(p) ==
    /\ db.rows[p].status # "none"
    /\ db.rows[p].custom /\ p \notin placed =>
        db.rows[p].status = "approved" /\ db.rows[p].text = seen[p]
ReviewHolds ==
    /\ Cardinality(Custom({"draft", "pending", "rejected"})) <= 1
    /\ Cardinality(Custom({"approved"})) <= 1
    /\ db.live # Default => LiveReviewed(db.live)

(* The review holds while requests come one at a time on a copy that is up *)
(* to date.                                                                *)
ReviewHoldsAlone == ~met => ReviewHolds

(* A process with nothing more to reload has the table as it is, through   *)
(* lost connections and restarts ("после (пере)подключения синхронизируем  *)
(* весь кэш заново"), unless a reload failed or an older one came in last. *)
Quiet(q) == link[q] = "up" /\ due[q] = 0 /\ \A x \in Loaders : ProcOf(x) = q => pc[x] = "idle"
CopiesFollow == \A q \in Procs : Quiet(q) /\ q \notin missed => copy[q] = db
===============================================================================
