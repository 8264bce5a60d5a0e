-------------------------------- MODULE Appeals --------------------------------
(***************************************************************************)
(* Appeals of one member against a punishment on one server.               *)
(*                                                                         *)
(*   application/appeals/use_cases.py            create and resolve        *)
(*   infrastructure/db/repositories/appeals.py   their SELECTs and writes  *)
(*   infrastructure/discord/cogs/appeals.py      modal, card, decision     *)
(*   infrastructure/discord/command_executor.py  the panel's decision      *)
(*                                                                         *)
(* A form is a submitted modal, a resolver a click on the card or a panel  *)
(* command. Each database transaction is a read and a commit, and nothing  *)
(* locks the row in between. Definitions marked "mutant" are bugs the runs *)
(* must notice.                                                            *)
(***************************************************************************)
EXTENDS Integers, FiniteSets

CONSTANTS
    Ids,         \* ids of rows of appeals
    Forms,       \* modals that may be under way at the same time
    Resolvers,   \* decisions that may be under way at the same time
    MaxForms,    \* bound on modals submitted
    MaxVerdicts, \* bound on decisions started
    HttpMayFail, \* may a call to Discord fail?
    MaxCrashes   \* bound on crashes

Verdicts == {"approved", "rejected"}

ASSUME AppealsAssumption ==
    /\ MaxForms \in Nat /\ MaxVerdicts \in Nat /\ HttpMayFail \in BOOLEAN
    /\ MaxCrashes \in Nat
    /\ Ids \cap {"idle", "reading", "inserting"} = {}

VARIABLES
    status,   \* status[a] of the row of appeal a, "absent" before it exists
    carded,   \* appeals whose card shows its two buttons
    lifted,   \* appeals whose punishment Discord has lifted
    told,     \* told[a]: verdicts the member was told by direct message
    form,     \* form[f]: "idle", "reading", "inserting", or the id to post
    pc,       \* pc[r]: where the decision of resolver r is
    job,      \* job[r]: its appeal, verdict and origin ("card" or "panel")
    forms,    \* bound: modals submitted
    verdicts, \* bound: decisions started
    crashes   \* bound: crashes

bounds == <<forms, verdicts, crashes>>
effects == <<carded, lifted, told>>
vars == <<status, effects, form, pc, job, bounds>>

Jobs == [appeal : Ids, verdict : Verdicts, origin : {"card", "panel"}]

Init ==
    /\ status = [a \in Ids |-> "absent"]
    /\ carded = {} /\ lifted = {}
    /\ told = [a \in Ids |-> {}]
    /\ form = [f \in Forms |-> "idle"]
    /\ pc = [r \in Resolvers |-> "idle"]
    /\ job \in [Resolvers -> Jobs] \* read only after Decide
    /\ forms = 0 /\ verdicts = 0 /\ crashes = 0

FormTo(f, s) == form' = [form EXCEPT ![f] = s]
Goto(r, label) == pc' = [pc EXCEPT ![r] = label]
Pending == {a \in Ids : status[a] = "pending"}

(***************************************************************************)
(* CreateAppealUseCase and the card.                                       *)
(***************************************************************************)
SubmitForm(f) ==
    /\ form[f] = "idle" /\ forms < MaxForms
    /\ forms' = forms + 1
    /\ FormTo(f, "reading")
    /\ UNCHANGED <<status, effects, pc, job, verdicts, crashes>>

AfterLookup == IF Pending = {} THEN "inserting" ELSE "idle" \* "duplicate"

(* get_pending and the look-up of the reason.                              *)
ReadPending(f) ==
    /\ form[f] = "reading"
    /\ FormTo(f, AfterLookup)
    /\ UNCHANGED <<status, effects, pc, job, bounds>>

InsertAppeal(f) ==
    /\ form[f] = "inserting"
    /\ \E a \in Ids :
        /\ status[a] = "absent"
        /\ status' = [status EXCEPT ![a] = "pending"]
        /\ FormTo(f, a)
    /\ UNCHANGED <<effects, pc, job, bounds>>

(* _post_review, without a card when the channel is not set or the call    *)
(* fails.                                                                  *)
PostCard(f) ==
    /\ form[f] \in Ids
    /\ \/ carded' = carded \cup {form[f]}
       \/ HttpMayFail /\ UNCHANGED carded
    /\ FormTo(f, "idle")
    /\ UNCHANGED <<status, lifted, told, pc, job, bounds>>

(***************************************************************************)
(* A decision.                                                             *)
(***************************************************************************)
(* A click on a card (the row may be resolved by now) or a command of the  *)
(* panel, which lists the pending rows.                                    *)
Decide(r, a, v, o) ==
    /\ pc[r] = "idle" /\ verdicts < MaxVerdicts
    /\ a \in (IF o = "card" THEN carded ELSE Pending)
    /\ job' = [job EXCEPT ![r] = [appeal |-> a, verdict |-> v, origin |-> o]]
    /\ verdicts' = verdicts + 1
    /\ Goto(r, "read")
    /\ UNCHANGED <<status, effects, form, forms, crashes>>

AnyRow(r) == TRUE \* mutant
IsPending(r) == status[job[r].appeal] = "pending"

ActsFirst(r) == IF IsPending(r) THEN "lift" ELSE "idle" \* mutant
AfterRead(r) == IF IsPending(r) THEN "save" ELSE "idle" \* "already"

(* ResolveAppealUseCase.execute reads the row.                             *)
ReadAppeal(r) ==
    /\ pc[r] = "read"
    /\ Goto(r, AfterRead(r))
    /\ UNCHANGED <<status, effects, form, job, bounds>>

PanelSkipsLift(r) == IF job[r].origin = "card" THEN "edit" ELSE "notify" \* mutant
AfterSave(r) == IF job[r].origin = "card" THEN "edit" ELSE "lift"

(* save and commit; the UPDATE has no guard on the status.                 *)
SaveAppeal(r) ==
    /\ pc[r] = "save"
    /\ status' = [status EXCEPT ![job[r].appeal] = job[r].verdict]
    /\ Goto(r, AfterSave(r))
    /\ UNCHANGED <<effects, form, job, bounds>>

(* The answer to the click takes the buttons off the card; when it fails   *)
(* the callback ends there.                                                *)
EditCard(r) ==
    /\ pc[r] = "edit"
    /\ \/ carded' = carded \ {job[r].appeal} /\ Goto(r, "lift")
       \/ HttpMayFail /\ Goto(r, "idle") /\ UNCHANGED carded
    /\ UNCHANGED <<status, lifted, told, form, job, bounds>>

Discharge(r) == lifted' = lifted \cup {job[r].appeal}

(* _lift_punishment, of an approved appeal only; a failure is logged.      *)
Lift(r) ==
    /\ pc[r] = "lift"
    /\ IF job[r].verdict = "approved"
         THEN Discharge(r) \/ (HttpMayFail /\ UNCHANGED lifted)
         ELSE UNCHANGED lifted
    /\ Goto(r, "notify")
    /\ UNCHANGED <<status, carded, told, form, job, bounds>>

Notify(r) ==
    /\ pc[r] = "notify"
    /\ \/ told' = [told EXCEPT ![job[r].appeal] = @ \cup {job[r].verdict}]
       \/ HttpMayFail /\ UNCHANGED told
    /\ Goto(r, "idle")
    /\ UNCHANGED <<status, carded, lifted, form, job, bounds>>

(* The bot dies and comes back: forms and clicks are gone. The bridge runs *)
(* the panel's command again, unless it has been tried often enough or the *)
(* bot does not know the server yet: then it has failed.                   *)
Retried(r) == job[r].origin = "panel" /\ pc[r] # "idle"

Crash ==
    /\ crashes < MaxCrashes
    /\ crashes' = crashes + 1
    /\ form' = [f \in Forms |-> "idle"]
    /\ \E again \in SUBSET {r \in Resolvers : Retried(r)} :
        pc' = [r \in Resolvers |-> IF r \in again THEN "read" ELSE "idle"]
    /\ UNCHANGED <<status, effects, job, forms, verdicts>>

FormStep(f) == ReadPending(f) \/ InsertAppeal(f) \/ PostCard(f)
Resolve(r) ==
    ReadAppeal(r) \/ SaveAppeal(r) \/ EditCard(r) \/ Lift(r) \/ Notify(r)

Next ==
    \/ \E f \in Forms : SubmitForm(f) \/ FormStep(f)
    \/ \E r \in Resolvers :
        \/ Resolve(r)
        \/ \E a \in Ids, v \in Verdicts, o \in {"card", "panel"} : Decide(r, a, v, o)
    \/ Crash

Spec == Init /\ [][Next]_vars

-----------------------------------------------------------------------------
(* Every variable has its type; cards, forms to post and decisions are     *)
(* about rows that exist.                                                  *)
RowsExist ==
    /\ \A a \in carded : status[a] # "absent"
    /\ \A f \in Forms : form[f] \in Ids => status[form[f]] # "absent"
    /\ \A r \in Resolvers : pc[r] # "idle" => status[job[r].appeal] # "absent"

TypeOK ==
    /\ RowsExist
    /\ status \in [Ids -> Verdicts \cup {"absent", "pending"}]
    /\ carded \subseteq Ids /\ lifted \subseteq Ids
    /\ told \in [Ids -> SUBSET Verdicts]
    /\ form \in [Forms -> Ids \cup {"idle", "reading", "inserting"}]
    /\ pc \in [Resolvers -> {"idle", "read", "save", "edit", "lift", "notify"}]
    /\ job \in [Resolvers -> Jobs]
    /\ forms \in 0..MaxForms /\ verdicts \in 0..MaxVerdicts
    /\ crashes \in 0..MaxCrashes

(* "Idempotent: a resolved appeal is not touched a second time."           *)
VerdictIsFinal ==
    [][\A a \in Ids : status[a] \in Verdicts => status'[a] = status[a]]_vars

(* "One active (pending) appeal per member."                               *)
OnePending == \A a, b \in Pending : a = b

(* The member is never told a verdict the row does not hold, nor two, and  *)
(* no punishment is lifted for an appeal that is not approved.             *)
ToldTheVerdict ==
    \A a \in Ids :
        /\ told[a] \subseteq {status[a]}
        /\ a \in lifted => status[a] = "approved"

(* "Changes the status, lifts the punishment when approved": an approved   *)
(* appeal has its punishment lifted in the end.                            *)
ApprovedIsLifted == \A a \in Ids : status[a] = "approved" ~> a \in lifted

(* Whatever races and fails, nothing is announced or lifted while the row  *)
(* is open: effects follow the commit.                                     *)
EffectsFollowCommit ==
    \A a \in Ids : (told[a] # {} \/ a \in lifted) => status[a] \in Verdicts
=============================================================================
