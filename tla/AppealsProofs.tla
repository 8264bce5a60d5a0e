----------------------------- MODULE AppealsProofs -----------------------------
(***************************************************************************)
(* Proofs about Appeals, for every set of rows, modals and decisions:      *)
(* types, effects only after the commit, and the promises the code keeps   *)
(* only while requests come one at a time.                                 *)
(***************************************************************************)
EXTENDS MCModeration, TLAPS

States == Verdicts \cup {"absent", "pending"}
FormStates == Ids \cup {"idle", "reading", "inserting"}
Labels == {"idle", "read", "save", "edit", "lift", "notify"}

(* TypeOK without its last-minute details: what the provers need.          *)
Types ==
    /\ status \in [Ids -> States]
    /\ carded \subseteq Ids /\ lifted \subseteq Ids
    /\ told \in [Ids -> SUBSET Verdicts]
    /\ form \in [Forms -> FormStates]
    /\ pc \in [Resolvers -> Labels]
    /\ job \in [Resolvers -> Jobs]

Bounds ==
    /\ forms \in 0..MaxForms /\ verdicts \in 0..MaxVerdicts
    /\ crashes \in 0..MaxCrashes

-----------------------------------------------------------------------------
LEMMA TypesInit == Init => Types
BY DEF Init, Types, States, FormStates, Labels

LEMMA BoundsInit == Init => Bounds
BY AppealsAssumption DEF Init, Bounds

(* A step of a form changes rows, cards and forms.                         *)
LEMMA TypesForm ==
  ASSUME Types, NEW f \in Forms, SubmitForm(f) \/ FormStep(f)
  PROVE  Types'
<1> USE DEF Types, FormTo, effects, bounds, States, FormStates
<1>1. CASE SubmitForm(f)
  BY <1>1 DEF SubmitForm
<1>2. CASE ReadPending(f)
  BY <1>2 DEF ReadPending, AfterLookup
<1>3. CASE InsertAppeal(f)
  BY <1>3 DEF InsertAppeal
<1>4. CASE PostCard(f)
  <2>1. form[f] \in Ids
    BY <1>4 DEF PostCard
  <2>2. carded' \subseteq Ids
    BY <1>4, <2>1 DEF PostCard
  <2>3. form' \in [Forms -> FormStates]
    BY <1>4 DEF PostCard
  <2>4. QED
    BY <1>4, <2>2, <2>3 DEF PostCard
<1>5. QED
  BY <1>1, <1>2, <1>3, <1>4 DEF FormStep

(* A step of a decision, one action at a time.                             *)
LEMMA TypesResolve ==
  ASSUME Types, NEW r \in Resolvers, Resolve(r)
  PROVE  Types'
<1> USE DEF Types, Goto, effects, bounds, States, Labels
<1>j. job[r].appeal \in Ids /\ job[r].verdict \in Verdicts
  BY DEF Jobs
<1>1. CASE ReadAppeal(r)
  BY <1>1 DEF ReadAppeal, AfterRead
<1>2. CASE SaveAppeal(r)
  <2>1. status' \in [Ids -> States]
    BY <1>2, <1>j DEF SaveAppeal
  <2>2. pc' \in [Resolvers -> Labels]
    BY <1>2 DEF SaveAppeal, AfterSave
  <2>3. QED
    BY <1>2, <2>1, <2>2 DEF SaveAppeal
<1>3. CASE EditCard(r)
  BY <1>3 DEF EditCard
<1>4. CASE Lift(r)
  <2>1. lifted' \subseteq Ids
    BY <1>4, <1>j DEF Lift, Discharge
  <2>2. QED
    BY <1>4, <2>1 DEF Lift
<1>5. CASE Notify(r)
  <2>1. told' \in [Ids -> SUBSET Verdicts]
    BY <1>5, <1>j DEF Notify
  <2>2. QED
    BY <1>5, <2>1 DEF Notify
<1>6. QED
  BY <1>1, <1>2, <1>3, <1>4, <1>5 DEF Resolve

LEMMA TypesDecide ==
  ASSUME Types, NEW r \in Resolvers, NEW a \in Ids, NEW v \in Verdicts,
         NEW o \in {"card", "panel"}, Decide(r, a, v, o)
  PROVE  Types'
<1>1. [appeal |-> a, verdict |-> v, origin |-> o] \in Jobs
  BY DEF Jobs
<1>2. job' \in [Resolvers -> Jobs]
  BY <1>1 DEF Decide, Types
<1>3. QED
  BY <1>2 DEF Decide, Types, Goto, effects, Labels

LEMMA TypesCrash == Types /\ Crash => Types'
BY DEF Types, Crash, effects, FormStates, Labels

LEMMA TypesNext == Types /\ [Next]_vars => Types'
<1> SUFFICES ASSUME Types, [Next]_vars PROVE Types'
  OBVIOUS
<1>1. CASE UNCHANGED vars
  BY <1>1 DEF vars, effects, Types
<1>2. CASE Next
  BY <1>2, TypesForm, TypesResolve, TypesDecide, TypesCrash DEF Next
<1>3. QED
  BY <1>1, <1>2

LEMMA BoundsNext == Bounds /\ [Next]_vars => Bounds'
<1> SUFFICES ASSUME Bounds, [Next]_vars PROVE Bounds'
  OBVIOUS
<1> USE AppealsAssumption DEF Bounds, bounds
<1>1. CASE UNCHANGED vars
  BY <1>1 DEF vars
<1>2. ASSUME NEW f \in Forms, SubmitForm(f) \/ FormStep(f)
      PROVE  Bounds'
  BY <1>2 DEF SubmitForm, FormStep, ReadPending, InsertAppeal, PostCard
<1>3. ASSUME NEW r \in Resolvers, Resolve(r)
      PROVE  Bounds'
  BY <1>3 DEF Resolve, ReadAppeal, SaveAppeal, EditCard, Lift, Notify
<1>4. ASSUME NEW r \in Resolvers, NEW a \in Ids, NEW v \in Verdicts,
             NEW o \in {"card", "panel"}, Decide(r, a, v, o)
      PROVE  Bounds'
  BY <1>4 DEF Decide
<1>5. CASE Crash
  BY <1>5 DEF Crash
<1>6. QED
  BY <1>1, <1>2, <1>3, <1>4, <1>5 DEF Next

-----------------------------------------------------------------------------
(* Rows are never deleted, so what refers to one keeps referring to one.   *)
LEMMA RowsStay == Types /\ [Next]_vars =>
    \A a \in Ids : status[a] # "absent" => status'[a] # "absent"
<1> SUFFICES ASSUME Types, [Next]_vars
             PROVE  \A a \in Ids : status[a] # "absent" => status'[a] # "absent"
  OBVIOUS
<1> USE DEF Types
<1>1. CASE UNCHANGED vars
  BY <1>1 DEF vars
<1>2. ASSUME NEW f \in Forms, SubmitForm(f) \/ FormStep(f)
      PROVE  \A a \in Ids : status[a] # "absent" => status'[a] # "absent"
  BY <1>2 DEF SubmitForm, FormStep, ReadPending, InsertAppeal, PostCard
<1>3. ASSUME NEW r \in Resolvers, Resolve(r)
      PROVE  \A a \in Ids : status[a] # "absent" => status'[a] # "absent"
  <2>1. job[r].verdict # "absent"
    BY DEF Jobs, Verdicts
  <2>2. QED
    BY <1>3, <2>1 DEF Resolve, ReadAppeal, SaveAppeal, EditCard, Lift, Notify
<1>4. QED
  BY <1>1, <1>2, <1>3 DEF Next, Decide, Crash

LEMMA RowsExistInit == Init => RowsExist
BY AppealsAssumption DEF Init, RowsExist

LEMMA RowsExistNext == Types /\ RowsExist /\ [Next]_vars => RowsExist'
<1> SUFFICES ASSUME Types, RowsExist, [Next]_vars PROVE RowsExist'
  OBVIOUS
<1>s. \A a \in Ids : status[a] # "absent" => status'[a] # "absent"
  BY RowsStay
<1>t. Types'
  BY TypesNext
<1> USE DEF Types, RowsExist
<1>1. CASE UNCHANGED vars
  BY <1>1 DEF vars, effects
<1>2. ASSUME NEW f \in Forms, SubmitForm(f) \/ FormStep(f)
      PROVE  RowsExist'
  <2>1. UNCHANGED <<pc, job>>
    BY <1>2 DEF SubmitForm, FormStep, ReadPending, InsertAppeal, PostCard
  <2>2. \A a \in carded' : status'[a] # "absent"
    BY <1>2, <1>s DEF SubmitForm, FormStep, ReadPending, InsertAppeal, PostCard, effects
  <2>3. \A g \in Forms : form'[g] \in Ids => status'[form'[g]] # "absent"
    BY <1>2, <1>s, AppealsAssumption
    DEF SubmitForm, FormStep, ReadPending, InsertAppeal, PostCard, FormTo, AfterLookup
  <2>4. \A r \in Resolvers : pc'[r] # "idle" => status'[job'[r].appeal] # "absent"
    BY <2>1, <1>s DEF Jobs
  <2>5. QED
    BY <2>2, <2>3, <2>4
<1>3. ASSUME NEW r \in Resolvers, Resolve(r)
      PROVE  RowsExist'
  <2>1. UNCHANGED <<form, job>> /\ carded' \subseteq carded
    BY <1>3 DEF Resolve, ReadAppeal, SaveAppeal, EditCard, Lift, Notify, effects
  <2>2. \A q \in Resolvers : pc'[q] # "idle" => pc[q] # "idle"
    BY <1>3 DEF Resolve, ReadAppeal, SaveAppeal, EditCard, Lift, Notify, Goto
  <2>3. \A q \in Resolvers : job[q].appeal \in Ids
    BY DEF Jobs
  <2>4. QED
    BY <2>1, <2>2, <2>3, <1>s
<1>4. ASSUME NEW r \in Resolvers, NEW a \in Ids, NEW v \in Verdicts,
             NEW o \in {"card", "panel"}, Decide(r, a, v, o)
      PROVE  RowsExist'
  <2>1. status[a] # "absent"
    BY <1>4 DEF Decide, Pending
  <2>2. QED
    BY <1>4, <2>1 DEF Decide, Goto, effects
<1>5. CASE Crash
  BY <1>5, AppealsAssumption DEF Crash, Retried, effects
<1>6. QED
  BY <1>1, <1>2, <1>3, <1>4, <1>5 DEF Next

(* Types, existing rows and respected bounds in every reachable state.     *)
THEOREM TypeCorrect == Spec => []TypeOK
<1>1. Init => Types /\ RowsExist /\ Bounds
  BY TypesInit, RowsExistInit, BoundsInit
<1>2. Types /\ RowsExist /\ Bounds /\ [Next]_vars => (Types /\ RowsExist /\ Bounds)'
  BY TypesNext, RowsExistNext, BoundsNext
<1>3. Types /\ RowsExist /\ Bounds => TypeOK
  BY DEF Types, Bounds, TypeOK, States, FormStates, Labels
<1>4. QED
  BY <1>1, <1>2, <1>3, PTL DEF Spec

LEMMA TypesAlways == Spec => []Types
BY TypesInit, TypesNext, PTL DEF Spec

-----------------------------------------------------------------------------
(* Resolved rows stay resolved, whoever overwrites the verdict.            *)
LEMMA ResolvedStays == Types /\ [Next]_vars =>
    \A a \in Ids : status[a] \in Verdicts => status'[a] \in Verdicts
<1> SUFFICES ASSUME Types, [Next]_vars
             PROVE  \A a \in Ids : status[a] \in Verdicts => status'[a] \in Verdicts
  OBVIOUS
<1> USE DEF Types
<1>1. CASE UNCHANGED vars
  BY <1>1 DEF vars
<1>2. ASSUME NEW f \in Forms, SubmitForm(f) \/ FormStep(f)
      PROVE  \A a \in Ids : status[a] \in Verdicts => status'[a] \in Verdicts
  BY <1>2 DEF SubmitForm, FormStep, ReadPending, InsertAppeal, PostCard, Verdicts
<1>3. ASSUME NEW r \in Resolvers, Resolve(r)
      PROVE  \A a \in Ids : status[a] \in Verdicts => status'[a] \in Verdicts
  BY <1>3 DEF Resolve, ReadAppeal, SaveAppeal, EditCard, Lift, Notify, Jobs
<1>4. QED
  BY <1>1, <1>2, <1>3 DEF Next, Decide, Crash

(* A decision past its commit has a resolved row.                          *)
Committed ==
    \A r \in Resolvers :
        pc[r] \in {"edit", "lift", "notify"} => status[job[r].appeal] \in Verdicts

LEMMA CommittedNext ==
    Types /\ Committed /\ [Next]_vars => Committed'
<1> SUFFICES ASSUME Types, Committed, [Next]_vars PROVE Committed'
  OBVIOUS
<1>s. \A a \in Ids : status[a] \in Verdicts => status'[a] \in Verdicts
  BY ResolvedStays
<1>j. \A r \in Resolvers : job[r].appeal \in Ids /\ job[r].verdict \in Verdicts
  BY DEF Types, Jobs
<1> USE DEF Types, Committed
<1>1. CASE UNCHANGED vars
  BY <1>1 DEF vars
<1>2. ASSUME NEW f \in Forms, SubmitForm(f) \/ FormStep(f)
      PROVE  Committed'
  BY <1>2, <1>s, <1>j DEF SubmitForm, FormStep, ReadPending, InsertAppeal, PostCard
<1>3. ASSUME NEW r \in Resolvers, Resolve(r)
      PROVE  Committed'
  <2>1. ASSUME NEW q \in Resolvers, q # r, pc'[q] \in {"edit", "lift", "notify"}
        PROVE  status'[job'[q].appeal] \in Verdicts
    BY <1>3, <2>1, <1>s, <1>j
    DEF Resolve, ReadAppeal, SaveAppeal, EditCard, Lift, Notify, Goto
  <2>2. ASSUME pc'[r] \in {"edit", "lift", "notify"}
        PROVE  status'[job'[r].appeal] \in Verdicts
    BY <1>3, <2>2, <1>s, <1>j
    DEF Resolve, ReadAppeal, AfterRead, SaveAppeal, EditCard, Lift, Notify, Goto
  <2>3. QED
    BY <2>1, <2>2
<1>4. ASSUME NEW r \in Resolvers, NEW a \in Ids, NEW v \in Verdicts,
             NEW o \in {"card", "panel"}, Decide(r, a, v, o)
      PROVE  Committed'
  BY <1>4, <1>s DEF Decide, Goto
<1>5. CASE Crash
  BY <1>5 DEF Crash
<1>6. QED
  BY <1>1, <1>2, <1>3, <1>4, <1>5 DEF Next

LEMMA EffectsNext ==
    Types /\ Committed /\ EffectsFollowCommit /\ [Next]_vars => EffectsFollowCommit'
<1> SUFFICES ASSUME Types, Committed, EffectsFollowCommit, [Next]_vars
             PROVE  EffectsFollowCommit'
  OBVIOUS
<1>s. \A a \in Ids : status[a] \in Verdicts => status'[a] \in Verdicts
  BY ResolvedStays
<1> USE DEF Types, EffectsFollowCommit
<1>1. CASE UNCHANGED <<told, lifted>>
  BY <1>1, <1>s
<1>2. ASSUME NEW r \in Resolvers, Lift(r) \/ Notify(r)
      PROVE  EffectsFollowCommit'
  <2>1. status[job[r].appeal] \in Verdicts /\ UNCHANGED status
    BY <1>2 DEF Committed, Lift, Notify
  <2>2. \A a \in Ids : a \in lifted' => a \in lifted \/ a = job[r].appeal
    BY <1>2 DEF Lift, Notify, Discharge
  <2>3. \A a \in Ids : told'[a] # {} => told[a] # {} \/ a = job[r].appeal
    BY <1>2 DEF Lift, Notify
  <2>4. QED
    BY <2>1, <2>2, <2>3
<1>3. [Next]_vars => UNCHANGED <<told, lifted>> \/ \E r \in Resolvers : Lift(r) \/ Notify(r)
  BY DEF Next, SubmitForm, FormStep, ReadPending, InsertAppeal, PostCard, Resolve,
         ReadAppeal, SaveAppeal, EditCard, Decide, Crash, vars, effects
<1>4. QED
  BY <1>1, <1>2, <1>3

(* Direct messages and lifted punishments only ever follow a committed     *)
(* verdict, with any number of moderators, failures and restarts.          *)
THEOREM EffectsOrder == Spec => []EffectsFollowCommit
<1>1. Init => Committed /\ EffectsFollowCommit
  BY DEF Init, Committed, EffectsFollowCommit
<1>2. QED
  BY <1>1, CommittedNext, EffectsNext, TypesAlways, PTL DEF Spec

-----------------------------------------------------------------------------
(* A decision about to be saved has found an open row: true only while no  *)
(* second decision can come between its read and its commit.               *)
SavesPending ==
    \A r \in Resolvers : pc[r] = "save" => status[job[r].appeal] = "pending"

Sole(S) == \A x, y \in S : x = y

LEMMA SavesPendingNext ==
    ASSUME Sole(Resolvers)
    PROVE  Types /\ SavesPending /\ [Next]_vars => SavesPending'
<1> SUFFICES ASSUME Types, SavesPending, [Next]_vars PROVE SavesPending'
  OBVIOUS
<1>j. \A r \in Resolvers : job[r].appeal \in Ids
  BY DEF Types, Jobs
<1> USE DEF Types, SavesPending
<1>1. CASE UNCHANGED vars
  BY <1>1 DEF vars
<1>2. ASSUME NEW f \in Forms, SubmitForm(f) \/ FormStep(f)
      PROVE  SavesPending'
  BY <1>2, <1>j DEF SubmitForm, FormStep, ReadPending, InsertAppeal, PostCard
<1>3. ASSUME NEW r \in Resolvers, Resolve(r)
      PROVE  SavesPending'
  BY <1>3, <1>j
  DEF Sole, Resolve, ReadAppeal, AfterRead, IsPending, SaveAppeal, AfterSave, EditCard,
      Lift, Notify, Goto
<1>4. CASE \E r \in Resolvers, a \in Ids, v \in Verdicts, o \in {"card", "panel"} :
               Decide(r, a, v, o)
  BY <1>4 DEF Sole, Decide, Goto
<1>5. CASE Crash
  BY <1>5 DEF Crash
<1>6. QED
  BY <1>1, <1>2, <1>3, <1>4, <1>5 DEF Next

LEMMA FinalStep ==
    Types /\ SavesPending /\ [Next]_vars =>
        \A a \in Ids : status[a] \in Verdicts => status'[a] = status[a]
<1> SUFFICES ASSUME Types, SavesPending, [Next]_vars
             PROVE  \A a \in Ids : status[a] \in Verdicts => status'[a] = status[a]
  OBVIOUS
<1> USE DEF Types
<1>1. CASE UNCHANGED status
  BY <1>1
<1>2. ASSUME NEW f \in Forms, InsertAppeal(f)
      PROVE  \A a \in Ids : status[a] \in Verdicts => status'[a] = status[a]
  BY <1>2 DEF InsertAppeal, Verdicts
<1>3. ASSUME NEW r \in Resolvers, SaveAppeal(r)
      PROVE  \A a \in Ids : status[a] \in Verdicts => status'[a] = status[a]
  BY <1>3 DEF SaveAppeal, SavesPending, Verdicts
<1>4. QED
  BY <1>1, <1>2, <1>3 DEF Next, SubmitForm, FormStep, ReadPending, PostCard, Resolve,
     ReadAppeal, EditCard, Lift, Notify, Decide, Crash, vars

(* While decisions come one at a time a verdict is final, restarts of the  *)
(* panel's command included; a second decision at the same time breaks it. *)
THEOREM SoleResolverFinal ==
    ASSUME Sole(Resolvers)
    PROVE  Spec => VerdictIsFinal
<1>1. Init => SavesPending
  BY DEF Init, SavesPending
<1>2. Types /\ SavesPending /\ [Next]_vars => SavesPending'
  BY SavesPendingNext
<1>3. Types /\ SavesPending /\ [Next]_vars =>
        [\A a \in Ids : status[a] \in Verdicts => status'[a] = status[a]]_vars
  BY FinalStep
<1>4. QED
  BY <1>1, <1>2, <1>3, TypesAlways, PTL DEF Spec, VerdictIsFinal

-----------------------------------------------------------------------------
(* A form about to insert has found no open row: true only while no second *)
(* form can come between its look-up and its commit.                       *)
InsertsAlone ==
    /\ OnePending
    /\ \A f \in Forms : form[f] = "inserting" => Pending = {}

(* Only an insert adds an open row.                                        *)
LEMMA PendingShrinks ==
    ASSUME Types, [Next]_vars, \A f \in Forms : ~InsertAppeal(f)
    PROVE  Pending' \subseteq Pending
<1>1. \A a \in Ids : status'[a] = "pending" => status[a] = "pending"
  <2>1. CASE UNCHANGED status
    BY <2>1
  <2>2. ASSUME NEW r \in Resolvers, SaveAppeal(r)
        PROVE  \A a \in Ids : status'[a] = "pending" => status[a] = "pending"
    BY <2>2 DEF SaveAppeal, Types, Jobs, Verdicts
  <2>3. QED
    BY <2>1, <2>2 DEF Next, SubmitForm, FormStep, ReadPending, PostCard, Resolve,
       ReadAppeal, EditCard, Lift, Notify, Decide, Crash, vars
<1>2. QED
  BY <1>1 DEF Pending

LEMMA InsertsAloneNext ==
    ASSUME Sole(Forms)
    PROVE  Types /\ InsertsAlone /\ [Next]_vars => InsertsAlone'
<1> SUFFICES ASSUME Types, InsertsAlone, [Next]_vars PROVE InsertsAlone'
  OBVIOUS
<1>1. ASSUME NEW f \in Forms, InsertAppeal(f)
      PROVE  InsertsAlone'
  <2>1. Pending = {}
    BY <1>1 DEF InsertAppeal, InsertsAlone
  <2>2. PICK a \in Ids : status' = [status EXCEPT ![a] = "pending"] /\ FormTo(f, a)
    BY <1>1 DEF InsertAppeal
  <2>3. Pending' \subseteq {a}
    BY <2>1, <2>2 DEF Pending, Types
  <2>4. \A g \in Forms : form'[g] # "inserting"
    BY <2>2, AppealsAssumption DEF FormTo, Types, Sole
  <2>5. QED
    BY <2>3, <2>4 DEF InsertsAlone, OnePending
<1>2. CASE \A f \in Forms : ~InsertAppeal(f)
  <2>1. Pending' \subseteq Pending
    BY <1>2, PendingShrinks
  <2>2. \A f \in Forms : form'[f] = "inserting" => form[f] = "inserting" \/ Pending = {}
    BY <1>2, AppealsAssumption
    DEF Next, SubmitForm, FormStep, ReadPending, AfterLookup, PostCard, FormTo, Resolve,
        ReadAppeal, SaveAppeal, EditCard, Lift, Notify, Decide, Crash, vars, Types
  <2>3. QED
    BY <2>1, <2>2 DEF InsertsAlone, OnePending
<1>3. QED
  BY <1>1, <1>2

(* A member who submits one form at a time has at most one open appeal.    *)
THEOREM SoleFormOnePending ==
    ASSUME Sole(Forms)
    PROVE  Spec => []OnePending
<1>1. Init => InsertsAlone
  BY DEF Init, InsertsAlone, OnePending, Pending
<1>2. Types /\ InsertsAlone /\ [Next]_vars => InsertsAlone'
  BY InsertsAloneNext
<1>3. InsertsAlone => OnePending
  BY DEF InsertsAlone
<1>4. QED
  BY <1>1, <1>2, <1>3, TypesAlways, PTL DEF Spec

-----------------------------------------------------------------------------
(* The same two promises while requests do not overlap, whatever their     *)
(* number: what a form or a decision has read stays true until it writes.  *)
FormsApart == ~formsMet => ~FormsMeet /\ InsertsAlone

LEMMA FormsApartNext == Types /\ FormsApart /\ [MCNext]_mcVars => FormsApart'
<1> SUFFICES ASSUME Types, FormsApart, [MCNext]_mcVars, ~formsMet'
             PROVE  ~FormsMeet' /\ InsertsAlone'
  BY DEF FormsApart
<1>1. [Next]_vars /\ ~formsMet /\ ~FormsMeet'
  <2>1. CASE MCNext
    <3>1. formsMet' = (formsMet \/ FormsMeet') /\ Next
      BY <2>1 DEF MCNext
    <3> QED  BY <3>1
  <2>2. CASE UNCHANGED mcVars
    <3>1. formsMet' = formsMet /\ UNCHANGED vars /\ form' = form
      BY <2>2 DEF mcVars, vars
    <3>2. ~FormsMeet
      BY <3>1 DEF FormsApart
    <3> QED  BY <3>1, <3>2 DEF FormsMeet
  <2> QED  BY <2>1, <2>2
<1>2. ~FormsMeet /\ InsertsAlone
  BY <1>1 DEF FormsApart
<1>3. ASSUME NEW f \in Forms, InsertAppeal(f)
      PROVE  InsertsAlone'
  <2>1. Pending = {}
    BY <1>2, <1>3 DEF InsertAppeal, InsertsAlone
  <2>2. PICK a \in Ids : status' = [status EXCEPT ![a] = "pending"] /\ FormTo(f, a)
    BY <1>3 DEF InsertAppeal
  <2>3. Pending' \subseteq {a}
    BY <2>1, <2>2 DEF Pending, Types
  <2>4. form[f] = "inserting"
    BY <1>3 DEF InsertAppeal
  <2>5. \A g \in Forms : form'[g] # "inserting"
    BY <1>2, <2>2, <2>4, AppealsAssumption DEF FormTo, Types, FormsMeet
  <2> QED  BY <2>3, <2>5 DEF InsertsAlone, OnePending
<1>4. CASE \A f \in Forms : ~InsertAppeal(f)
  <2>1. Pending' \subseteq Pending
    BY <1>1, <1>4, PendingShrinks
  <2>2. \A f \in Forms : form'[f] = "inserting" => form[f] = "inserting" \/ Pending = {}
    BY <1>1, <1>4, AppealsAssumption
    DEF Next, SubmitForm, FormStep, ReadPending, AfterLookup, PostCard, FormTo, Resolve,
        ReadAppeal, SaveAppeal, EditCard, Lift, Notify, Decide, Crash, vars, Types
  <2>3. InsertsAlone'
    BY <1>2, <2>1, <2>2 DEF InsertsAlone, OnePending
  <2> QED  BY <1>1, <2>3
<1> QED  BY <1>1, <1>3, <1>4

(* A decision writes over an open row, and after that the row holds its    *)
(* verdict.                                                                *)
OwnVerdict ==
    /\ SavesPending
    /\ \A r \in Resolvers :
         pc[r] \in {"edit", "lift", "notify"} => status[job[r].appeal] = job[r].verdict
ResolversApart == ~resolversMet => ~ResolversMeet /\ OwnVerdict /\ ToldTheVerdict

LEMMA ResolversApartNext ==
    Types /\ ResolversApart /\ [MCNext]_mcVars => ResolversApart'
<1> SUFFICES ASSUME Types, ResolversApart, [MCNext]_mcVars, ~resolversMet'
             PROVE  ~ResolversMeet' /\ OwnVerdict' /\ ToldTheVerdict'
  BY DEF ResolversApart
<1>1. [Next]_vars /\ ~resolversMet /\ ~ResolversMeet'
  <2>1. CASE MCNext
    <3>1. resolversMet' = (resolversMet \/ ResolversMeet') /\ Next
      BY <2>1 DEF MCNext
    <3> QED  BY <3>1
  <2>2. CASE UNCHANGED mcVars
    <3>1. resolversMet' = resolversMet /\ UNCHANGED vars /\ pc' = pc
      BY <2>2 DEF mcVars, vars
    <3>2. ~ResolversMeet
      BY <3>1 DEF ResolversApart
    <3> QED  BY <3>1, <3>2 DEF ResolversMeet
  <2> QED  BY <2>1, <2>2
<1>2. ~ResolversMeet /\ OwnVerdict /\ ToldTheVerdict
  BY <1>1 DEF ResolversApart
<1>j. \A r \in Resolvers : /\ job[r].appeal \in Ids /\ job[r].verdict \in Verdicts
                           /\ job[r].verdict # "pending"
  BY DEF Types, Jobs, Verdicts
<1>n. \A a \in Ids : status[a] \notin Verdicts => told[a] = {} /\ a \notin lifted
  <2>1. \A a \in Ids : told[a] \subseteq Verdicts
    BY DEF Types
  <2> QED  BY <1>2, <2>1 DEF ToldTheVerdict, Verdicts
<1> DEFINE Kept == OwnVerdict' /\ ToldTheVerdict'
<1> USE <1>2, <1>j, <1>n DEF Types, OwnVerdict, SavesPending, ToldTheVerdict, Goto, effects, bounds
<1>3. ASSUME UNCHANGED vars PROVE Kept
  BY <1>3 DEF vars
<1>4. ASSUME NEW f \in Forms, SubmitForm(f) \/ ReadPending(f) \/ PostCard(f) PROVE Kept
  BY <1>4 DEF SubmitForm, ReadPending, PostCard
<1>5. ASSUME NEW f \in Forms, InsertAppeal(f) PROVE Kept
  <2>1. PICK a \in Ids : status[a] = "absent" /\ status' = [status EXCEPT ![a] = "pending"]
                         /\ UNCHANGED <<told, lifted, pc, job>>
    BY <1>5 DEF InsertAppeal
  <2>2. told[a] = {} /\ a \notin lifted
    BY <2>1 DEF Verdicts
  <2>3. \A r \in Resolvers : pc[r] \in {"save", "edit", "lift", "notify"} => job[r].appeal # a
    BY <2>1 DEF Verdicts
  <2>4. OwnVerdict'
    BY <2>1, <2>3
  <2>5. ToldTheVerdict'
    BY <2>1, <2>2
  <2> QED  BY <2>4, <2>5
<1>6. ASSUME NEW r \in Resolvers, SaveAppeal(r) PROVE Kept
  <2>1. /\ pc[r] = "save" /\ status[job[r].appeal] = "pending"
        /\ status' = [status EXCEPT ![job[r].appeal] = job[r].verdict]
        /\ pc'[r] # "save" /\ \A q \in Resolvers : q # r => pc'[q] = pc[q]
        /\ UNCHANGED <<told, lifted, job>>
    BY <1>6 DEF SaveAppeal, AfterSave
  <2>2. \A q \in Resolvers : q # r => pc[q] = "idle"
    BY <2>1 DEF ResolversMeet
  <2>3. OwnVerdict'
    BY <2>1, <2>2
  <2>4. told[job[r].appeal] = {} /\ job[r].appeal \notin lifted
    BY <2>1 DEF Verdicts
  <2>5. ToldTheVerdict'
    BY <2>1, <2>4
  <2> QED  BY <2>3, <2>5
<1>7. ASSUME NEW r \in Resolvers, ReadAppeal(r) \/ EditCard(r) PROVE Kept
  BY <1>7 DEF ReadAppeal, AfterRead, IsPending, EditCard
<1>8. ASSUME NEW r \in Resolvers, Lift(r) PROVE Kept
  <2>1. /\ pc[r] = "lift" /\ pc' = [pc EXCEPT ![r] = "notify"] /\ UNCHANGED <<status, told, job>>
        /\ \/ UNCHANGED lifted
           \/ job[r].verdict = "approved" /\ lifted' = lifted \cup {job[r].appeal}
    BY <1>8 DEF Lift, Discharge
  <2>2. OwnVerdict'
    BY <2>1
  <2>3. ToldTheVerdict'
    BY <2>1
  <2> QED  BY <2>2, <2>3
<1>9. ASSUME NEW r \in Resolvers, Notify(r) PROVE Kept
  <2>1. /\ pc[r] = "notify" /\ pc' = [pc EXCEPT ![r] = "idle"] /\ UNCHANGED <<status, lifted, job>>
        /\ \/ UNCHANGED told
           \/ told' = [told EXCEPT ![job[r].appeal] = @ \cup {job[r].verdict}]
    BY <1>9 DEF Notify
  <2>2. OwnVerdict'
    BY <2>1
  <2>3. ToldTheVerdict'
    BY <2>1
  <2> QED  BY <2>2, <2>3
<1>10. ASSUME NEW r \in Resolvers, NEW a \in Ids, NEW v \in Verdicts,
              NEW o \in {"card", "panel"}, Decide(r, a, v, o)
       PROVE  Kept
  BY <1>10 DEF Decide
<1>11. ASSUME Crash PROVE Kept
  <2>1. UNCHANGED <<status, told, lifted, job>> /\ \A r \in Resolvers : pc'[r] \in {"read", "idle"}
    BY <1>11 DEF Crash
  <2> QED  BY <2>1
<1> QED
  BY <1>1, <1>3, <1>4, <1>5, <1>6, <1>7, <1>8, <1>9, <1>10, <1>11
  DEF Next, FormStep, Resolve

(* One open appeal at a time while modals do not overlap, and one verdict  *)
(* that the member is told and that lifts while decisions do not, through  *)
(* failing calls, crashes and commands that are run again.                 *)
THEOREM AppealsInOrder == MCInit /\ [][MCNext]_mcVars => []AppealRulesAlone
<1>1. MCInit => FormsApart /\ ResolversApart
  <2> SUFFICES ASSUME MCInit PROVE ~FormsMeet /\ InsertsAlone /\ ~ResolversMeet /\ OwnVerdict /\ ToldTheVerdict
    BY DEF FormsApart, ResolversApart
  <2> USE DEF MCInit, Init
  <2>1. ~FormsMeet /\ InsertsAlone
    BY DEF FormsMeet, InsertsAlone, OnePending, Pending
  <2>2. ~ResolversMeet /\ OwnVerdict /\ ToldTheVerdict
    BY DEF ResolversMeet, OwnVerdict, SavesPending, ToldTheVerdict
  <2> QED  BY <2>1, <2>2
<1>2. MCInit /\ [][MCNext]_mcVars => Spec
  <2>1. [MCNext]_mcVars => [Next]_vars
    BY DEF MCNext, mcVars
  <2>2. MCInit => Init
    BY DEF MCInit
  <2> QED  BY <2>1, <2>2, PTL DEF Spec
<1>3. FormsApart /\ ResolversApart => AppealRulesAlone
  <2>1. FormsApart /\ ~formsMet => OnePending
    BY DEF FormsApart, InsertsAlone
  <2>2. ResolversApart /\ ~resolversMet => ToldTheVerdict
    BY DEF ResolversApart
  <2> QED  BY <2>1, <2>2 DEF AppealRulesAlone
<1> QED
  BY <1>1, <1>2, <1>3, FormsApartNext, ResolversApartNext, TypesAlways, PTL
=============================================================================
