------------------------------ MODULE MembersProofs ------------------------------
(* Proofs about Warns and MCWarns, for every number of warners and every   *)
(* threshold, and about Finds, StayKick, TempVoice and Departures, as      *)
(* MCMembers runs them.                                                    *)
EXTENDS MCMembers, FiniteSetTheorems, TLAPS

States == {"idle", "count", "keep", "prior", "delete", "commit", "enforce"}

(* The rows are some of those given, and finitely many.                    *)
LEMMA RowsAreFew ==
    ASSUME NEW n \in Nat, NEW S, S \subseteq 1..n
    PROVE  IsFiniteSet(S) /\ Cardinality(S) \in Nat /\ Cardinality(S) <= n
<1>1. IsFiniteSet(1..n) /\ Cardinality(1..n) = n
  <2>1. IsFiniteSet(1..n) /\ Cardinality(1..n) = IF 1 > n THEN 0 ELSE n - 1 + 1
    BY FS_Interval
  <2> QED
    BY <2>1
<1> QED
  BY <1>1, FS_Subset, FS_CardinalityType

(* The step of a later punishment is no milder, and is a step.             *)
LEMMA StepGrows ==
    ASSUME NEW n \in Nat, NEW k \in Nat, 1 <= n, n <= k
    PROVE  Step(n) \in Steps /\ Step(n) <= Step(k)
  BY DEF Step, Steps

Numbered ==
    \A w \in Warners :
        /\ InTransaction(w) => id[w] # 0
        /\ pc[w] = "enforce" => owed[w] # 0

(* Every variable keeps its type: a warn that is being stored has its id,  *)
(* and no case is owed or applied before it exists.                        *)
THEOREM TypeCorrect == Spec => []TypeOK
<1>1. Init => TypeOK /\ Numbered
  BY WarnsAssumption DEF Init, TypeOK, Steps, Numbered, InTransaction
<1>2. TypeOK /\ Numbered /\ [Next]_vars => Numbered'
  <2> SUFFICES ASSUME TypeOK, Numbered, [Next]_vars PROVE Numbered'
    OBVIOUS
  <2> USE WarnsAssumption DEF TypeOK, Numbered, InTransaction, Goto, bounds
  <2>1. ASSUME NEW w \in Warners, Warn(w) PROVE Numbered'
    <3>1. /\ given \in Nat /\ given + 1 # 0 /\ id' = [id EXCEPT ![w] = given + 1]
          /\ pc' = [pc EXCEPT ![w] = "count"] /\ owed' = owed
      BY <2>1 DEF Warn
    <3> QED
      BY <3>1
  <2>2. ASSUME NEW w \in Warners, Count(w) PROVE Numbered'
    BY <2>2 DEF Count
  <2>3. ASSUME NEW w \in Warners, Keep(w) PROVE Numbered'
    BY <2>3 DEF Keep
  <2>4. ASSUME NEW w \in Warners, CountPrior(w) PROVE Numbered'
    BY <2>4 DEF CountPrior
  <2>5. ASSUME NEW w \in Warners, Delete(w) PROVE Numbered'
    BY <2>5 DEF Delete
  <2>6. ASSUME NEW w \in Warners, Punish(w) PROVE Numbered'
    <3>1. Step(prior[w] + 1) \in Steps
      BY DEF Step, Steps
    <3>2. Len(cases') = Len(cases) + 1 /\ Len(cases) \in Nat
      BY <2>6, <3>1 DEF Punish
    <3>3. /\ owed' = [owed EXCEPT ![w] = Len(cases')] /\ Len(cases') # 0
          /\ pc' = [pc EXCEPT ![w] = "enforce"] /\ id' = id
      BY <2>6, <3>2 DEF Punish, AfterCommit
    <3> QED
      BY <3>3
  <2>7. ASSUME NEW w \in Warners, Enforce(w) PROVE Numbered'
    BY <2>7 DEF Enforce
  <2>8. CASE Crash
    BY <2>8 DEF Crash
  <2>9. CASE UNCHANGED <<id, pc, owed>>
    BY <2>9
  <2> QED
    BY <2>1, <2>2, <2>3, <2>4, <2>5, <2>6, <2>7, <2>8, <2>9
       DEF Next, Execute, Expire, Clear, vars
<1>3. TypeOK /\ Numbered /\ [Next]_vars => TypeOK'
  <2> SUFFICES ASSUME TypeOK, Numbered, [Next]_vars PROVE TypeOK'
    OBVIOUS
  <2> USE WarnsAssumption DEF TypeOK, table, bounds, Ids
  <2>1. ASSUME NEW w \in Warners, Warn(w) PROVE TypeOK'
    <3>1. given' = given + 1 /\ given' \in 0..MaxWarns /\ 1..given \subseteq 1..given'
      BY <2>1 DEF Warn
    <3>2. id' \in [Warners -> 0..given']
      BY <2>1, <3>1 DEF Warn
    <3>3. pc' \in [Warners -> States]
      BY <2>1 DEF Warn, Goto, States
    <3> QED
      BY <2>1, <3>1, <3>2, <3>3 DEF Warn, States
  <2>2. ASSUME NEW w \in Warners, Count(w) PROVE TypeOK'
    <3>1. (IF Counted < Threshold THEN "keep" ELSE "prior") \in States
      BY DEF States
    <3>2. pc' \in [Warners -> States]
      BY <2>2, <3>1 DEF Count, Goto, States
    <3>3. UNCHANGED <<table, id, prior, gone, owed, applied, bounds>>
      BY <2>2 DEF Count, bounds
    <3> QED
      BY <3>2, <3>3 DEF States
  <2>3. ASSUME NEW w \in Warners, Keep(w) PROVE TypeOK'
    <3>1. pc' \in [Warners -> States]
      BY <2>3 DEF Keep, Goto, States
    <3>2. id[w] \in 1..given
      BY <2>3 DEF Keep, Numbered, InTransaction
    <3>3. warns' = warns \cup {id[w]} /\ UNCHANGED <<expired, cases, id, prior, gone, owed, applied, bounds>>
      BY <2>3 DEF Keep
    <3> QED
      BY <3>1, <3>2, <3>3 DEF States
  <2>4. ASSUME NEW w \in Warners, CountPrior(w) PROVE TypeOK'
    <3>1. pc' \in [Warners -> States]
      BY <2>4 DEF CountPrior, Goto, States
    <3>2. prior' \in [Warners -> 0..Len(cases)]
      BY <2>4 DEF CountPrior, Prior
    <3> QED
      BY <2>4, <3>1, <3>2 DEF CountPrior, States
  <2>5. ASSUME NEW w \in Warners, Delete(w) PROVE TypeOK'
    <3>1. pc' \in [Warners -> States]
      BY <2>5 DEF Delete, Goto, States
    <3>2. gone' \in [Warners -> SUBSET Ids]
      BY <2>5 DEF Delete, Visible
    <3> QED
      BY <2>5, <3>1, <3>2 DEF Delete, States
  <2>6. ASSUME NEW w \in Warners, Punish(w) PROVE TypeOK'
    <3>1. pc' \in [Warners -> States]
      BY <2>6 DEF Punish, Goto, AfterCommit, States
    <3>2. cases' \in Seq(Steps) /\ Len(cases') = Len(cases) + 1
      <4>1. Step(prior[w] + 1) \in Steps
        BY DEF Step, Steps
      <4> QED
        BY <2>6, <4>1 DEF Punish
    <3>3. owed' \in [Warners -> 0..Len(cases')]
      BY <2>6, <3>2 DEF Punish
    <3>4. prior' \in [Warners -> 0..Len(cases')]
      BY <2>6, <3>2 DEF Punish
    <3>5. gone' \in [Warners -> SUBSET Ids]
      BY <2>6 DEF Punish
    <3>6. applied' \subseteq 1..Len(cases')
      BY <2>6, <3>2 DEF Punish
    <3>7. warns' \subseteq 1..given /\ expired' \subseteq warns'
      BY <2>6 DEF Punish
    <3>8. UNCHANGED <<id, bounds>>
      BY <2>6 DEF Punish
    <3> QED
      BY <3>1, <3>2, <3>3, <3>4, <3>5, <3>6, <3>7, <3>8 DEF States
  <2>7. ASSUME NEW w \in Warners, Enforce(w) PROVE TypeOK'
    <3>1. pc' \in [Warners -> States]
      BY <2>7 DEF Enforce, Goto, States
    <3>2. pc[w] = "enforce" /\ UNCHANGED <<table, id, prior, gone, owed, bounds>>
      BY <2>7 DEF Enforce
    <3>3. applied' \subseteq 1..Len(cases)
      <4>1. owed[w] \in 1..Len(cases)
        BY <3>2 DEF Numbered
      <4> QED
        BY <2>7, <4>1 DEF Enforce
    <3> QED
      BY <3>1, <3>2, <3>3 DEF States
  <2>8. ASSUME NEW i \in Ids, Expire(i) PROVE TypeOK'
    BY <2>8 DEF Expire
  <2>9. CASE Clear
    BY <2>9 DEF Clear
  <2>10. CASE Crash
    BY <2>10 DEF Crash
  <2>11. CASE UNCHANGED vars
    BY <2>11 DEF vars
  <2> QED
    BY <2>1, <2>2, <2>3, <2>4, <2>5, <2>6, <2>7, <2>8, <2>9, <2>10, <2>11
       DEF Next, Execute
<1> QED
  BY <1>1, <1>2, <1>3, PTL DEF Spec

-----------------------------------------------------------------------------
(* The n-th punishment takes at most the n-th step of the ladder: a warner *)
(* has counted no more punishments than there are when its own commits.    *)
THEOREM LadderNeverTooHarsh == Spec => []NeverTooHarsh
<1>1. Init => NeverTooHarsh
  BY DEF Init, NeverTooHarsh
<1>2. TypeOK /\ NeverTooHarsh /\ [Next]_vars => NeverTooHarsh'
  <2> SUFFICES ASSUME TypeOK, NeverTooHarsh, [Next]_vars PROVE NeverTooHarsh'
    OBVIOUS
  <2>1. ASSUME NEW w \in Warners, Punish(w) PROVE NeverTooHarsh'
    <3>1. /\ cases \in Seq(Steps) /\ prior[w] \in 0..Len(cases)
          /\ cases' = Append(cases, Step(prior[w] + 1))
      BY <2>1 DEF TypeOK, Punish
    <3>2. Step(prior[w] + 1) \in Steps /\ Step(prior[w] + 1) <= Step(Len(cases) + 1)
      <4>1. prior[w] + 1 \in Nat /\ Len(cases) + 1 \in Nat
            /\ 1 <= prior[w] + 1 /\ prior[w] + 1 <= Len(cases) + 1
        BY <3>1
      <4> QED
        BY <4>1, StepGrows
    <3>3. ASSUME NEW n \in DOMAIN cases' PROVE cases'[n] <= Step(n)
      <4>1. CASE n \in DOMAIN cases
        BY <3>1, <3>2, <4>1 DEF NeverTooHarsh
      <4>2. CASE n = Len(cases) + 1
        BY <3>1, <3>2, <4>2
      <4> QED
        BY <3>1, <3>2, <4>1, <4>2
    <3> QED
      BY <3>3 DEF NeverTooHarsh
  <2>2. CASE UNCHANGED cases
    BY <2>2 DEF NeverTooHarsh
  <2> QED
    BY <2>1, <2>2 DEF Next, Execute, Warn, Count, Keep, CountPrior, Delete, Enforce,
       Expire, Clear, Crash, vars, table
<1> QED
  BY <1>1, <1>2, TypeCorrect, PTL DEF Spec

-----------------------------------------------------------------------------
(* A row that is not committed yet is nobody else's, so what a warner      *)
(* counts are different warns that were given.                             *)
OwnRow ==
    /\ \A w \in Warners : InTransaction(w) => id[w] \in (1..given) \ warns
    /\ \A w, v \in Warners : w # v /\ InTransaction(w) /\ InTransaction(v) => id[w] # id[v]

Enough == \A w \in Warners : pc[w] \in {"prior", "delete", "commit"} => given >= Threshold

LEMMA CountedAreGiven ==
    ASSUME TypeOK, NEW i \in (1..given) \ warns
    PROVE  Counted \in Nat /\ Counted <= given
<1> DEFINE S == warns \ expired
<1>1. given \in Nat /\ S \subseteq 1..given /\ S \cup {i} \subseteq 1..given /\ i \notin S
  BY WarnsAssumption DEF TypeOK
<1>2. IsFiniteSet(S) /\ Cardinality(S) \in Nat
  BY <1>1, RowsAreFew
<1>3. Cardinality(S \cup {i}) = Cardinality(S) + 1
  BY <1>1, <1>2, FS_AddElement
<1>4. Cardinality(S \cup {i}) <= given
  BY <1>1, RowsAreFew
<1> QED
  BY <1>2, <1>3, <1>4 DEF Counted

PaidInv == OwnRow /\ Enough /\ FirstNeedsThreshold

(* The first punishment needs as many warns as the threshold, whatever     *)
(* overlaps: what a transaction counts are warns that were given.          *)
THEOREM NobodyPunishedEarly == Spec => []FirstNeedsThreshold
<1>1. Init => PaidInv
  BY DEF Init, PaidInv, OwnRow, InTransaction, Enough, FirstNeedsThreshold
<1>2. TypeOK /\ PaidInv /\ [Next]_vars => PaidInv'
  <2> SUFFICES ASSUME TypeOK, PaidInv, [Next]_vars PROVE PaidInv'
    OBVIOUS
  <2> USE WarnsAssumption DEF TypeOK, PaidInv, InTransaction, table, bounds
  <2>1. ASSUME NEW w \in Warners, Warn(w) PROVE PaidInv'
    <3>1. /\ given \in Nat /\ given' = given + 1 /\ id' = [id EXCEPT ![w] = given']
          /\ pc' = [pc EXCEPT ![w] = "count"] /\ UNCHANGED <<warns, cases>>
      BY <2>1 DEF Warn, Goto
    <3>2. OwnRow'
      BY <3>1, SMTT(60) DEF OwnRow
    <3>3. Enough' /\ FirstNeedsThreshold'
      BY <3>1 DEF Enough, FirstNeedsThreshold
    <3> QED
      BY <3>2, <3>3
  <2>2. ASSUME NEW w \in Warners, Count(w) PROVE PaidInv'
    <3>1. /\ pc[w] = "count" /\ UNCHANGED <<warns, cases, id, given>>
          /\ pc' = [pc EXCEPT ![w] = IF Counted < Threshold THEN "keep" ELSE "prior"]
      BY <2>2 DEF Count, Goto
    <3>2. OwnRow'
      BY <3>1 DEF OwnRow
    <3>3. Counted \in Nat /\ Counted <= given
      BY <3>1, CountedAreGiven DEF OwnRow
    <3>4. given \in Nat /\ Threshold \in Nat
      OBVIOUS
    <3>5. Enough'
      BY <3>1, <3>3, <3>4 DEF Enough
    <3> QED
      BY <3>1, <3>2, <3>5 DEF FirstNeedsThreshold
  <2>3. ASSUME NEW w \in Warners, Keep(w) PROVE PaidInv'
    BY <2>3 DEF Keep, Goto, OwnRow, Enough, FirstNeedsThreshold
  <2>4. ASSUME NEW w \in Warners, CountPrior(w) PROVE PaidInv'
    BY <2>4 DEF CountPrior, Goto, OwnRow, Enough, FirstNeedsThreshold
  <2>5. ASSUME NEW w \in Warners, Delete(w) PROVE PaidInv'
    BY <2>5 DEF Delete, Goto, OwnRow, Enough, FirstNeedsThreshold
  <2>6. ASSUME NEW w \in Warners, Punish(w) PROVE PaidInv'
    BY <2>6 DEF Punish, Goto, AfterCommit, OwnRow, Enough, FirstNeedsThreshold
  <2>7. ASSUME NEW w \in Warners, Enforce(w) PROVE PaidInv'
    BY <2>7 DEF Enforce, Goto, OwnRow, Enough, FirstNeedsThreshold
  <2>8. CASE UNCHANGED <<warns, cases, id, given, pc>>
    BY <2>8 DEF OwnRow, Enough, FirstNeedsThreshold
  <2>9. CASE Clear
    BY <2>9 DEF Clear, OwnRow, Enough, FirstNeedsThreshold
  <2>10. CASE Crash
    BY <2>10 DEF Crash, OwnRow, Enough, FirstNeedsThreshold
  <2> QED
    BY <2>1, <2>2, <2>3, <2>4, <2>5, <2>6, <2>7, <2>8, <2>9, <2>10
       DEF Next, Execute, Expire, vars
<1>3. PaidInv => FirstNeedsThreshold
  BY DEF PaidInv
<1> QED
  BY <1>1, <1>2, <1>3, TypeCorrect, PTL DEF Spec

-----------------------------------------------------------------------------
(* Warns whose transactions do not overlap. A new case costs Threshold     *)
(* more of the warns that were given.                                      *)
Cost(n) == n * Threshold

LEMMA OneMoreCosts ==
    ASSUME NEW n \in Nat PROVE Cost(n) \in Nat /\ Cost(n + 1) = Cost(n) + Threshold
  BY WarnsAssumption DEF Cost

OneAtATime ==
    \A w, v \in Warners : InTransaction(w) /\ InTransaction(v) => w = v

(* What is paid, and what is in stock; a warner that has decided to punish *)
(* has seen enough, whatever is cleared later, knows how many punishments  *)
(* there were, and deletes every warn.                                     *)
InStock == Cost(Len(cases)) + Cardinality(warns) <= given
Affordable ==
    \A w \in Warners :
        /\ pc[w] \in {"count", "keep"} => Cost(Len(cases)) + Cardinality(warns) + 1 <= given
        /\ pc[w] \in {"prior", "delete", "commit"} => Cost(Len(cases) + 1) <= given
UpToDate ==
    \A w \in Warners :
        /\ pc[w] \in {"delete", "commit"} => prior[w] = Len(cases)
        /\ pc[w] = "commit" => warns \subseteq gone[w]
LadderInv ==
    ~met => OneAtATime /\ InStock /\ Affordable /\ UpToDate /\ LadderInOrder

LEMMA StockFinite ==
    ASSUME TypeOK
    PROVE  given \in Nat /\ IsFiniteSet(warns) /\ Cardinality(warns) \in Nat
<1>1. given \in Nat /\ warns \subseteq 1..given
  BY WarnsAssumption DEF TypeOK
<1> QED  BY <1>1, RowsAreFew

LEMMA LadderStep == TypeOK /\ TypeOK' /\ LadderInv /\ [MCNext]_mcVars => LadderInv'
<1> SUFFICES ASSUME TypeOK, TypeOK', LadderInv, [MCNext]_mcVars, ~met'
             PROVE  OneAtATime' /\ InStock' /\ Affordable' /\ UpToDate' /\ LadderInOrder'
  BY DEF LadderInv
<1>0. /\ ~met /\ OneAtATime /\ InStock /\ Affordable /\ UpToDate /\ LadderInOrder
      /\ OneAtATime'
  <2>1. CASE MCNext
    <3>1. met' = (met \/ WarnsMeet')
      BY <2>1 DEF MCNext
    <3>2. ~met /\ ~WarnsMeet'
      BY <3>1
    <3> QED  BY <3>2 DEF LadderInv, WarnsMeet, OneAtATime
  <2>2. CASE UNCHANGED mcVars
    <3>1. met' = met /\ pc' = pc
      BY <2>2 DEF mcVars, vars
    <3>2. ~met
      BY <3>1
    <3> QED  BY <3>1, <3>2 DEF LadderInv, OneAtATime, InTransaction
  <2> QED  BY <2>1, <2>2
<1>t. /\ pc \in [Warners -> States] /\ DOMAIN prior = Warners /\ DOMAIN gone = Warners
      /\ prior = [w \in Warners |-> prior[w]] /\ gone = [w \in Warners |-> gone[w]]
      /\ cases \in Seq(Steps)
  BY DEF TypeOK, States
<1>n. /\ Len(cases) \in Nat /\ Cost(Len(cases)) \in Nat /\ Threshold \in Nat /\ given \in Nat
      /\ Cost(Len(cases) + 1) = Cost(Len(cases)) + Threshold
      /\ IsFiniteSet(warns) /\ Cardinality(warns) \in Nat
      /\ IsFiniteSet(warns') /\ Cardinality(warns') \in Nat /\ given' \in Nat
  <2>1. given' \in Nat /\ warns' \subseteq 1..given'
    BY WarnsAssumption DEF TypeOK
  <2>2. IsFiniteSet(warns') /\ Cardinality(warns') \in Nat
    BY <2>1, RowsAreFew
  <2>3. Len(cases) \in Nat /\ Threshold \in Nat
    BY <1>t, WarnsAssumption
  <2>4. Cost(Len(cases)) \in Nat /\ Cost(Len(cases) + 1) = Cost(Len(cases)) + Threshold
    BY <2>3, OneMoreCosts
  <2> QED  BY <2>1, <2>2, <2>3, <2>4, StockFinite
<1> DEFINE Kept == InStock' /\ Affordable' /\ UpToDate' /\ LadderInOrder'
<1> USE <1>t DEF Goto, table, bounds
<1>1. ASSUME NEW w \in Warners, Warn(w) PROVE Kept
  <2>1. /\ given' = given + 1 /\ pc' = [pc EXCEPT ![w] = "count"]
        /\ UNCHANGED <<cases, warns, prior, gone>>
    BY <1>1 DEF Warn
  <2>2. \A v \in Warners : pc'[v] # "count" => pc'[v] = pc[v]
    BY <2>1
  <2>3. InStock' /\ Affordable'
    BY <2>1, <2>2, <1>0, <1>n DEF InStock, Affordable
  <2> QED  BY <2>1, <2>2, <2>3, <1>0 DEF UpToDate, LadderInOrder
<1>2. ASSUME NEW w \in Warners, Count(w) PROVE Kept
  <2>1. /\ pc[w] = "count" /\ pc' = [pc EXCEPT ![w] = IF Counted < Threshold THEN "keep" ELSE "prior"]
        /\ UNCHANGED <<cases, warns, prior, gone, given>>
    BY <1>2 DEF Count
  <2>2. Cost(Len(cases)) + Cardinality(warns) + 1 <= given
    BY <2>1, <1>0 DEF Affordable
  <2>3. Counted \in Nat /\ Counted <= Cardinality(warns) + 1
    BY <1>n, FS_Subset, FS_CardinalityType, SMTT(60) DEF Counted
  <2>4. Counted >= Threshold => Cost(Len(cases) + 1) <= given
    BY <2>2, <2>3, <1>n, SMTT(60)
  <2>5. pc'[w] = "keep" \/ (pc'[w] = "prior" /\ Counted >= Threshold)
    BY <2>1, <2>3, <1>n
  <2>6. \A v \in Warners : v # w => pc'[v] = pc[v]
    BY <2>1
  <2>7. Affordable'
    BY <2>1, <2>2, <2>4, <2>5, <2>6, <1>0 DEF Affordable
  <2> QED  BY <2>1, <2>5, <2>6, <2>7, <1>0 DEF InStock, UpToDate, LadderInOrder
<1>3. ASSUME NEW w \in Warners, Keep(w) PROVE Kept
  <2>1. /\ pc[w] = "keep" /\ pc' = [pc EXCEPT ![w] = "idle"] /\ warns' = warns \cup {id[w]}
        /\ UNCHANGED <<cases, prior, gone, given>>
    BY <1>3 DEF Keep
  <2>2. Cost(Len(cases)) + Cardinality(warns) + 1 <= given
    BY <2>1, <1>0 DEF Affordable
  <2>3. Cardinality(warns') <= Cardinality(warns) + 1
    <3>1. Cardinality(warns \cup {id[w]}) = IF id[w] \in warns THEN Cardinality(warns)
                                           ELSE Cardinality(warns) + 1
      BY <1>n, FS_AddElement
    <3> QED  BY <3>1, <2>1, <1>n
  <2>4. \A v \in Warners : ~InTransaction(v)'
    BY <2>1, <1>0 DEF OneAtATime, InTransaction
  <2>5. Affordable' /\ UpToDate'
    BY <2>4 DEF Affordable, UpToDate, InTransaction
  <2>6. InStock'
    BY <2>1, <2>2, <2>3, <1>n, SMTT(60) DEF InStock
  <2> QED  BY <2>1, <2>5, <2>6, <1>0 DEF LadderInOrder
<1>4. ASSUME NEW w \in Warners, CountPrior(w) PROVE Kept
  <2>1. /\ pc[w] = "prior" /\ pc' = [pc EXCEPT ![w] = "delete"]
        /\ prior' = [prior EXCEPT ![w] = Len(cases)] /\ UNCHANGED <<cases, warns, gone, given>>
    BY <1>4 DEF CountPrior, Prior
  <2> QED  BY <2>1, <1>0 DEF InStock, Affordable, UpToDate, LadderInOrder
<1>5. ASSUME NEW w \in Warners, Delete(w) PROVE Kept
  <2>1. /\ pc[w] = "delete" /\ pc' = [pc EXCEPT ![w] = "commit"]
        /\ gone' = [gone EXCEPT ![w] = warns] /\ UNCHANGED <<cases, warns, prior, given>>
    BY <1>5 DEF Delete, Visible
  <2> QED  BY <2>1, <1>0 DEF InStock, Affordable, UpToDate, LadderInOrder
<1>6. ASSUME NEW w \in Warners, Punish(w) PROVE Kept
  <2>1. /\ pc[w] = "commit" /\ pc' = [pc EXCEPT ![w] = "enforce"]
        /\ warns' = warns \ gone[w] /\ cases' = Append(cases, Step(prior[w] + 1))
        /\ UNCHANGED <<prior, given>>
    BY <1>6 DEF Punish, AfterCommit
  <2>2. prior[w] = Len(cases) /\ warns' = {} /\ Cost(Len(cases) + 1) <= given
    BY <2>1, <1>0 DEF UpToDate, Affordable
  <2>3. \A v \in Warners : ~InTransaction(v)'
    BY <2>1, <1>0 DEF OneAtATime, InTransaction
  <2>4. Affordable' /\ UpToDate'
    BY <2>3 DEF Affordable, UpToDate, InTransaction
  <2>5. Step(Len(cases) + 1) \in Steps
    BY <1>n DEF Step, Steps
  <2>6. /\ Len(cases') = Len(cases) + 1 /\ cases'[Len(cases) + 1] = Step(Len(cases) + 1)
        /\ \A n \in 1 .. Len(cases) : cases'[n] = cases[n]
        /\ DOMAIN cases = 1 .. Len(cases) /\ DOMAIN cases' = 1 .. Len(cases) + 1
    BY <2>1, <2>2, <2>5
  <2>7. InStock'
    BY <2>1, <2>2, <2>6, <1>n, FS_EmptySet, SMTT(60) DEF InStock
  <2>8. LadderInOrder'
    BY <2>6, <1>n, <1>0, SMTT(60) DEF LadderInOrder
  <2> QED  BY <2>4, <2>7, <2>8
<1>7. ASSUME UNCHANGED <<cases, given, prior>>, warns' \subseteq warns,
             \A v \in Warners : \/ pc'[v] \in {"idle", "enforce"}
                                \/ pc'[v] = pc[v] /\ gone'[v] = gone[v]
      PROVE  Kept
  <2>1. Cardinality(warns') <= Cardinality(warns)
    BY <1>7, <1>n, FS_Subset
  <2>2. InStock'
    BY <1>7, <2>1, <1>n, <1>0 DEF InStock
  <2>3. Affordable'
    BY <1>7, <2>1, <1>n, <1>0, SMTT(60) DEF Affordable, InTransaction
  <2>4. UpToDate'
    BY <1>7, <1>0 DEF UpToDate, InTransaction
  <2> QED  BY <1>7, <2>2, <2>3, <2>4, <1>0 DEF LadderInOrder
<1>8. ASSUME NEW w \in Warners, Enforce(w) PROVE Kept
  BY <1>8, <1>7 DEF Enforce, InTransaction
<1>9. ASSUME NEW i \in Ids, Expire(i) PROVE Kept
  BY <1>9, <1>7 DEF Expire
<1>10. CASE Clear
  <2>1. warns' = {} /\ UNCHANGED <<cases, given, prior, pc, gone>>
    BY <1>10 DEF Clear
  <2> HIDE DEF Kept
  <2>9. Kept  BY <2>1, <1>7
  <2> QED  BY <2>9, <1>0 DEF Kept
<1>11. CASE Crash
  <2>1. /\ UNCHANGED <<cases, given, prior, warns>>
        /\ \A v \in Warners : pc'[v] = "idle"
    BY <1>11 DEF Crash
  <2>2. InStock' /\ Affordable' /\ UpToDate' /\ LadderInOrder'
    BY <2>1, <1>0 DEF InStock, Affordable, UpToDate, LadderInOrder
  <2> QED  BY <2>2, <1>0
<1>12. CASE UNCHANGED mcVars
  <2>1. UNCHANGED <<cases, given, prior, pc, gone, warns>>
    BY <1>12 DEF mcVars, vars
  <2> HIDE DEF Kept
  <2>9. Kept  BY <2>1, <1>7
  <2> QED  BY <2>9, <1>0 DEF Kept
<1> QED
  BY <1>0, <1>1, <1>2, <1>3, <1>4, <1>5, <1>6, <1>8, <1>9, <1>10, <1>11, <1>12
  DEF MCNext, Next, Execute

(* The ladder is climbed step by step and every punishment is paid for     *)
(* with Threshold warns of its own, while no two transactions overlap.     *)
THEOREM LadderClimbed == MCInit /\ [][MCNext]_mcVars => []LadderAlone
<1>1. MCInit => LadderInv
  <2> SUFFICES ASSUME MCInit PROVE OneAtATime /\ InStock /\ Affordable /\ UpToDate /\ LadderInOrder
    BY DEF LadderInv
  <2> USE DEF MCInit, Init, InTransaction
  <2>1. InStock
    <3>1. Len(cases) = 0 /\ Cardinality(warns) = 0 /\ given = 0
      BY FS_EmptySet
    <3> QED  BY <3>1, WarnsAssumption DEF InStock, Cost
  <2> QED  BY <2>1 DEF OneAtATime, Affordable, UpToDate, LadderInOrder
<1>2. MCInit /\ [][MCNext]_mcVars => Spec
  <2>1. [MCNext]_mcVars => [Next]_vars
    BY DEF MCNext, mcVars
  <2>2. MCInit => Init
    BY DEF MCInit
  <2> QED  BY <2>1, <2>2, PTL DEF Spec
<1>3. TypeOK /\ LadderInv => LadderAlone
  <2> SUFFICES ASSUME TypeOK, InStock PROVE EachPaidFor
    BY DEF LadderInv, LadderAlone
  <2>1. Len(cases) \in Nat /\ Cardinality(warns) \in Nat /\ Cost(Len(cases)) \in Nat
        /\ given \in Nat
    <3>1. Len(cases) \in Nat
      BY DEF TypeOK
    <3> QED  BY <3>1, OneMoreCosts, StockFinite
  <2>2. Cost(Len(cases)) <= given
    BY <2>1 DEF InStock
  <2> QED  BY <2>2 DEF EachPaidFor, Cost
<1> QED  BY <1>1, <1>2, <1>3, LadderStep, TypeCorrect, PTL

-----------------------------------------------------------------------------
(* Finds: who has won, and who has tried.                                  *)
LEMMA SameCardinality == \A S : Night!Cardinality(S) = Cardinality(S)
  BY DEF Night!Cardinality, Cardinality

LEMMA AtMostOne ==
    ASSUME NEW S, \A a, b \in S : a = b
    PROVE  Night!Cardinality(S) <= 1
<1>1. CASE S = {}
  BY <1>1, FS_EmptySet, SameCardinality
<1>2. ASSUME NEW x \in S PROVE Night!Cardinality(S) <= 1
  <2>1. S = {x}
    BY <1>2
  <2>2. Cardinality({x}) = 1
    BY FS_Singleton
  <2> QED  BY <2>1, <2>2, SameCardinality
<1> QED  BY <1>1, <1>2

Items == [id : Nat, from : Things \cup {0}, member : Members, gifted : BOOLEAN]
Tries == [id : Nat, kind : {"claim", "walk"}, member : Members, on : Things \cup {0}, won : BOOLEAN]
Jobs == [kind : {"none", "claim", "gift", "walk"}, member : Members \cup {Nobody},
         on : Things \cup Nat \cup {Nobody}, id : Nat]

(* A visit that is going on has a member; a claim is of a find, a walk of  *)
(* none.                                                                   *)
FindTypes ==
    /\ items \subseteq Items /\ tries \subseteq Tries /\ visits \in Nat
    /\ visit \in [Visits -> {"idle", "lock", "roll", "won", "close"}]
    /\ job \in [Visits -> Jobs]
    /\ owner \in [Things -> Members \cup {Nobody}]
    /\ held \in [Things -> Visits \cup {Nobody}]
    /\ DOMAIN lock = Members
Occupied ==
    \A v \in Visits :
        /\ visit[v] = "idle" => job[v].member = Nobody
        /\ visit[v] # "idle" => job[v].member \in Members
        /\ visit[v] # "idle" /\ job[v].kind = "claim" => job[v].on \in Things
        /\ visit[v] # "idle" /\ job[v].kind = "walk" => job[v].on = 0

(* Who has got the row of a find holds its lock until they have committed, *)
(* and the find is nobody's until then.                                    *)
Winning ==
    \A v \in Visits :
        visit[v] = "won" => /\ job[v].kind = "claim" /\ held[job[v].on] = v
                            /\ owner[job[v].on] = Nobody

(* The item and the successful attempt are the owner's, and there is one   *)
(* of each.                                                                *)
Rewarded ==
    \A f \in Things :
        /\ \A i \in items : i.from = f => i.member = owner[f] /\ owner[f] # Nobody
        /\ \A t \in tries : t.on = f /\ t.won => t.member = owner[f] /\ owner[f] # Nobody
        /\ owner[f] # Nobody => /\ \E i \in items : i.from = f
                                /\ \E t \in tries : t.on = f /\ t.won
        /\ \A i, j \in items : i.from = f /\ j.from = f => i = j

(* A member outside crossed has one visit at most, and one that claims has *)
(* not tried the find before.                                              *)
Single ==
    \A v, w \in Visits :
        job[v].member \in Members \ crossed /\ job[v].member = job[w].member => v = w
Untried ==
    \A v \in Visits : \A t \in tries :
        visit[v] \in {"lock", "roll", "won"} /\ job[v].kind = "claim"
        /\ job[v].member \notin crossed /\ t.member = job[v].member => t.on # job[v].on
TriedOnce ==
    \A t, u \in tries :
        t.member = u.member /\ t.member \notin crossed /\ t.on = u.on /\ t.on \in Things => t = u

FindInv == FindTypes /\ Occupied /\ Winning /\ Rewarded /\ Single /\ Untried /\ TriedOnce

(* A visit that ends changes nothing for the others.                       *)
LEMMA LeavingIsQuiet ==
    ASSUME FindTypes, Occupied, NEW v \in Visits, Night!Leave(v)
    PROVE  /\ visit' = [visit EXCEPT ![v] = "idle"] /\ job' \in [Visits -> Jobs]
           /\ job'[v].member = Nobody
           /\ \A w \in Visits : w # v => job'[w] = job[w]
           /\ held' \in [Things -> Visits \cup {Nobody}] /\ DOMAIN lock' = Members
           /\ \A w \in Visits, f \in Things : w # v /\ held[f] = w => held'[f] = w
           /\ Occupied'
<1> USE DEF FindTypes, Night!Leave, Night!Goto
<1>1. Night!NoJob \in Jobs /\ Night!NoJob.member = Nobody
  BY DEF Night!NoJob, Jobs
<1>2. /\ visit' = [visit EXCEPT ![v] = "idle"] /\ job' = [job EXCEPT ![v] = Night!NoJob]
      /\ held' = [f \in Things |-> IF held[f] = v THEN Nobody ELSE held[f]]
      /\ lock' = [m \in Members |-> IF lock[m] = v THEN Nobody ELSE lock[m]]
  OBVIOUS
<1>3. /\ job' \in [Visits -> Jobs] /\ job'[v].member = Nobody
      /\ \A w \in Visits : w # v => job'[w] = job[w]
  BY <1>1, <1>2
<1>4. held' \in [Things -> Visits \cup {Nobody}] /\ DOMAIN lock' = Members
  BY <1>2
<1>5. \A w \in Visits, f \in Things : w # v /\ held[f] = w => held'[f] = w
  BY <1>2
<1>6. Occupied'
  BY <1>2, <1>3 DEF Occupied
<1> QED  BY <1>2, <1>3, <1>4, <1>5, <1>6

(* What a visit that ends without a row has in common.                     *)
LEMMA LeavingKeeps ==
    ASSUME FindInv, NEW v \in Visits, Night!Leave(v),
           UNCHANGED <<owner, items, tries, crossed, visits>>
    PROVE  FindInv'
<1> USE DEF FindInv
<1>1. FindTypes' /\ Occupied'
  BY LeavingIsQuiet DEF FindTypes
<1>2. Winning' /\ Single' /\ Untried'
  <2>1. \A w \in Visits : w # v => job'[w] = job[w] /\ visit'[w] = visit[w]
    BY LeavingIsQuiet DEF FindTypes
  <2>2. visit'[v] = "idle" /\ job'[v].member = Nobody /\ Nobody \notin Members
    BY LeavingIsQuiet, MembersAssumption DEF FindTypes
  <2>3. Winning'
    <3> SUFFICES ASSUME NEW w \in Visits, visit'[w] = "won"
                 PROVE  /\ job'[w].kind = "claim" /\ held'[job'[w].on] = w
                        /\ owner'[job'[w].on] = Nobody
      BY DEF Winning
    <3>1. w # v /\ job'[w] = job[w] /\ visit[w] = "won"
      BY <2>1, <2>2
    <3>2. job[w].kind = "claim" /\ held[job[w].on] = w /\ owner[job[w].on] = Nobody
          /\ job[w].on \in Things
      BY <3>1 DEF Winning, Occupied
    <3> QED  BY <3>1, <3>2, LeavingIsQuiet
  <2>4. Single'
    BY <2>1, <2>2 DEF Single
  <2>5. Untried'
    BY <2>1, <2>2 DEF Untried
  <2> QED  BY <2>3, <2>4, <2>5
<1>3. Rewarded' /\ TriedOnce'
  BY DEF Rewarded, TriedOnce
<1> QED  BY <1>1, <1>2, <1>3

(* An attempt of a visit that ends with it.                                *)
LEMMA TryingKeeps ==
    ASSUME FindInv, NEW v \in Visits, Night!Leave(v), NEW won \in BOOLEAN,
           visit[v] = "roll", job[v].kind \in {"claim", "walk"},
           job[v].kind = "claim" => won = FALSE,
           tries' = tries \cup {[id |-> job[v].id, kind |-> job[v].kind,
                                 member |-> job[v].member, on |-> job[v].on, won |-> won]},
           \/ UNCHANGED items
           \/ /\ job[v].kind = "walk"
              /\ items' = items \cup {[id |-> job[v].id, from |-> job[v].on,
                                       member |-> job[v].member, gifted |-> FALSE]},
           UNCHANGED <<owner, crossed, visits>>
    PROVE  FindInv'
<1> DEFINE t0 == [id |-> job[v].id, kind |-> job[v].kind, member |-> job[v].member,
                  on |-> job[v].on, won |-> won]
           i0 == [id |-> job[v].id, from |-> job[v].on, member |-> job[v].member,
                  gifted |-> FALSE]
<1>1. /\ job[v] \in Jobs /\ job[v].member \in Members /\ Nobody \notin Members
      /\ job[v].kind = "claim" => job[v].on \in Things
      /\ job[v].kind = "walk" => job[v].on = 0
      /\ 0 \notin Things
  BY MembersAssumption DEF FindInv, FindTypes, Occupied
<1>2. t0 \in Tries /\ t0.member = job[v].member /\ t0.on = job[v].on /\ t0.won = won
      /\ tries' = tries \cup {t0}
  BY <1>1 DEF Jobs, Tries
<1>3. /\ i0 \in Items \/ job[v].kind # "walk"
      /\ i0.from = job[v].on
      /\ \/ items' = items
         \/ job[v].kind = "walk" /\ items' = items \cup {i0}
  BY <1>1 DEF Jobs, Items
<1> HIDE DEF t0, i0
<1>4. FindTypes' /\ Occupied'
  BY <1>2, <1>3, LeavingIsQuiet DEF FindTypes, FindInv
<1>5. \A w \in Visits : w # v => job'[w] = job[w] /\ visit'[w] = visit[w]
  BY LeavingIsQuiet DEF FindTypes, FindInv
<1>6. visit'[v] = "idle" /\ job'[v].member = Nobody
  BY LeavingIsQuiet DEF FindTypes, FindInv
<1>7. Winning'
  <2> SUFFICES ASSUME NEW w \in Visits, visit'[w] = "won"
               PROVE  /\ job'[w].kind = "claim" /\ held'[job'[w].on] = w
                      /\ owner'[job'[w].on] = Nobody
    BY DEF Winning
  <2>1. w # v /\ job'[w] = job[w] /\ visit[w] = "won"
    BY <1>5, <1>6
  <2>2. job[w].kind = "claim" /\ held[job[w].on] = w /\ owner[job[w].on] = Nobody
        /\ job[w].on \in Things
    BY <2>1 DEF FindInv, Winning, Occupied
  <2> QED  BY <2>1, <2>2, LeavingIsQuiet DEF FindInv
<1>8. Single'
  BY <1>1, <1>5, <1>6 DEF FindInv, Single
<1>9. Untried'
  <2> SUFFICES ASSUME NEW w \in Visits, NEW t \in tries', visit'[w] \in {"lock", "roll", "won"},
                      job'[w].kind = "claim", job'[w].member \notin crossed',
                      t.member = job'[w].member
               PROVE  t.on # job'[w].on
    BY DEF Untried
  <2>1. w # v /\ job'[w] = job[w] /\ visit[w] = visit'[w]
    BY <1>5, <1>6
  <2>2. CASE t \in tries
    BY <2>1, <2>2 DEF FindInv, Untried
  <2>3. CASE t = t0
    BY <2>1, <2>3, <1>1, <1>2 DEF FindInv, Single
  <2> QED  BY <2>2, <2>3, <1>2
<1>10. TriedOnce'
  <2>1. \A t \in tries : t.member = t0.member /\ t.member \notin crossed /\ t0.on \in Things
                         => t.on # t0.on
    BY <1>1, <1>2 DEF FindInv, Untried
  <2> QED  BY <2>1, <1>2 DEF FindInv, TriedOnce
<1>11. Rewarded'
  <2> SUFFICES ASSUME NEW f \in Things
               PROVE  /\ \A i \in items' : i.from = f => i.member = owner[f] /\ owner[f] # Nobody
                      /\ \A t \in tries' : t.on = f /\ t.won => t.member = owner[f] /\ owner[f] # Nobody
                      /\ owner[f] # Nobody => /\ \E i \in items' : i.from = f
                                              /\ \E t \in tries' : t.on = f /\ t.won
                      /\ \A i, j \in items' : i.from = f /\ j.from = f => i = j
    BY DEF Rewarded
  <2>1. ~(t0.on = f /\ t0.won)
    BY <1>1, <1>2
  <2>2. i0.from # f \/ items' = items
    BY <1>1, <1>3
  <2>3. \A i \in items' : i.from = f => i \in items
    BY <1>3, <2>2
  <2>4. items \subseteq items' /\ tries \subseteq tries'
    BY <1>2, <1>3
  <2>5. \A t \in tries' : t.on = f /\ t.won => t \in tries
    BY <1>2, <2>1
  <2> QED  BY <2>3, <2>4, <2>5 DEF FindInv, Rewarded
<1> QED  BY <1>4, <1>7, <1>8, <1>9, <1>10, <1>11 DEF FindInv

(* The item that is won, and the attempt, are the first of their find.     *)
LEMMA WinningKeeps ==
    ASSUME FindInv, NEW v \in Visits, Night!Wins(v)
    PROVE  FindInv'
<1> DEFINE t0 == [id |-> job[v].id, kind |-> job[v].kind, member |-> job[v].member,
                  on |-> job[v].on, won |-> TRUE]
           i0 == [id |-> job[v].id, from |-> job[v].on, member |-> job[v].member,
                  gifted |-> FALSE]
           m == job[v].member
           f0 == job[v].on
<1>1. /\ visit[v] = "won" /\ visit' = [visit EXCEPT ![v] = "close"]
      /\ owner' = [owner EXCEPT ![f0] = m]
      /\ tries' = tries \cup {t0} /\ items' = items \cup {i0}
      /\ held' = [held EXCEPT ![f0] = Nobody] /\ lock' = [lock EXCEPT ![m] = Nobody]
      /\ UNCHANGED <<job, crossed, visits>>
  BY DEF Night!Wins, Night!Try, Night!Obtain, Night!Goto, Night!history
<1>2. /\ job[v] \in Jobs /\ m \in Members /\ Nobody \notin Members
      /\ job[v].kind = "claim" /\ f0 \in Things
      /\ owner[f0] = Nobody /\ held[f0] = v
  BY <1>1, MembersAssumption DEF FindInv, FindTypes, Occupied, Winning
<1>3. t0 \in Tries /\ t0.member = m /\ t0.on = f0 /\ t0.won
  BY <1>2 DEF Jobs, Tries
<1>4. i0 \in Items /\ i0.from = f0 /\ i0.member = m
  BY <1>2 DEF Jobs, Items
<1> HIDE DEF t0, i0, m, f0
<1>5. FindTypes'
  BY <1>1, <1>2, <1>3, <1>4 DEF FindTypes, FindInv
<1>6. \A w \in Visits : /\ w # v => visit'[w] = visit[w]
                        /\ visit[w] # "idle" <=> visit'[w] # "idle"
  BY <1>1 DEF FindTypes, FindInv
<1>v. visit'[v] = "close"
  BY <1>1 DEF FindTypes, FindInv
<1>7. Occupied'
  <2>1. \A w \in Visits : (visit[w] = "idle") = (visit'[w] = "idle")
    BY <1>1 DEF FindTypes, FindInv
  <2> QED  BY <2>1, <1>1 DEF Occupied, FindInv
<1>8. Winning'
  <2> SUFFICES ASSUME NEW w \in Visits, visit'[w] = "won"
               PROVE  /\ job[w].kind = "claim" /\ held'[job[w].on] = w
                      /\ owner'[job[w].on] = Nobody
    BY <1>1 DEF Winning
  <2>1. w # v /\ visit[w] = "won"
    BY <1>6, <1>v
  <2>2. job[w].kind = "claim" /\ held[job[w].on] = w /\ owner[job[w].on] = Nobody
        /\ job[w].on \in Things
    BY <2>1 DEF FindInv, Winning, Occupied
  <2>3. job[w].on # f0
    BY <2>1, <2>2, <1>2
  <2> QED  BY <2>2, <2>3, <1>1 DEF FindTypes, FindInv
<1>9. Single'
  BY <1>1 DEF FindInv, Single
<1>10. Untried'
  <2> SUFFICES ASSUME NEW w \in Visits, NEW t \in tries', visit'[w] \in {"lock", "roll", "won"},
                      job[w].kind = "claim", job[w].member \notin crossed,
                      t.member = job[w].member
               PROVE  t.on # job[w].on
    BY <1>1 DEF Untried
  <2>1. w # v /\ visit[w] = visit'[w]
    BY <1>6, <1>v
  <2>2. CASE t \in tries
    BY <2>1, <2>2 DEF FindInv, Untried
  <2>3. t # t0
    BY <2>1, <1>2, <1>3 DEF FindInv, Single, m
  <2> QED  BY <2>2, <2>3, <1>1
<1>11. TriedOnce'
  <2>1. \A t \in tries : t.member = t0.member /\ t.member \notin crossed => t.on # t0.on
    BY <1>1, <1>2, <1>3 DEF FindInv, Untried, m, f0
  <2> QED  BY <2>1, <1>1 DEF FindInv, TriedOnce
<1>12. Rewarded'
  <2> SUFFICES ASSUME NEW f \in Things
               PROVE  /\ \A i \in items' : i.from = f => i.member = owner'[f] /\ owner'[f] # Nobody
                      /\ \A t \in tries' : t.on = f /\ t.won => t.member = owner'[f] /\ owner'[f] # Nobody
                      /\ owner'[f] # Nobody => /\ \E i \in items' : i.from = f
                                               /\ \E t \in tries' : t.on = f /\ t.won
                      /\ \A i, j \in items' : i.from = f /\ j.from = f => i = j
    BY DEF Rewarded
  <2>1. CASE f = f0
    <3>1. owner'[f] = m /\ m # Nobody
      BY <2>1, <1>1, <1>2 DEF FindTypes, FindInv
    <3>2. \A i \in items' : i.from = f => i = i0
      BY <2>1, <1>1, <1>2 DEF Rewarded, FindInv
    <3>3. \A t \in tries' : t.on = f /\ t.won => t = t0
      BY <2>1, <1>1, <1>2 DEF Rewarded, FindInv
    <3>4. i0 \in items' /\ t0 \in tries'
      BY <1>1
    <3> QED  BY <2>1, <3>1, <3>2, <3>3, <3>4, <1>3, <1>4
  <2>2. CASE f # f0
    <3>1. owner'[f] = owner[f]
      BY <2>2, <1>1 DEF FindTypes, FindInv
    <3>2. \A i \in items' : i.from = f => i \in items
      BY <2>2, <1>1, <1>4
    <3>3. \A t \in tries' : t.on = f => t \in tries
      BY <2>2, <1>1, <1>3
    <3>4. items \subseteq items' /\ tries \subseteq tries'
      BY <1>1
    <3> QED  BY <3>1, <3>2, <3>3, <3>4 DEF Rewarded, FindInv
  <2> QED  BY <2>1, <2>2
<1> QED  BY <1>5, <1>7, <1>8, <1>9, <1>10, <1>11, <1>12 DEF FindInv

(* A gift changes the item it gives away, and no other.                    *)
LEMMA GivingKeeps ==
    ASSUME FindInv, NEW v \in Visits, Night!Gives(v)
    PROVE  FindInv'
<1> DEFINE Given(i) == IF i.id = job[v].on THEN [i EXCEPT !.gifted = TRUE] ELSE i
<1>1. /\ items' = {Given(i) : i \in items} /\ Night!Leave(v)
      /\ UNCHANGED <<owner, tries, crossed, visits>>
  BY DEF Night!Gives, Night!history
<1>2. \A i \in items : /\ Given(i) \in Items /\ Given(i).from = i.from
                       /\ Given(i).member = i.member
  <2> SUFFICES ASSUME NEW i \in items
               PROVE  /\ Given(i) \in Items /\ Given(i).from = i.from
                      /\ Given(i).member = i.member
    OBVIOUS
  <2>1. i \in Items
    BY DEF FindInv, FindTypes
  <2> QED  BY <2>1 DEF Items
<1> HIDE DEF Given
<1>3. FindTypes' /\ Occupied'
  BY <1>1, <1>2, LeavingIsQuiet DEF FindTypes, FindInv
<1>4. Rewarded'
  <2> SUFFICES ASSUME NEW f \in Things
               PROVE  /\ \A i \in items' : i.from = f => i.member = owner[f] /\ owner[f] # Nobody
                      /\ \A t \in tries : t.on = f /\ t.won => t.member = owner[f] /\ owner[f] # Nobody
                      /\ owner[f] # Nobody => /\ \E i \in items' : i.from = f
                                              /\ \E t \in tries : t.on = f /\ t.won
                      /\ \A i, j \in items' : i.from = f /\ j.from = f => i = j
    BY <1>1 DEF Rewarded
  <2>1. \A i \in items' : i.from = f => i.member = owner[f] /\ owner[f] # Nobody
    BY <1>1, <1>2 DEF Rewarded, FindInv
  <2>2. owner[f] # Nobody => \E i \in items' : i.from = f
    BY <1>1, <1>2 DEF Rewarded, FindInv
  <2>3. \A i, j \in items' : i.from = f /\ j.from = f => i = j
    <3> SUFFICES ASSUME NEW i \in items, NEW j \in items, Given(i).from = f, Given(j).from = f
                 PROVE  Given(i) = Given(j)
      BY <1>1
    <3>1. i = j
      BY <1>2 DEF Rewarded, FindInv
    <3> QED  BY <3>1
  <2> QED  BY <2>1, <2>2, <2>3 DEF Rewarded, FindInv
<1>5. \A w \in Visits : w # v => job'[w] = job[w] /\ visit'[w] = visit[w]
  BY <1>1, LeavingIsQuiet DEF FindTypes, FindInv
<1>6. visit'[v] = "idle" /\ job'[v].member = Nobody /\ Nobody \notin Members
  BY <1>1, LeavingIsQuiet, MembersAssumption DEF FindTypes, FindInv
<1>7. Winning'
  <2> SUFFICES ASSUME NEW w \in Visits, visit'[w] = "won"
               PROVE  /\ job'[w].kind = "claim" /\ held'[job'[w].on] = w
                      /\ owner[job'[w].on] = Nobody
    BY <1>1 DEF Winning
  <2>1. w # v /\ job'[w] = job[w] /\ visit[w] = "won"
    BY <1>5, <1>6
  <2>2. job[w].kind = "claim" /\ held[job[w].on] = w /\ owner[job[w].on] = Nobody
        /\ job[w].on \in Things
    BY <2>1 DEF FindInv, Winning, Occupied
  <2> QED  BY <1>1, <2>1, <2>2, LeavingIsQuiet DEF FindInv
<1>8. Single' /\ Untried' /\ TriedOnce'
  <2>1. Single'
    BY <1>1, <1>5, <1>6 DEF FindInv, Single
  <2>2. Untried'
    BY <1>1, <1>5, <1>6 DEF FindInv, Untried
  <2>3. TriedOnce'
    BY <1>1 DEF FindInv, TriedOnce
  <2> QED  BY <2>1, <2>2, <2>3
<1> QED  BY <1>3, <1>4, <1>7, <1>8 DEF FindInv

(* A new visit: the reads let it through, and its member has no other      *)
(* unless it joins crossed.                                                *)
LEMMA AskingKeeps ==
    ASSUME FindInv, NEW v \in Visits, NEW m \in Members, NEW kind \in {"claim", "gift", "walk"},
           NEW x \in Things \cup Nat, Night!Ask(v, kind, m, x)
    PROVE  FindInv'
<1> DEFINE j0 == [kind |-> kind, member |-> m, on |-> x, id |-> visits + 1]
<1>1. /\ visit[v] = "idle" /\ visit' = [visit EXCEPT ![v] = "lock"]
      /\ job' = [job EXCEPT ![v] = j0] /\ visits' = visits + 1
      /\ crossed' = IF Night!Busy(m) = {} THEN crossed ELSE crossed \cup {m}
      /\ UNCHANGED <<owner, held, items, tries, lock>>
      /\ kind = "claim" => x \in Things /\ ~Night!Attempted(m, x)
      /\ kind = "walk" => x = 0
  BY DEF Night!Ask, Night!Lets, Night!rows, Night!locks
<1>2. j0 \in Jobs /\ j0.kind = kind /\ j0.member = m /\ j0.on = x
  BY DEF Jobs, FindInv, FindTypes
<1> HIDE DEF j0
<1>3. /\ visit'[v] = "lock" /\ job'[v] = j0
      /\ \A w \in Visits : w # v => job'[w] = job[w] /\ visit'[w] = visit[w]
  BY <1>1 DEF FindInv, FindTypes
<1>4. FindTypes'
  BY <1>1, <1>2 DEF FindInv, FindTypes
<1>5. Occupied'
  BY <1>1, <1>2, <1>3 DEF FindInv, Occupied
<1>6. Winning'
  BY <1>1, <1>3 DEF FindInv, Winning
<1>7. Rewarded'
  BY <1>1 DEF FindInv, Rewarded
<1>8. /\ crossed \subseteq crossed'
      /\ \A w \in Visits : job[w].member = m => m \in crossed'
  BY <1>1 DEF Night!Busy
<1>9. Single'
  BY <1>2, <1>3, <1>8 DEF FindInv, Single
<1>10. Untried'
  BY <1>1, <1>2, <1>3, <1>8 DEF FindInv, Untried, Night!Attempted
<1>11. TriedOnce'
  BY <1>1, <1>8 DEF FindInv, TriedOnce
<1> QED  BY <1>4, <1>5, <1>6, <1>7, <1>9, <1>10, <1>11 DEF FindInv

(* A lock that is taken moves one visit on.                                *)
LEMMA MovingKeeps ==
    ASSUME FindInv, NEW v \in Visits, UNCHANGED <<owner, items, tries, crossed, visits, job>>,
           \/ /\ visit[v] = "lock" /\ visit' = [visit EXCEPT ![v] = "roll"]
              /\ held' = held /\ \E m : lock' = [lock EXCEPT ![m] = v]
           \/ /\ visit[v] = "roll" /\ visit' = [visit EXCEPT ![v] = "won"] /\ lock' = lock
              /\ held[job[v].on] = Nobody /\ held' = [held EXCEPT ![job[v].on] = v]
              /\ job[v].kind = "claim" /\ owner[job[v].on] = Nobody
    PROVE  FindInv'
<1>1. FindTypes' /\ Occupied'
  <2>1. FindTypes'
    BY DEF FindInv, FindTypes
  <2>2. \A w \in Visits : (visit[w] = "idle") = (visit'[w] = "idle")
    BY DEF FindInv, FindTypes
  <2> QED  BY <2>1, <2>2 DEF FindInv, Occupied
<1>2. \A w \in Visits : visit'[w] \in {"lock", "roll", "won"} =>
                          visit[w] \in {"lock", "roll", "won"}
  BY DEF FindInv, FindTypes
<1>3. Winning'
  <2> SUFFICES ASSUME NEW w \in Visits, visit'[w] = "won"
               PROVE  /\ job[w].kind = "claim" /\ held'[job[w].on] = w
                      /\ owner[job[w].on] = Nobody
    BY DEF Winning
  <2>1. CASE visit[w] = "won"
    <3>1. job[w].kind = "claim" /\ held[job[w].on] = w /\ owner[job[w].on] = Nobody
          /\ job[w].on \in Things
      BY <2>1 DEF FindInv, Winning, Occupied
    <3>2. held[job[w].on] # Nobody
      BY <3>1, MembersAssumption
    <3> QED  BY <3>1, <3>2 DEF FindInv, FindTypes
  <2>2. CASE visit[w] # "won"
    <3>1. w = v /\ visit[v] = "roll" /\ job[v].kind = "claim" /\ owner[job[v].on] = Nobody
          /\ held' = [held EXCEPT ![job[v].on] = v]
      BY <2>2 DEF FindInv, FindTypes
    <3>2. job[v].on \in Things
      BY <3>1 DEF FindInv, Occupied
    <3> QED  BY <3>1, <3>2 DEF FindInv, FindTypes
  <2> QED  BY <2>1, <2>2
<1>4. Single' /\ TriedOnce' /\ Rewarded'
  BY DEF FindInv, Single, TriedOnce, Rewarded
<1>5. Untried'
  BY <1>2 DEF FindInv, Untried
<1> QED  BY <1>1, <1>3, <1>4, <1>5 DEF FindInv

(* Steps that no visit takes.                                              *)
LEMMA OthersKeep ==
    ASSUME FindInv, UNCHANGED <<visit, job, lock, held, owner, items, tries, crossed, visits>>
    PROVE  FindInv'
<1>1. FindTypes' /\ Occupied' /\ Winning'
  BY DEF FindInv, FindTypes, Occupied, Winning
<1>2. Rewarded' /\ Single'
  BY DEF FindInv, Rewarded, Single
<1>3. Untried' /\ TriedOnce'
  BY DEF FindInv, Untried, TriedOnce
<1> QED  BY <1>1, <1>2, <1>3 DEF FindInv

LEMMA CrashKeeps == FindInv /\ Night!Crash => FindInv'
<1> SUFFICES ASSUME FindInv, Night!Crash PROVE FindInv'
  OBVIOUS
<1>1. /\ visit' = [v \in Visits |-> "idle"] /\ job' = [v \in Visits |-> Night!NoJob]
      /\ lock' = [m \in Members |-> Nobody] /\ held' = [f \in Things |-> Nobody]
      /\ UNCHANGED <<owner, items, tries, crossed, visits>>
  BY DEF Night!Crash, Night!rows, Night!history
<1>2. Night!NoJob \in Jobs /\ Night!NoJob.member = Nobody /\ Nobody \notin Members
  BY MembersAssumption DEF Night!NoJob, Jobs
<1>3. FindTypes'
  BY <1>1, <1>2 DEF FindInv, FindTypes
<1>4. Occupied' /\ Winning'
  BY <1>1, <1>2 DEF Occupied, Winning
<1>5. Single' /\ Untried'
  BY <1>1, <1>2 DEF Single, Untried
<1>6. Rewarded' /\ TriedOnce'
  BY <1>1 DEF FindInv, Rewarded, TriedOnce
<1> QED  BY <1>3, <1>4, <1>5, <1>6 DEF FindInv

LEMMA VisitKeeps == FindInv /\ (\E v \in Visits : Night!Visit(v)) => FindInv'
<1> SUFFICES ASSUME FindInv, NEW v \in Visits, Night!Visit(v) PROVE FindInv'
  OBVIOUS
<1>1. CASE Night!Lock(v)
  <2>1. CASE Night!Leave(v)
    BY <1>1, <2>1, LeavingKeeps DEF Night!Lock, Night!rows, Night!history
  <2>2. CASE ~Night!Leave(v)
    <3>1. /\ visit[v] = "lock" /\ visit' = [visit EXCEPT ![v] = "roll"] /\ held' = held
          /\ lock' = [lock EXCEPT ![job[v].member] = v]
          /\ UNCHANGED <<owner, items, tries, crossed, visits, job>>
      BY <1>1, <2>2 DEF Night!Lock, Night!Goto, Night!rows, Night!history
    <3> QED  BY <3>1, MovingKeeps
  <2> QED  BY <2>1, <2>2
<1>2. CASE Night!Misses(v)
  BY <1>2, TryingKeeps DEF Night!Misses, Night!Try, Night!history
<1>3. CASE Night!Takes(v)
  <2>1. CASE Night!Leave(v)
    BY <1>3, <2>1, LeavingKeeps DEF Night!Takes, Night!rows, Night!history
  <2>2. CASE ~Night!Leave(v)
    <3>1. /\ visit[v] = "roll" /\ visit' = [visit EXCEPT ![v] = "won"] /\ lock' = lock
          /\ held[job[v].on] = Nobody /\ held' = [held EXCEPT ![job[v].on] = v]
          /\ job[v].kind = "claim" /\ owner[job[v].on] = Nobody
          /\ UNCHANGED <<owner, items, tries, crossed, visits, job>>
      BY <1>3, <2>2 DEF Night!Takes, Night!Goto, Night!Unowned, Night!rows, Night!history
    <3> QED  BY <3>1, MovingKeeps
  <2> QED  BY <2>1, <2>2
<1>4. CASE Night!Wins(v)
  BY <1>4, WinningKeeps
<1>5. CASE Night!Gives(v)
  BY <1>5, GivingKeeps
<1>6. CASE Night!Refused(v)
  BY <1>6, LeavingKeeps DEF Night!Refused, Night!rows, Night!history
<1>7. CASE Night!CloseTaken(v)
  BY <1>7, LeavingKeeps DEF Night!CloseTaken, Night!rows, Night!history
<1>8. ASSUME NEW won \in BOOLEAN, Night!Walks(v, won) PROVE FindInv'
  BY <1>8, TryingKeeps DEF Night!Walks, Night!Try, Night!Obtain, Night!history
<1> QED  BY <1>1, <1>2, <1>3, <1>4, <1>5, <1>6, <1>7, <1>8 DEF Night!Visit

(* A find goes to one member, who has its item and the one attempt that    *)
(* succeeded; and nobody tries a find twice unless two of their requests   *)
(* overlap: for any members, finds and visits, through crashes, refused    *)
(* calls and refused points.                                               *)
THEOREM FindsFair == Night!Spec => []FairPlay
<1>1. Night!Init => FindInv
  <2> SUFFICES ASSUME Night!Init PROVE FindInv
    OBVIOUS
  <2> USE MembersAssumption DEF Night!Init
  <2>1. Night!NoJob \in Jobs /\ Night!NoJob.member = Nobody
    BY DEF Night!NoJob, Jobs
  <2>2. FindTypes
    BY <2>1 DEF FindTypes
  <2>3. Occupied /\ Winning /\ Single /\ Untried
    BY <2>1 DEF Occupied, Winning, Single, Untried
  <2>4. Rewarded /\ TriedOnce
    BY DEF Rewarded, TriedOnce
  <2> QED  BY <2>2, <2>3, <2>4 DEF FindInv
<1>2. FindInv /\ [Night!Next]_(Night!vars) => FindInv'
  <2> SUFFICES ASSUME FindInv, [Night!Next]_(Night!vars) PROVE FindInv'
    OBVIOUS
  <2> USE DEF Night!rows, Night!locks, Night!history
  <2>1. CASE Night!Loop
    BY <2>1, OthersKeep DEF Night!Loop, Night!Spawn, Night!Announce, Night!AnnounceFails,
       Night!Register
  <2>2. ASSUME NEW f \in Things, Night!TimePasses(f) \/ Night!Expire(f) PROVE FindInv'
    BY <2>2, OthersKeep DEF Night!TimePasses, Night!Expire
  <2>3. ASSUME NEW v \in Visits, NEW m \in Members, NEW f \in Things,
               Night!Ask(v, "claim", m, f)
        PROVE  FindInv'
    BY <2>3, AskingKeeps
  <2>4. ASSUME NEW v \in Visits, NEW m \in Members, NEW i \in items,
               Night!Ask(v, "gift", m, i.id)
        PROVE  FindInv'
    <3>1. i.id \in Nat
      BY DEF FindInv, FindTypes, Items
    <3> QED  BY <2>4, <3>1, AskingKeeps
  <2>5. ASSUME NEW v \in Visits, NEW m \in Members, Night!Ask(v, "walk", m, 0) PROVE FindInv'
    BY <2>5, AskingKeeps
  <2>6. CASE \E v \in Visits : Night!Visit(v)
    BY <2>6, VisitKeeps
  <2>7. CASE Night!CooldownEnds
    BY <2>7, OthersKeep DEF Night!CooldownEnds
  <2>8. CASE Night!Crash
    BY <2>8, CrashKeeps
  <2>9. CASE Night!Restart
    BY <2>9, OthersKeep DEF Night!Restart
  <2>10. CASE UNCHANGED Night!vars
    BY <2>10, OthersKeep DEF Night!vars
  <2> QED
    BY <2>1, <2>2, <2>3, <2>4, <2>5, <2>6, <2>7, <2>8, <2>9, <2>10 DEF Night!Next
<1>3. FindInv => FairPlay
  <2> SUFFICES ASSUME FindInv PROVE Night!OneWinner /\ Night!OneTryAlone
    BY DEF FairPlay, Night!FairPlay
  <2>1. ASSUME NEW f \in Things
        PROVE  /\ {i.member : i \in {j \in items : j.from = f}} = {owner[f]} \ {Nobody}
               /\ Night!Cardinality({i \in items : i.from = f}) <= 1
               /\ {t.member : t \in {u \in tries : u.on = f /\ u.won}} = {owner[f]} \ {Nobody}
    <3>1. {i.member : i \in {j \in items : j.from = f}} = {owner[f]} \ {Nobody}
      BY DEF FindInv, Rewarded
    <3>2. {t.member : t \in {u \in tries : u.on = f /\ u.won}} = {owner[f]} \ {Nobody}
      BY DEF FindInv, Rewarded
    <3>3. \A a, b \in {i \in items : i.from = f} : a = b
      BY DEF FindInv, Rewarded
    <3>4. Night!Cardinality({i \in items : i.from = f}) <= 1
      BY <3>3, AtMostOne
    <3> QED  BY <3>1, <3>2, <3>4
  <2>2. ASSUME NEW m \in Members \ crossed, NEW f \in Things
        PROVE  Night!Cardinality({t \in tries : t.member = m /\ t.on = f}) <= 1
    <3>1. \A a, b \in {t \in tries : t.member = m /\ t.on = f} : a = b
      BY DEF FindInv, TriedOnce
    <3> QED  BY <3>1, AtMostOne
  <2> QED  BY <2>1, <2>2 DEF Night!OneWinner, Night!OneTryAlone
<1> QED  BY <1>1, <1>2, <1>3, PTL DEF Night!Spec
-----------------------------------------------------------------------------
(* Stay or leave (StayKick): a row, or a kick that has been taken, is the  *)
(* answer of the member's present stay, unless it is torn.                 *)
Answered == ~torn => ((kickRow # "none" \/ popped) => wish = "leave")

(* Nobody is kicked who did not choose to leave, unless the answer came    *)
(* while the loop was already at it or is of an earlier stay; however      *)
(* often members come and go, press and crash.                             *)
THEOREM NobodyElseKicked == Choice!Spec => Choice!OthersStay
<1>1. Choice!Init => Answered
  BY DEF Choice!Init, Answered
<1>2. Answered /\ [Choice!Next]_(Choice!kickVars) => Answered'
  <2> SUFFICES ASSUME Answered, [Choice!Next]_(Choice!kickVars) PROVE Answered'
    OBVIOUS
  <2>1. CASE Choice!Join
    <3>1. torn' = (kickRow # "none" \/ popped) /\ kickRow' = kickRow /\ popped' = popped
      BY <2>1 DEF Choice!Join, Choice!doing
    <3> QED  BY <3>1, Zenon DEF Answered
  <2>2. ASSUME NEW b \in {"stay", "leave"}, Choice!Press(b) PROVE Answered'
    <3>1. /\ torn' = popped /\ popped' = popped /\ wish' = b
          /\ kickRow' = IF b = "stay" THEN "none" ELSE "waiting"
      BY <2>2 DEF Choice!Press, Choice!doing
    <3>2. b # "stay" => wish' = "leave"
      BY <3>1
    <3> QED  BY <3>1, <3>2, Zenon DEF Answered
  <2>3. CASE Choice!RemindTime \/ Choice!KickTime \/ Choice!TakeReminder \/ Choice!Pop
    <3>1. /\ torn' = torn /\ wish' = wish /\ kickRow # "none"
          /\ popped' = popped \/ Choice!Pop
      BY <2>3 DEF Choice!RemindTime, Choice!KickTime, Choice!TakeReminder, Choice!Pop, Choice!doing
    <3> QED  BY <3>1, Zenon DEF Answered
  <2>4. CASE Choice!Kick \/ Choice!Crash
    <3>1. torn' = torn /\ wish' = wish /\ kickRow' = kickRow /\ ~popped'
      BY <2>4 DEF Choice!Kick, Choice!Crash, Choice!doing
    <3> QED  BY <3>1, Zenon DEF Answered
  <2>5. CASE \/ Choice!Depart \/ Choice!Hear \/ Choice!Toggle \/ Choice!Remind
             \/ Choice!Restart \/ UNCHANGED Choice!kickVars
    <3>1. torn' = torn /\ wish' = wish /\ kickRow' = kickRow /\ popped' = popped
      BY <2>5 DEF Choice!Depart, Choice!Hear, Choice!Toggle, Choice!Remind, Choice!Restart, Choice!kickVars, Choice!doing
    <3> QED  BY <3>1, Zenon DEF Answered
  <2> QED  BY <2>1, <2>2, <2>3, <2>4, <2>5 DEF Choice!Next
<1>3. Answered => [popped /\ ~popped' /\ inside /\ ~inside' /\ ~torn => wish = "leave"]_(Choice!kickVars)
  BY DEF Answered
<1> QED  BY <1>1, <1>2, <1>3, PTL DEF Choice!Spec, Choice!OthersStay

-----------------------------------------------------------------------------
(* Departures. A server the bot is on, and whose last move was handled or  *)
(* is about to be, has no mark unless the handler of its return is yet to  *)
(* clear it; and the sweep has it in hand only if it came back too late.   *)
Returning(g) == <<g, "joined">> \in handlers
Unforgotten ==
    \A g \in here :
        /\ g \notin unheard => (mark[g] # "none" => Returning(g)) /\ <<g, "left">> \notin handlers
        /\ g \in todo /\ (g \notin unheard \/ Returning(g)) => g \in caught
Possessions ==
    /\ here \subseteq Servers
    /\ mark = [g \in Servers |-> mark[g]]
    /\ data = [g \in Servers |-> data[g]]

(* A server the bot is on keeps its cases, unless its last move was not    *)
(* handled or it came back too late for the sweep; however often the bot   *)
(* leaves, returns, fails and dies.                                        *)
THEOREM MembersCasesKept == Privacy!Spec => Privacy!CasesKept
<1> DEFINE Inv == Unforgotten /\ Possessions
<1>1. Privacy!Init => Inv
  BY DEF Privacy!Init, Unforgotten, Possessions
<1>2. Possessions /\ [Privacy!Next]_(Privacy!departureVars) => Possessions'
  BY DEF Possessions, Privacy!Next, Privacy!departureVars, Privacy!Leave, Privacy!Return,
      Privacy!GraceEnds, Privacy!PurgeGuild, Privacy!ForgetUser, Privacy!Use, Privacy!Handle,
      Privacy!HandlerFails, Privacy!Sweep, Privacy!PurgeFails, Privacy!Crash, Privacy!Start,
      Privacy!Told
<1>3. Unforgotten /\ Possessions /\ [Privacy!Next]_(Privacy!departureVars) => Unforgotten'
  <2> SUFFICES ASSUME Unforgotten, Possessions, [Privacy!Next]_(Privacy!departureVars)
               PROVE  Unforgotten'
    OBVIOUS
  <2> USE DEF Unforgotten, Possessions, Returning
  <2>1. ASSUME NEW s \in Servers, Privacy!Leave(s) PROVE Unforgotten'
    BY <2>1 DEF Privacy!Leave, Privacy!Told, Privacy!Pending
  <2>2. ASSUME NEW s \in Servers, Privacy!Return(s) PROVE Unforgotten'
    BY <2>2 DEF Privacy!Return, Privacy!Told, Privacy!Pending
  <2>3. ASSUME NEW s \in Servers, Privacy!GraceEnds(s) PROVE Unforgotten'
    BY <2>3 DEF Privacy!GraceEnds
  <2>4. ASSUME NEW s \in Servers, Privacy!PurgeGuild(s) PROVE Unforgotten'
    BY <2>4 DEF Privacy!PurgeGuild
  <2>5. ASSUME NEW s \in Servers, Privacy!ForgetUser(s) \/ Privacy!Use(s) PROVE Unforgotten'
    BY <2>5 DEF Privacy!ForgetUser, Privacy!Use
  <2>6. ASSUME NEW s \in Servers, NEW event \in {"left", "joined"}, Privacy!Handle(s, event)
        PROVE  Unforgotten'
    BY <2>6 DEF Privacy!Handle, Privacy!Marked
  <2>7. ASSUME NEW s \in Servers, NEW event \in {"left", "joined"},
               Privacy!HandlerFails(s, event)
        PROVE  Unforgotten'
    BY <2>7 DEF Privacy!HandlerFails
  <2>8. CASE Privacy!Sweep
    BY <2>8 DEF Privacy!Sweep, Privacy!Expired
  <2>9. CASE Privacy!PurgeFails
    BY <2>9 DEF Privacy!PurgeFails
  <2>11. CASE Privacy!Crash
    <3>1. /\ here' = here /\ mark' = mark /\ handlers' = {} /\ todo' = {}
          /\ \A g \in here : g \notin unheard' => g \notin unheard /\ ~Privacy!Pending(g)
      BY <2>11 DEF Privacy!Crash
    <3>2. \A g \in here : g \notin unheard' => ~Returning(g)
      BY <3>1 DEF Privacy!Pending
    <3> QED
      BY <3>1, <3>2
  <2>10. CASE Privacy!Start \/ UNCHANGED Privacy!departureVars
    BY <2>10 DEF Privacy!Start, Privacy!departureVars
  <2> QED
    BY <2>1, <2>2, <2>3, <2>4, <2>5, <2>6, <2>7, <2>8, <2>9, <2>10, <2>11 DEF Privacy!Next
<1>4. Unforgotten /\ Possessions /\ [Privacy!Next]_(Privacy!departureVars)
        => [\A g \in here \ (unheard \cup caught) :
               "cases" \in data[g] => "cases" \in data'[g]]_(Privacy!departureVars)
  <2> SUFFICES ASSUME Unforgotten, Possessions, Privacy!Next,
                      NEW g \in here, g \notin unheard, g \notin caught, "cases" \in data[g]
               PROVE  "cases" \in data'[g]
    OBVIOUS
  <2>1. g \in Servers /\ data = [h \in Servers |-> data[h]]
    BY DEF Possessions
  <2>2. CASE data' = data
    BY <2>2
  <2>3. CASE \E h \in Servers : Privacy!PurgeGuild(h)
    <3>1. PICK h \in Servers : Privacy!PurgeGuild(h)
      BY <2>3
    <3>2. h \in todo /\ data' = [data EXCEPT ![h] = @ \ Privacy!_GUILD_SCOPED]
      BY <3>1 DEF Privacy!PurgeGuild
    <3>3. g \notin todo
      BY DEF Unforgotten
    <3> QED
      BY <2>1, <3>2, <3>3
  <2>4. CASE \E h \in Servers : Privacy!ForgetUser(h)
    <3>1. PICK h \in Servers : Privacy!ForgetUser(h)
      BY <2>4
    <3> QED
      BY <2>1, <3>1 DEF Privacy!ForgetUser
  <2>5. CASE \E h \in Servers : Privacy!Use(h)
    <3>1. PICK h \in Servers : Privacy!Use(h)
      BY <2>5
    <3> QED
      BY <2>1, <3>1 DEF Privacy!Use, Privacy!Kinds, Privacy!_GUILD_SCOPED
  <2> QED
    BY <2>2, <2>3, <2>4, <2>5 DEF Privacy!Next, Privacy!Leave, Privacy!Return, Privacy!GraceEnds,
      Privacy!Handle, Privacy!HandlerFails, Privacy!Sweep, Privacy!PurgeFails, Privacy!Crash,
      Privacy!Start
<1> QED
  BY <1>1, <1>2, <1>3, <1>4, PTL DEF Privacy!Spec, Privacy!CasesKept
-----------------------------------------------------------------------------
LEMMA SameNumber == \A S : Voice!Cardinality(S) = Cardinality(S)
  BY Zenon DEF Voice!Cardinality, Cardinality

(* Temporary rooms: what is being handled is a record of these fields.     *)
IsEvent(t) == t = [id |-> t.id, member |-> t.member, from |-> t.from, to |-> t.to,
                   room |-> t.room, at |-> t.at]

Labelled(t, label) == [t EXCEPT !.at = label]
InRoom(t, label, r) == [t EXCEPT !.at = label, !.room = r]
Outwards(t, label) == [t EXCEPT !.at = label, !.to = Voice!Outside]

LEMMA RelabelledTask ==
    ASSUME NEW t, NEW label, NEW r, IsEvent(t)
    PROVE  /\ Labelled(t, label).at = label /\ IsEvent(Labelled(t, label))
           /\ InRoom(t, label, r).at = label /\ IsEvent(InRoom(t, label, r))
           /\ Outwards(t, label).at = label /\ IsEvent(Outwards(t, label))
<1> DEFINE old == [id |-> t.id, member |-> t.member, from |-> t.from, to |-> t.to,
                   room |-> t.room, at |-> t.at]
           one == [id |-> t.id, member |-> t.member, from |-> t.from, to |-> t.to,
                   room |-> t.room, at |-> label]
           two == [id |-> t.id, member |-> t.member, from |-> t.from, to |-> t.to,
                   room |-> r, at |-> label]
           three == [id |-> t.id, member |-> t.member, from |-> t.from, to |-> Voice!Outside,
                     room |-> t.room, at |-> label]
<1>1. t = old
  BY DEF IsEvent
<1>2. [old EXCEPT !.at = label] = one
  OBVIOUS
<1>3. [one EXCEPT !.room = r] = two /\ [one EXCEPT !.to = Voice!Outside] = three
  OBVIOUS
<1>4. /\ [old EXCEPT !.at = label, !.room = r] = [[old EXCEPT !.at = label] EXCEPT !.room = r]
      /\ [old EXCEPT !.at = label, !.to = Voice!Outside]
           = [[old EXCEPT !.at = label] EXCEPT !.to = Voice!Outside]
  OBVIOUS
<1>5. /\ one.at = label /\ IsEvent(one)
      /\ two.at = label /\ IsEvent(two)
      /\ three.at = label /\ IsEvent(three)
  BY DEF IsEvent
<1> HIDE DEF old, one, two, three
<1>6. Labelled(t, label) = one /\ InRoom(t, label, r) = two /\ Outwards(t, label) = three
  BY <1>1, <1>2, <1>3, <1>4 DEF Labelled, InRoom, Outwards
<1> QED
  BY <1>5, <1>6

LEMMA NewEvent ==
    ASSUME NEW n, NEW m, NEW from, NEW to
    PROVE  /\ IsEvent(Voice!Event(n, m, from, to))
           /\ Voice!Event(n, m, from, to).at \in {"left", "enter"}
  BY DEF Voice!Event, IsEvent

(* Unless two members enter the hub at once, at most one room is on its    *)
(* way to the registry, and there is space for it.                         *)
OneOnItsWay ==
    /\ \A t, u \in Voice!Creating : t = u
    /\ Voice!Creating # {} => Cardinality(Voice!Registered) < Cap
    /\ Cardinality(Voice!Registered) <= Cap
RegistryIs ==
    /\ roomOwner = [r \in Rooms |-> roomOwner[r]]
    /\ IsFiniteSet(Voice!Registered)
    /\ \A t \in tasks : IsEvent(t)

(* What takes no room on and starts none keeps both.                       *)
LEMMA NoneTakenOn ==
    ASSUME RegistryIs, ~overlap => OneOnItsWay,
           overlap' = overlap, Voice!Creating' \subseteq Voice!Creating,
           Voice!Registered' \subseteq Voice!Registered
    PROVE  (~overlap => OneOnItsWay)' /\ IsFiniteSet(Voice!Registered')
<1>1. /\ IsFiniteSet(Voice!Registered')
      /\ Cardinality(Voice!Registered') <= Cardinality(Voice!Registered)
      /\ Cardinality(Voice!Registered') \in Nat /\ Cardinality(Voice!Registered) \in Nat
  BY FS_Subset, FS_CardinalityType DEF RegistryIs
<1>2. Cap \in Nat
  BY MembersAssumption
<1> QED
  BY <1>1, <1>2 DEF OneOnItsWay

(* Handling an event goes on elsewhere, or is over.                        *)
LEMMA GoesOn ==
    ASSUME NEW t \in tasks, NEW u, IsEvent(u), u.at \notin {"create", "register"},
           \A e \in tasks : IsEvent(e), Voice!Becomes(t, u) \/ Voice!Ends(t)
    PROVE  Voice!Creating' \subseteq Voice!Creating \ {t} /\ (\A e \in tasks : IsEvent(e))'
<1>1. \A e \in tasks' : e \in tasks \ {t} \/ e = u
  BY DEF Voice!Becomes, Voice!Ends
<1> QED
  BY <1>1 DEF Voice!Creating, Voice!At

LEMMA RoomStep ==
    ASSUME RegistryIs, ~overlap => OneOnItsWay, [Voice!Next]_(Voice!tempVars)
    PROVE  RegistryIs' /\ (~overlap => OneOnItsWay)'
<1> DEFINE Goal == RegistryIs' /\ (~overlap => OneOnItsWay)'
           Events == \A e \in tasks : IsEvent(e)
<1> SUFFICES Goal
  OBVIOUS
<1>a. Events
  BY DEF RegistryIs
<1>b. ASSUME UNCHANGED <<roomOwner, overlap>>, Voice!Creating' \subseteq Voice!Creating, Events'
      PROVE  Goal
  <2>1. Voice!Registered' = Voice!Registered
    BY <1>b DEF Voice!Registered
  <2> QED
    BY <1>b, <2>1, NoneTakenOn DEF RegistryIs
<1>c. ASSUME NEW t \in tasks, NEW u, IsEvent(u), u.at \notin {"create", "register"},
             Voice!Becomes(t, u) \/ Voice!Ends(t), UNCHANGED <<roomOwner, overlap>>
      PROVE  Goal
  BY <1>a, <1>b, <1>c, GoesOn
<1>d. ASSUME NEW e, IsEvent(e), e.at \notin {"create", "register"},
             tasks' \subseteq tasks \cup {e}, UNCHANGED <<roomOwner, overlap>>
      PROVE  Goal
  <2>1. Events' /\ Voice!Creating' \subseteq Voice!Creating
    BY <1>a, <1>d DEF Voice!Creating, Voice!At
  <2> QED
    BY <1>b, <1>d, <2>1
<1> HIDE DEF Goal
<1>1. ASSUME NEW m \in Members, NEW p \in Voice!Places, Voice!Move(m, p) PROVE Goal
  <2> DEFINE e == Voice!Event(moves', m, place[m], p)
  <2>1. tasks' \subseteq tasks \cup {e} /\ UNCHANGED <<roomOwner, overlap>>
    BY <1>1 DEF Voice!Move
  <2>2. IsEvent(e) /\ e.at \in {"left", "enter"}
    BY NewEvent
  <2> QED
    BY <1>d, <2>1, <2>2
<1>2. ASSUME NEW t \in tasks, Voice!Handle(t) PROVE Goal
  <2>0. /\ IsEvent(t)
        /\ \A label, r : /\ Labelled(t, label).at = label /\ IsEvent(Labelled(t, label))
                          /\ InRoom(t, label, r).at = label /\ IsEvent(InRoom(t, label, r))
                          /\ Outwards(t, label).at = label /\ IsEvent(Outwards(t, label))
    <3>1. IsEvent(t)
      BY <1>a
    <3> QED
      BY <3>1, RelabelledTask
  <2>1. CASE Voice!Leave(t)
    <3>1. UNCHANGED <<roomOwner, overlap>>
      BY <2>1 DEF Voice!Leave, Voice!voiceRows
    <3>2. \/ Voice!Becomes(t, InRoom(t, "delete", t.from))
          \/ Voice!Becomes(t, Labelled(t, "enter"))
      BY <2>1 DEF Voice!Leave, Voice!Goto, Labelled, InRoom
    <3> QED
      BY <1>c, <2>0, <3>1, <3>2
  <2>2. CASE Voice!Delete(t) \/ Voice!Undo(t)
    <3>1. UNCHANGED <<roomOwner, overlap>> /\ Voice!Becomes(t, Labelled(t, "release"))
      BY <2>2 DEF Voice!Delete, Voice!Undo, Voice!DeleteQuiet, Voice!Goto, Labelled
    <3> QED
      BY <1>c, <2>0, <3>1
  <2>3. CASE Voice!Release(t)
    <3>1. /\ roomOwner' = [roomOwner EXCEPT ![t.room] = Nobody] /\ overlap' = overlap
          /\ Voice!Becomes(t, Labelled(t, "enter"))
      BY <2>3 DEF Voice!Release, Voice!Goto, Labelled
    <3>2. /\ Voice!Registered' \subseteq Voice!Registered
          /\ roomOwner' = [x \in Rooms |-> roomOwner'[x]]
      BY <3>1 DEF RegistryIs, Voice!Registered
    <3>3. Voice!Creating' \subseteq Voice!Creating /\ Events'
      BY <1>a, <2>0, <3>1, GoesOn
    <3> QED
      BY <3>1, <3>2, <3>3, NoneTakenOn DEF Goal, RegistryIs
  <2>4. CASE Voice!Enter(t)
    <3>1. roomOwner' = roomOwner
      BY <2>4 DEF Voice!Enter, Voice!voiceRows
    <3>2. CASE Voice!Ends(t) /\ UNCHANGED overlap
      <4>1. IsEvent(Labelled(t, "enter")) /\ Labelled(t, "enter").at = "enter"
        BY <2>0
      <4> QED
        BY <1>c, <3>1, <3>2, <4>1
    <3>3. CASE /\ Voice!Becomes(t, Labelled(t, "create")) /\ ~Voice!AtCap
               /\ overlap' = (overlap \/ Voice!Creating # {})
      <4> DEFINE u == Labelled(t, "create")
      <4>1. tasks' = (tasks \ {t}) \cup {u} /\ IsEvent(u)
        BY <2>0, <3>3 DEF Voice!Becomes
      <4> HIDE DEF u
      <4>2. Events' /\ Voice!Creating' \subseteq Voice!Creating \cup {u}
        BY <1>a, <4>1 DEF Voice!Creating, Voice!At
      <4>3. Voice!Registered' = Voice!Registered
        BY <3>1 DEF Voice!Registered
      <4>4. Cardinality(Voice!Registered) \in Nat /\ Cap \in Nat
        BY MembersAssumption, FS_CardinalityType DEF RegistryIs
      <4>8. Voice!Cardinality(Voice!Registered) = Cardinality(Voice!Registered)
        BY SameNumber
      <4>5. Cardinality(Voice!Registered) < Cap
        BY <3>3, <4>4, <4>8 DEF Voice!AtCap
      <4>6. ~overlap' => Voice!Creating = {}
        BY <3>3
      <4>7. ASSUME ~overlap' PROVE OneOnItsWay'
        BY <4>2, <4>3, <4>4, <4>5, <4>6, <4>7 DEF OneOnItsWay
      <4> QED
        BY <3>1, <4>2, <4>3, <4>7 DEF Goal, RegistryIs
    <3> QED
      BY <2>4, <3>2, <3>3 DEF Voice!Enter, Voice!Goto, Labelled
  <2>5. CASE Voice!CreateFails(t) \/ Voice!RegisterFails(t)
    <3>1. UNCHANGED <<roomOwner, overlap>> /\ Voice!Ends(t)
      BY <2>5 DEF Voice!CreateFails, Voice!RegisterFails, Voice!voiceRows
    <3>2. IsEvent(Labelled(t, "enter")) /\ Labelled(t, "enter").at = "enter"
      BY <2>0
    <3> QED
      BY <1>c, <3>1, <3>2
  <2>6. CASE Voice!Register(t)
    <3> DEFINE u == Labelled(t, "move")
    <3>1. /\ roomOwner' = [roomOwner EXCEPT ![t.room] = t.member] /\ overlap' = overlap
          /\ Voice!Becomes(t, u) /\ t \in Voice!Creating
      BY <2>6 DEF Voice!Register, Voice!Goto, Labelled, Voice!Creating, Voice!At
    <3>2. Voice!Creating' \subseteq Voice!Creating \ {t} /\ Events'
      BY <1>a, <2>0, <3>1, GoesOn
    <3> HIDE DEF u
    <3>3. /\ Voice!Registered' \subseteq Voice!Registered \cup {t.room}
          /\ roomOwner' = [x \in Rooms |-> roomOwner'[x]]
      BY <3>1 DEF RegistryIs, Voice!Registered
    <3>4. /\ IsFiniteSet(Voice!Registered \cup {t.room})
          /\ Cardinality(Voice!Registered \cup {t.room}) \in Nat
          /\ Cardinality(Voice!Registered) \in Nat
          /\ Cardinality(Voice!Registered \cup {t.room}) <= Cardinality(Voice!Registered) + 1
      <4>1. IsFiniteSet(Voice!Registered)
        BY DEF RegistryIs
      <4> DEFINE S == Voice!Registered
                 x == t.room
      <4> HIDE DEF S, x
      <4>2. /\ IsFiniteSet(S \cup {x})
            /\ Cardinality(S) \in Nat /\ Cardinality(S \cup {x}) \in Nat
            /\ \/ Cardinality(S \cup {x}) = Cardinality(S)
               \/ Cardinality(S \cup {x}) = Cardinality(S) + 1
        <5>1. IsFiniteSet(S)
          BY <4>1 DEF S
        <5> QED
          BY <5>1, FS_AddElement, FS_CardinalityType
      <4> QED
        BY <4>2 DEF S, x
    <3>5. /\ IsFiniteSet(Voice!Registered')
          /\ Cardinality(Voice!Registered') \in Nat
          /\ Cardinality(Voice!Registered') <= Cardinality(Voice!Registered) + 1
      BY <3>3, <3>4, FS_Subset, FS_CardinalityType
    <3>6. ASSUME ~overlap PROVE OneOnItsWay'
      <4>1. Voice!Creating = {t} /\ Cardinality(Voice!Registered) < Cap
        BY <3>1, <3>6 DEF OneOnItsWay
      <4>2. Voice!Creating' = {}
        BY <3>2, <4>1
      <4> QED
        BY <3>4, <3>5, <4>1, <4>2, MembersAssumption DEF OneOnItsWay
    <3> QED
      BY <3>1, <3>2, <3>3, <3>5, <3>6 DEF Goal, RegistryIs
  <2>7. CASE Voice!MoveIn(t)
    <3> DEFINE u == Voice!Event(moves', t.member, place[t.member], t.room)
    <3>1. UNCHANGED <<roomOwner, overlap>> /\ Voice!Becomes(t, u)
      BY <2>7 DEF Voice!MoveIn, Voice!Becomes
    <3>2. IsEvent(u) /\ u.at \in {"left", "enter"}
      BY NewEvent
    <3> QED
      BY <1>c, <3>1, <3>2
  <2>8. CASE Voice!MoveFails(t)
    <3>1. /\ UNCHANGED <<roomOwner, overlap>>
          /\ Voice!Becomes(t, Outwards(t, "undo"))
      BY <2>8 DEF Voice!MoveFails, Voice!voiceRows, Outwards
    <3> QED
      BY <1>c, <2>0, <3>1
  <2>9. ASSUME NEW r \in Rooms, Voice!Create(t, r) PROVE Goal
    <3> DEFINE u == InRoom(t, "register", r)
    <3>1. /\ UNCHANGED <<roomOwner, overlap>>
          /\ tasks' = (tasks \ {t}) \cup {u} /\ IsEvent(u) /\ t \in Voice!Creating
      BY <2>0, <2>9 DEF Voice!Create, Voice!Becomes, InRoom, Voice!Creating, Voice!At
    <3> HIDE DEF u
    <3>2. Events' /\ Voice!Creating' \subseteq (Voice!Creating \ {t}) \cup {u}
      BY <1>a, <3>1 DEF Voice!Creating, Voice!At
    <3>3. Voice!Registered' = Voice!Registered
      BY <3>1 DEF Voice!Registered
    <3>4. ASSUME ~overlap PROVE OneOnItsWay'
      <4>1. Voice!Creating = {t} /\ Cardinality(Voice!Registered) < Cap
        BY <3>1, <3>4 DEF OneOnItsWay
      <4> QED
        BY <3>2, <3>3, <3>4, <4>1 DEF OneOnItsWay
    <3> QED
      BY <3>1, <3>2, <3>3, <3>4 DEF Goal, RegistryIs
  <2> QED
    BY <1>2, <2>1, <2>2, <2>3, <2>4, <2>5, <2>6, <2>7, <2>8, <2>9 DEF Voice!Handle
<1>3. ASSUME NEW m \in Members, NEW r \in Rooms, Voice!Claim(m, r) PROVE Goal
  <2>1. /\ roomOwner' = [roomOwner EXCEPT ![r] = m] /\ roomOwner[r] # Nobody
        /\ tasks' = tasks /\ overlap' = overlap
    BY <1>3 DEF Voice!Claim
  <2>2. /\ Voice!Registered' \subseteq Voice!Registered
        /\ roomOwner' = [x \in Rooms |-> roomOwner'[x]]
    BY <2>1 DEF RegistryIs, Voice!Registered
  <2>3. Voice!Creating' = Voice!Creating /\ Events'
    BY <1>a, <2>1 DEF Voice!Creating, Voice!At
  <2> QED
    BY <2>1, <2>2, <2>3, NoneTakenOn DEF Goal, RegistryIs
<1>4. ASSUME NEW r \in Rooms, Voice!Sweep(r) PROVE Goal
  <2> DEFINE e == Voice!Event(0, Nobody, r, Voice!Outside)
             label == IF r \in exists THEN "delete" ELSE "release"
             u == InRoom(e, label, r)
  <2>1. IsEvent(u) /\ u.at = label
    <3>1. IsEvent(e)
      BY NewEvent
    <3> HIDE DEF e, label
    <3>2. /\ IsEvent(InRoom(e, label, r))
          /\ InRoom(e, label, r).at = label
      BY <3>1, RelabelledTask
    <3> QED
      BY <3>2
  <2>2. UNCHANGED <<roomOwner, overlap>> /\ tasks' \subseteq tasks \cup {u}
    BY <1>4 DEF Voice!Sweep, Voice!voiceRows, InRoom
  <2>3. u.at \notin {"create", "register"}
    BY <2>1
  <2> HIDE DEF u
  <2> QED
    BY <1>d, <2>1, <2>2, <2>3
<1>5. CASE Voice!CooldownEnds \/ Voice!Crash \/ Voice!Restart \/ UNCHANGED Voice!tempVars
  <2>1. UNCHANGED <<roomOwner, overlap>> /\ tasks' \subseteq tasks
    BY <1>5 DEF Voice!CooldownEnds, Voice!Crash, Voice!Restart, Voice!tempVars, Voice!voiceRows
  <2>2. Voice!Creating' \subseteq Voice!Creating /\ Events'
    BY <1>a, <2>1 DEF Voice!Creating, Voice!At
  <2> QED
    BY <1>b, <2>1, <2>2
<1> QED
  BY <1>1, <1>2, <1>3, <1>4, <1>5 DEF Voice!Next

(* There are never more rooms than the cap, unless two members enter the   *)
(* hub at once; whatever the cap, and however events of voice overlap,     *)
(* fail, die with the bot and are swept up.                                *)
THEOREM RoomsWithinCap == Voice!Spec => []Voice!WithinCap
<1>1. Voice!Init => RegistryIs /\ OneOnItsWay
  <2> SUFFICES ASSUME Voice!Init PROVE RegistryIs /\ OneOnItsWay
    OBVIOUS
  <2>1. Voice!Registered = {} /\ Voice!Creating = {} /\ tasks = {}
    BY DEF Voice!Init, Voice!Registered, Voice!Creating, Voice!At
  <2>2. roomOwner = [r \in Rooms |-> roomOwner[r]]
    BY DEF Voice!Init
  <2> QED
    BY <2>1, <2>2, FS_EmptySet, MembersAssumption DEF RegistryIs, OneOnItsWay
<1>2. RegistryIs /\ (~overlap => OneOnItsWay) /\ [Voice!Next]_(Voice!tempVars)
        => RegistryIs' /\ (~overlap => OneOnItsWay)'
  BY RoomStep
<1>3. (~overlap => OneOnItsWay) => Voice!WithinCap
  <2>1. Voice!Cardinality(Voice!Registered) = Cardinality(Voice!Registered)
    BY SameNumber
  <2> QED
    BY <2>1 DEF OneOnItsWay, Voice!WithinCap
<1> QED
  BY <1>1, <1>2, <1>3, PTL DEF Voice!Spec
=============================================================================
