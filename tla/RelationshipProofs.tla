--------------------------- MODULE RelationshipProofs ---------------------------
(* Proofs about Relationship, for every set of members and transactions.   *)
EXTENDS MCRelationship, TLAPS

States == {"idle", "lock", "title", "top", "old", "new", "commit"}

Typed ==
    /\ points \in [Users -> Nat] /\ ledger \in [Users -> Nat]
    /\ title \subseteq Users /\ exposed \subseteq Users
    /\ lock \in [Users -> Workers \cup {None}]
    /\ pc \in [Workers -> States]
    /\ tx \in [Workers -> Transactions]
    /\ begun \in 0..MaxTx

(* What a transaction holds and has read.                                  *)
RowsHeld(w) == pc[w] \notin {"idle", "lock"} => \A u \in tx[w].rows : lock[u] = w
IdleHoldsNone(w) == pc[w] = "idle" => \A u \in Users : lock[u] # w
ReadIsCurrent(w) ==
    \A u \in tx[w].rows : pc[w] # "idle" /\ lock[u] = w => tx[w].read[u] = points[u]
OverHeld(w) == \A u \in tx[w].over : lock[u] = w
OverMoved(w) ==
    /\ tx[w].over \subseteq {tx[w].old, tx[w].new}
    /\ tx[w].over \cap tx[w].rows = {}
Progress(w) ==
    /\ pc[w] \in {"idle", "lock", "title", "top"} => tx[w].new = None /\ tx[w].over = {}
    /\ pc[w] = "old" => tx[w].old \in Users
    /\ pc[w] \in {"old", "new"} => tx[w].new \in Users
    /\ tx[w].new = None => tx[w].over = {}

Own1(w) ==
    RowsHeld(w) /\ IdleHoldsNone(w) /\ ReadIsCurrent(w) /\ OverHeld(w)
    /\ OverMoved(w) /\ Progress(w)

LockInv == Typed /\ \A w \in Workers : Own1(w)

LEMMA AmountsAreNat ==
    ASSUME NEW k \in Kinds, NEW p \in Nat, NEW n \in Nat
    PROVE  Updated(k, p, n) \in Nat
  BY DEF Updated, Kinds, Less

LEMMA TakenIsNat ==
    ASSUME Typed, NEW w \in Workers, NEW u \in Users
    PROVE  Own(w, u) \in Nat /\ Taken(w, u) \in Nat
<1>1. tx[w] \in Transactions
  BY DEF Typed
<1>2. /\ tx[w].kind \in Kinds /\ tx[w].amount \in Nat /\ tx[w].read[u] \in Nat
  BY <1>1 DEF Transactions
<1>3. Own(w, u) \in Nat
  BY <1>2, AmountsAreNat DEF Own
<1> QED
  BY <1>2, <1>3 DEF Taken

LEMMA NoTxTyped == NoTx \in Transactions
  BY DEF NoTx, Transactions, Kinds

(* Every action of a transaction leaves the others what they hold.         *)
Frame(w) ==
    \A v \in Workers \ {w} :
        /\ pc'[v] = pc[v] /\ tx'[v] = tx[v]
        /\ \A u \in Users : lock'[u] = v <=> lock[u] = v

LEMMA OthersKeep ==
    ASSUME LockInv, NEW w \in Workers, NEW v \in Workers, v # w, Frame(w),
           \A u \in Users : lock[u] = v => points'[u] = points[u]
    PROVE  Own1(v)'
<1> USE DEF LockInv, Own1
<1>1. /\ pc'[v] = pc[v] /\ tx'[v] = tx[v] /\ \A u \in Users : lock'[u] = v <=> lock[u] = v
  BY DEF Frame
<1>2. tx[v].rows \subseteq Users /\ tx[v].over \subseteq Users
  BY DEF Typed, Transactions
<1>3. RowsHeld(v)'
  BY <1>1, <1>2 DEF RowsHeld
<1>4. IdleHoldsNone(v)'
  BY <1>1 DEF IdleHoldsNone
<1>5. ReadIsCurrent(v)'
  BY <1>1, <1>2 DEF ReadIsCurrent
<1>6. OverHeld(v)'
  BY <1>1, <1>2 DEF OverHeld
<1>7. OverMoved(v)' /\ Progress(v)'
  BY <1>1 DEF OverMoved, Progress
<1> QED
  BY <1>3, <1>4, <1>5, <1>6, <1>7

(* A transaction that ends releases its rows and forgets what it read.     *)
LEMMA EndKeeps ==
    ASSUME LockInv, NEW w \in Workers, End(w)
    PROVE  /\ Frame(w) /\ Own1(w)'
           /\ lock' \in [Users -> Workers \cup {None}]
           /\ pc' \in [Workers -> States] /\ tx' \in [Workers -> Transactions]
<1> USE DEF LockInv
<1>1. /\ lock' = Released(w) /\ tx' = [tx EXCEPT ![w] = NoTx] /\ pc' = [pc EXCEPT ![w] = "idle"]
  BY DEF End, Goto
<1>2. Typed
  OBVIOUS
<1>3. tx' \in [Workers -> Transactions]
  BY <1>1, <1>2, NoTxTyped DEF Typed
<1>4. pc' \in [Workers -> States]
  BY <1>1, <1>2 DEF Typed, States
<1>5. lock' \in [Users -> Workers \cup {None}]
  BY <1>1, <1>2 DEF Typed, Released
<1>6. \A u \in Users : lock'[u] = IF lock[u] = w THEN None ELSE lock[u]
  BY <1>1 DEF Released
<1>7. \A v \in Workers : v # None
  BY RelationshipAssumption
<1>8. Frame(w)
  BY <1>1, <1>2, <1>6, <1>7 DEF Frame, Typed
<1>9. pc'[w] = "idle" /\ tx'[w] = NoTx
  BY <1>1, <1>2 DEF Typed
<1>10. Own1(w)'
  BY <1>6, <1>7, <1>9 DEF Own1, RowsHeld, IdleHoldsNone, ReadIsCurrent, OverHeld,
     OverMoved, Progress, NoTx
<1> QED
  BY <1>3, <1>4, <1>5, <1>8, <1>10

LEMMA StepKeeps ==
    ASSUME LockInv, NEW w \in Workers, Typed', Frame(w), Own1(w)',
           \A v \in Workers \ {w}, u \in Users : lock[u] = v => points'[u] = points[u]
    PROVE  LockInv'
<1>1. ASSUME NEW v \in Workers, v # w PROVE Own1(v)'
  BY <1>1, OthersKeep
<1> QED
  BY <1>1 DEF LockInv

LEMMA BeginKeeps ==
    ASSUME LockInv, NEW w \in Workers, NEW k \in Kinds, NEW S \in SUBSET Users,
           NEW n \in Nat, Begin(w, k, S, n)
    PROVE  LockInv'
<1> DEFINE t == [NoTx EXCEPT !.kind = k, !.rows = S, !.amount = n]
<1>1. /\ pc[w] = "idle" /\ pc' = [pc EXCEPT ![w] = "lock"] /\ tx' = [tx EXCEPT ![w] = t]
      /\ UNCHANGED <<points, title, lock, ledger, exposed>>
      /\ begun < MaxTx /\ begun' = begun + 1
  BY DEF Begin, Goto, history
<1>2. /\ t.rows = S /\ t.over = {} /\ t.new = None /\ t \in Transactions
  BY DEF NoTx, Transactions, Kinds
<1>3. Typed /\ Own1(w)
  BY DEF LockInv
<1>4. pc' \in [Workers -> States] /\ tx' \in [Workers -> Transactions]
  BY <1>1, <1>2, <1>3 DEF Typed, States
<1>5. begun' \in 0..MaxTx
  BY <1>1, <1>3, RelationshipAssumption DEF Typed
<1>6. Typed'
  BY <1>1, <1>3, <1>4, <1>5 DEF Typed
<1>7. Frame(w)
  BY <1>1, <1>3 DEF Frame, Typed
<1>8. pc'[w] = "lock" /\ tx'[w] = t /\ \A u \in Users : lock'[u] # w
  BY <1>1, <1>3 DEF Typed, Own1, IdleHoldsNone
<1>9. Own1(w)'
  BY <1>8, <1>2 DEF Own1, RowsHeld, IdleHoldsNone, ReadIsCurrent, OverHeld,
     OverMoved, Progress
<1> QED
  BY <1>1, <1>6, <1>7, <1>9, StepKeeps

LEMMA LockRowKeeps ==
    ASSUME LockInv, NEW w \in Workers, NEW u \in Users, LockRow(w, u)
    PROVE  LockInv'
<1>1. /\ pc[w] = "lock" /\ u \in tx[w].rows /\ lock[u] \in {None, w}
      /\ lock' = [lock EXCEPT ![u] = w] /\ tx' = [tx EXCEPT ![w].read[u] = points[u]]
      /\ UNCHANGED <<points, title, pc, ledger, exposed, begun>>
  BY DEF LockRow, Free, Take, history
<1>2. Typed /\ Own1(w) /\ tx[w] \in Transactions /\ points[u] \in Nat
  BY DEF LockInv, Typed
<1> DEFINE t == [tx[w] EXCEPT !.read[u] = points[u]]
<1>3. /\ t \in Transactions /\ tx' = [tx EXCEPT ![w] = t]
      /\ t.rows = tx[w].rows /\ t.over = tx[w].over /\ t.new = tx[w].new /\ t.old = tx[w].old
      /\ t.read = [tx[w].read EXCEPT ![u] = points[u]]
  BY <1>1, <1>2 DEF Transactions, Typed
<1>4. Typed'
  BY <1>1, <1>2, <1>3 DEF Typed
<1>5. Frame(w)
  BY <1>1, <1>2, <1>3, RelationshipAssumption DEF Frame, Typed
<1>6. tx'[w] = t /\ pc'[w] = "lock" /\ \A x \in Users \ {u} : lock'[x] = lock[x]
  BY <1>1, <1>2, <1>3 DEF Typed
<1>7. ReadIsCurrent(w)'
  <2> SUFFICES ASSUME NEW x \in t.rows, lock'[x] = w PROVE t.read[x] = points[x]
    BY <1>1, <1>6 DEF ReadIsCurrent
  <2>1. x \in Users /\ tx[w].read \in [Users -> Nat]
    BY <1>2, <1>3 DEF Transactions
  <2>2. CASE x = u
    BY <1>3, <2>1, <2>2
  <2>3. CASE x # u
    <3>1. lock[x] = w /\ tx[w].read[x] = points[x]
      BY <1>1, <1>2, <1>3, <1>6, <2>1, <2>3 DEF Own1, ReadIsCurrent
    <3> QED
      BY <1>3, <2>1, <2>3, <3>1
  <2> QED
    BY <2>2, <2>3
<1>8. Own1(w)'
  BY <1>1, <1>2, <1>3, <1>6, <1>7 DEF Own1, RowsHeld, IdleHoldsNone, OverHeld,
     OverMoved, Progress
<1> QED
  BY <1>1, <1>4, <1>5, <1>8, StepKeeps

LEMMA LockedKeeps ==
    ASSUME LockInv, NEW w \in Workers, Locked(w)
    PROVE  LockInv'
<1>1. /\ pc[w] = "lock" /\ pc' = [pc EXCEPT ![w] = "title"] /\ \A u \in tx[w].rows : lock[u] = w
      /\ UNCHANGED <<points, title, lock, tx, ledger, exposed, begun>>
  BY DEF Locked, Goto, history
<1>2. Typed /\ Own1(w)
  BY DEF LockInv
<1>3. pc' \in [Workers -> States] /\ pc'[w] = "title"
  BY <1>1, <1>2 DEF Typed, States
<1>4. Typed' /\ Frame(w)
  BY <1>1, <1>2, <1>3 DEF Typed, Frame
<1>5. Own1(w)'
  BY <1>1, <1>2, <1>3 DEF Own1, RowsHeld, IdleHoldsNone, ReadIsCurrent, OverHeld,
     OverMoved, Progress
<1> QED
  BY <1>1, <1>4, <1>5, StepKeeps

(* A transaction that has read another row and keeps what it has read of   *)
(* its own, while it has written nothing.                                  *)
LEMMA LoadKeeps ==
    ASSUME LockInv, NEW w \in Workers, NEW t \in Transactions,
           NEW l \in {"top", "old", "new", "commit"},
           pc[w] \in {"title", "top"}, tx' = [tx EXCEPT ![w] = t], Goto(w, l),
           UNCHANGED <<points, title, lock, history, begun>>,
           t.rows = tx[w].rows, t.over = {},
           \A u \in t.rows : t.read[u] = tx[w].read[u],
           l = "top" => t.new = None, l = "old" => t.old \in Users,
           l \in {"old", "new"} => t.new \in Users
    PROVE  LockInv'
<1>1. Typed /\ Own1(w)
  BY DEF LockInv
<1>2. pc' = [pc EXCEPT ![w] = l] /\ UNCHANGED <<points, title, lock, ledger, exposed, begun>>
  BY DEF Goto, history
<1>3. pc' \in [Workers -> States] /\ tx' \in [Workers -> Transactions]
  BY <1>1, <1>2 DEF Typed, States
<1>4. Typed'
  BY <1>1, <1>2, <1>3 DEF Typed
<1>5. Frame(w) /\ pc'[w] = l /\ tx'[w] = t
  BY <1>1, <1>2 DEF Frame, Typed
<1>6. \A u \in t.rows : lock[u] = w /\ t.read[u] = points[u]
  BY <1>1 DEF Own1, RowsHeld, ReadIsCurrent
<1>7. Own1(w)'
  BY <1>2, <1>5, <1>6 DEF Own1, RowsHeld, IdleHoldsNone, ReadIsCurrent, OverHeld,
     OverMoved, Progress
<1> QED
  BY <1>2, <1>4, <1>5, <1>7, StepKeeps

LEMMA ReadTitleKeeps ==
    ASSUME LockInv, NEW w \in Workers, ReadTitle(w)
    PROVE  LockInv'
<1>1. /\ pc[w] = "title" /\ Goto(w, "top") /\ UNCHANGED <<points, title, lock, history, begun>>
  BY DEF ReadTitle
<1>2. Typed /\ tx[w] \in Transactions /\ tx[w].new = None /\ tx[w].over = {}
  BY <1>1 DEF LockInv, Typed, Own1, Progress
<1>3. CASE UNCHANGED tx
  <2>1. tx' = [tx EXCEPT ![w] = tx[w]]
    BY <1>2, <1>3 DEF Typed
  <2> QED
    BY <1>1, <1>2, <2>1, LoadKeeps
<1>4. ASSUME NEW h \in title,
             tx' = [tx EXCEPT ![w].old = h,
                              ![w].read[h] = IF h \in tx[w].rows THEN @ ELSE points[h]]
      PROVE  LockInv'
  <2>1. h \in Users /\ points[h] \in Nat /\ tx[w].read \in [Users -> Nat]
    BY <1>2 DEF Typed, Transactions
  <2> DEFINE n == IF h \in tx[w].rows THEN tx[w].read[h] ELSE points[h]
             t == [tx[w] EXCEPT !.old = h, !.read = [@ EXCEPT ![h] = n]]
  <2>2. n \in Nat
    BY <2>1
  <2> HIDE DEF n
  <2>3. t \in Transactions /\ t.rows = tx[w].rows /\ t.over = {} /\ t.new = None
    BY <1>2, <2>1, <2>2 DEF Transactions
  <2>4. tx' = [tx EXCEPT ![w] = t]
    BY <1>2, <1>4, <2>1 DEF Typed, Transactions, n
  <2>5. \A u \in t.rows : t.read[u] = tx[w].read[u]
    BY <1>2, <2>1, <2>3 DEF Transactions, n
  <2> HIDE DEF t
  <2> QED
    BY <1>1, <2>3, <2>4, <2>5, LoadKeeps
<1> QED
  BY <1>3, <1>4 DEF ReadTitle

LEMMA DecideKeeps ==
    ASSUME LockInv, NEW w \in Workers, Decide(w)
    PROVE  LockInv'
<1>1. pc[w] = "top" /\ UNCHANGED <<points, title, lock, history, begun>>
  BY DEF Decide
<1>2. Typed /\ tx[w] \in Transactions /\ tx[w].new = None /\ tx[w].over = {}
  BY <1>1 DEF LockInv, Typed, Own1, Progress
<1>3. CASE tx' = [tx EXCEPT ![w].old = None] /\ Goto(w, "commit")
  <2> DEFINE t == [tx[w] EXCEPT !.old = None]
  <2>1. /\ t \in Transactions /\ t.rows = tx[w].rows /\ t.over = {} /\ t.read = tx[w].read
        /\ tx' = [tx EXCEPT ![w] = t]
    BY <1>2, <1>3 DEF Typed, Transactions
  <2> HIDE DEF t
  <2> QED
    BY <1>1, <1>3, <2>1, LoadKeeps
<1>4. ASSUME NEW u \in Users,
             tx' = [tx EXCEPT ![w].new = u,
                              ![w].read[u] = IF u \in tx[w].rows THEN @ ELSE points[u]],
             Goto(w, FirstSaved(w))
      PROVE  LockInv'
  <2>1. points[u] \in Nat /\ tx[w].read \in [Users -> Nat]
    BY <1>2 DEF Typed, Transactions
  <2> DEFINE n == IF u \in tx[w].rows THEN tx[w].read[u] ELSE points[u]
             t == [tx[w] EXCEPT !.new = u, !.read = [@ EXCEPT ![u] = n]]
  <2>2. n \in Nat
    BY <2>1
  <2> HIDE DEF n
  <2>3. t \in Transactions /\ t.rows = tx[w].rows /\ t.over = {} /\ t.new = u
        /\ t.old = tx[w].old
    BY <1>2, <2>1, <2>2 DEF Transactions
  <2>4. tx' = [tx EXCEPT ![w] = t]
    BY <1>2, <1>4, <2>1 DEF Typed, Transactions, n
  <2>5. \A x \in t.rows : t.read[x] = tx[w].read[x]
    BY <1>2, <2>1, <2>3 DEF Transactions, n
  <2>6. FirstSaved(w) \in {"old", "new"} /\ (FirstSaved(w) = "old" => tx[w].old # None)
    BY DEF FirstSaved
  <2>7. FirstSaved(w) = "old" => t.old \in Users
    BY <1>2, <2>3, <2>6 DEF Transactions
  <2> HIDE DEF t
  <2>8. CASE FirstSaved(w) = "old"
    BY <1>1, <1>4, <2>3, <2>4, <2>5, <2>7, <2>8, LoadKeeps, ZenonT(60)
  <2>9. CASE FirstSaved(w) = "new"
    BY <1>1, <1>4, <2>3, <2>4, <2>5, <2>9, LoadKeeps, ZenonT(60)
  <2> QED
    BY <2>6, <2>8, <2>9
<1> QED
  BY <1>3, <1>4 DEF Decide

(* An UPDATE of the transfer: the row is locked, and what is overwritten   *)
(* is one of the two members of it.                                        *)
LEMMA UpdateKeeps ==
    ASSUME LockInv, NEW w \in Workers, NEW u \in {tx[w].old, tx[w].new}, u \in Users,
           NEW l \in {"new", "commit"}, pc[w] \in {"old", "new"}, tx[w].new \in Users,
           lock[u] \in {None, w}, Take(w, u), Overwrite(w, u), Goto(w, l),
           UNCHANGED <<points, title, history, begun>>
    PROVE  LockInv'
<1>1. /\ lock' = [lock EXCEPT ![u] = w] /\ pc' = [pc EXCEPT ![w] = l]
      /\ UNCHANGED <<points, title, ledger, exposed, begun>>
  BY DEF Take, Goto, history
<1>2. Typed /\ Own1(w) /\ tx[w] \in Transactions
  BY DEF LockInv, Typed
<1>3. PICK S \in SUBSET ({u} \ tx[w].rows) : tx' = [tx EXCEPT ![w].over = @ \cup S]
  BY DEF Overwrite
<1> DEFINE t == [tx[w] EXCEPT !.over = @ \cup S]
<1>4. t \in Transactions /\ tx' = [tx EXCEPT ![w] = t]
  BY <1>2, <1>3 DEF Typed, Transactions
<1>5. /\ t.rows = tx[w].rows /\ t.read = tx[w].read /\ t.old = tx[w].old
      /\ t.new = tx[w].new /\ t.over = tx[w].over \cup S
  BY <1>2 DEF Transactions
<1> HIDE DEF t
<1>6. pc' \in [Workers -> States] /\ tx' \in [Workers -> Transactions]
      /\ lock' \in [Users -> Workers \cup {None}]
  BY <1>1, <1>2, <1>4 DEF Typed, States
<1>7. Typed'
  BY <1>1, <1>2, <1>6 DEF Typed
<1>8. Frame(w)
  BY <1>1, <1>2, <1>4, RelationshipAssumption DEF Frame, Typed
<1>9. /\ pc'[w] = l /\ tx'[w] = t /\ lock'[u] = w
      /\ \A x \in Users \ {u} : lock'[x] = lock[x]
  BY <1>1, <1>2, <1>4 DEF Typed
<1>10. tx[w].rows \subseteq Users /\ tx[w].over \subseteq Users
  BY <1>2 DEF Transactions
<1>11. \A x \in t.rows : lock'[x] = w /\ t.read[x] = points[x]
  BY <1>2, <1>5, <1>9, <1>10 DEF Own1, RowsHeld, ReadIsCurrent
<1>12. \A x \in t.over : lock'[x] = w
  BY <1>2, <1>5, <1>9, <1>10 DEF Own1, OverHeld
<1>13. t.over \subseteq {t.old, t.new} /\ t.over \cap t.rows = {}
  BY <1>2, <1>5 DEF Own1, OverMoved
<1>14. t.new \in Users /\ t.new # None
  BY <1>5, RelationshipAssumption
<1>15. RowsHeld(w)' /\ IdleHoldsNone(w)' /\ ReadIsCurrent(w)' /\ OverHeld(w)'
  BY <1>1, <1>9, <1>11, <1>12 DEF RowsHeld, IdleHoldsNone, ReadIsCurrent, OverHeld
<1>16. OverMoved(w)' /\ Progress(w)'
  BY <1>9, <1>13, <1>14 DEF OverMoved, Progress
<1> QED
  BY <1>1, <1>7, <1>8, <1>15, <1>16, StepKeeps DEF Own1

LEMMA CommitKeeps ==
    ASSUME LockInv, NEW w \in Workers, Commit(w)
    PROVE  LockInv'
<1>1. /\ pc[w] = "commit" /\ End(w)
      /\ points' = [u \in Users |->
            IF u \in tx[w].rows \cup tx[w].over THEN Taken(w, u) ELSE points[u]]
      /\ title' = IF tx[w].new = None THEN title ELSE (title \ {tx[w].old}) \cup {tx[w].new}
      /\ ledger' = [u \in Users |->
            IF u \in tx[w].rows THEN Updated(tx[w].kind, ledger[u], tx[w].amount)
                                ELSE ledger[u]]
      /\ exposed' \subseteq exposed \cup Users
  BY DEF Commit
<1>2. Typed /\ Own1(w) /\ tx[w] \in Transactions
  BY DEF LockInv, Typed
<1>3. points' \in [Users -> Nat]
  BY <1>1, <1>2, TakenIsNat DEF Typed
<1>4. ledger' \in [Users -> Nat]
  <2>1. tx[w].kind \in Kinds /\ tx[w].amount \in Nat /\ \A u \in Users : ledger[u] \in Nat
    BY <1>2 DEF Typed, Transactions
  <2> QED
    BY <1>1, <2>1, AmountsAreNat
<1>5. title' \subseteq Users /\ exposed' \subseteq Users
  BY <1>1, <1>2 DEF Typed, Transactions
<1>6. begun' = begun
  BY <1>1 DEF End
<1>7. Typed'
  BY <1>1, <1>2, <1>3, <1>4, <1>5, <1>6, EndKeeps DEF Typed
<1>8. ASSUME NEW v \in Workers \ {w}, NEW u \in Users, lock[u] = v
      PROVE  points'[u] = points[u]
  <2>1. u \notin tx[w].rows \cup tx[w].over
    BY <1>1, <1>2, <1>8 DEF Own1, RowsHeld, OverHeld
  <2> QED
    BY <1>1, <2>1
<1> QED
  BY <1>1, <1>7, <1>8, EndKeeps, StepKeeps

LEMMA AbortKeeps ==
    ASSUME LockInv, NEW w \in Workers, End(w), UNCHANGED <<points, title, history>>
    PROVE  LockInv'
<1>1. Typed' /\ UNCHANGED points
  BY EndKeeps DEF LockInv, Typed, End, history
<1> QED
  BY <1>1, EndKeeps, StepKeeps

LEMMA InitLocks == Init => LockInv
<1> SUFFICES ASSUME Init PROVE LockInv
  OBVIOUS
<1>1. points \in [Users -> Nat] /\ ledger \in [Users -> Nat] /\ begun \in 0..MaxTx
      /\ title \subseteq Users /\ exposed \subseteq Users
      /\ lock \in [Users -> Workers \cup {None}]
  BY RelationshipAssumption DEF Init
<1>2. pc \in [Workers -> States] /\ tx \in [Workers -> Transactions]
  BY NoTxTyped DEF Init, States
<1>3. ASSUME NEW w \in Workers PROVE Own1(w)
  <2>1. pc[w] = "idle" /\ tx[w] = NoTx /\ \A u \in Users : lock[u] # w
    BY RelationshipAssumption DEF Init
  <2> QED
    BY <2>1 DEF Own1, RowsHeld, IdleHoldsNone, ReadIsCurrent, OverHeld, OverMoved,
       Progress, NoTx
<1> QED
  BY <1>1, <1>2, <1>3 DEF LockInv, Typed

LEMMA ExecuteKeeps ==
    ASSUME LockInv, NEW w \in Workers, Execute(w)
    PROVE  LockInv'
<1>1. CASE UpdateOld(w)
  <2>1. pc[w] = "old" /\ tx[w].old \in Users /\ tx[w].new \in Users
    BY <1>1 DEF UpdateOld, LockInv, Own1, Progress
  <2> QED
    BY <1>1, <2>1, UpdateKeeps DEF UpdateOld, Free
<1>2. CASE UpdateNew(w)
  <2>1. pc[w] = "new" /\ tx[w].new \in Users
    BY <1>2 DEF UpdateNew, LockInv, Own1, Progress
  <2> QED
    BY <1>2, <2>1, UpdateKeeps DEF UpdateNew, Free
<1>3. CASE Refused(w) \/ Victim(w)
  BY <1>3, AbortKeeps DEF Refused, Victim
<1> QED
  BY <1>1, <1>2, <1>3, LockRowKeeps, LockedKeeps, ReadTitleKeeps, DecideKeeps, CommitKeeps
     DEF Execute

LEMMA NextKeeps == LockInv /\ [Next]_vars => LockInv'
<1> SUFFICES ASSUME LockInv, [Next]_vars PROVE LockInv'
  OBVIOUS
<1>1. ASSUME NEW w \in Workers, Execute(w) PROVE LockInv'
  BY <1>1, ExecuteKeeps
<1>2. ASSUME NEW w \in Workers, NEW k \in Kinds, NEW S \in SUBSET Users, NEW n \in Nat,
             Begin(w, k, S, n)
      PROVE  LockInv'
  BY <1>2, BeginKeeps
<1>3. CASE UNCHANGED vars
  BY <1>3 DEF vars, history, LockInv, Typed, Own1, RowsHeld, IdleHoldsNone,
     ReadIsCurrent, OverHeld, OverMoved, Progress
<1>4. CASE Next
  <2>1. PICK w \in Workers :
           \/ Execute(w)
           \/ \E u \in Users, n \in Awards : Begin(w, "award", {u}, n)
           \/ \E u \in Users, n \in Settings : Begin(w, "set", {u}, n)
           \/ \E S \in SUBSET Users \ {{}}, n \in Decays : Begin(w, "decay", S, n)
    BY <1>4 DEF Next
  <2>2. ASSUME NEW u \in Users, NEW n \in Awards, Begin(w, "award", {u}, n) PROVE LockInv'
    BY <1>2, <2>2, RelationshipAssumption DEF Kinds
  <2>3. ASSUME NEW u \in Users, NEW n \in Settings, Begin(w, "set", {u}, n) PROVE LockInv'
    BY <1>2, <2>3, RelationshipAssumption DEF Kinds
  <2>4. ASSUME NEW S \in SUBSET Users, NEW n \in Decays, Begin(w, "decay", S, n) PROVE LockInv'
    BY <1>2, <2>4, RelationshipAssumption DEF Kinds
  <2> QED
    BY <1>1, <2>1, <2>2, <2>3, <2>4
<1> QED
  BY <1>3, <1>4

(* Every variable keeps its type, and a transaction that has read the      *)
(* title holds the rows it will write.                                     *)
THEOREM TypeCorrect == Spec => []TypeOK
<1>1. LockInv => TypeOK
  BY DEF LockInv, Typed, TypeOK, Own1, RowsHeld, States
<1> QED
  BY InitLocks, NextKeeps, <1>1, PTL DEF Spec

(* The row lock of get_or_create keeps every update: with any number of    *)
(* transactions, refusals and deadlocks, the points of a member are what   *)
(* the committed operations add up to, unless decay has moved the title    *)
(* from or to them without having locked their row.                        *)
THEOREM NoUpdateLost == Spec => []NoLostUpdate
<1>1. Init => NoLostUpdate
  BY DEF Init, NoLostUpdate
<1>2. LockInv /\ NoLostUpdate /\ [Next]_vars => NoLostUpdate'
  <2> SUFFICES ASSUME LockInv, NoLostUpdate, [Next]_vars PROVE NoLostUpdate'
    OBVIOUS
  <2>1. ASSUME NEW w \in Workers, Commit(w) PROVE NoLostUpdate'
    <3> SUFFICES ASSUME NEW u \in Users, u \notin exposed' PROVE points'[u] = ledger'[u]
      BY DEF NoLostUpdate
    <3>1. u \notin exposed /\ points[u] = ledger[u]
      BY <2>1 DEF Commit, NoLostUpdate
    <3>2. CASE u \in tx[w].rows
      <4>1. tx[w].read[u] = points[u]
        BY <2>1, <3>2 DEF Commit, LockInv, Own1, RowsHeld, ReadIsCurrent
      <4>2. points'[u] = Updated(tx[w].kind, tx[w].read[u], tx[w].amount)
        BY <2>1, <3>2 DEF Commit, Taken, Own
      <4> QED
        BY <2>1, <3>1, <3>2, <4>1, <4>2 DEF Commit
    <3>3. CASE u \notin tx[w].rows
      <4>1. u \notin tx[w].over
        BY <2>1, <3>3 DEF Commit, LockInv, Own1, OverMoved, Progress
      <4> QED
        BY <2>1, <3>1, <3>3, <4>1 DEF Commit
    <3> QED
      BY <3>2, <3>3
  <2>2. ASSUME UNCHANGED <<points, ledger, exposed>> PROVE NoLostUpdate'
    BY <2>2 DEF NoLostUpdate
  <2>3. ASSUME NEW w \in Workers, NEW k, NEW S, NEW n, Begin(w, k, S, n)
        PROVE  NoLostUpdate'
    BY <2>2, <2>3 DEF Begin, history
  <2>4. ASSUME NEW w \in Workers, NEW u \in Users, LockRow(w, u) PROVE NoLostUpdate'
    BY <2>2, <2>4 DEF LockRow, history
  <2>5. ASSUME NEW w \in Workers, Locked(w) \/ ReadTitle(w) \/ Decide(w)
        PROVE  NoLostUpdate'
    BY <2>2, <2>5 DEF Locked, ReadTitle, Decide, history
  <2>6. ASSUME NEW w \in Workers, UpdateOld(w) \/ UpdateNew(w) \/ Refused(w) \/ Victim(w)
        PROVE  NoLostUpdate'
    BY <2>2, <2>6 DEF UpdateOld, UpdateNew, Refused, Victim, history
  <2>7. ASSUME NEW w \in Workers, Execute(w) PROVE NoLostUpdate'
    BY <2>1, <2>4, <2>5, <2>6, <2>7 DEF Execute
  <2>8. CASE UNCHANGED vars
    BY <2>2, <2>8 DEF vars, history
  <2> QED
    BY <2>3, <2>7, <2>8 DEF Next
<1> QED
  BY <1>1, <1>2, InitLocks, NextKeeps, PTL DEF Spec

(* Of the transactions that have given the title and not committed there   *)
(* is one at most, and the rows with the title are those it rewrites.      *)
Giving(w) == pc[w] = "commit" /\ tx[w].new # None
TitleInv ==
    /\ OneTitle
    /\ \A w \in Workers : Giving(w) => title \subseteq {tx[w].old, tx[w].new}
    /\ \A w, v \in Workers : Giving(w) /\ Giving(v) => w = v

LEMMA GivesOnlyUpdateNew ==
    ASSUME LockInv, NEW w \in Workers, Execute(w), ~UpdateNew(w)
    PROVE  \A v \in Workers :
              Giving(v)' => Giving(v) /\ tx'[v].old = tx[v].old /\ tx'[v].new = tx[v].new
<1>0. Typed
  BY DEF LockInv
<1>1. CASE Refused(w) \/ Commit(w) \/ Victim(w)
  <2>1. Frame(w) /\ pc'[w] = "idle"
    BY <1>0, <1>1, EndKeeps DEF Refused, Commit, Victim, End, Goto, Typed
  <2> QED
    BY <2>1 DEF Frame, Giving
<1>2. CASE (\E u \in Users : LockRow(w, u)) \/ Locked(w) \/ ReadTitle(w) \/ UpdateOld(w)
  <2>1. /\ pc'[w] # "commit"
        /\ \A v \in Workers \ {w} : pc'[v] = pc[v] /\ tx'[v] = tx[v]
    <3>1. CASE \E u \in Users : LockRow(w, u)
      BY <1>0, <3>1 DEF LockRow, Typed
    <3>2. CASE Locked(w)
      BY <1>0, <3>2 DEF Locked, Goto, Typed
    <3>3. CASE ReadTitle(w)
      BY <1>0, <3>3 DEF ReadTitle, Goto, Typed
    <3>4. CASE UpdateOld(w)
      BY <1>0, <3>4 DEF UpdateOld, Overwrite, Goto, Typed
    <3> QED
      BY <1>2, <3>1, <3>2, <3>3, <3>4
  <2> QED
    BY <2>1 DEF Giving
<1>3. CASE Decide(w)
  <2>1. pc[w] = "top" /\ tx[w].new = None /\ tx[w] \in Transactions
    BY <1>0, <1>3 DEF Decide, LockInv, Own1, Progress, Typed
  <2>2. \A v \in Workers \ {w} : pc'[v] = pc[v] /\ tx'[v] = tx[v]
    BY <1>0, <1>3 DEF Decide, Goto, Typed
  <2>3. pc'[w] # "commit" \/ tx'[w].new = None
    <3>1. FirstSaved(w) # "commit"
      BY DEF FirstSaved
    <3>2. CASE tx' = [tx EXCEPT ![w].old = None]
      BY <1>0, <2>1, <3>2 DEF Typed, Transactions
    <3>3. CASE Goto(w, FirstSaved(w))
      BY <1>0, <3>1, <3>3 DEF Goto, Typed
    <3> QED
      BY <1>3, <3>2, <3>3 DEF Decide
  <2> QED
    BY <2>2, <2>3 DEF Giving
<1> QED
  BY <1>1, <1>2, <1>3 DEF Execute

(* There is at most one "only one", whatever transactions overlap.         *)
THEOREM OneHolder == Spec => []OneTitle
<1>1. Init => TitleInv
  BY DEF Init, TitleInv, OneTitle, Giving
<1>2. LockInv /\ TitleInv /\ [Next]_vars => TitleInv'
  <2> SUFFICES ASSUME LockInv, TitleInv, [Next]_vars PROVE TitleInv'
    OBVIOUS
  <2>0. Typed
    BY DEF LockInv
  <2>1. ASSUME NEW w \in Workers, UpdateNew(w) PROVE TitleInv'
    <3>1. /\ title' = title /\ pc' = [pc EXCEPT ![w] = "commit"] /\ ~Claimed(w)
          /\ InTheWay(w) = {} /\ Overwrite(w, tx[w].new)
      BY <2>1 DEF UpdateNew, Goto
    <3>2. title \subseteq {tx[w].old, tx[w].new}
      BY <2>0, <3>1 DEF InTheWay, Typed
    <3>3. /\ tx'[w].old = tx[w].old /\ tx'[w].new = tx[w].new
          /\ \A v \in Workers \ {w} : tx'[v] = tx[v] /\ pc'[v] = pc[v]
      BY <2>0, <3>1 DEF Overwrite, Typed, Transactions
    <3>4. \A v \in Workers \ {w} : ~Giving(v)
      BY <3>1 DEF Claimed, Claims, Giving
    <3>5. \A v \in Workers : Giving(v)' => v = w
      BY <3>3, <3>4 DEF Giving
    <3> QED
      BY <3>1, <3>2, <3>3, <3>5 DEF TitleInv, OneTitle
  <2>2. ASSUME NEW w \in Workers, Execute(w), ~UpdateNew(w) PROVE TitleInv'
    <3>1. \A v \in Workers :
             Giving(v)' => Giving(v) /\ tx'[v].old = tx[v].old /\ tx'[v].new = tx[v].new
      BY <2>2, GivesOnlyUpdateNew
    <3>2. CASE title' = title
      BY <3>1, <3>2 DEF TitleInv, OneTitle
    <3>3. CASE Commit(w) /\ tx[w].new # None
      <4>1. Giving(w) /\ title' = (title \ {tx[w].old}) \cup {tx[w].new}
        BY <3>3 DEF Commit, Giving
      <4>2. title' = {tx[w].new}
        BY <4>1 DEF TitleInv
      <4>3. \A v \in Workers : ~Giving(v)'
        <5>1. pc'[w] = "idle"
          BY <2>0, <3>3, SMTT(60) DEF Commit, End, Goto, Typed
        <5> QED
          BY <3>1, <4>1, <5>1 DEF TitleInv, Giving
      <4> QED
        BY <4>2, <4>3 DEF TitleInv, OneTitle
    <3>4. title' = title \/ (Commit(w) /\ tx[w].new # None)
      BY <2>2 DEF Execute, LockRow, Locked, ReadTitle, Decide, UpdateOld, Refused, Commit,
         Victim
    <3> QED
      BY <3>2, <3>3, <3>4
  <2>3. ASSUME NEW w \in Workers, NEW k, NEW S, NEW n, Begin(w, k, S, n) PROVE TitleInv'
    <3>1. /\ title' = title /\ pc'[w] = "lock"
          /\ \A v \in Workers \ {w} : tx'[v] = tx[v] /\ pc'[v] = pc[v]
      BY <2>0, <2>3 DEF Begin, Goto, Typed
    <3> QED
      BY <3>1 DEF TitleInv, OneTitle, Giving
  <2>4. CASE UNCHANGED vars
    BY <2>4 DEF TitleInv, OneTitle, Giving, vars
  <2> QED
    BY <2>1, <2>2, <2>3, <2>4 DEF Next
<1>3. TitleInv => OneTitle
  BY DEF TitleInv
<1> QED
  BY <1>1, <1>2, <1>3, InitLocks, NextKeeps, PTL DEF Spec

-----------------------------------------------------------------------------
(* Transactions that do not overlap. What such a transaction has read of   *)
(* the holder and of the challenger stays true until it commits, so the    *)
(* points it has compared are those that it leaves behind.                 *)
TakenOf(t, u) == IF u \in t.rows THEN Updated(t.kind, t.read[u], t.amount) ELSE t.read[u]
Current(t, u) == u \in Users \ t.rows => t.read[u] = points[u]
Exceeding(t) == t.old # None => TakenOf(t, t.new) > TakenOf(t, t.old)

Before(w) == pc[w] \in {"lock", "title"} => tx[w].old = None
Chosen(w) == pc[w] = "top" => title \subseteq {tx[w].old} /\ Current(tx[w], tx[w].old)
Decided(w) ==
    pc[w] \in {"old", "new", "commit"} /\ tx[w].new # None =>
        /\ title \subseteq {tx[w].old} /\ Exceeding(tx[w])
        /\ Current(tx[w], tx[w].old) /\ Current(tx[w], tx[w].new)
AloneTx(w) == Before(w) /\ Chosen(w) /\ Decided(w)
AloneInv == ~met => ~Meet /\ \A w \in Workers : AloneTx(w)

LEMMA AloneReads ==
    ASSUME LockInv, OneTitle, NEW w \in Workers, ReadTitle(w), AloneTx(w)
    PROVE  AloneTx(w)'
<1>1. /\ pc[w] = "title" /\ pc'[w] = "top" /\ UNCHANGED <<points, title>>
      /\ tx[w].old = None /\ tx[w] \in Transactions /\ title \subseteq Users
  BY DEF ReadTitle, Goto, LockInv, Typed, AloneTx, Before
<1>2. CASE title = {} /\ UNCHANGED tx
  BY <1>1, <1>2, RelationshipAssumption DEF AloneTx, Before, Chosen, Decided, Current
<1>3. ASSUME NEW h \in title,
             tx' = [tx EXCEPT ![w].old = h,
                              ![w].read[h] = IF h \in tx[w].rows THEN @ ELSE points[h]]
      PROVE  AloneTx(w)'
  <2>1. title = {h}
    BY <1>3 DEF OneTitle
  <2>2. /\ tx'[w].old = h /\ tx'[w].rows = tx[w].rows
        /\ h \notin tx[w].rows => tx'[w].read[h] = points[h]
    BY <1>1, <1>3 DEF LockInv, Typed, Transactions
  <2> QED  BY <1>1, <2>1, <2>2 DEF AloneTx, Before, Chosen, Decided, Current
<1> QED  BY <1>1, <1>2, <1>3 DEF ReadTitle

LEMMA AloneDecides ==
    ASSUME LockInv, NEW w \in Workers, Decide(w), AloneTx(w)
    PROVE  AloneTx(w)'
<1>1. /\ pc[w] = "top" /\ UNCHANGED <<points, title>> /\ tx[w] \in Transactions
      /\ title \subseteq {tx[w].old} /\ Current(tx[w], tx[w].old)
      /\ tx[w].new = None
  BY DEF Decide, LockInv, Typed, AloneTx, Chosen, Own1, Progress
<1>2. CASE tx' = [tx EXCEPT ![w].old = None] /\ Goto(w, "commit")
  <2>1. pc'[w] = "commit" /\ tx'[w].new = None
    BY <1>1, <1>2 DEF Goto, LockInv, Typed, Transactions
  <2> QED  BY <2>1 DEF AloneTx, Before, Chosen, Decided
<1>3. ASSUME NEW u \in Users, Passes(w, u),
             tx' = [tx EXCEPT ![w].new = u,
                              ![w].read[u] = IF u \in tx[w].rows THEN @ ELSE points[u]],
             Goto(w, FirstSaved(w))
      PROVE  AloneTx(w)'
  <2> DEFINE t == tx'[w]
  <2>1. /\ t.new = u /\ t.old = tx[w].old /\ t.rows = tx[w].rows /\ t.kind = tx[w].kind
        /\ t.amount = tx[w].amount
        /\ \A x \in Users : x # u => t.read[x] = tx[w].read[x]
        /\ t.read[u] = IF u \in tx[w].rows THEN tx[w].read[u] ELSE points[u]
    BY <1>1, <1>3 DEF LockInv, Typed, Transactions
  <2>2. pc'[w] \in {"old", "new"}
    BY <1>3 DEF Goto, FirstSaved, LockInv, Typed
  <2>3. u # tx[w].old /\ (tx[w].old # None => Seen(w, u) > Taken(w, tx[w].old))
    BY <1>3 DEF Passes, Exceeds
  <2> HIDE DEF t
  <2>4. TakenOf(t, u) = Seen(w, u)
    BY <2>1 DEF TakenOf, Seen, Own
  <2>5. tx[w].old # None => TakenOf(t, t.old) = Taken(w, tx[w].old)
    <3>1. tx[w].old # None => tx[w].old \in Users
      BY <1>1 DEF Transactions
    <3> QED  BY <3>1, <2>1, <2>3 DEF TakenOf, Taken, Own
  <2>6. Exceeding(t)
    BY <2>1, <2>3, <2>4, <2>5 DEF Exceeding
  <2>7. (Current(tx[w], tx[w].old) /\ Current(tx[w], tx[w].new))'
    BY <1>1, <2>1, <2>3 DEF Current, t
  <2> QED  BY <1>1, <2>1, <2>2, <2>6, <2>7 DEF AloneTx, Before, Chosen, Decided, t
<1> QED  BY <1>2, <1>3 DEF Decide

LEMMA AloneUpdates ==
    ASSUME LockInv, NEW w \in Workers, UpdateOld(w) \/ UpdateNew(w), AloneTx(w)
    PROVE  AloneTx(w)'
<1>1. /\ pc[w] \in {"old", "new"} /\ pc'[w] \in {"new", "commit"} /\ UNCHANGED <<points, title>>
      /\ tx[w] \in Transactions
  BY DEF UpdateOld, UpdateNew, Goto, LockInv, Typed
<1>2. PICK S : tx' = [tx EXCEPT ![w].over = @ \cup S]
  BY DEF UpdateOld, UpdateNew, Overwrite
<1>3. /\ tx'[w].old = tx[w].old /\ tx'[w].new = tx[w].new /\ tx'[w].rows = tx[w].rows
      /\ tx'[w].read = tx[w].read /\ tx'[w].kind = tx[w].kind /\ tx'[w].amount = tx[w].amount
  BY <1>1, <1>2 DEF LockInv, Typed, Transactions
<1>4. Decided(w)'
  BY <1>1, <1>3 DEF AloneTx, Decided, Exceeding, TakenOf, Current
<1> QED  BY <1>1, <1>4 DEF AloneTx, Before, Chosen

LEMMA AloneExecutes ==
    ASSUME LockInv, OneTitle, NEW w \in Workers, Execute(w), AloneTx(w)
    PROVE  AloneTx(w)'
<1>1. ASSUME NEW u \in Users, LockRow(w, u) PROVE AloneTx(w)'
  <2>1. pc'[w] = "lock" /\ pc[w] = "lock" /\ tx'[w].old = tx[w].old
    BY <1>1 DEF LockRow, LockInv, Typed, Transactions
  <2> QED  BY <2>1 DEF AloneTx, Before, Chosen, Decided
<1>2. CASE Locked(w)
  <2>1. pc'[w] = "title" /\ pc[w] = "lock" /\ tx' = tx
    BY <1>2 DEF Locked, Goto, LockInv, Typed
  <2> QED  BY <2>1 DEF AloneTx, Before, Chosen, Decided
<1>3. CASE Refused(w) \/ Commit(w) \/ Victim(w)
  <2>1. pc'[w] = "idle"
    BY <1>3 DEF Refused, Commit, Victim, End, Goto, LockInv, Typed
  <2> QED  BY <2>1 DEF AloneTx, Before, Chosen, Decided
<1> QED  BY <1>1, <1>2, <1>3, AloneReads, AloneDecides, AloneUpdates DEF Execute

LEMMA AloneNext == LockInv /\ OneTitle /\ AloneInv /\ [MCNext]_mcVars => AloneInv'
<1> SUFFICES ASSUME LockInv, OneTitle, AloneInv, [MCNext]_mcVars, ~met'
             PROVE  ~Meet' /\ \A v \in Workers : AloneTx(v)'
  BY DEF AloneInv
<1>1. CASE UNCHANGED mcVars
  <2>1. met' = met /\ UNCHANGED <<points, title, pc, tx>>
    BY <1>1 DEF mcVars, vars
  <2> QED
    BY <2>1 DEF AloneInv, Meet, AloneTx, Before, Chosen, Decided, Current
<1>2. CASE MCNext
  <2>1. Next /\ ~met /\ ~Meet'
    <3>1. Next /\ met' = (met \/ Meet')
      BY <1>2 DEF MCNext
    <3> QED  BY <3>1
  <2>2. PICK w \in Workers :
           \/ Execute(w)
           \/ \E k \in Kinds, S \in SUBSET Users, n \in Nat : Begin(w, k, S, n)
    <3>1. PICK w \in Workers :
             \/ Execute(w)
             \/ \E u \in Users, n \in Awards : Begin(w, "award", {u}, n)
             \/ \E u \in Users, n \in Settings : Begin(w, "set", {u}, n)
             \/ \E S \in SUBSET Users \ {{}}, n \in Decays : Begin(w, "decay", S, n)
      BY <2>1 DEF Next
    <3> QED  BY <3>1, RelationshipAssumption DEF Kinds
  <2>3. ~Meet /\ \A v \in Workers : AloneTx(v)
    BY <2>1 DEF AloneInv
  <2>4. AloneTx(w)' /\ (pc[w] # "idle" \/ pc'[w] # "idle")
    <3>1. CASE Execute(w)
      <4>1. pc[w] # "idle"
        <5>1. Victim(w) => pc[w] # "idle"
          BY DEF Victim, Deadlocked, WaitsFor, Wanted
        <5> QED  BY <3>1, <5>1 DEF Execute, LockRow, Locked, ReadTitle, Decide, UpdateOld,
                    UpdateNew, Refused, Commit
      <4> QED  BY <3>1, <4>1, <2>3, AloneExecutes, SMTT(60)
    <3>2. ASSUME NEW k \in Kinds, NEW S \in SUBSET Users, NEW n \in Nat, Begin(w, k, S, n)
          PROVE  AloneTx(w)' /\ pc'[w] # "idle"
      <4>1. pc'[w] = "lock" /\ tx'[w].old = None
        BY <3>2 DEF Begin, Goto, NoTx, LockInv, Typed
      <4> QED  BY <4>1 DEF AloneTx, Before, Chosen, Decided
    <3> QED  BY <2>2, <3>1, <3>2
  <2>5. \A v \in Workers : v # w => pc'[v] = pc[v]
    <3>1. ASSUME NEW l, Goto(w, l) PROVE \A v \in Workers : v # w => pc'[v] = pc[v]
      BY <3>1, SMTT(60) DEF Goto, LockInv, Typed
    <3>2. Execute(w) => UNCHANGED pc \/ \E l : Goto(w, l)
      BY DEF Execute, LockRow, Locked, ReadTitle, Decide, UpdateOld, UpdateNew, Refused, Commit,
         Victim, End
    <3>3. \A k, S, n : Begin(w, k, S, n) => \E l : Goto(w, l)
      BY DEF Begin
    <3> QED  BY <2>2, <3>1, <3>2, <3>3
  <2>6. ASSUME NEW v \in Workers, v # w PROVE AloneTx(v)'
    <3>1. pc'[v] = "idle"
      BY <2>1, <2>3, <2>4, <2>5, <2>6 DEF Meet
    <3> QED  BY <3>1 DEF AloneTx, Before, Chosen, Decided
  <2> QED  BY <2>1, <2>4, <2>6
<1> QED  BY <1>1, <1>2

LEMMA AloneCommits ==
    ASSUME LockInv, NEW w \in Workers, Commit(w), AloneTx(w),
           NEW u \in title' \ title, NEW h \in title
    PROVE  points'[u] > points'[h]
<1>1. /\ pc[w] = "commit" /\ tx[w] \in Transactions /\ title \subseteq Users
      /\ points' = [x \in Users |->
            IF x \in tx[w].rows \cup tx[w].over THEN Taken(w, x) ELSE points[x]]
      /\ tx[w].new # None /\ u = tx[w].new
  BY DEF Commit, LockInv, Typed
<1>2. /\ h = tx[w].old /\ Exceeding(tx[w])
      /\ Current(tx[w], tx[w].old) /\ Current(tx[w], tx[w].new)
  BY <1>1 DEF AloneTx, Decided
<1>3. u \in Users /\ h \in Users /\ h # None
  BY <1>1, RelationshipAssumption DEF Transactions
<1>4. ASSUME NEW x \in Users, Current(tx[w], x) PROVE points'[x] = TakenOf(tx[w], x)
  BY <1>1, <1>4 DEF Current, Taken, TakenOf, Own
<1>5. points'[u] = TakenOf(tx[w], u) /\ points'[h] = TakenOf(tx[w], h)
  BY <1>1, <1>2, <1>3, <1>4
<1> QED  BY <1>1, <1>2, <1>3, <1>5 DEF Exceeding

(* The title passes on only when the points of its holder are strictly     *)
(* exceeded, by awards, corrections and decay, as long as transactions do  *)
(* not overlap.                                                            *)
THEOREM TitleIsExceeded == MCInit /\ [][MCNext]_mcVars => TitleByExceedingAlone
<1>1. MCInit => AloneInv
  BY DEF MCInit, Init, AloneInv, Meet, AloneTx, Before, Chosen, Decided
<1>2. MCInit /\ [][MCNext]_mcVars => Spec
  <2>1. [MCNext]_mcVars => [Next]_vars
    BY DEF MCNext, mcVars
  <2>2. MCInit => Init
    BY DEF MCInit
  <2> QED  BY <2>1, <2>2, PTL DEF Spec
<1>3. LockInv /\ OneTitle /\ AloneInv /\ [MCNext]_mcVars =>
        [~met' => \A u \in title' \ title, h \in title : points'[u] > points'[h]]_mcVars
  <2> SUFFICES ASSUME LockInv, OneTitle, AloneInv, [MCNext]_mcVars, ~UNCHANGED mcVars, ~met',
                      NEW u \in title' \ title, NEW h \in title
               PROVE  points'[u] > points'[h]
    OBVIOUS
  <2>1. Next /\ ~met
    <3>1. Next /\ met' = (met \/ Meet')
      BY DEF MCNext
    <3> QED  BY <3>1
  <2>2. PICK w \in Workers : Commit(w)
    BY <2>1 DEF Next, Execute, LockRow, Locked, ReadTitle, Decide, UpdateOld, UpdateNew, Refused,
       Victim, Begin
  <2> QED  BY <2>1, <2>2, AloneCommits DEF AloneInv
<1> QED
  BY <1>1, <1>2, <1>3, AloneNext, OneHolder, InitLocks, NextKeeps, PTL
  DEF TitleByExceedingAlone, Spec
=============================================================================
