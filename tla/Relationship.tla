------------------------------ MODULE Relationship ------------------------------
(***************************************************************************)
(* The points of the members of one server and the title of the "only      *)
(* one": awards, corrections by an admin, and decay, which move the title. *)
(*                                                                         *)
(*   application/relationship/use_cases/points.py, decay.py, _common.py    *)
(*   domain/relationship/entities.py, policies.py                          *)
(*   infrastructure/db/repositories/relationship.py  its locks and UPDATEs *)
(*                                                                         *)
(* A worker runs one transaction at a time. SELECT ... FOR UPDATE and      *)
(* UPDATE take the row's lock and wait for it; other SELECTs read what is  *)
(* committed. The unique index on the title refuses a second holder at the *)
(* UPDATE. Definitions marked "mutant" are bugs the runs must notice.      *)
(***************************************************************************)
EXTENDS Integers, FiniteSets

CONSTANTS
    Users,     \* user ids, whose order is that of the primary key
    Workers,   \* transactions that may be open at the same time
    None,
    Threshold, \* exclusive_threshold
    Awards, Settings, Decays, \* amounts added, set by an admin, taken off
    MaxTx      \* bound on transactions begun

ASSUME RelationshipAssumption ==
    /\ Users \subseteq Nat /\ None \notin Users /\ None \notin Workers
    /\ Awards \subseteq Nat /\ Settings \subseteq Nat /\ Decays \subseteq Nat
    /\ Threshold \in Nat /\ MaxTx \in Nat

Kinds == {"award", "set", "decay"}

VARIABLES
    points,  \* committed points
    title,   \* committed rows with is_exclusive
    lock,    \* lock[u]: the worker that holds the lock of the row of u
    pc,      \* pc[w]: where the transaction of w is
    tx,      \* tx[w]: what it has read and will write
    ledger,  \* history: points according to the committed operations
    exposed, \* history: whose rows decay has written without a lock at the read
    begun    \* bound: transactions begun

history == <<ledger, exposed>>
vars == <<points, title, lock, pc, tx, history, begun>>

(* rows are the rows it updates, amount what it adds or sets, read the     *)
(* points it has loaded; old and new are the holders of the title if it    *)
(* passes on, over those of the two whose points it writes as it read them.*)
NoTx == [kind |-> "award", rows |-> {}, amount |-> 0, read |-> [u \in Users |-> 0],
         old |-> None, new |-> None, over |-> {}]

Init ==
    /\ points = [u \in Users |-> 0] /\ title = {}
    /\ lock = [u \in Users |-> None]
    /\ pc = [w \in Workers |-> "idle"]
    /\ tx = [w \in Workers |-> NoTx]
    /\ ledger = points /\ exposed = {} /\ begun = 0

Goto(w, label) == pc' = [pc EXCEPT ![w] = label]
AlwaysFree(w, u) == TRUE \* mutant: no FOR UPDATE
Free(w, u) == lock[u] \in {None, w}
Take(w, u) == lock' = [lock EXCEPT ![u] = w]
Released(w) == [u \in Users |-> IF lock[u] = w THEN None ELSE lock[u]]

(* A message, an hour in voice or a film watched (a frozen profile or the  *)
(* daily cap makes it a transaction that changes no points, left out);     *)
(* /relationship points or the panel; the decay of members silent so long, *)
(* which the daily loop of the bot runs one at a time.                     *)
Begin(w, k, S, n) ==
    /\ pc[w] = "idle" /\ begun < MaxTx
    /\ k = "decay" => \A v \in Workers : pc[v] = "idle" \/ tx[v].kind # "decay"
    /\ begun' = begun + 1
    /\ tx' = [tx EXCEPT ![w] = [NoTx EXCEPT !.kind = k, !.rows = S, !.amount = n]]
    /\ Goto(w, "lock")
    /\ UNCHANGED <<points, title, lock, history>>

(* get_or_create, or list_decayable row by row.                            *)
LockRow(w, u) ==
    /\ pc[w] = "lock" /\ u \in tx[w].rows /\ lock[u] # w /\ Free(w, u)
    /\ Take(w, u)
    /\ tx' = [tx EXCEPT ![w].read[u] = points[u]]
    /\ UNCHANGED <<points, title, pc, history, begun>>

Locked(w) ==
    /\ pc[w] = "lock" /\ \A u \in tx[w].rows : lock[u] = w
    /\ Goto(w, "title")
    /\ UNCHANGED <<points, title, lock, tx, history, begun>>

Less(p, n) == IF p > n THEN p - n ELSE 0
Updated(k, p, n) ==
    CASE k = "award" -> p + n
      [] k = "set"   -> n
      [] k = "decay" -> Less(p, n)

(* The points it will give its own rows; what it has read of the others.   *)
Own(w, u) == Updated(tx[w].kind, tx[w].read[u], tx[w].amount)
Taken(w, u) == IF u \in tx[w].rows THEN Own(w, u) ELSE tx[w].read[u]

(* get_exclusive_holder, without a lock; the session sees its own UPDATEs. *)
ReadTitle(w) ==
    /\ pc[w] = "title"
    /\ Goto(w, "top")
    /\ \/ title = {} /\ UNCHANGED tx
       \/ \E h \in title :
            tx' = [tx EXCEPT ![w].old = h,
                             ![w].read[h] = IF h \in tx[w].rows THEN @ ELSE points[h]]
    /\ UNCHANGED <<points, title, lock, history, begun>>

(* The member that may take the title: after decay the leader of the       *)
(* server (top_by_points, a second SELECT), if there is a holder.          *)
Seen(w, u) == IF u \in tx[w].rows THEN Own(w, u) ELSE points[u]
Challengers(w) ==
    IF tx[w].kind = "decay"
      THEN {u \in Users : tx[w].old # None /\ \A v \in Users : Seen(w, u) >= Seen(w, v)}
      ELSE tx[w].rows

OrEqual(w, u) == Seen(w, u) >= Taken(w, tx[w].old) \* mutant
Exceeds(w, u) == Seen(w, u) > Taken(w, tx[w].old)

(* _reevaluate_exclusive: the title passes "only when the points of its    *)
(* holder are strictly exceeded".                                          *)
Passes(w, u) ==
    /\ u \in Challengers(w) /\ u # tx[w].old /\ Seen(w, u) >= Threshold
    /\ tx[w].old # None => Exceeds(w, u)

(* Each save() fetches the row, and that SELECT makes the session flush    *)
(* the row saved before: decay saves the holder first, the others the new  *)
(* one.                                                                    *)
FirstSaved(w) == IF tx[w].kind = "decay" /\ tx[w].old # None THEN "old" ELSE "new"

Decide(w) ==
    /\ pc[w] = "top"
    /\ \/ /\ \A u \in Users : ~Passes(w, u)
          /\ tx' = [tx EXCEPT ![w].old = None] /\ Goto(w, "commit")
       \/ \E u \in Users :
            /\ Passes(w, u)
            /\ tx' = [tx EXCEPT ![w].new = u,
                                ![w].read[u] = IF u \in tx[w].rows THEN @ ELSE points[u]]
            /\ Goto(w, FirstSaved(w))
    /\ UNCHANGED <<points, title, lock, history, begun>>

(* UPDATE sets the columns in which the entity differs from the row that   *)
(* save() has fetched: points that another transaction committed between   *)
(* the two SELECTs are set back to what was read first.                    *)
Overwrite(w, u) ==
    \E S \in SUBSET ({u} \ tx[w].rows) :
        /\ S # {} => points[u] # tx[w].read[u]
        /\ tx' = [tx EXCEPT ![w].over = @ \cup S]

(* The UPDATE that takes the title from its holder.                        *)
UpdateOld(w) ==
    /\ pc[w] = "old" /\ Free(w, tx[w].old)
    /\ Take(w, tx[w].old)
    /\ Overwrite(w, tx[w].old)
    /\ Goto(w, "new")
    /\ UNCHANGED <<points, title, history, begun>>

(* The rows that stand in the way of the UPDATE that gives it: committed   *)
(* holders it has not taken it from.                                       *)
NoIndex(w) == {} \* mutant
InTheWay(w) ==
    title \ {u \in Users : u = tx[w].new \/ (u = tx[w].old /\ lock[u] = w)}

(* The index makes it wait for a transaction that has taken the title away *)
(* or given it and has not committed.                                      *)
Claims(v) ==
    \/ pc[v] = "commit" /\ tx[v].new # None
    \/ pc[v] = "new" /\ FirstSaved(v) = "old"
Claimed(w) == \E v \in Workers \ {w} : Claims(v)

UpdateNew(w) ==
    /\ pc[w] = "new" /\ Free(w, tx[w].new) /\ ~Claimed(w)
    /\ InTheWay(w) = {}
    /\ Take(w, tx[w].new)
    /\ Overwrite(w, tx[w].new)
    /\ Goto(w, "commit")
    /\ UNCHANGED <<points, title, history, begun>>

End(w) ==
    /\ lock' = Released(w)
    /\ tx' = [tx EXCEPT ![w] = NoTx]
    /\ Goto(w, "idle")
    /\ UNCHANGED begun

(* IntegrityError: the transaction is rolled back.                         *)
Refused(w) ==
    /\ pc[w] = "new" /\ Free(w, tx[w].new) /\ ~Claimed(w)
    /\ InTheWay(w) # {}
    /\ End(w) /\ UNCHANGED <<points, title, history>>

Commit(w) ==
    /\ pc[w] = "commit"
    /\ points' = [u \in Users |->
        IF u \in tx[w].rows \cup tx[w].over THEN Taken(w, u) ELSE points[u]]
    /\ title' = IF tx[w].new = None THEN title
                ELSE (title \ {tx[w].old}) \cup {tx[w].new}
    /\ ledger' = [u \in Users |->
        IF u \in tx[w].rows THEN Updated(tx[w].kind, ledger[u], tx[w].amount)
                            ELSE ledger[u]]
    /\ exposed' = exposed \cup
        ({u \in Users : tx[w].new # None /\ u \in {tx[w].old, tx[w].new}} \ tx[w].rows)
    /\ End(w)

(* The database ends a deadlock by failing one of its transactions.        *)
Wanted(w) ==
    CASE pc[w] = "lock" -> {u \in tx[w].rows : lock[u] # w}
      [] pc[w] = "old"  -> {tx[w].old}
      [] pc[w] = "new"  -> {tx[w].new}
      [] OTHER          -> {}

WaitsFor(w, v) ==
    /\ w # v
    /\ \/ \E u \in Wanted(w) : lock[u] = v
       \/ pc[w] = "new" /\ Free(w, tx[w].new) /\ Claims(v)

NoDetector(w) == FALSE \* mutant
Deadlocked(w) ==
    \E S \in SUBSET Workers :
        w \in S /\ \A v \in S : \E x, y \in S : WaitsFor(v, x) /\ WaitsFor(y, v)

Victim(w) ==
    /\ Deadlocked(w)
    /\ End(w) /\ UNCHANGED <<points, title, history>>

Execute(w) ==
    \/ \E u \in Users : LockRow(w, u)
    \/ Locked(w) \/ ReadTitle(w) \/ Decide(w) \/ UpdateOld(w) \/ UpdateNew(w)
    \/ Refused(w) \/ Commit(w) \/ Victim(w)

Next ==
    \E w \in Workers :
        \/ Execute(w)
        \/ \E u \in Users, n \in Awards : Begin(w, "award", {u}, n)
        \/ \E u \in Users, n \in Settings : Begin(w, "set", {u}, n)
        \/ \E S \in SUBSET Users \ {{}}, n \in Decays : Begin(w, "decay", S, n)

Spec == Init /\ [][Next]_vars

-----------------------------------------------------------------------------
Transactions ==
    [kind : Kinds, rows : SUBSET Users, amount : Nat, read : [Users -> Nat],
     old : Users \cup {None}, new : Users \cup {None}, over : SUBSET Users]

(* Every variable has its type, and what has read the title holds its rows.*)
TypeOK ==
    /\ points \in [Users -> Nat] /\ ledger \in [Users -> Nat]
    /\ title \subseteq Users /\ exposed \subseteq Users
    /\ lock \in [Users -> Workers \cup {None}]
    /\ pc \in [Workers -> {"idle", "lock", "title", "top", "old", "new", "commit"}]
    /\ tx \in [Workers -> Transactions]
    /\ begun \in 0..MaxTx
    /\ \A w \in Workers : pc[w] \notin {"idle", "lock"} =>
        \A u \in tx[w].rows : lock[u] = w

(* get_or_create: without its lock "read-modify-write in save() would wipe *)
(* out the other's update": the points are what the committed operations   *)
(* add up to, except for the two members between whom a decay has moved    *)
(* the title after reading their rows without a lock.                      *)
NoLostUpdate == \A u \in Users \ exposed : points[u] = ledger[u]

(* "One only one per guild", whatever overlaps.                            *)
OneTitle == \A u, h \in title : u = h

(* No transaction waits for ever: a deadlock of decay and an award is      *)
(* ended by the database.                                                  *)
EveryTransactionEnds == \A w \in Workers : pc[w] # "idle" ~> pc[w] = "idle"
=============================================================================
