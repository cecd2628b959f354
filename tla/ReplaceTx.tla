------------------------------- MODULE ReplaceTx -------------------------------
(***************************************************************************)
(* The replace transactions of the PostgreSQL repository (ReplacePackages, *)
(* ReplaceQuestions, ReplaceMedia), which have one shape: DELETE the       *)
(* children of the gig, INSERT the new ones one by one, UPDATE the row of  *)
(* the gig, COMMIT; any error rolls back.                                  *)
(*                                                                         *)
(* The transactions run at READ COMMITTED, statement by statement.  A      *)
(* DELETE works on the children committed when it starts; it waits for     *)
(* those another transaction is deleting, and skips them when they are     *)
(* gone.  An INSERT meets the unique index on (gig, position): it waits    *)
(* for a transaction that is inserting or deleting the position, and fails *)
(* on a committed row.  (The tier of a package determines its position.)   *)
(***************************************************************************)
EXTENDS Naturals, FiniteSets

CONSTANTS Workers,
          Sizes,       \* numbers of children a request can bring
          Last,        \* the last position
          MaxRequests, \* bound: transactions begun
          Nobody

ASSUME ReplaceTxAssumption ==
    /\ Last \in Nat
    /\ MaxRequests \in Nat
    /\ Sizes \subseteq 0 .. Last
    /\ Nobody \notin Nat

VARIABLES table,    \* table[p]: the request whose child is committed at p
          parent,   \* the request that wrote the row of the gig last
          lock,     \* the worker whose UPDATE holds the row of the gig
          stage,    \* stage[w]: the statement worker w is at
          id,       \* id[w]: the request of w
          size,     \* size[w]: the number of children it brings
          snapshot, \* snapshot[w]: the children its DELETE works on
          deleted,  \* deleted[w]: positions it has deleted, not yet committed
          inserted, \* inserted[w]: positions it has inserted, not yet committed
          begun     \* requests begun so far

vars == <<table, parent, lock, stage, id, size, snapshot, deleted, inserted, begun>>

committedRows == <<table, parent>>

Positions == 1 .. Last

Requests == 1 .. MaxRequests

NoChildren == [p \in Positions |-> Nobody]

-----------------------------------------------------------------------------
Begin(w) ==
    /\ stage[w] = "idle"
    /\ begun < MaxRequests
    /\ begun' = begun + 1
    /\ id' = [id EXCEPT ![w] = begun + 1]
    /\ \E n \in Sizes : size' = [size EXCEPT ![w] = n]
    /\ stage' = [stage EXCEPT ![w] = "delete"]
    /\ UNCHANGED <<committedRows, lock, snapshot, deleted, inserted>>

\* The DELETE takes its snapshot of the committed children.
StartDelete(w) ==
    /\ stage[w] = "delete"
    /\ snapshot' = [snapshot EXCEPT ![w] = table]
    /\ stage' = [stage EXCEPT ![w] = "deleting"]
    /\ UNCHANGED <<committedRows, lock, id, size, deleted, inserted, begun>>

\* The children of the snapshot that are still there.
Deletable(w) ==
    {p \in Positions : snapshot[w][p] # Nobody /\ table[p] = snapshot[w][p]}

\* The DELETE ends when no other transaction holds one of them.
EndDelete(w) ==
    /\ stage[w] = "deleting"
    /\ \A v \in Workers \ {w} : deleted[v] \cap Deletable(w) = {}
    /\ deleted' = [deleted EXCEPT ![w] = Deletable(w)]
    /\ stage' = [stage EXCEPT ![w] = "insert"]
    /\ UNCHANGED <<committedRows, lock, id, size, snapshot, inserted, begun>>

\* Faulty: there is no unique index.
NoIndex(w, p) == FALSE

\* The unique index has a committed row of another transaction at p.
Conflicts(w, p) == p \in Positions \ deleted[w] /\ table[p] # Nobody

NextPosition(w) == Cardinality(inserted[w]) + 1

\* Faulty: the loop over the children runs one too far.
OnePastSize(w) == NextPosition(w) <= size[w] + 1

\* The request has a child left to insert.
More(w) == NextPosition(w) <= size[w]

\* No other transaction in flight has inserted or deleted position p.
Settled(w, p) == \A v \in Workers \ {w} : p \notin inserted[v] \cup deleted[v]

Insert(w) ==
    LET p == NextPosition(w) IN
    /\ stage[w] = "insert" /\ More(w)
    /\ Settled(w, p)
    /\ ~Conflicts(w, p)
    /\ inserted' = [inserted EXCEPT ![w] = @ \cup {p}]
    /\ UNCHANGED <<committedRows, lock, stage, id, size, snapshot, deleted, begun>>

\* The UPDATE of the row of the gig waits for its lock.
UpdateParent(w) ==
    /\ stage[w] = "insert" /\ ~More(w)
    /\ lock = Nobody
    /\ lock' = w
    /\ stage' = [stage EXCEPT ![w] = "commit"]
    /\ UNCHANGED <<committedRows, id, size, snapshot, deleted, inserted, begun>>

\* Faulty: the deferred tx.Rollback is missing, and the locks stay.
KeepLocks(w) == UNCHANGED <<lock, deleted, inserted>>

\* A transaction that ends, either way, gives up its locks.
FreeLocks(w) ==
    /\ lock' = IF lock = w THEN Nobody ELSE lock
    /\ deleted' = [deleted EXCEPT ![w] = {}]
    /\ inserted' = [inserted EXCEPT ![w] = {}]

Ended(w) ==
    /\ stage' = [stage EXCEPT ![w] = "idle"]
    /\ id' = [id EXCEPT ![w] = 0]
    /\ size' = [size EXCEPT ![w] = 0]
    /\ snapshot' = [snapshot EXCEPT ![w] = NoChildren]

Commit(w) ==
    /\ stage[w] = "commit"
    /\ table' = [p \in Positions |-> IF p \in inserted[w] THEN id[w]
                                     ELSE IF p \in deleted[w] THEN Nobody
                                     ELSE table[p]]
    /\ parent' = id[w]
    /\ FreeLocks(w)
    /\ Ended(w)
    /\ UNCHANGED begun

\* A unique violation: the repository returns the error and rolls back.
InsertConflict(w) ==
    LET p == NextPosition(w) IN
    /\ stage[w] = "insert" /\ More(w)
    /\ Settled(w, p)
    /\ Conflicts(w, p)
    /\ FreeLocks(w)
    /\ Ended(w)
    /\ UNCHANGED <<committedRows, begun>>

\* Any other error: a cancelled context, a lost connection, a stop.
Rollback(w) ==
    /\ stage[w] # "idle"
    /\ FreeLocks(w)
    /\ Ended(w)
    /\ UNCHANGED <<committedRows, begun>>

-----------------------------------------------------------------------------
Init ==
    /\ table = NoChildren
    /\ parent = Nobody
    /\ lock = Nobody
    /\ stage = [w \in Workers |-> "idle"]
    /\ id = [w \in Workers |-> 0]
    /\ size = [w \in Workers |-> 0]
    /\ snapshot = [w \in Workers |-> NoChildren]
    /\ deleted = [w \in Workers |-> {}]
    /\ inserted = [w \in Workers |-> {}]
    /\ begun = 0

\* What a transaction does once begun, with no error from outside.
Advance(w) ==
    \/ StartDelete(w)
    \/ EndDelete(w)
    \/ Insert(w)
    \/ UpdateParent(w)
    \/ Commit(w)
    \/ InsertConflict(w)

Next == \E w \in Workers : Begin(w) \/ Advance(w) \/ Rollback(w)

\* A statement whose locks are free is executed; nothing forces an error.
Fairness == \A w \in Workers : WF_vars(Advance(w))

Spec == Init /\ [][Next]_vars /\ Fairness

-----------------------------------------------------------------------------
Typed ==
    /\ table \in [Positions -> Requests \cup {Nobody}]
    /\ parent \in Requests \cup {Nobody}
    /\ lock \in Workers \cup {Nobody}
    /\ stage \in [Workers -> {"idle", "delete", "deleting", "insert", "commit"}]
    /\ id \in [Workers -> 0 .. MaxRequests]
    /\ size \in [Workers -> Sizes \cup {0}]
    /\ snapshot \in [Workers -> [Positions -> Requests \cup {Nobody}]]
    /\ deleted \in [Workers -> SUBSET Positions]
    /\ inserted \in [Workers -> SUBSET Positions]
    /\ begun \in 0 .. MaxRequests

\* Every variable stays in its type; no transaction inserts past its request.
TypeOK == Typed /\ \A w \in Workers : inserted[w] \subseteq 1 .. size[w]

\* Whatever transactions race, the children of a gig are all those of one request or
\* none: two lists are never mixed, also when some requests bring an empty one.
ChildrenWhole ==
    \/ \A p \in Positions : table[p] = Nobody
    \/ \E r \in Requests, n \in Sizes :
         \A p \in Positions : table[p] = IF p <= n THEN r ELSE Nobody

\* domain/gig.go:162 "replaces all": the row of a gig and its children are
\* those of one request, and change together, whatever transactions race.
Replaced == INSTANCE WholeReplace
    WITH rows <- [p \in 0 .. Last |-> IF p = 0 THEN parent ELSE table[p]]

ReplacesWhole == Replaced!WholeSpec

\* Transactions that wait for each other's children, positions and gig row
\* never wait in a circle: each ends although no error ever frees it.
EveryTransactionEnds == \A w \in Workers : stage[w] # "idle" ~> stage[w] = "idle"
=============================================================================
