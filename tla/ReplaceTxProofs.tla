----------------------------- MODULE ReplaceTxProofs -----------------------------
(***************************************************************************)
(* The replace transactions, for any number of workers and children and    *)
(* whatever transactions race: the children of a gig are always all those  *)
(* of one request, and if every request brings a child, as a request for   *)
(* packages does (validatePackages), they change together with the row of  *)
(* the gig.  (A gallery or a list of questions may be empty.)              *)
(***************************************************************************)
EXTENDS ReplaceTx, FiniteSetTheorems, TLAPS

\* A transaction holds nothing before its DELETE has ended, and inserts the positions
\* in order, up to the number of its children.
StatementOf(w) ==
    /\ stage[w] # "idle" => size[w] \in Sizes /\ id[w] \in 1 .. begun
    /\ stage[w] \in {"idle", "delete", "deleting"} => inserted[w] = {} /\ deleted[w] = {}
    /\ \E k \in 0 .. size[w] : inserted[w] = 1 .. k
    /\ stage[w] = "commit" => inserted[w] = 1 .. size[w]

BaseInvariant == Typed /\ \A w \in Workers : StatementOf(w)

\* The positions with a committed child.
Rows == {p \in Positions : table[p] # Nobody}

\* Requests are told apart: what is committed or seen is of a request begun, and of
\* none that is still in flight.
FreshIds ==
    /\ \A p \in Positions : table[p] # Nobody => table[p] <= begun
    /\ \A w \in Workers, p \in Positions : snapshot[w][p] # Nobody => snapshot[w][p] <= begun
    /\ \A v, w \in Workers : stage[v] # "idle" /\ stage[w] # "idle" /\ id[v] = id[w] => v = w
    /\ \A v \in Workers : stage[v] # "idle" =>
         /\ \A p \in Positions : table[p] # id[v]
         /\ \A w \in Workers, p \in Positions : snapshot[w][p] # id[v]

\* Children are there from the first position on.
NoGap == \A p \in Positions : table[p] # Nobody => 1 \in Positions /\ table[1] # Nobody

\* A snapshot that still has a committed child has all of them.
SnapshotWhole ==
    \A w \in Workers, p \in Positions :
        stage[w] = "deleting" /\ snapshot[w][p] # Nobody /\ snapshot[w][p] = table[p]
          => snapshot[w] = table

\* A DELETE has got all the committed children or none, and no child is deleted twice.
DeletesAll ==
    /\ \A w \in Workers : deleted[w] = {} \/ deleted[w] = Rows
    /\ \A v, w \in Workers : v # w => deleted[v] \cap deleted[w] = {}

\* Who has inserted is alone in it, and has deleted whatever is committed.
InsertsAlone ==
    /\ \A v, w \in Workers : inserted[v] # {} /\ inserted[w] # {} => v = w
    /\ \A w \in Workers : inserted[w] # {} => Rows \subseteq deleted[w]

WholeInvariant == FreshIds /\ NoGap /\ SnapshotWhole /\ DeletesAll /\ InsertsAlone

-----------------------------------------------------------------------------
\* The next position follows the positions that are inserted.
LEMMA NextAfter ==
    ASSUME NEW w \in Workers, NEW k \in Nat, inserted[w] = 1 .. k
    PROVE  NextPosition(w) = k + 1
<1>1. 1 \in Int /\ k \in Int
  OBVIOUS
<1>2. Cardinality(1 .. k) = IF 1 > k THEN 0 ELSE k - 1 + 1
  BY <1>1, FS_Interval
<1>3. Cardinality(1 .. k) = k
  BY <1>2
<1>4. QED
  BY <1>3 DEF NextPosition

\* What the numbers are.
LEMMA Numbers ==
    ASSUME BaseInvariant, NEW w \in Workers
    PROVE  /\ Last \in Nat /\ MaxRequests \in Nat /\ begun \in Nat /\ begun <= MaxRequests
           /\ size[w] \in Nat /\ size[w] <= Last /\ id[w] \in Nat
           /\ Positions = 1 .. Last /\ Requests = 1 .. MaxRequests
           /\ Nobody \notin Nat /\ Sizes \subseteq Nat
           /\ stage[w] # "idle" => id[w] \in Requests /\ id[w] # Nobody
<1>1. /\ Last \in Nat /\ MaxRequests \in Nat /\ Sizes \subseteq 0 .. Last /\ Nobody \notin Nat
      /\ begun \in 0 .. MaxRequests /\ size[w] \in Sizes \cup {0} /\ id[w] \in 0 .. MaxRequests
      /\ stage[w] # "idle" => id[w] \in 1 .. begun
      /\ Positions = 1 .. Last /\ Requests = 1 .. MaxRequests
  BY ReplaceTxAssumption DEF BaseInvariant, Typed, StatementOf, Positions, Requests
<1>2. \A n \in Sizes : n \in Nat /\ n <= Last
  BY <1>1
<1>3. size[w] \in Nat /\ size[w] <= Last
  <2>1. CASE size[w] \in Sizes
    BY <1>2, <2>1
  <2>2. CASE size[w] = 0
    BY <1>1, <2>2
  <2>3. QED
    BY <1>1, <2>1, <2>2
<1>4. id[w] \in Nat /\ begun \in Nat /\ begun <= MaxRequests
  BY <1>1
<1>5. stage[w] # "idle" => id[w] \in Requests
  BY <1>1
<1>6. QED
  BY <1>1, <1>2, <1>3, <1>4, <1>5

\* A transaction that has ended holds nothing.
LEMMA EndedTx ==
    ASSUME BaseInvariant, NEW w \in Workers, FreeLocks(w), Ended(w),
           begun' = begun, table' \in [Positions -> Requests \cup {Nobody}],
           parent' \in Requests \cup {Nobody}
    PROVE  /\ BaseInvariant'
           /\ stage'[w] = "idle" /\ deleted'[w] = {} /\ inserted'[w] = {}
           /\ \A p \in Positions : snapshot'[w][p] = Nobody
           /\ \A v \in Workers : v # w =>
                /\ stage'[v] = stage[v] /\ id'[v] = id[v] /\ size'[v] = size[v]
                /\ deleted'[v] = deleted[v] /\ inserted'[v] = inserted[v]
                /\ snapshot'[v] = snapshot[v]
<1>1. Typed /\ 0 \in 0 .. MaxRequests /\ NoChildren \in [Positions -> Requests \cup {Nobody}]
  BY ReplaceTxAssumption DEF BaseInvariant, Typed, NoChildren
<1>2. /\ stage' = [stage EXCEPT ![w] = "idle"] /\ id' = [id EXCEPT ![w] = 0]
      /\ size' = [size EXCEPT ![w] = 0] /\ snapshot' = [snapshot EXCEPT ![w] = NoChildren]
      /\ deleted' = [deleted EXCEPT ![w] = {}] /\ inserted' = [inserted EXCEPT ![w] = {}]
      /\ lock' = IF lock = w THEN Nobody ELSE lock
  BY DEF FreeLocks, Ended
<1>3. Typed'
  BY <1>1, <1>2 DEF Typed
<1>4. /\ stage'[w] = "idle" /\ deleted'[w] = {} /\ inserted'[w] = {} /\ size'[w] = 0
      /\ snapshot'[w] = NoChildren
      /\ \A v \in Workers : v # w =>
           /\ stage'[v] = stage[v] /\ id'[v] = id[v] /\ size'[v] = size[v]
           /\ deleted'[v] = deleted[v] /\ inserted'[v] = inserted[v]
           /\ snapshot'[v] = snapshot[v]
  BY <1>1, <1>2 DEF Typed
<1>5. ASSUME NEW v \in Workers PROVE StatementOf(v)'
  <2>1. CASE v = w
    <3>1. 0 \in 0 .. size'[w] /\ inserted'[w] = 1 .. 0
      BY <1>4
    <3>2. QED
      BY <1>4, <2>1, <3>1 DEF StatementOf
  <2>2. CASE v # w
    BY <1>4, <2>2 DEF BaseInvariant, StatementOf
  <2>3. QED
    BY <2>1, <2>2
<1>6. \A p \in Positions : snapshot'[w][p] = Nobody
  BY <1>4 DEF NoChildren
<1>7. QED
  BY <1>3, <1>4, <1>5, <1>6 DEF BaseInvariant

LEMMA BaseInit == Init => BaseInvariant
<1> SUFFICES ASSUME Init PROVE BaseInvariant
  OBVIOUS
<1>1. Typed
  BY ReplaceTxAssumption DEF Init, Typed, NoChildren
<1>2. ASSUME NEW w \in Workers PROVE StatementOf(w)
  <2>1. 0 \in 0 .. size[w] /\ inserted[w] = 1 .. 0
    BY DEF Init
  <2>2. QED
    BY <2>1 DEF Init, StatementOf
<1>3. QED
  BY <1>1, <1>2 DEF BaseInvariant

LEMMA BaseStep == BaseInvariant /\ [Next]_vars => BaseInvariant'
<1> SUFFICES ASSUME BaseInvariant, [Next]_vars PROVE BaseInvariant'
  OBVIOUS
<1>1. /\ Typed /\ Last \in Nat /\ MaxRequests \in Nat /\ Sizes \subseteq 0 .. Last
      /\ \A w \in Workers : StatementOf(w)
  BY ReplaceTxAssumption DEF BaseInvariant
<1>2. ASSUME NEW w \in Workers, Begin(w) PROVE BaseInvariant'
  <2>1. PICK n \in Sizes : size' = [size EXCEPT ![w] = n]
    BY <1>2 DEF Begin
  <2>2. Typed'
    BY <1>1, <1>2, <2>1 DEF Begin, committedRows, Typed
  <2>3. ASSUME NEW v \in Workers PROVE StatementOf(v)'
    <3>1. CASE v = w
      <4>1. /\ stage'[w] = "delete" /\ size'[w] = n /\ id'[w] \in 1 .. begun'
            /\ inserted'[w] = {} /\ deleted'[w] = {}
        BY <1>1, <1>2, <2>1 DEF Begin, Typed, StatementOf
      <4>2. 0 \in 0 .. n /\ {} = 1 .. 0
        BY <1>1
      <4>3. QED
        BY <3>1, <4>1, <4>2 DEF StatementOf
    <3>2. CASE v # w
      <4>1. /\ stage'[v] = stage[v] /\ size'[v] = size[v] /\ id'[v] = id[v]
            /\ inserted'[v] = inserted[v] /\ deleted'[v] = deleted[v]
            /\ begun' = begun + 1 /\ begun \in Nat
        BY <1>1, <1>2, <2>1, <3>2 DEF Begin, Typed
      <4>2. QED
        BY <1>1, <4>1 DEF StatementOf
    <3>3. QED
      BY <3>1, <3>2
  <2>4. QED
    BY <2>2, <2>3 DEF BaseInvariant
<1>3. ASSUME NEW w \in Workers, StartDelete(w) PROVE BaseInvariant'
  <2>1. Typed'
    BY <1>1, <1>3 DEF StartDelete, committedRows, Typed
  <2>2. \A v \in Workers : StatementOf(v)'
    BY <1>1, <1>3 DEF StartDelete, Typed, StatementOf
  <2>3. QED
    BY <2>1, <2>2 DEF BaseInvariant
<1>4. ASSUME NEW w \in Workers, EndDelete(w) PROVE BaseInvariant'
  <2>1. Typed'
    BY <1>1, <1>4 DEF EndDelete, Deletable, committedRows, Typed
  <2>2. \A v \in Workers : StatementOf(v)'
    BY <1>1, <1>4 DEF EndDelete, Typed, StatementOf
  <2>3. QED
    BY <2>1, <2>2 DEF BaseInvariant
<1>5. ASSUME NEW w \in Workers, Insert(w) PROVE BaseInvariant'
  <2>1. PICK k \in 0 .. size[w] : inserted[w] = 1 .. k
    BY <1>1 DEF StatementOf
  <2>2. size[w] \in Nat /\ size[w] <= Last /\ k \in Nat /\ Positions = 1 .. Last
    BY Numbers
  <2>3. NextPosition(w) = k + 1
    BY <2>1, <2>2, NextAfter
  <2>4. k + 1 <= size[w] /\ inserted' = [inserted EXCEPT ![w] = @ \cup {k + 1}]
    BY <1>5, <2>3 DEF Insert, More
  <2>5. inserted[w] \cup {k + 1} = 1 .. k + 1 /\ k + 1 \in 0 .. size[w] /\ k + 1 \in Positions
    <3>1. (1 .. k) \cup {k + 1} = 1 .. k + 1
      BY <2>2
    <3>2. k + 1 \in 0 .. size[w] /\ k + 1 \in Positions
      BY <1>1, <2>2, <2>4
    <3>3. QED
      BY <2>1, <3>1, <3>2
  <2>6. Typed'
    BY <1>1, <1>5, <2>4, <2>5 DEF Insert, committedRows, Typed
  <2>7. ASSUME NEW v \in Workers PROVE StatementOf(v)'
    <3>1. CASE v = w
      <4>1. inserted'[w] = 1 .. k + 1
        BY <1>1, <2>4, <2>5 DEF Typed
      <4>2. QED
        BY <1>1, <1>5, <2>5, <3>1, <4>1 DEF Insert, StatementOf
    <3>2. CASE v # w
      BY <1>1, <1>5, <2>4, <3>2 DEF Insert, StatementOf, Typed
    <3>3. QED
      BY <3>1, <3>2
  <2>8. QED
    BY <2>6, <2>7 DEF BaseInvariant
<1>6. ASSUME NEW w \in Workers, UpdateParent(w) PROVE BaseInvariant'
  <2>1. PICK k \in 0 .. size[w] : inserted[w] = 1 .. k
    BY <1>1 DEF StatementOf
  <2>2. size[w] \in Nat /\ k \in Nat
    BY Numbers
  <2>3. NextPosition(w) = k + 1
    BY <2>1, <2>2, NextAfter
  <2>4. k = size[w]
    BY <1>6, <2>2, <2>3 DEF UpdateParent, More
  <2>5. Typed'
    BY <1>1, <1>6 DEF UpdateParent, committedRows, Typed
  <2>6. \A v \in Workers : StatementOf(v)'
    BY <1>1, <1>6, <2>1, <2>4 DEF UpdateParent, Typed, StatementOf
  <2>7. QED
    BY <2>5, <2>6 DEF BaseInvariant
<1>7. ASSUME NEW w \in Workers, Commit(w) PROVE BaseInvariant'
  <2>1. id[w] \in Requests
    BY <1>7, Numbers DEF Commit
  <2>2. /\ table' \in [Positions -> Requests \cup {Nobody}]
        /\ parent' \in Requests \cup {Nobody}
    BY <1>1, <1>7, <2>1 DEF Commit, Typed
  <2>3. QED
    BY <1>7, <2>2, EndedTx DEF Commit
<1>8. ASSUME NEW w \in Workers, InsertConflict(w) \/ Rollback(w) PROVE BaseInvariant'
  BY <1>1, <1>8, EndedTx DEF InsertConflict, Rollback, committedRows, Typed
<1>9. CASE UNCHANGED vars
  BY <1>1, <1>9 DEF vars, BaseInvariant, Typed, StatementOf
<1>10. QED
  BY <1>2, <1>3, <1>4, <1>5, <1>6, <1>7, <1>8, <1>9 DEF Next, Advance

\* A transaction works through its statements and inserts its children in order.
THEOREM BaseInvariance == Spec => []BaseInvariant
BY BaseInit, BaseStep, PTL DEF Spec

\* Every variable stays in its type; no transaction inserts past its request.
THEOREM ReplaceTypeCorrect == Spec => []TypeOK
<1>1. BaseInvariant => TypeOK
  <2> SUFFICES ASSUME BaseInvariant, NEW w \in Workers
               PROVE  inserted[w] \subseteq 1 .. size[w]
    BY DEF BaseInvariant, TypeOK
  <2>1. PICK k \in 0 .. size[w] : inserted[w] = 1 .. k
    BY DEF BaseInvariant, StatementOf
  <2>2. size[w] \in Nat
    BY Numbers
  <2>3. QED
    BY <2>1, <2>2
<1>2. QED
  BY <1>1, BaseInvariance, PTL

-----------------------------------------------------------------------------
(***************************************************************************)
(* The table stays whole.                                                  *)
(***************************************************************************)

\* A statement that is no INSERT and ends no transaction keeps who deleted and
\* inserted what.
LEMMA WholeBegin ==
    ASSUME BaseInvariant, WholeInvariant, NEW w \in Workers, Begin(w)
    PROVE  WholeInvariant'
<1>1. /\ begun' = begun + 1 /\ id' = [id EXCEPT ![w] = begun + 1]
      /\ stage' = [stage EXCEPT ![w] = "delete"] /\ stage[w] = "idle"
      /\ UNCHANGED <<table, snapshot, deleted, inserted>>
  BY DEF Begin, committedRows
<1>2. Typed /\ begun \in Nat /\ Nobody \notin Nat
  BY Numbers DEF BaseInvariant
<1>3. /\ \A p \in Positions : table[p] \in Nat \/ table[p] = Nobody
      /\ \A v \in Workers, p \in Positions : snapshot[v][p] \in Nat \/ snapshot[v][p] = Nobody
      /\ \A v \in Workers : stage[v] # "idle" => id[v] \in Nat /\ id[v] <= begun
  BY <1>2 DEF BaseInvariant, Typed, StatementOf, Requests
<1>4. /\ stage'[w] = "delete" /\ id'[w] = begun + 1
      /\ \A v \in Workers : v # w => stage'[v] = stage[v] /\ id'[v] = id[v]
  BY <1>1, <1>2 DEF Typed
<1>5. FreshIds'
  <2>1. /\ \A p \in Positions : table[p] # Nobody => table[p] <= begun'
        /\ \A v \in Workers, p \in Positions : snapshot[v][p] # Nobody => snapshot[v][p] <= begun'
    BY <1>1, <1>2, <1>3 DEF WholeInvariant, FreshIds
  <2>2. \A v, u \in Workers : stage'[v] # "idle" /\ stage'[u] # "idle" /\ id'[v] = id'[u] => v = u
    BY <1>2, <1>3, <1>4 DEF WholeInvariant, FreshIds
  <2>3. ASSUME NEW v \in Workers, stage'[v] # "idle"
        PROVE  /\ \A p \in Positions : table[p] # id'[v]
               /\ \A u \in Workers, p \in Positions : snapshot[u][p] # id'[v]
    <3>1. CASE v = w
      BY <1>2, <1>3, <1>4, <3>1 DEF WholeInvariant, FreshIds
    <3>2. CASE v # w
      BY <1>4, <2>3, <3>2 DEF WholeInvariant, FreshIds
    <3>3. QED
      BY <3>1, <3>2
  <2>4. QED
    BY <1>1, <2>1, <2>2, <2>3 DEF FreshIds, Positions
<1>6. SnapshotWhole'
  BY <1>1, <1>4 DEF WholeInvariant, SnapshotWhole, Positions
<1>7. NoGap' /\ DeletesAll' /\ InsertsAlone'
  BY <1>1 DEF WholeInvariant, NoGap, DeletesAll, InsertsAlone, Rows, Positions
<1>8. QED
  BY <1>5, <1>6, <1>7 DEF WholeInvariant

LEMMA WholeStartDelete ==
    ASSUME BaseInvariant, WholeInvariant, NEW w \in Workers, StartDelete(w)
    PROVE  WholeInvariant'
<1>1. /\ snapshot' = [snapshot EXCEPT ![w] = table]
      /\ stage' = [stage EXCEPT ![w] = "deleting"] /\ stage[w] # "idle"
      /\ UNCHANGED <<table, id, deleted, inserted, begun>> /\ Typed
  BY DEF StartDelete, committedRows, BaseInvariant
<1>2. /\ stage'[w] = "deleting" /\ snapshot'[w] = table
      /\ \A v \in Workers : v # w => stage'[v] = stage[v] /\ snapshot'[v] = snapshot[v]
      /\ \A v \in Workers : stage'[v] # "idle" <=> stage[v] # "idle"
  BY <1>1 DEF Typed
<1>3. FreshIds'
  <2>1. \A v \in Workers, p \in Positions :
          snapshot'[v][p] = snapshot[v][p] \/ snapshot'[v][p] = table[p]
    BY <1>2
  <2>2. QED
    BY <1>1, <1>2, <2>1 DEF WholeInvariant, FreshIds, Positions
<1>4. SnapshotWhole'
  BY <1>1, <1>2 DEF WholeInvariant, SnapshotWhole, Positions
<1>5. NoGap' /\ DeletesAll' /\ InsertsAlone'
  BY <1>1 DEF WholeInvariant, NoGap, DeletesAll, InsertsAlone, Rows, Positions
<1>6. QED
  BY <1>3, <1>4, <1>5 DEF WholeInvariant

\* A DELETE gets what is left of its snapshot: all of it or nothing.
LEMMA WholeEndDelete ==
    ASSUME BaseInvariant, WholeInvariant, NEW w \in Workers, EndDelete(w)
    PROVE  WholeInvariant'
<1>1. /\ deleted' = [deleted EXCEPT ![w] = Deletable(w)]
      /\ stage' = [stage EXCEPT ![w] = "insert"] /\ stage[w] = "deleting"
      /\ \A v \in Workers \ {w} : deleted[v] \cap Deletable(w) = {}
      /\ UNCHANGED <<table, id, snapshot, inserted, begun>> /\ Typed
  BY DEF EndDelete, committedRows, BaseInvariant
<1>2. /\ stage'[w] = "insert" /\ deleted'[w] = Deletable(w) /\ inserted[w] = {}
      /\ \A v \in Workers : v # w => stage'[v] = stage[v] /\ deleted'[v] = deleted[v]
      /\ \A v \in Workers : stage'[v] # "idle" <=> stage[v] # "idle"
  BY <1>1 DEF Typed, BaseInvariant, StatementOf
<1>3. FreshIds'
  BY <1>1, <1>2 DEF WholeInvariant, FreshIds, Positions
<1>4. SnapshotWhole' /\ NoGap'
  BY <1>1, <1>2 DEF WholeInvariant, SnapshotWhole, NoGap, Positions
<1>5. Deletable(w) = {} \/ Deletable(w) = Rows
  <2> SUFFICES ASSUME NEW p \in Deletable(w) PROVE Deletable(w) = Rows
    OBVIOUS
  <2>1. snapshot[w] = table
    BY <1>1 DEF Deletable, WholeInvariant, SnapshotWhole
  <2>2. QED
    BY <2>1 DEF Deletable, Rows
<1>6. Rows' = Rows
  BY <1>1 DEF Rows, Positions
<1>7. DeletesAll'
  <2>1. \A v \in Workers : deleted'[v] = {} \/ deleted'[v] = Rows
    BY <1>2, <1>5 DEF WholeInvariant, DeletesAll
  <2>2. \A v, u \in Workers : v # u => deleted'[v] \cap deleted'[u] = {}
    BY <1>1, <1>2 DEF WholeInvariant, DeletesAll
  <2>3. QED
    BY <1>6, <2>1, <2>2 DEF DeletesAll
<1>8. InsertsAlone'
  BY <1>1, <1>2, <1>6 DEF WholeInvariant, InsertsAlone
<1>9. QED
  BY <1>3, <1>4, <1>7, <1>8 DEF WholeInvariant

\* The first INSERT finds the first position free: then there is nothing that its
\* transaction has not deleted, and nobody else who inserts.
LEMMA WholeInsert ==
    ASSUME BaseInvariant, WholeInvariant, NEW w \in Workers, Insert(w)
    PROVE  WholeInvariant'
<1> DEFINE p == NextPosition(w)
<1>1. /\ inserted' = [inserted EXCEPT ![w] = @ \cup {p}]
      /\ Settled(w, p) /\ ~Conflicts(w, p) /\ More(w)
      /\ UNCHANGED <<table, stage, id, snapshot, deleted, begun>> /\ Typed
  BY DEF Insert, committedRows, BaseInvariant
<1>2. /\ inserted'[w] = inserted[w] \cup {p}
      /\ \A v \in Workers : v # w => inserted'[v] = inserted[v]
  BY <1>1 DEF Typed
<1>3. PICK k \in 0 .. size[w] : inserted[w] = 1 .. k
  BY DEF BaseInvariant, StatementOf
<1>4. p = k + 1 /\ k \in Nat /\ p \in Positions
  <2>1. k \in Nat /\ size[w] \in Nat /\ size[w] <= Last /\ Last \in Nat /\ Positions = 1 .. Last
    BY Numbers
  <2>2. p = k + 1
    BY <1>3, <2>1, NextAfter
  <2>3. QED
    BY <1>1, <2>1, <2>2 DEF More
<1>5. ASSUME NEW v \in Workers, inserted[v] # {} PROVE 1 \in inserted[v]
  <2>1. PICK i \in 0 .. size[v] : inserted[v] = 1 .. i
    BY DEF BaseInvariant, StatementOf
  <2>2. size[v] \in Nat
    BY Numbers
  <2>3. i >= 1
    BY <1>5, <2>1, <2>2
  <2>4. QED
    BY <2>1, <2>2, <2>3
<1>6. inserted[w] = {} => p = 1
  <2>1. k >= 1 => 1 \in inserted[w]
    BY <1>3, <1>4
  <2>2. QED
    BY <1>4, <2>1
<1>7. ASSUME NEW v \in Workers, v # w PROVE inserted[v] = {}
  <2>1. CASE inserted[w] = {}
    BY <1>1, <1>5, <1>6, <1>7, <2>1 DEF Settled
  <2>2. CASE inserted[w] # {}
    BY <1>7, <2>2 DEF WholeInvariant, InsertsAlone
  <2>3. QED
    BY <2>1, <2>2
<1>8. Rows \subseteq deleted[w]
  <2>1. CASE inserted[w] # {}
    BY <2>1 DEF WholeInvariant, InsertsAlone
  <2>2. CASE inserted[w] = {}
    <3>1. 1 \in deleted[w] \/ table[1] = Nobody
      BY <1>1, <1>4, <1>6, <2>2 DEF Conflicts
    <3>2. CASE 1 \in deleted[w]
      BY <3>2 DEF WholeInvariant, DeletesAll
    <3>3. CASE table[1] = Nobody
      BY <3>3 DEF WholeInvariant, NoGap, Rows
    <3>4. QED
      BY <3>1, <3>2, <3>3
  <2>3. QED
    BY <2>1, <2>2
<1>9. Rows' = Rows
  BY <1>1 DEF Rows, Positions
<1>10. InsertsAlone'
  BY <1>1, <1>2, <1>7, <1>8, <1>9 DEF InsertsAlone
<1>11. FreshIds' /\ NoGap' /\ SnapshotWhole' /\ DeletesAll'
  BY <1>1, <1>9 DEF WholeInvariant, FreshIds, NoGap, SnapshotWhole, DeletesAll, Positions
<1>12. QED
  BY <1>10, <1>11 DEF WholeInvariant

LEMMA WholeUpdateParent ==
    ASSUME BaseInvariant, WholeInvariant, NEW w \in Workers, UpdateParent(w)
    PROVE  WholeInvariant'
<1>1. /\ stage' = [stage EXCEPT ![w] = "commit"] /\ stage[w] = "insert"
      /\ UNCHANGED <<table, id, snapshot, deleted, inserted, begun>> /\ Typed
  BY DEF UpdateParent, committedRows, BaseInvariant
<1>2. \A v \in Workers : /\ stage'[v] # "idle" <=> stage[v] # "idle"
                         /\ stage'[v] = "deleting" <=> stage[v] = "deleting"
  BY <1>1 DEF Typed
<1>3. QED
  BY <1>1, <1>2 DEF WholeInvariant, FreshIds, NoGap, SnapshotWhole, DeletesAll,
     InsertsAlone, Rows, Positions

\* A transaction that ends and leaves the children as they are.
LEMMA WholeKept ==
    ASSUME BaseInvariant, WholeInvariant, NEW w \in Workers, FreeLocks(w), Ended(w),
           UNCHANGED <<table, begun>>, parent' \in Requests \cup {Nobody}
    PROVE  WholeInvariant'
<1>1. FreeLocks(w) /\ Ended(w) /\ UNCHANGED <<table, begun>> /\ Typed
  BY DEF BaseInvariant
<1>2. /\ stage'[w] = "idle" /\ deleted'[w] = {} /\ inserted'[w] = {}
      /\ \A p \in Positions : snapshot'[w][p] = Nobody
      /\ \A v \in Workers : v # w =>
           /\ stage'[v] = stage[v] /\ id'[v] = id[v]
           /\ deleted'[v] = deleted[v] /\ inserted'[v] = inserted[v]
           /\ snapshot'[v] = snapshot[v]
  BY <1>1, EndedTx DEF Typed
<1>3. Rows' = Rows
  BY <1>1 DEF Rows, Positions
<1>4. \A v \in Workers : stage'[v] # "idle" => id[v] # Nobody
  BY <1>2, Numbers
<1>5. FreshIds'
  <2>1. \A v \in Workers : stage'[v] # "idle" =>
          v # w /\ stage[v] # "idle" /\ id'[v] = id[v] /\ id[v] # Nobody
    BY <1>2, <1>4
  <2>2. \A v \in Workers, p \in Positions :
          snapshot'[v][p] = Nobody \/ snapshot'[v][p] = snapshot[v][p]
    BY <1>2
  <2>3. QED
    BY <1>1, <2>1, <2>2 DEF WholeInvariant, FreshIds, Positions
<1>6. NoGap' /\ SnapshotWhole'
  BY <1>1, <1>2 DEF WholeInvariant, NoGap, SnapshotWhole, Positions
<1>7. DeletesAll' /\ InsertsAlone'
  BY <1>2, <1>3 DEF WholeInvariant, DeletesAll, InsertsAlone
<1>8. QED
  BY <1>5, <1>6, <1>7 DEF WholeInvariant

\* What a request for w leaves of the children, if it replaces them all.
ReplacedBy(w) ==
    \A p \in Positions : table'[p] = IF p <= size[w] THEN id[w] ELSE Nobody

\* A transaction that has deleted or inserted a child replaces all of the children when
\* it commits, and nobody else holds anything then.
LEMMA WholeReplaced ==
    ASSUME BaseInvariant, WholeInvariant, NEW w \in Workers, Commit(w),
           deleted[w] # {} \/ inserted[w] # {}
    PROVE  WholeInvariant' /\ ReplacedBy(w)
<1>1. /\ FreeLocks(w) /\ Ended(w) /\ begun' = begun /\ Typed
      /\ stage[w] = "commit" /\ inserted[w] = 1 .. size[w] /\ size[w] \in Sizes
      /\ id[w] \in 1 .. begun
  BY DEF Commit, BaseInvariant, StatementOf
<1>2. /\ size[w] \in Nat /\ size[w] <= Last /\ Last \in Nat
      /\ Positions = 1 .. Last /\ id[w] \in Requests /\ id[w] \in Nat /\ id[w] # Nobody
      /\ begun \in Nat
  BY <1>1, Numbers
<1>3. Rows \subseteq deleted[w]
  BY DEF WholeInvariant, InsertsAlone, DeletesAll
<1>4. ASSUME NEW v \in Workers, v # w PROVE inserted[v] = {} /\ deleted[v] = {}
  <2>1. deleted[v] = {}
    BY <1>3, <1>4 DEF WholeInvariant, DeletesAll
  <2>2. inserted[v] = {}
    BY <1>4, <2>1 DEF WholeInvariant, InsertsAlone, DeletesAll
  <2>3. QED
    BY <2>1, <2>2
<1>5. \A p \in Positions : table'[p] = IF p <= size[w] THEN id[w] ELSE Nobody
  <2>1. table' = [p \in Positions |-> IF p \in inserted[w] THEN id[w]
                                      ELSE IF p \in deleted[w] THEN Nobody
                                      ELSE table[p]]
    BY DEF Commit
  <2>2. \A p \in Positions : p \in inserted[w] <=> p <= size[w]
    BY <1>1, <1>2
  <2>3. \A p \in Positions : p \notin deleted[w] => table[p] = Nobody
    BY <1>3 DEF Rows
  <2>4. QED
    BY <2>1, <2>2, <2>3
<1>6. /\ table' \in [Positions -> Requests \cup {Nobody}]
      /\ parent' \in Requests \cup {Nobody}
  BY <1>1, <1>2 DEF Commit, Typed
<1>7. /\ stage'[w] = "idle" /\ deleted'[w] = {} /\ inserted'[w] = {}
      /\ \A p \in Positions : snapshot'[w][p] = Nobody
      /\ \A v \in Workers : v # w =>
           /\ stage'[v] = stage[v] /\ id'[v] = id[v]
           /\ deleted'[v] = deleted[v] /\ inserted'[v] = inserted[v]
           /\ snapshot'[v] = snapshot[v]
  BY <1>1, <1>6, EndedTx
<1>8. \A v \in Workers : deleted'[v] = {} /\ inserted'[v] = {}
  BY <1>4, <1>7
<1>9. DeletesAll' /\ InsertsAlone'
  BY <1>8 DEF DeletesAll, InsertsAlone
<1>10. NoGap'
  <2>1. ASSUME NEW p \in Positions, table'[p] # Nobody
        PROVE  1 \in Positions /\ table'[1] # Nobody
    BY <1>2, <1>5, <2>1
  <2>2. QED
    BY <2>1 DEF NoGap, Positions
<1>11. \A v \in Workers : stage'[v] # "idle" =>
         v # w /\ stage[v] # "idle" /\ id'[v] = id[v] /\ id[v] # Nobody /\ id[v] # id[w]
  BY <1>1, <1>7, Numbers DEF WholeInvariant, FreshIds
<1>12. \A p \in Positions : table'[p] = Nobody \/ table'[p] = id[w]
  BY <1>5
<1>13. \A v \in Workers, p \in Positions :
         snapshot'[v][p] = Nobody \/ snapshot'[v][p] = snapshot[v][p]
  BY <1>7
<1>14. FreshIds'
  <2>1. \A p \in Positions : table'[p] # Nobody => table'[p] <= begun
    BY <1>1, <1>2, <1>12
  <2>2. \A v \in Workers, p \in Positions : snapshot'[v][p] # Nobody => snapshot'[v][p] <= begun
    BY <1>13 DEF WholeInvariant, FreshIds
  <2>3. \A v, u \in Workers : stage'[v] # "idle" /\ stage'[u] # "idle" /\ id'[v] = id'[u] => v = u
    BY <1>11 DEF WholeInvariant, FreshIds
  <2>4. \A v \in Workers : stage'[v] # "idle" =>
          /\ \A p \in Positions : table'[p] # id'[v]
          /\ \A u \in Workers, p \in Positions : snapshot'[u][p] # id'[v]
    BY <1>11, <1>12, <1>13 DEF WholeInvariant, FreshIds
  <2>5. QED
    BY <1>1, <2>1, <2>2, <2>3, <2>4 DEF FreshIds, Positions
<1>15. SnapshotWhole'
  <2> SUFFICES ASSUME NEW v \in Workers, NEW p \in Positions, stage'[v] = "deleting",
                      snapshot'[v][p] # Nobody, snapshot'[v][p] = table'[p]
               PROVE  FALSE
    BY DEF SnapshotWhole, Positions
  <2>1. snapshot[v][p] = id[w]
    BY <1>12, <1>13
  <2>2. QED
    BY <1>1, <2>1 DEF WholeInvariant, FreshIds
<1>16. QED
  BY <1>5, <1>9, <1>10, <1>14, <1>15 DEF WholeInvariant, ReplacedBy

\* A transaction that commits without having touched a child leaves them as they are.
LEMMA WholeCommit ==
    ASSUME BaseInvariant, WholeInvariant, NEW w \in Workers, Commit(w)
    PROVE  WholeInvariant' /\ (ReplacedBy(w) \/ (size[w] = 0 /\ table' = table))
<1>1. CASE deleted[w] # {} \/ inserted[w] # {}
  BY <1>1, WholeReplaced
<1>2. CASE deleted[w] = {} /\ inserted[w] = {}
  <2>1. table \in [Positions -> Requests \cup {Nobody}] /\ id[w] \in Requests
    BY Numbers DEF BaseInvariant, Typed, Commit
  <2>2. table' = table /\ parent' = id[w] /\ FreeLocks(w) /\ Ended(w) /\ begun' = begun
    BY <1>2, <2>1 DEF Commit
  <2>3. WholeInvariant'
    BY <2>1, <2>2, WholeKept
  <2>4. inserted[w] = 1 .. size[w] /\ size[w] \in Nat
    BY Numbers DEF Commit, BaseInvariant, StatementOf
  <2>5. size[w] = 0
    <3>1. size[w] >= 1 => 1 \in inserted[w]
      BY <2>4
    <3>2. QED
      BY <1>2, <2>4, <3>1
  <2>6. QED
    BY <2>2, <2>3, <2>5
<1>3. QED
  BY <1>1, <1>2

\* The row of the gig and its children.
rows == [p \in 0 .. Last |-> IF p = 0 THEN parent ELSE table[p]]

\* Only a commit changes the children and the row of the gig.
LEMMA WholeStep ==
    ASSUME BaseInvariant, WholeInvariant, [Next]_vars
    PROVE  /\ WholeInvariant'
           /\ \/ UNCHANGED committedRows
              \/ \E w \in Workers :
                   /\ Commit(w) /\ parent' = id[w]
                   /\ ReplacedBy(w) \/ (size[w] = 0 /\ table' = table)
                   /\ id[w] \in Requests /\ size[w] \in Sizes
<1>1. CASE UNCHANGED vars
  <2>1. WholeInvariant'
    BY <1>1 DEF vars, WholeInvariant, FreshIds, NoGap, SnapshotWhole, DeletesAll,
       InsertsAlone, Rows, Positions
  <2>2. QED
    BY <1>1, <2>1 DEF vars, committedRows
<1>2. ASSUME NEW w \in Workers, Commit(w)
      PROVE  /\ WholeInvariant' /\ parent' = id[w]
             /\ ReplacedBy(w) \/ (size[w] = 0 /\ table' = table)
             /\ id[w] \in Requests /\ size[w] \in Sizes
  <2>1. id[w] \in Requests /\ size[w] \in Sizes
    BY <1>2, Numbers DEF Commit, BaseInvariant, StatementOf
  <2>2. QED
    BY <1>2, <2>1, WholeCommit DEF Commit
<1>3. ASSUME NEW w \in Workers,
             Begin(w) \/ StartDelete(w) \/ EndDelete(w) \/ Insert(w) \/ UpdateParent(w)
               \/ InsertConflict(w) \/ Rollback(w)
      PROVE  WholeInvariant' /\ UNCHANGED committedRows
  <2>1. UNCHANGED committedRows
    BY <1>3 DEF Begin, StartDelete, EndDelete, Insert, UpdateParent, InsertConflict, Rollback
  <2>2. ASSUME InsertConflict(w) \/ Rollback(w) PROVE WholeInvariant'
    <3>1. FreeLocks(w) /\ Ended(w) /\ UNCHANGED <<table, begun>> /\ parent' = parent
      BY <2>1, <2>2 DEF InsertConflict, Rollback, committedRows
    <3>2. parent \in Requests \cup {Nobody}
      BY DEF BaseInvariant, Typed
    <3>3. QED
      BY <3>1, <3>2, WholeKept
  <2>3. WholeInvariant'
    BY <1>3, <2>2, WholeBegin, WholeStartDelete, WholeEndDelete, WholeInsert,
       WholeUpdateParent
  <2>4. QED
    BY <2>1, <2>3
<1>4. QED
  BY <1>1, <1>2, <1>3 DEF Next, Advance

\* If every request brings a child, a step replaces all of the children and the row of
\* the gig, or none.
LEMMA WholeRefined ==
    ASSUME 0 \notin Sizes, BaseInvariant, WholeInvariant, [Next]_vars
    PROVE  [Replaced!WholeNext]_rows
<1>1. CASE UNCHANGED committedRows
  BY <1>1 DEF committedRows, rows
<1>2. ASSUME NEW w \in Workers, Commit(w), parent' = id[w],
             ReplacedBy(w) \/ (size[w] = 0 /\ table' = table),
             id[w] \in Requests, size[w] \in Sizes
      PROVE  [Replaced!WholeNext]_rows
  <2>1. ReplacedBy(w) /\ size[w] \in Nat /\ Last \in Nat
    BY <1>2, Numbers
  <2>2. rows' = Replaced!Whole(id[w], size[w])
    <3>1. ASSUME NEW p \in 0 .. Last
          PROVE  (IF p = 0 THEN parent' ELSE table'[p])
                    = IF p <= size[w] THEN id[w] ELSE Nobody
      BY <1>2, <2>1 DEF ReplacedBy, Positions
    <3>2. QED
      BY <3>1 DEF rows, Replaced!Whole
  <2>3. Replaced!WholeNext
    BY <1>2, <2>2 DEF Replaced!WholeNext, rows
  <2>4. QED
    BY <2>3
<1>3. QED
  BY <1>1, <1>2, WholeStep

LEMMA WholeInit ==
    ASSUME Init
    PROVE  WholeInvariant /\ ChildrenWhole /\ Replaced!WholeInit
<1>1. /\ \A p \in Positions : table[p] = Nobody
      /\ \A w \in Workers, p \in Positions : snapshot[w][p] = Nobody
      /\ \A w \in Workers : stage[w] = "idle" /\ deleted[w] = {} /\ inserted[w] = {}
  BY DEF Init, NoChildren
<1>2. WholeInvariant
  BY <1>1 DEF WholeInvariant, FreshIds, NoGap, SnapshotWhole, DeletesAll, InsertsAlone
<1>3. ChildrenWhole
  BY <1>1 DEF ChildrenWhole
<1>4. \A p \in 0 .. Last : (IF p = 0 THEN parent ELSE table[p]) = Nobody
  BY <1>1, ReplaceTxAssumption DEF Init, Positions
<1>5. Replaced!WholeInit
  BY <1>4 DEF Replaced!WholeInit
<1>6. QED
  BY <1>2, <1>3, <1>5

\* Whatever transactions race, the children of a gig are all those of one request:
\* two lists are never mixed, also when some of them are empty.
THEOREM ChildrenOfOneRequest == Spec => []ChildrenWhole
<1>1. Init => WholeInvariant /\ ChildrenWhole
  BY WholeInit
<1>2. BaseInvariant /\ WholeInvariant /\ [Next]_vars => WholeInvariant'
  BY WholeStep
<1>3. BaseInvariant /\ WholeInvariant /\ ChildrenWhole /\ [Next]_vars => ChildrenWhole'
  <2> SUFFICES ASSUME BaseInvariant, WholeInvariant, ChildrenWhole, [Next]_vars
               PROVE  ChildrenWhole'
    OBVIOUS
  <2>1. CASE table' = table
    BY <2>1 DEF ChildrenWhole, Positions, Requests
  <2>2. ASSUME NEW w \in Workers, ReplacedBy(w), id[w] \in Requests, size[w] \in Sizes
        PROVE  ChildrenWhole'
    BY <2>2 DEF ChildrenWhole, ReplacedBy, Positions, Requests
  <2>3. QED
    BY <2>1, <2>2, WholeStep DEF committedRows
<1>4. QED
  BY <1>1, <1>2, <1>3, BaseInvariance, PTL DEF Spec

\* If every request brings a child, the transactions implement "replaces all": the row
\* of the gig and its children are those of one request and change together, whatever
\* transactions race.
THEOREM TransactionsReplaceTheWhole ==
    ASSUME 0 \notin Sizes
    PROVE  Spec => ReplacesWhole
<1>1. Init => WholeInvariant /\ Replaced!WholeInit
  BY WholeInit
<1>2. BaseInvariant /\ WholeInvariant /\ [Next]_vars => WholeInvariant'
  BY WholeStep
<1>3. BaseInvariant /\ WholeInvariant /\ [Next]_vars => [Replaced!WholeNext]_rows
  BY WholeRefined
<1>4. QED
  BY <1>1, <1>2, <1>3, BaseInvariance, PTL DEF Spec, ReplacesWhole, Replaced!WholeSpec, rows
=============================================================================
