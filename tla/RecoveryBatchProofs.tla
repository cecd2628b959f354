-------------------------- MODULE RecoveryBatchProofs --------------------------
(***************************************************************************)
(* The consumers of the recovery topic implement the ledger, lose no       *)
(* command, complete only what they applied and keep the order of a gig,   *)
(* for any number of processes, partitions and commands, and any faults.   *)
(***************************************************************************)
EXTENDS RecoveryBatch, FiniteSetTheorems, TLAPS

\* The batch of c in partition p: n messages from offset a on.
BatchIs(c, p, a, n) ==
    \A m \in Messages : m[1] = p => (task[c][m] # "none" <=> m[2] \in a + 1 .. a + n)

\* Only a goroutine that works has a batch; that of the owner starts at the offset.
BatchOf(c, p) ==
    IF reader[c][p] = "working"
    THEN \E a \in Nat, n \in 1 .. BatchSize :
           /\ a + n <= Len(log[p])
           /\ owner[p] = c => a = committed[p]
           /\ BatchIs(c, p, a, n)
    ELSE \A m \in Messages : m[1] = p => task[c][m] = "none"

Batches == \A c \in Consumers, p \in Partitions : BatchOf(c, p)

BaseInvariant == TypeOK /\ Batches

\* Steps of a generation and of a batch as a whole.
GroupAction ==
    \/ NextGeneration
    \/ Rebalance
    \/ \E c \in Consumers :
        \/ EndGeneration(c)
        \/ Stop(c)
        \/ \E p \in Partitions : PartitionStep(c, p)

\* What such a step may do to the messages and the offsets: it takes messages into a
\* batch or puts a batch aside, it makes orphans of the messages that it cuts
\* off, and it commits only what somebody is done with.
GroupEffect ==
    /\ UNCHANGED <<log, outcome>>
    /\ orphans \subseteq orphans'
    /\ \A c \in Consumers, m \in Messages :
         \/ task'[c][m] = task[c][m]
         \/ /\ task'[c][m] = "none"
            /\ task[c][m] \in Cut => Message(m).event \in orphans'
         \/ task[c][m] = "none" /\ task'[c][m] = "fetched"
    /\ \A m \in Messages :
         m[2] <= committed'[m[1]] =>
            m[2] <= committed[m[1]] \/ \E c \in Consumers : task[c][m] = "done"

-----------------------------------------------------------------------------
\* A message is a place in the log of its partition.
LEMMA MessageParts ==
    ASSUME TypeOK
    PROVE  /\ log \in [Partitions -> Seq(Command)]
           /\ \A p \in Partitions : Len(log[p]) \in Nat /\ log[p] \in Seq(Command)
           /\ \A m \in Messages : /\ m[1] \in Partitions /\ m[2] \in 1 .. Len(log[m[1]])
                                  /\ m = <<m[1], m[2]>>
                                  /\ Message(m) \in Command
           /\ \A p \in Partitions : \A i \in 1 .. Len(log[p]) : <<p, i>> \in Messages
<1>1. log \in [Partitions -> Seq(Command)]
  BY RecoveryAssumption DEF TypeOK
<1>2. \A p \in Partitions : Len(log[p]) \in Nat /\ log[p] \in Seq(Command)
                            /\ DOMAIN log[p] = 1 .. Len(log[p])
  BY <1>1
<1>3. ASSUME NEW m \in Messages
      PROVE  /\ m[1] \in Partitions /\ m[2] \in 1 .. Len(log[m[1]])
             /\ m = <<m[1], m[2]>> /\ Message(m) \in Command
  <2>1. PICK p \in Partitions : m \in {p} \X DOMAIN log[p]
    BY DEF Messages
  <2>2. m[1] = p /\ m[2] \in 1 .. Len(log[p]) /\ m = <<m[1], m[2]>>
    BY <1>2, <2>1
  <2>3. log[p][m[2]] \in Command
    BY <1>2, <2>2
  <2>4. QED
    BY <2>2, <2>3 DEF Message
<1>4. ASSUME NEW p \in Partitions, NEW i \in 1 .. Len(log[p])
      PROVE  <<p, i>> \in Messages
  BY <1>2 DEF Messages
<1>5. QED
  BY <1>1, <1>2, <1>3, <1>4

\* What is said of a message does not change while the log does not.
LEMMA SameLog ==
    ASSUME UNCHANGED log
    PROVE  Messages' = Messages /\ \A m : Message(m)' = Message(m)
BY DEF Messages, Message

\* A lane's step changes one task.
LEMMA OneTask ==
    ASSUME TypeOK, UNCHANGED log,
           NEW c \in Consumers, NEW m \in Messages, NEW stage \in Stages,
           Reaches(c, m, stage)
    PROVE  /\ task' \in [Consumers -> [Messages' -> Stages]]
           /\ task'[c][m] = stage
           /\ \A d \in Consumers, n \in Messages :
                d # c \/ n # m => task'[d][n] = task[d][n]
BY SameLog DEF Reaches, TypeOK

\* The offset behind a batch is the one behind its last message.
LEMMA BatchLength ==
    ASSUME TypeOK, NEW c \in Consumers, NEW p \in Partitions,
           NEW a \in Nat, NEW n \in Nat, a + n <= Len(log[p]), BatchIs(c, p, a, n)
    PROVE  Cardinality(Batch(c, p)) = n
<1>1. /\ Len(log[p]) \in Nat
      /\ \A m \in Messages : m = <<m[1], m[2]>> /\ m[1] \in Partitions /\ m[2] \in Nat
      /\ \A i \in 1 .. Len(log[p]) : <<p, i>> \in Messages
  BY MessageParts
<1>2. Batch(c, p) = {p} \X (a + 1 .. a + n)
  <2>1. ASSUME NEW m \in Batch(c, p) PROVE m \in {p} \X (a + 1 .. a + n)
    <3>1. m \in Messages /\ m[1] = p /\ task[c][m] # "none"
      BY DEF Batch
    <3>2. m[2] \in a + 1 .. a + n /\ m = <<p, m[2]>>
      BY <1>1, <3>1 DEF BatchIs
    <3>3. QED
      BY <3>2
  <2>2. ASSUME NEW i \in a + 1 .. a + n PROVE <<p, i>> \in Batch(c, p)
    <3>1. i \in 1 .. Len(log[p])
      BY <1>1
    <3>2. <<p, i>> \in Messages
      BY <1>1, <3>1
    <3>3. QED
      BY <3>2 DEF BatchIs, Batch
  <2>3. QED
    BY <2>1, <2>2
<1>3. IsFiniteSet({p}) /\ Cardinality({p}) = 1
  BY FS_Singleton
<1>4. IsFiniteSet(a + 1 .. a + n) /\ Cardinality(a + 1 .. a + n) = n
  <2>1. a + 1 \in Int /\ a + n \in Int
    OBVIOUS
  <2>2. /\ IsFiniteSet(a + 1 .. a + n)
        /\ Cardinality(a + 1 .. a + n)
             = IF a + 1 > a + n THEN 0 ELSE (a + n) - (a + 1) + 1
    BY <2>1, FS_Interval
  <2>3. QED
    BY <2>2
<1>5. Cardinality({p} \X (a + 1 .. a + n)) = n
  <2> DEFINE S == {p}
             T == a + 1 .. a + n
  <2>1. IsFiniteSet(S) /\ Cardinality(S) = 1 /\ IsFiniteSet(T) /\ Cardinality(T) = n
    BY <1>3, <1>4
  <2> HIDE DEF S, T
  <2>2. Cardinality(S \X T) = Cardinality(S) * Cardinality(T)
    BY <2>1, FS_Product
  <2>3. Cardinality(S \X T) = n
    BY <2>1, <2>2
  <2>4. QED
    BY <2>3 DEF S, T
<1>6. QED
  BY <1>2, <1>5

LEMMA BaseInit == Init => BaseInvariant
<1> SUFFICES ASSUME Init PROVE BaseInvariant
  OBVIOUS
<1>1. \A p \in Partitions : Len(log[p]) \in Nat
  BY RecoveryAssumption DEF Init
<1>2. TypeOK
  <2>1. /\ log \in Logs /\ committed \in [Partitions -> Nat]
        /\ \A p \in Partitions : committed[p] <= Len(log[p])
        /\ owner \in [Partitions -> Consumers \cup {NoConsumer}]
    BY <1>1 DEF Init
  <2>6. stable \in BOOLEAN
    BY DEF Init
  <2>2. reader \in [Consumers -> [Partitions -> {"none", "reading", "working", "ended"}]]
    BY DEF Init
  <2>3. task \in [Consumers -> [Messages -> Stages]]
    BY DEF Init, Stages
  <2>4. /\ claims \in SUBSET Events /\ completed \in SUBSET Events
        /\ handled \in [Events -> Nat]
        /\ dead \in SUBSET Messages /\ orphans \in SUBSET Events
        /\ faults \in 0 .. MaxFaults
    BY RecoveryAssumption DEF Init
  <2>7. gigs \in [Gigs -> SUBSET Ops]
    <3>1. \A g \in Gigs : Started(g) \in SUBSET Ops
      BY DEF Started, Ops
    <3>2. QED
      BY <3>1 DEF Init
  <2>5. QED
    BY <2>1, <2>2, <2>3, <2>4, <2>6, <2>7 DEF TypeOK
<1>3. Batches
  <2>1. \A c \in Consumers, p \in Partitions : reader[c][p] # "working"
    BY DEF Init
  <2>2. \A c \in Consumers, m \in Messages : task[c][m] = "none"
    BY DEF Init
  <2>3. QED
    BY <2>1, <2>2 DEF Batches, BatchOf
<1>4. QED
  BY <1>2, <1>3 DEF BaseInvariant

\* A goroutine keeps its batch while it works on, with the same messages and, if it is
\* the owner, the same offset.
LEMMA KeepsBatch ==
    ASSUME BaseInvariant, UNCHANGED log, NEW c \in Consumers, NEW p \in Partitions,
           reader'[c][p] = "working" <=> reader[c][p] = "working",
           \A m \in Messages :
             m[1] = p => (task'[c][m] = "none" <=> task[c][m] = "none"),
           reader[c][p] = "working" /\ owner'[p] = c
             => owner[p] = c /\ committed'[p] = committed[p]
    PROVE  BatchOf(c, p)'
<1>1. Messages' = Messages /\ log' = log /\ BatchOf(c, p)
  BY SameLog DEF BaseInvariant, Batches
<1>2. CASE reader[c][p] = "working"
  <2>1. PICK a \in Nat, n \in 1 .. BatchSize :
          /\ a + n <= Len(log[p])
          /\ owner[p] = c => a = committed[p]
          /\ BatchIs(c, p, a, n)
    BY <1>1, <1>2 DEF BatchOf
  <2>2. BatchIs(c, p, a, n)'
    BY <1>1, <2>1 DEF BatchIs
  <2>3. a + n <= Len(log'[p]) /\ (owner'[p] = c => a = committed'[p])
    BY <1>1, <1>2, <2>1
  <2>4. QED
    BY <1>2, <2>2, <2>3 DEF BatchOf
<1>3. CASE reader[c][p] # "working"
  BY <1>1, <1>3 DEF BatchOf
<1>4. QED
  BY <1>2, <1>3

\* A step of a lane keeps the batches.
LEMMA BaseTask ==
    ASSUME BaseInvariant, UNCHANGED <<log, group, orphans>>,
           NEW c \in Consumers, NEW m \in Messages, NEW stage \in Stages \ {"none"},
           Reaches(c, m, stage), task[c][m] # "none",
           claims' \in SUBSET Events, gigs' \in [Gigs -> SUBSET Ops],
           handled' \in [Events -> Nat], completed' \in SUBSET Events,
           dead' \in SUBSET Messages, faults' \in 0 .. MaxFaults
    PROVE  BaseInvariant'
<1>1. /\ TypeOK /\ Messages' = Messages /\ log' = log /\ reader' = reader
      /\ owner' = owner /\ committed' = committed /\ stable' = stable /\ orphans' = orphans
  BY SameLog DEF BaseInvariant, group
<1>2. /\ task' \in [Consumers -> [Messages' -> Stages]]
      /\ task'[c][m] = stage
      /\ \A d \in Consumers, n \in Messages :
           d # c \/ n # m => task'[d][n] = task[d][n]
  BY <1>1, OneTask
<1>3. TypeOK'
  BY <1>1, <1>2 DEF TypeOK
<1>4. \A d \in Consumers, n \in Messages : task'[d][n] = "none" <=> task[d][n] = "none"
  BY <1>2
<1>5. Batches'
  BY <1>1, <1>4, KeepsBatch DEF Batches
<1>6. QED
  BY <1>3, <1>5 DEF BaseInvariant

-----------------------------------------------------------------------------
(***************************************************************************)
(* Steps of the group, one by one.                                         *)
(***************************************************************************)

\* A fault is counted within the bound.
LEMMA FaultBound == TypeOK /\ Fault => faults' \in 0 .. MaxFaults
BY RecoveryAssumption DEF TypeOK, Fault

LEMMA GenerationStep ==
    ASSUME BaseInvariant, NextGeneration \/ Rebalance
    PROVE  BaseInvariant' /\ GroupEffect
<1>1. TypeOK /\ faults \in 0 .. MaxFaults
  BY DEF BaseInvariant, TypeOK
<1>2. /\ UNCHANGED <<log, committed, task, outcome, orphans>>
      /\ Messages' = Messages
  BY SameLog DEF NextGeneration, Rebalance
<1>3. faults' \in 0 .. MaxFaults
  BY <1>1, FaultBound DEF NextGeneration, Rebalance
<1>4. /\ owner' \in [Partitions -> Consumers \cup {NoConsumer}]
      /\ reader' \in [Consumers -> [Partitions -> {"none", "reading", "working", "ended"}]]
      /\ stable' \in BOOLEAN
      /\ \A c \in Consumers, p \in Partitions :
           /\ reader'[c][p] = "working" <=> reader[c][p] = "working"
           /\ reader[c][p] = "working" /\ owner'[p] = c => owner[p] = c
  <2>1. CASE Rebalance
    <3>1. UNCHANGED <<owner, reader>> /\ stable' = FALSE
      BY <2>1 DEF Rebalance
    <3>2. QED
      BY <1>1, <3>1 DEF TypeOK
  <2>2. CASE NextGeneration
    <3> DEFINE members == {c \in Consumers : Free(c)}
    <3>1. PICK f \in Assignment(members) :
            /\ owner' = f
            /\ reader' = [c \in Consumers |-> IF c \notin members THEN reader[c] ELSE
                            [p \in Partitions |-> IF f[p] = c THEN "reading" ELSE "none"]]
      BY <2>2 DEF NextGeneration
    <3>2. f \in [Partitions -> members]
      BY DEF Assignment
    <3>3. stable' = TRUE
      BY <2>2 DEF NextGeneration
    <3>4. \A c \in members, p \in Partitions : reader[c][p] = "none"
      BY DEF Free
    <3>5. reader' \in [Consumers -> [Partitions -> {"none", "reading", "working", "ended"}]]
      <4>1. ASSUME NEW c \in Consumers
            PROVE  (IF c \notin members THEN reader[c] ELSE
                      [p \in Partitions |-> IF f[p] = c THEN "reading" ELSE "none"])
                    \in [Partitions -> {"none", "reading", "working", "ended"}]
        BY <1>1 DEF TypeOK
      <4>2. QED
        BY <3>1, <4>1
    <3>6. ASSUME NEW c \in Consumers, NEW p \in Partitions
          PROVE  /\ reader'[c][p] = "working" <=> reader[c][p] = "working"
                 /\ reader[c][p] = "working" /\ owner'[p] = c => owner[p] = c
      <4>1. CASE c \in members
        <5>1. reader'[c][p] \in {"reading", "none"}
          BY <3>1, <4>1
        <5>2. QED
          BY <3>4, <4>1, <5>1
      <4>2. CASE c \notin members
        BY <3>1, <3>2, <4>2
      <4>3. QED
        BY <4>1, <4>2
    <3>7. owner' \in [Partitions -> Consumers \cup {NoConsumer}]
      BY <3>1, <3>2
    <3>8. stable' \in BOOLEAN
      BY <3>3
    <3>9. QED
      BY <3>5, <3>6, <3>7, <3>8
  <2>3. QED
    BY <2>1, <2>2
<1>5. TypeOK'
  BY <1>1, <1>2, <1>3, <1>4 DEF TypeOK, outcome
<1>6. Batches'
  BY <1>2, <1>4, KeepsBatch DEF Batches
<1>7. GroupEffect
  BY <1>2 DEF GroupEffect
<1>8. QED
  BY <1>5, <1>6, <1>7 DEF BaseInvariant

LEMMA EndGenerationStep ==
    ASSUME BaseInvariant, NEW c \in Consumers, EndGeneration(c)
    PROVE  BaseInvariant' /\ GroupEffect
<1>1. TypeOK
  BY DEF BaseInvariant
<1>2. /\ UNCHANGED <<log, committed, task, outcome, orphans, faults>>
      /\ Messages' = Messages
  BY SameLog DEF EndGeneration
<1>3. /\ reader' = [reader EXCEPT ![c] = [p \in Partitions |-> "none"]]
      /\ owner' = [p \in Partitions |-> IF owner[p] = c THEN NoConsumer ELSE owner[p]]
      /\ \A p \in Partitions : reader[c][p] # "working"
  BY DEF EndGeneration, Leaves
<1>4. stable' = FALSE
  BY DEF EndGeneration, Leaves
<1>5. reader' \in [Consumers -> [Partitions -> {"none", "reading", "working", "ended"}]]
  BY <1>1, <1>3 DEF TypeOK
<1>6. owner' \in [Partitions -> Consumers \cup {NoConsumer}]
  BY <1>1, <1>3 DEF TypeOK
<1>7. stable' \in BOOLEAN
  BY <1>4
<1>8. TypeOK'
  BY <1>1, <1>2, <1>5, <1>6, <1>7 DEF TypeOK, outcome
<1>9. \A d \in Consumers, p \in Partitions :
        /\ reader'[d][p] = "working" <=> reader[d][p] = "working"
        /\ reader[d][p] = "working" /\ owner'[p] = d => owner[p] = d
  BY <1>1, <1>3, RecoveryAssumption DEF TypeOK
<1>10. Batches'
  BY <1>2, <1>5, <1>9, KeepsBatch DEF Batches
<1>11. GroupEffect
  BY <1>2 DEF GroupEffect
<1>12. QED
  BY <1>8, <1>10, <1>11 DEF BaseInvariant

LEMMA FetchCancelledStep ==
    ASSUME BaseInvariant, NEW c \in Consumers, NEW p \in Partitions, FetchCancelled(c, p)
    PROVE  BaseInvariant' /\ GroupEffect
<1>1. TypeOK
  BY DEF BaseInvariant
<1>2. /\ UNCHANGED <<log, committed, owner, stable, task, outcome, orphans, faults>>
      /\ Messages' = Messages
      /\ reader' = [reader EXCEPT ![c][p] = "ended"] /\ reader[c][p] = "reading"
  BY SameLog DEF FetchCancelled
<1>3. reader' \in [Consumers -> [Partitions -> {"none", "reading", "working", "ended"}]]
  BY <1>1, <1>2 DEF TypeOK
<1>4. TypeOK'
  BY <1>1, <1>2, <1>3 DEF TypeOK, outcome
<1>5. \A d \in Consumers, q \in Partitions :
        reader'[d][q] = "working" <=> reader[d][q] = "working"
  BY <1>1, <1>2 DEF TypeOK
<1>6. Batches'
  BY <1>2, <1>3, <1>5, KeepsBatch DEF Batches
<1>7. GroupEffect
  BY <1>2 DEF GroupEffect
<1>8. QED
  BY <1>4, <1>6, <1>7 DEF BaseInvariant

\* The messages from the offset on are taken into a batch.
LEMMA FetchStep ==
    ASSUME BaseInvariant, NEW c \in Consumers, NEW p \in Partitions, Fetch(c, p)
    PROVE  BaseInvariant' /\ GroupEffect
<1>1. /\ TypeOK /\ reader[c][p] = "reading" /\ owner[p] = c
      /\ UNCHANGED <<log, committed, owner, stable, outcome, orphans, faults>>
      /\ reader' = [reader EXCEPT ![c][p] = "working"]
      /\ Messages' = Messages
  BY SameLog DEF BaseInvariant, Fetch
<1>2. PICK n \in 1 .. BatchSize :
        /\ committed[p] + n <= Len(log[p])
        /\ task' = [task EXCEPT ![c] = [m \in Messages |->
                      IF m[1] = p /\ m[2] \in committed[p] + 1 .. committed[p] + n
                      THEN "fetched" ELSE task[c][m]]]
  BY DEF Fetch
<1>3. \A m \in Messages : m[1] = p => task[c][m] = "none"
  BY <1>1 DEF BaseInvariant, Batches, BatchOf
<1>4. ASSUME NEW m \in Messages
      PROVE  task'[c][m] = IF m[1] = p /\ m[2] \in committed[p] + 1 .. committed[p] + n
                           THEN "fetched" ELSE task[c][m]
  BY <1>1, <1>2 DEF TypeOK
<1>5. \A d \in Consumers, m \in Messages : d # c => task'[d][m] = task[d][m]
  BY <1>1, <1>2 DEF TypeOK
<1>6. task' \in [Consumers -> [Messages -> Stages]]
  <2>1. [m \in Messages |->
           IF m[1] = p /\ m[2] \in committed[p] + 1 .. committed[p] + n
           THEN "fetched" ELSE task[c][m]] \in [Messages -> Stages]
    BY <1>1 DEF TypeOK, Stages
  <2>2. QED
    BY <1>1, <1>2, <2>1 DEF TypeOK
<1>7. reader' \in [Consumers -> [Partitions -> {"none", "reading", "working", "ended"}]]
  BY <1>1 DEF TypeOK
<1>8. TypeOK'
  BY <1>1, <1>6, <1>7 DEF TypeOK, outcome
<1>9. BatchOf(c, p)'
  <2>1. reader'[c][p] = "working"
    BY <1>1 DEF TypeOK
  <2>2. BatchIs(c, p, committed[p], n)'
    BY <1>1, <1>3, <1>4 DEF BatchIs
  <2>3. committed[p] \in Nat /\ log' = log /\ committed' = committed
    BY <1>1 DEF TypeOK
  <2>4. QED
    BY <1>2, <2>1, <2>2, <2>3 DEF BatchOf
<1>10. ASSUME NEW d \in Consumers, NEW q \in Partitions, d # c \/ q # p
       PROVE  BatchOf(d, q)'
  <2>1. reader'[d][q] = reader[d][q]
    BY <1>1, <1>10 DEF TypeOK
  <2>2. \A m \in Messages : m[1] = q => task'[d][m] = task[d][m]
    BY <1>4, <1>5, <1>10
  <2>3. QED
    BY <1>1, <2>1, <2>2, KeepsBatch
<1>11. GroupEffect
  BY <1>1, <1>3, <1>4, <1>5 DEF GroupEffect
<1>12. QED
  BY <1>8, <1>9, <1>10, <1>11 DEF BaseInvariant, Batches

\* A goroutine puts its batch aside.
LEMMA CloseStep ==
    ASSUME BaseInvariant, NEW c \in Consumers, NEW p \in Partitions,
           NEW next \in {"reading", "ended"}, ClosesBatch(c, p, next),
           UNCHANGED <<log, owner, stable, outcome>>,
           committed' \in [Partitions -> Nat],
           \A q \in Partitions :
             /\ committed'[q] <= Len(log[q])
             /\ q # p \/ owner[q] # c => committed'[q] = committed[q],
           orphans' \in SUBSET Events, faults' \in 0 .. MaxFaults
    PROVE  /\ BaseInvariant'
           /\ \A d \in Consumers, m \in Messages :
                task'[d][m] = IF d = c /\ m[1] = p THEN "none" ELSE task[d][m]
<1>1. /\ TypeOK /\ Messages' = Messages
      /\ reader' = [reader EXCEPT ![c][p] = next]
      /\ task' = [task EXCEPT ![c] = [m \in Messages |->
                    IF m[1] = p THEN "none" ELSE task[c][m]]]
  BY SameLog DEF BaseInvariant, ClosesBatch
<1>2. \A d \in Consumers, m \in Messages :
        task'[d][m] = IF d = c /\ m[1] = p THEN "none" ELSE task[d][m]
  BY <1>1 DEF TypeOK
<1>3. task' \in [Consumers -> [Messages -> Stages]]
  <2>1. [m \in Messages |-> IF m[1] = p THEN "none" ELSE task[c][m]] \in [Messages -> Stages]
    BY <1>1 DEF TypeOK, Stages
  <2>2. QED
    BY <1>1, <2>1 DEF TypeOK
<1>4. reader' \in [Consumers -> [Partitions -> {"none", "reading", "working", "ended"}]]
  BY <1>1 DEF TypeOK
<1>5. TypeOK'
  BY <1>1, <1>3, <1>4 DEF TypeOK, outcome
<1>6. BatchOf(c, p)'
  <2>1. reader'[c][p] # "working"
    BY <1>1 DEF TypeOK
  <2>2. QED
    BY <1>1, <1>2, <2>1 DEF BatchOf
<1>7. ASSUME NEW d \in Consumers, NEW q \in Partitions, d # c \/ q # p
      PROVE  BatchOf(d, q)'
  <2>1. reader'[d][q] = reader[d][q]
    BY <1>1, <1>7 DEF TypeOK
  <2>2. \A m \in Messages : m[1] = q => task'[d][m] = task[d][m]
    BY <1>2, <1>7
  <2>3. owner[q] = d => committed'[q] = committed[q]
    BY <1>7
  <2>4. QED
    BY <2>1, <2>2, <2>3, KeepsBatch
<1>8. QED
  BY <1>2, <1>5, <1>6, <1>7 DEF BaseInvariant, Batches

\* The whole batch of the owner was handled, and the offset moves behind it.
LEMMA CommitPointInLog ==
    ASSUME BaseInvariant, NEW c \in Consumers, NEW p \in Partitions,
           reader[c][p] = "working", owner[p] = c
    PROVE  /\ CommitPoint(c, p) \in Nat /\ CommitPoint(c, p) <= Len(log[p])
           /\ \A m \in Messages : m[1] = p /\ m[2] <= CommitPoint(c, p)
                => m[2] <= committed[p] \/ m \in Batch(c, p)
<1>1. PICK a \in Nat, n \in 1 .. BatchSize :
        a + n <= Len(log[p]) /\ a = committed[p] /\ BatchIs(c, p, a, n)
  BY DEF BaseInvariant, Batches, BatchOf
<1>2. n \in Nat
  BY RecoveryAssumption
<1>3. CommitPoint(c, p) = a + n
  BY <1>1, <1>2, BatchLength DEF CommitPoint, BaseInvariant
<1>4. ASSUME NEW m \in Messages, m[1] = p, m[2] <= a + n, ~(m[2] <= a)
      PROVE  m \in Batch(c, p)
  <2>1. m[2] \in Nat
    BY MessageParts DEF BaseInvariant
  <2>2. m[2] \in a + 1 .. a + n
    BY <1>2, <1>4, <2>1
  <2>3. QED
    BY <1>1, <1>4, <2>2 DEF BatchIs, Batch
<1>5. QED
  BY <1>1, <1>2, <1>3, <1>4

\* A batch ends: with its commit, or with the error of a dead letter or of the commit.
LEMMA BatchEndStep ==
    ASSUME BaseInvariant, NEW c \in Consumers, NEW p \in Partitions,
           Commit(c, p) \/ BatchFails(c, p)
    PROVE  BaseInvariant' /\ GroupEffect
<1>1. /\ TypeOK /\ reader[c][p] = "working"
      /\ UNCHANGED <<log, owner, stable, outcome>>
      /\ \A m \in Batch(c, p) : task[c][m] \in {"done", "broken"}
  BY DEF BaseInvariant, Commit, BatchFails, LanesDone
<1>2. PICK next \in {"reading", "ended"} : ClosesBatch(c, p, next)
  BY DEF Commit, BatchFails
<1>3. \/ committed' = committed
      \/ /\ committed' = [committed EXCEPT ![p] = CommitPoint(c, p)]
         /\ owner[p] = c /\ \A m \in Batch(c, p) : task[c][m] = "done"
  BY DEF Commit, BatchFails, NoError
<1>4. /\ orphans \subseteq orphans'
      /\ \A m \in Batch(c, p) : task[c][m] = "broken" => Message(m).event \in orphans'
      /\ orphans' \in SUBSET Events
  <2>1. \A m \in Messages : Message(m).event \in Events
    BY <1>1, MessageParts DEF Command
  <2>2. CASE Commit(c, p)
    BY <1>1, <2>2 DEF Commit, NoError, TypeOK
  <2>3. CASE BatchFails(c, p)
    BY <1>1, <2>1, <2>3 DEF BatchFails, TypeOK, Batch
  <2>4. QED
    BY <2>2, <2>3
<1>5. faults' \in 0 .. MaxFaults
  BY <1>1, FaultBound DEF Commit, BatchFails, TypeOK
<1>6. /\ committed' \in [Partitions -> Nat]
      /\ \A q \in Partitions :
           /\ committed'[q] <= Len(log[q])
           /\ q # p \/ owner[q] # c => committed'[q] = committed[q]
  BY <1>1, <1>3, CommitPointInLog DEF TypeOK
<1>7. /\ BaseInvariant'
      /\ \A d \in Consumers, m \in Messages :
           task'[d][m] = IF d = c /\ m[1] = p THEN "none" ELSE task[d][m]
  BY <1>1, <1>2, <1>4, <1>5, <1>6, CloseStep
<1>8. ASSUME NEW m \in Messages, m[1] = p, task[c][m] \in Cut
      PROVE  Message(m).event \in orphans'
  <2>1. m \in Batch(c, p) /\ task[c][m] = "broken"
    BY <1>1, <1>8 DEF Batch, Cut
  <2>2. QED
    BY <1>4, <2>1
<1>9. ASSUME NEW m \in Messages, m[2] <= committed'[m[1]], ~(m[2] <= committed[m[1]])
      PROVE  \E d \in Consumers : task[d][m] = "done"
  <2>1. m[1] = p /\ committed' = [committed EXCEPT ![p] = CommitPoint(c, p)]
        /\ owner[p] = c /\ \A n \in Batch(c, p) : task[c][n] = "done"
    BY <1>3, <1>6, <1>9, MessageParts DEF BaseInvariant
  <2>2. m[2] <= CommitPoint(c, p)
    BY <1>1, <1>9, <2>1 DEF TypeOK
  <2>3. m \in Batch(c, p)
    BY <1>1, <1>9, <2>1, <2>2, CommitPointInLog
  <2>4. QED
    BY <2>1, <2>3
<1>10. GroupEffect
  BY <1>1, <1>4, <1>7, <1>8, <1>9 DEF GroupEffect
<1>11. QED
  BY <1>7, <1>10

\* A process stops: its batches are gone, and what it was handling is an orphan.
LEMMA StopStep ==
    ASSUME BaseInvariant, NEW c \in Consumers, Stop(c)
    PROVE  BaseInvariant' /\ GroupEffect
<1>1. /\ TypeOK /\ Messages' = Messages
      /\ UNCHANGED <<log, committed, outcome>>
      /\ reader' = [reader EXCEPT ![c] = [p \in Partitions |-> "none"]]
      /\ owner' = [p \in Partitions |-> IF owner[p] = c THEN NoConsumer ELSE owner[p]]
      /\ task' = [task EXCEPT ![c] = [m \in Messages |-> "none"]]
      /\ orphans' = orphans \cup {Message(m).event : m \in {n \in Messages : task[c][n] \in Cut}}
  BY SameLog DEF BaseInvariant, Stop, Leaves
<1>2. stable' = FALSE
  BY DEF Stop, Leaves
<1>3. stable' \in BOOLEAN
  BY <1>2
<1>4. faults' \in 0 .. MaxFaults
  BY <1>1, FaultBound DEF Stop
<1>5. orphans' \in SUBSET Events
  BY <1>1, MessageParts DEF TypeOK, Command
<1>6. reader' \in [Consumers -> [Partitions -> {"none", "reading", "working", "ended"}]]
  BY <1>1 DEF TypeOK
<1>7. owner' \in [Partitions -> Consumers \cup {NoConsumer}]
  BY <1>1 DEF TypeOK
<1>8. /\ task' \in [Consumers -> [Messages -> Stages]]
      /\ \A d \in Consumers, m \in Messages :
           task'[d][m] = IF d = c THEN "none" ELSE task[d][m]
  <2>1. [m \in Messages |-> "none"] \in [Messages -> Stages]
    BY DEF Stages
  <2>2. QED
    BY <1>1, <2>1 DEF TypeOK
<1>9. TypeOK'
  BY <1>1, <1>3, <1>4, <1>5, <1>6, <1>7, <1>8 DEF TypeOK, outcome
<1>10. ASSUME NEW d \in Consumers, NEW p \in Partitions PROVE BatchOf(d, p)'
  <2>1. CASE d = c
    <3>1. reader'[d][p] # "working"
      BY <1>1, <2>1 DEF TypeOK
    <3>2. QED
      BY <1>1, <1>8, <2>1, <3>1 DEF BatchOf
  <2>2. CASE d # c
    <3>1. reader'[d] = reader[d] /\ (owner'[p] = d => owner[p] = d)
      BY <1>1, <2>2, RecoveryAssumption DEF TypeOK
    <3>2. QED
      BY <1>1, <1>8, <2>2, <3>1, KeepsBatch
  <2>3. QED
    BY <2>1, <2>2
<1>11. GroupEffect
  BY <1>1, <1>8 DEF GroupEffect
<1>12. QED
  BY <1>9, <1>10, <1>11 DEF BaseInvariant, Batches

LEMMA GroupStep ==
    ASSUME BaseInvariant, GroupAction
    PROVE  BaseInvariant' /\ GroupEffect
BY GenerationStep, EndGenerationStep, StopStep, FetchStep, FetchCancelledStep, BatchEndStep
DEF GroupAction, PartitionStep

-----------------------------------------------------------------------------
(***************************************************************************)
(* Steps of a lane.                                                        *)
(***************************************************************************)
LaneAction(c, m) == LaneStep(c, m) \/ LaneFault(c, m)

\* A lane's step moves its message, and leaves the batches as they are.
LEMMA LaneBase ==
    ASSUME BaseInvariant, NEW c \in Consumers, NEW m \in Messages, LaneAction(c, m)
    PROVE  /\ BaseInvariant' /\ UNCHANGED <<log, group, orphans>>
           /\ dead \subseteq dead'
           /\ \E stage \in Stages \ {"none"} :
                Reaches(c, m, stage) /\ task'[c][m] = stage
           /\ task[c][m] # "none"
           /\ \A d \in Consumers, n \in Messages :
                d # c \/ n # m => task'[d][n] = task[d][n]
<1> USE DEF LaneAction, LaneStep, LaneFault, ClaimEvent, ClaimFails, Apply, Refuse, ApplyFails,
    Complete, CompleteFails, Release, ReleaseFails, DeadLetter, DeadLetterFails
<1>1. /\ TypeOK /\ UNCHANGED <<log, group, orphans>>
      /\ Message(m) \in Command /\ Message(m).event \in Events /\ Message(m).gig \in Gigs
  BY MessageParts DEF BaseInvariant, Command
<1>2. PICK stage \in Stages \ {"none"} : Reaches(c, m, stage)
  BY DEF Stages
<1>3. task[c][m] # "none"
  BY DEF At
<1>4. /\ claims' \in SUBSET Events /\ completed' \in SUBSET Events
  BY <1>1 DEF TypeOK, outcome
<1>5. gigs' \in [Gigs -> SUBSET Ops]
  <2>1. Applied(m) \in [Gigs -> SUBSET Ops]
    <3>1. After(Message(m).op, gigs[Message(m).gig]) \in SUBSET Ops
      BY <1>1 DEF TypeOK, Command, After
    <3>2. QED
      BY <1>1, <3>1 DEF TypeOK, Applied
  <2>2. gigs' = gigs \/ gigs' = Applied(m)
    BY DEF outcome
  <2>3. QED
    BY <1>1, <2>1, <2>2 DEF TypeOK
<1>6. handled' \in [Events -> Nat]
  <2>1. handled' = handled \/ handled' = [handled EXCEPT ![Message(m).event] = @ + 1]
    BY DEF outcome
  <2>2. QED
    BY <1>1, <2>1 DEF TypeOK
<1>7. dead' \in SUBSET Messages /\ dead \subseteq dead'
  BY <1>1 DEF TypeOK, outcome
<1>8. faults' \in 0 .. MaxFaults
  <2>1. faults' = faults \/ Fault
    OBVIOUS
  <2>2. QED
    BY <1>1, <2>1, FaultBound DEF TypeOK
<1>9. BaseInvariant'
  BY <1>1, <1>2, <1>3, <1>4, <1>5, <1>6, <1>7, <1>8, BaseTask
<1>10. /\ task'[c][m] = stage
       /\ \A d \in Consumers, n \in Messages :
            d # c \/ n # m => task'[d][n] = task[d][n]
  BY <1>1, <1>2, OneTask
<1>11. QED
  BY <1>1, <1>2, <1>3, <1>7, <1>9, <1>10

LEMMA BaseStep == BaseInvariant /\ [Next]_vars => BaseInvariant'
<1> SUFFICES ASSUME BaseInvariant, [Next]_vars PROVE BaseInvariant'
  OBVIOUS
<1>1. CASE GroupAction
  BY <1>1, GroupStep
<1>2. ASSUME NEW c \in Consumers, NEW m \in Messages, LaneAction(c, m)
      PROVE  BaseInvariant'
  BY <1>2, LaneBase
<1>3. CASE UNCHANGED vars
  <2>1. TypeOK'
    BY <1>3, SameLog DEF vars, group, outcome, BaseInvariant, TypeOK
  <2>2. Batches'
    BY <1>3, KeepsBatch DEF vars, group, Batches
  <2>3. QED
    BY <2>1, <2>2 DEF BaseInvariant
<1>4. QED
  BY <1>1, <1>2, <1>3 DEF Next, GroupAction, LaneAction

\* Every variable stays in its type; the offsets stay within the log, and a batch that
\* is being handled is a stretch of it.
THEOREM BaseInvariance == Spec => []BaseInvariant
BY BaseInit, BaseStep, PTL DEF Spec

\* Every variable stays in its type.
THEOREM RecoveryTypeCorrect == Spec => []TypeOK
<1>1. BaseInvariant => TypeOK
  BY DEF BaseInvariant
<1>2. QED
  BY <1>1, BaseInvariance, PTL

-----------------------------------------------------------------------------
(***************************************************************************)
(* The ledger.                                                             *)
(***************************************************************************)

\* The lane that is at this stage won the claim of its command and has not ended.
Holds(stage) == stage \in {"claimed", "applied", "failed"}

\* The row of a handled command stays; who holds a claim holds it alone, and its
\* command was not handled yet.
HolderInvariant ==
    /\ \A e \in Events : handled[e] # 0 => e \in claims
    /\ \A c \in Consumers, m \in Messages : Holds(task[c][m]) =>
         Message(m).event \in claims /\ handled[Message(m).event] = 0
    /\ \A c, d \in Consumers, m, n \in Messages :
         Holds(task[c][m]) /\ Holds(task[d][n]) /\ Message(m).event = Message(n).event
           => c = d /\ m = n

\* A step that leaves the ledger alone and makes no new holder.
LEMMA NoNewHolder ==
    ASSUME HolderInvariant, UNCHANGED <<log, claims, handled>>,
           \A c \in Consumers, m \in Messages :
             Holds(task'[c][m]) => Holds(task[c][m])
    PROVE  HolderInvariant'
<1>1. Messages' = Messages /\ \A m : Message(m)' = Message(m)
  BY SameLog
<1>2. \A c \in Consumers, m \in Messages : Holds(task'[c][m]) =>
         Message(m)'.event \in claims' /\ handled'[Message(m)'.event] = 0
  BY <1>1 DEF HolderInvariant
<1>3. \A c, d \in Consumers, m, n \in Messages :
         Holds(task'[c][m]) /\ Holds(task'[d][n])
           /\ Message(m)'.event = Message(n)'.event => c = d /\ m = n
  BY <1>1 DEF HolderInvariant
<1>4. QED
  BY <1>1, <1>2, <1>3 DEF HolderInvariant

\* A lane that wins a claim becomes the only holder of its command.
LEMMA ClaimTask ==
    ASSUME HolderInvariant, BaseInvariant, UNCHANGED <<log, handled>>,
           NEW c \in Consumers, NEW m \in Messages,
           \A d \in Consumers, n \in Messages :
             d # c \/ n # m => task'[d][n] = task[d][n],
           Message(m).event \notin claims,
           claims' = claims \cup {Message(m).event}
    PROVE  HolderInvariant'
<1> DEFINE e == Message(m).event
<1>1. Messages' = Messages /\ \A n : Message(n)' = Message(n)
  BY SameLog
<1>2. e \in Events /\ handled \in [Events -> Nat]
  BY MessageParts DEF BaseInvariant, TypeOK, Command
<1>3. handled[e] = 0
  BY <1>2 DEF HolderInvariant
<1>4. \A d \in Consumers, n \in Messages : Holds(task[d][n]) => Message(n).event # e
  BY DEF HolderInvariant
<1>5. ASSUME NEW d \in Consumers, NEW n \in Messages, Holds(task'[d][n])
      PROVE  Message(n).event \in claims' /\ handled[Message(n).event] = 0
  <2>1. CASE d = c /\ n = m
    BY <1>3, <2>1
  <2>2. CASE d # c \/ n # m
    BY <1>5, <2>2 DEF HolderInvariant
  <2>3. QED
    BY <2>1, <2>2
<1>6. ASSUME NEW d \in Consumers, NEW b \in Consumers, NEW n \in Messages,
             NEW k \in Messages, Holds(task'[d][n]), Holds(task'[b][k]),
             Message(n).event = Message(k).event
      PROVE  d = b /\ n = k
  <2>1. CASE (d # c \/ n # m) /\ (b # c \/ k # m)
    BY <1>6, <2>1 DEF HolderInvariant
  <2>2. CASE d = c /\ n = m
    BY <1>4, <1>6, <2>2
  <2>3. CASE b = c /\ k = m
    BY <1>4, <1>6, <2>3
  <2>4. QED
    BY <2>1, <2>2, <2>3
<1>7. \A d \in Events : handled'[d] # 0 => d \in claims'
  BY DEF HolderInvariant
<1>8. QED
  BY <1>1, <1>5, <1>6, <1>7 DEF HolderInvariant

\* A holder that ends, by success or by giving its claim back, leaves no other holder
\* of its command behind.
LEMMA EndTask ==
    ASSUME HolderInvariant, BaseInvariant, UNCHANGED log,
           NEW c \in Consumers, NEW m \in Messages,
           Holds(task[c][m]), ~Holds(task'[c][m]),
           \A d \in Consumers, n \in Messages :
             d # c \/ n # m => task'[d][n] = task[d][n],
           \/ /\ handled' = [handled EXCEPT ![Message(m).event] = @ + 1]
              /\ UNCHANGED claims
           \/ claims' = claims \ {Message(m).event} /\ UNCHANGED handled
    PROVE  HolderInvariant'
<1> DEFINE e == Message(m).event
<1>1. Messages' = Messages /\ \A n : Message(n)' = Message(n)
  BY SameLog
<1>2. /\ e \in Events /\ e \in claims /\ handled[e] = 0
      /\ handled \in [Events -> Nat] /\ claims \in SUBSET Events
      /\ \A n \in Messages : Message(n).event \in Events
  BY MessageParts DEF HolderInvariant, BaseInvariant, TypeOK, Command
<1>3. \A d \in Consumers, n \in Messages : Holds(task'[d][n]) =>
        Holds(task[d][n]) /\ Message(n).event # e
  BY DEF HolderInvariant
<1>4. /\ \A d \in Events : d # e =>
           handled'[d] = handled[d] /\ (d \in claims' <=> d \in claims)
      /\ handled'[e] # 0 => e \in claims'
  BY <1>2
<1>5. \A d \in Events : handled'[d] # 0 => d \in claims'
  BY <1>4 DEF HolderInvariant
<1>6. \A d \in Consumers, n \in Messages : Holds(task'[d][n]) =>
        Message(n).event \in claims' /\ handled'[Message(n).event] = 0
  BY <1>2, <1>3, <1>4 DEF HolderInvariant
<1>7. \A d, b \in Consumers, n, k \in Messages :
        Holds(task'[d][n]) /\ Holds(task'[b][k]) /\ Message(n).event = Message(k).event
          => d = b /\ n = k
  BY <1>3 DEF HolderInvariant
<1>8. QED
  BY <1>1, <1>5, <1>6, <1>7 DEF HolderInvariant

\* A lane's step, and what it is in the ledger.
LEMMA LaneLedger ==
    ASSUME HolderInvariant, BaseInvariant, NEW c \in Consumers, NEW m \in Messages,
           LaneAction(c, m)
    PROVE  HolderInvariant' /\ [Ledger!LedgerNext]_(Ledger!ledgerVars)
<1> DEFINE e == Message(m).event
           Goal == HolderInvariant' /\ [Ledger!LedgerNext]_(Ledger!ledgerVars)
<1>1. /\ UNCHANGED log /\ TypeOK /\ e \in Events
      /\ \A d \in Consumers, n \in Messages :
           d # c \/ n # m => task'[d][n] = task[d][n]
  BY LaneBase, MessageParts DEF BaseInvariant, Command
<1>2. \A stage \in Stages : Reaches(c, m, stage) => task'[c][m] = stage
  BY <1>1, OneTask
<1>3. /\ {"claimed", "applied", "failed", "doomed", "done", "broken"} \subseteq Stages
      /\ ~Holds("doomed") /\ ~Holds("done") /\ ~Holds("broken")
      /\ Holds("claimed") /\ Holds("applied") /\ Holds("failed")
  BY DEF Stages, Holds
<1>4. ASSUME UNCHANGED <<claims, handled>>, Holds(task'[c][m]) => Holds(task[c][m])
      PROVE  Goal
  <2>1. \A d \in Consumers, n \in Messages : Holds(task'[d][n]) => Holds(task[d][n])
    BY <1>1, <1>4
  <2>2. HolderInvariant'
    BY <1>1, <1>4, <2>1, NoNewHolder
  <2>3. QED
    BY <1>4, <2>2 DEF Ledger!ledgerVars
<1>5. ASSUME e \notin claims, claims' = claims \cup {e}, UNCHANGED handled
      PROVE  Goal
  <2>1. HolderInvariant'
    BY <1>1, <1>5, ClaimTask
  <2>2. Ledger!Claim(e)
    BY <1>5 DEF Ledger!Claim
  <2>3. QED
    BY <1>1, <2>1, <2>2 DEF Ledger!LedgerNext
<1>6. CASE ClaimEvent(c, m)
  <2>1. CASE e \notin claims
    BY <1>5, <1>6, <2>1 DEF ClaimEvent
  <2>2. CASE e \in claims
    <3>1. task'[c][m] = "done" /\ claims' = claims /\ handled' = handled
      BY <1>2, <1>3, <1>6, <2>2 DEF ClaimEvent, WinsClaim
    <3>2. QED
      BY <1>3, <1>4, <3>1
  <2>3. QED
    BY <2>1, <2>2
<1>7. CASE ClaimFails(c, m)
  <2>1. task'[c][m] = "doomed" /\ handled' = handled
    BY <1>2, <1>3, <1>7 DEF ClaimFails
  <2>2. CASE claims' = claims
    BY <1>3, <1>4, <2>1, <2>2
  <2>3. CASE claims' # claims
    BY <1>5, <1>7, <2>1, <2>3 DEF ClaimFails
  <2>4. QED
    BY <2>2, <2>3
<1>8. CASE Apply(c, m) \/ ApplyFails(c, m) \/ Refuse(c, m) \/ CompleteFails(c, m)
  <2>1. UNCHANGED <<claims, handled>> /\ Holds(task[c][m])
    BY <1>3, <1>8 DEF Apply, ApplyFails, Refuse, CompleteFails, At, outcome
  <2>2. QED
    BY <1>4, <2>1
<1>9. CASE ReleaseFails(c, m) \/ DeadLetter(c, m) \/ DeadLetterFails(c, m)
  <2>1. UNCHANGED <<claims, handled>> /\ task'[c][m] \in {"doomed", "done", "broken"}
    BY <1>2, <1>3, <1>9 DEF ReleaseFails, DeadLetter, DeadLetterFails, outcome
  <2>2. QED
    BY <1>3, <1>4, <2>1
<1>10. CASE Complete(c, m)
  <2>1. /\ task'[c][m] = "done" /\ Holds(task[c][m]) /\ UNCHANGED claims
        /\ handled' = [handled EXCEPT ![e] = @ + 1]
    BY <1>2, <1>3, <1>10 DEF Complete, At
  <2>2. HolderInvariant'
    BY <1>1, <1>3, <2>1, EndTask
  <2>3. e \in claims /\ handled[e] = 0
    BY <2>1 DEF HolderInvariant
  <2>4. handled' = [handled EXCEPT ![e] = 1]
    BY <2>1, <2>3
  <2>5. Ledger!Finish(e)
    BY <2>1, <2>3, <2>4 DEF Ledger!Finish
  <2>6. QED
    BY <1>1, <2>2, <2>5 DEF Ledger!LedgerNext
<1>11. CASE Release(c, m)
  <2>1. /\ task'[c][m] = "doomed" /\ Holds(task[c][m]) /\ UNCHANGED handled
        /\ claims' = claims \ {e}
    BY <1>2, <1>3, <1>11 DEF Release, At
  <2>2. HolderInvariant'
    BY <1>1, <1>3, <2>1, EndTask
  <2>3. e \in claims /\ handled[e] = 0
    BY <2>1 DEF HolderInvariant
  <2>4. Ledger!GiveBack(e)
    BY <2>1, <2>3 DEF Ledger!GiveBack
  <2>5. QED
    BY <1>1, <2>2, <2>4 DEF Ledger!LedgerNext
<1>12. QED
  BY <1>6, <1>7, <1>8, <1>9, <1>10, <1>11 DEF LaneAction, LaneStep, LaneFault

LEMMA LedgerStep ==
    BaseInvariant /\ HolderInvariant /\ [Next]_vars
      => HolderInvariant' /\ [Ledger!LedgerNext]_(Ledger!ledgerVars)
<1> SUFFICES ASSUME BaseInvariant, HolderInvariant, [Next]_vars
             PROVE  HolderInvariant' /\ [Ledger!LedgerNext]_(Ledger!ledgerVars)
  OBVIOUS
<1>1. ASSUME UNCHANGED <<log, claims, handled>>,
             \A c \in Consumers, m \in Messages : task'[c][m] \in {task[c][m], "none", "fetched"}
      PROVE  HolderInvariant' /\ [Ledger!LedgerNext]_(Ledger!ledgerVars)
  <2>1. \A c \in Consumers, m \in Messages : Holds(task'[c][m]) => Holds(task[c][m])
    BY <1>1 DEF Holds
  <2>2. QED
    BY <1>1, <2>1, NoNewHolder DEF Ledger!ledgerVars
<1>2. CASE GroupAction
  <2>1. /\ UNCHANGED <<log, claims, handled>>
        /\ \A c \in Consumers, m \in Messages : task'[c][m] \in {task[c][m], "none", "fetched"}
    BY <1>2, GroupStep DEF GroupEffect, outcome
  <2>2. QED
    BY <1>1, <2>1
<1>3. CASE UNCHANGED vars
  BY <1>1, <1>3 DEF vars, outcome
<1>4. QED
  BY <1>2, <1>3, LaneLedger DEF Next, GroupAction, LaneAction

\* The lanes of all the processes implement the ledger of processed events: a command is
\* held by one lane at a time and handled without error at most once, across
\* generations, redeliveries, failed calls and stops.
THEOREM RecoveryImplementsLedger == Spec => LedgerRespected
<1>1. Init => HolderInvariant /\ Ledger!LedgerInit
  BY DEF Init, HolderInvariant, Holds, Ledger!LedgerInit
<1>2. BaseInvariant /\ HolderInvariant /\ [Next]_vars => HolderInvariant'
  BY LedgerStep
<1>3. BaseInvariant /\ HolderInvariant /\ [Next]_vars
        => [Ledger!LedgerNext]_(Ledger!ledgerVars)
  BY LedgerStep
<1>4. QED
  BY <1>1, <1>2, <1>3, BaseInvariance, PTL DEF Spec, LedgerRespected, Ledger!LedgerSpec

-----------------------------------------------------------------------------
(***************************************************************************)
(* No command is lost.                                                     *)
(***************************************************************************)

\* What became of a command: it was executed, it is in the dead letter topic, it is in
\* somebody's hands, or its handling was cut off.
Accounted(e) == handled[e] > 0 \/ DeadLettered(e) \/ InProgress(e) \/ e \in orphans

\* A claim stands for a command that is accounted for, and so is what a lane is done
\* with, before the offset may pass it and after.
AccountInvariant ==
    /\ \A e \in claims : Accounted(e)
    /\ \A c \in Consumers, m \in Messages :
         task[c][m] = "done" => Accounted(Message(m).event)
    /\ \A m \in Messages : m[2] <= committed[m[1]] => Accounted(Message(m).event)

\* A step that loses no account keeps the invariant if what it adds is accounted for.
LEMMA AccountFrame ==
    ASSUME AccountInvariant, BaseInvariant, UNCHANGED log,
           \A e \in Events : Accounted(e) => Accounted(e)',
           \A e \in claims' : e \in claims \/ Accounted(e)',
           \A c \in Consumers, m \in Messages : task'[c][m] = "done" =>
             task[c][m] = "done" \/ Accounted(Message(m).event)',
           \A m \in Messages : m[2] <= committed'[m[1]] =>
             m[2] <= committed[m[1]] \/ Accounted(Message(m).event)'
    PROVE  AccountInvariant'
<1>1. /\ Messages' = Messages /\ \A m : Message(m)' = Message(m)
      /\ \A m \in Messages : Message(m).event \in Events
      /\ claims \in SUBSET Events
  BY SameLog, MessageParts DEF BaseInvariant, TypeOK, Command
<1>2. \A e \in claims' : Accounted(e)'
  BY <1>1 DEF AccountInvariant
<1>3. \A c \in Consumers, m \in Messages :
        task'[c][m] = "done" => Accounted(Message(m).event)'
  BY <1>1 DEF AccountInvariant
<1>4. \A m \in Messages : m[2] <= committed'[m[1]] => Accounted(Message(m).event)'
  BY <1>1 DEF AccountInvariant
<1>5. QED
  BY <1>1, <1>2, <1>3, <1>4 DEF AccountInvariant

\* A step of the group: what is cut off becomes an orphan.
LEMMA AccountGroup ==
    ASSUME AccountInvariant, BaseInvariant, GroupEffect
    PROVE  AccountInvariant'
<1>1. /\ UNCHANGED <<log, handled, dead, claims>> /\ orphans \subseteq orphans'
      /\ Messages' = Messages /\ \A m : Message(m)' = Message(m)
      /\ \A m \in Messages : Message(m).event \in Events
  BY SameLog, MessageParts DEF BaseInvariant, Command, GroupEffect, outcome
<1>2. ASSUME NEW e \in Events, Accounted(e) PROVE Accounted(e)'
  <2>1. CASE handled[e] > 0 \/ DeadLettered(e) \/ e \in orphans
    BY <1>1, <2>1 DEF Accounted, DeadLettered
  <2>2. CASE InProgress(e)
    <3>1. PICK c \in Consumers, m \in Messages : Message(m).event = e /\ task[c][m] \in Cut
      BY <2>2 DEF InProgress
    <3>2. task'[c][m] = task[c][m] \/ e \in orphans'
      BY <3>1 DEF GroupEffect, Cut
    <3>3. QED
      BY <1>1, <3>1, <3>2 DEF Accounted, InProgress
  <2>3. QED
    BY <1>2, <2>1, <2>2 DEF Accounted
<1>3. \A c \in Consumers, m \in Messages :
        task'[c][m] = "done" => task[c][m] = "done"
  BY DEF GroupEffect
<1>4. \A m \in Messages : m[2] <= committed'[m[1]] =>
        m[2] <= committed[m[1]] \/ Accounted(Message(m).event)'
  <2> SUFFICES ASSUME NEW m \in Messages, m[2] <= committed'[m[1]],
                      ~(m[2] <= committed[m[1]])
               PROVE  Accounted(Message(m).event)'
    OBVIOUS
  <2>1. Accounted(Message(m).event)
    BY DEF GroupEffect, AccountInvariant
  <2> DEFINE e == Message(m).event
  <2>2. e \in Events /\ Accounted(e) /\ e' = e
    BY <1>1, <2>1
  <2> HIDE DEF e
  <2>3. Accounted(e)'
    BY <1>2, <2>2
  <2>4. QED
    BY <2>3 DEF e
<1>5. QED
  BY <1>1, <1>2, <1>3, <1>4, AccountFrame

\* A step of a lane: the command it is about is accounted for afterwards.
LEMMA AccountLane ==
    ASSUME AccountInvariant, BaseInvariant, NEW c \in Consumers, NEW m \in Messages,
           LaneAction(c, m)
    PROVE  AccountInvariant'
<1> DEFINE e == Message(m).event
<1>1. /\ UNCHANGED <<log, committed, orphans>> /\ TypeOK /\ e \in Events
      /\ Messages' = Messages /\ \A n : Message(n)' = Message(n)
      /\ dead \subseteq dead'
      /\ \A d \in Consumers, n \in Messages :
           d # c \/ n # m => task'[d][n] = task[d][n]
  BY LaneBase, SameLog, MessageParts DEF BaseInvariant, Command, group
<1>2. \A stage \in Stages : Reaches(c, m, stage) => task'[c][m] = stage
  BY <1>1, OneTask
<1>3. /\ {"claimed", "applied", "failed", "doomed", "broken", "done"} \subseteq Stages
      /\ Cut = {"claimed", "applied", "failed", "doomed", "broken"}
  BY DEF Stages, Cut
<1>4. /\ handled \in [Events -> Nat]
      /\ handled' = handled \/ handled' = [handled EXCEPT ![e] = @ + 1]
  BY <1>1 DEF TypeOK, LaneAction, LaneStep, LaneFault, ClaimEvent, ClaimFails, Apply, Refuse,
              ApplyFails, Complete, CompleteFails, Release, ReleaseFails, DeadLetter,
              DeadLetterFails, outcome
<1>5. \A d \in Events : handled[d] > 0 => handled'[d] > 0
  BY <1>1, <1>4
<1>6. claims' \subseteq claims \cup {e}
  BY DEF LaneAction, LaneStep, LaneFault, ClaimEvent, ClaimFails, Apply, Refuse,
         ApplyFails, Complete, CompleteFails, Release, ReleaseFails, DeadLetter,
         DeadLetterFails, outcome
<1>7. ASSUME NEW d \in Events, Accounted(d), d # e \/ task[c][m] \notin Cut
      PROVE  Accounted(d)'
  <2>1. CASE handled[d] > 0 \/ DeadLettered(d) \/ d \in orphans
    BY <1>1, <1>5, <2>1 DEF Accounted, DeadLettered
  <2>2. CASE InProgress(d)
    <3>1. PICK b \in Consumers, n \in Messages : Message(n).event = d /\ task[b][n] \in Cut
      BY <2>2 DEF InProgress
    <3>2. task'[b][n] = task[b][n]
      BY <1>1, <1>7, <3>1
    <3>3. QED
      BY <1>1, <3>1, <3>2 DEF Accounted, InProgress
  <2>3. QED
    BY <1>7, <2>1, <2>2 DEF Accounted
<1>8. Accounted(e)'
  <2>1. CASE task'[c][m] \in Cut
    BY <1>1, <2>1 DEF Accounted, InProgress
  <2>2. CASE ClaimEvent(c, m)
    <3>1. CASE e \in claims
      <4>1. Accounted(e) /\ task[c][m] \notin Cut
        BY <1>3, <2>2, <3>1 DEF AccountInvariant, ClaimEvent, At
      <4>2. QED
        BY <1>1, <1>7, <4>1
    <3>2. CASE e \notin claims
      BY <1>2, <1>3, <2>1, <2>2, <3>2 DEF ClaimEvent, WinsClaim
    <3>3. QED
      BY <3>1, <3>2
  <2>3. CASE Complete(c, m)
    <3>1. handled'[e] > 0
      BY <1>1, <1>4, <2>3 DEF Complete
    <3>2. QED
      BY <1>1, <3>1 DEF Accounted
  <2>4. CASE DeadLetter(c, m)
    BY <1>1, <2>4 DEF DeadLetter, Accounted, DeadLettered
  <2>5. CASE ~(ClaimEvent(c, m) \/ Complete(c, m) \/ DeadLetter(c, m))
    <3>1. task'[c][m] \in Cut
      BY <1>2, <1>3, <2>5 DEF LaneAction, LaneStep, LaneFault, ClaimFails, Apply, Refuse,
         ApplyFails, CompleteFails, Release, ReleaseFails, DeadLetterFails
    <3>2. QED
      BY <2>1, <3>1
  <2>6. QED
    BY <2>2, <2>3, <2>4, <2>5
<1>9. ASSUME NEW d \in Events, Accounted(d) PROVE Accounted(d)'
  <2>1. CASE d = e
    BY <1>1, <1>8, <2>1
  <2>2. CASE d # e
    BY <1>7, <1>9, <2>2
  <2>3. QED
    BY <2>1, <2>2
<1>10. \A d \in Consumers, n \in Messages : task'[d][n] = "done" =>
         task[d][n] = "done" \/ Accounted(Message(n).event)'
  BY <1>1, <1>8
<1>11. QED
  BY <1>1, <1>6, <1>8, <1>9, <1>10, AccountFrame

LEMMA AccountStep ==
    AccountInvariant /\ BaseInvariant /\ [Next]_vars => AccountInvariant'
<1> SUFFICES ASSUME AccountInvariant, BaseInvariant, [Next]_vars PROVE AccountInvariant'
  OBVIOUS
<1>1. CASE UNCHANGED vars
  <2>1. GroupEffect
    BY <1>1 DEF vars, group, GroupEffect
  <2>2. QED
    BY <2>1, AccountGroup
<1>2. QED
  BY <1>1, GroupStep, AccountGroup, AccountLane DEF Next, GroupAction, LaneAction

\* Whatever fails, every claim, every finished task and every committed command is
\* accounted for.
THEOREM AccountInvariance == Spec => []AccountInvariant
<1>1. Init => AccountInvariant
  <2> SUFFICES ASSUME Init PROVE AccountInvariant
    OBVIOUS
  <2>1. TypeOK
    BY BaseInit DEF BaseInvariant
  <2>2. \A m \in Messages : ~(m[2] <= committed[m[1]])
    BY <2>1, MessageParts DEF Init
  <2>3. QED
    BY <2>2 DEF Init, AccountInvariant
<1>2. QED
  BY <1>1, AccountStep, BaseInvariance, PTL DEF Spec

\* The offset passes no command that was not executed, dead-lettered, in somebody's hands,
\* or cut off by a stop or a dead letter that could not be written.
THEOREM OrphansAreTheOnlyLoss == Spec => []OnlyOrphansAreLost
<1>1. AccountInvariant => OnlyOrphansAreLost
  BY DEF AccountInvariant, OnlyOrphansAreLost, Done, Accounted
<1>2. QED
  BY <1>1, AccountInvariance, PTL

-----------------------------------------------------------------------------
(***************************************************************************)
(* What is reported complete was applied.                                  *)
(***************************************************************************)

\* The id of a command names one command: the ledger and the completion events know
\* commands by their ids only, so what follows cannot be had without it.
OneCommandPerEvent ==
    \A l \in Logs : \A p, q \in Partitions : \A i \in DOMAIN l[p], j \in DOMAIN l[q] :
        l[p][i].event = l[q][j].event => l[p][i] = l[q][j]

\* The effect of message m is in the write model.
Effect(m) == Message(m).op \in gigs[Message(m).gig]

\* The effect is there from the end of the use case on, and what a gig started with stays.
EffectInvariant ==
    /\ \A g \in Gigs : Started(g) \subseteq gigs[g]
    /\ \A c \in Consumers, m \in Messages : task[c][m] = "applied" => Effect(m)
    /\ \A m \in Messages : Message(m).event \in completed => Effect(m)

\* A gig goes forward only: an effect stays.
LEMMA EffectStays ==
    ASSUME TypeOK, UNCHANGED log, NEW m \in Messages,
           gigs' = gigs \/ (MayApply(m) /\ gigs' = Applied(m))
    PROVE  /\ \A n \in Messages : Effect(n) => Effect(n)'
           /\ MayApply(m) /\ gigs' = Applied(m) => Effect(m)'
           /\ \A g \in Gigs : gigs[g] \subseteq gigs'[g]
<1>1. /\ gigs \in [Gigs -> SUBSET Ops]
      /\ \A n \in Messages : Message(n).gig \in Gigs /\ Message(n).op \in Ops
      /\ \A n : Message(n)' = Message(n)
  BY MessageParts, SameLog DEF TypeOK, Command
<1>2. CASE gigs' = gigs /\ ~(MayApply(m) /\ gigs' = Applied(m))
  BY <1>1, <1>2 DEF Effect
<1>3. CASE MayApply(m) /\ gigs' = Applied(m)
  <2> DEFINE g == Message(m).gig
             op == Message(m).op
  <2>1. /\ gigs'[g] = After(op, gigs[g])
        /\ \A f \in Gigs : f # g => gigs'[f] = gigs[f]
        /\ Accepted(op, gigs[g]) /\ g \in Gigs /\ op \in Ops
    BY <1>1, <1>3 DEF Applied, MayApply
  <2>2. /\ gigs[g] \subseteq gigs'[g]
        /\ op \in gigs'[g]
    BY <2>1 DEF After, Accepted
  <2>3. Effect(m)'
    BY <1>1, <2>2 DEF Effect
  <2>4. ASSUME NEW n \in Messages, Effect(n) PROVE Effect(n)'
    <3>1. CASE Message(n).gig = g
      BY <1>1, <2>2, <2>4, <3>1 DEF Effect
    <3>2. CASE Message(n).gig # g
      BY <1>1, <2>1, <2>4, <3>2 DEF Effect
    <3>3. QED
      BY <3>1, <3>2
  <2>5. \A f \in Gigs : gigs[f] \subseteq gigs'[f]
    BY <2>1, <2>2
  <2>6. QED
    BY <2>3, <2>4, <2>5
<1>4. QED
  BY <1>2, <1>3

\* What the lanes write is what the use case of their command writes.
LEMMA LaneGigs ==
    ASSUME NEW c \in Consumers, NEW m \in Messages, LaneAction(c, m)
    PROVE  gigs' = gigs \/ (MayApply(m) /\ gigs' = Applied(m))
BY DEF LaneAction, LaneStep, LaneFault, ClaimEvent, ClaimFails, Apply, Refuse,
       ApplyFails, Complete, CompleteFails, Release, ReleaseFails, DeadLetter,
       DeadLetterFails, outcome

LEMMA EffectLane ==
    ASSUME OneCommandPerEvent, EffectInvariant, BaseInvariant,
           NEW c \in Consumers, NEW m \in Messages, LaneAction(c, m)
    PROVE  EffectInvariant'
<1> DEFINE e == Message(m).event
<1>1. /\ UNCHANGED log /\ TypeOK /\ log \in Logs
      /\ Messages' = Messages /\ \A n : Message(n)' = Message(n)
      /\ \A d \in Consumers, n \in Messages :
           d # c \/ n # m => task'[d][n] = task[d][n]
  BY LaneBase, SameLog DEF BaseInvariant, TypeOK
<1>2. \A stage \in Stages : Reaches(c, m, stage) => task'[c][m] = stage
  BY <1>1, OneTask
<1>3. /\ \A n \in Messages : Effect(n) => Effect(n)'
      /\ MayApply(m) /\ gigs' = Applied(m) => Effect(m)'
      /\ \A g \in Gigs : gigs[g] \subseteq gigs'[g]
  BY <1>1, LaneGigs, EffectStays
<1>4. {"claimed", "applied", "failed", "doomed", "broken", "done"} \subseteq Stages
  BY DEF Stages
<1>5. ASSUME NEW n \in Messages, Effect(m), Message(n).event = e PROVE Effect(n)
  <2>1. /\ m[1] \in Partitions /\ n[1] \in Partitions
        /\ m[2] \in DOMAIN log[m[1]] /\ n[2] \in DOMAIN log[n[1]]
    BY DEF Messages
  <2>2. Message(n) = Message(m)
    BY <1>1, <1>5, <2>1 DEF OneCommandPerEvent, Message
  <2>3. QED
    BY <1>5, <2>2 DEF Effect
<1>6. task'[c][m] = "applied" => Effect(m)'
  <2>1. CASE Apply(c, m)
    BY <1>3, <2>1 DEF Apply
  <2>2. CASE ~Apply(c, m)
    <3>1. task'[c][m] # "applied"
      BY <1>2, <1>4, <2>2 DEF LaneAction, LaneStep, LaneFault, ClaimEvent, ClaimFails,
         Refuse, ApplyFails, Complete, CompleteFails, Release, ReleaseFails, DeadLetter,
         DeadLetterFails
    <3>2. QED
      BY <3>1
  <2>3. QED
    BY <2>1, <2>2
<1>7. \/ completed' = completed
      \/ completed' = completed \cup {e} /\ task[c][m] = "applied"
  BY DEF LaneAction, LaneStep, LaneFault, ClaimEvent, ClaimFails, Apply, Refuse,
         ApplyFails, Complete, CompleteFails, Release, ReleaseFails, DeadLetter,
         DeadLetterFails, outcome, At
<1>8. \A n \in Messages : Message(n).event \in completed' => Effect(n)
  BY <1>5, <1>7 DEF EffectInvariant
<1>9. \A d \in Consumers, n \in Messages : task'[d][n] = "applied" => Effect(n)'
  BY <1>1, <1>3, <1>6 DEF EffectInvariant
<1>10. \A g \in Gigs : (Started(g) \subseteq gigs[g])'
  BY <1>3 DEF EffectInvariant, Started
<1>11. QED
  BY <1>1, <1>3, <1>8, <1>9, <1>10 DEF EffectInvariant

LEMMA EffectStep ==
    ASSUME OneCommandPerEvent, EffectInvariant, BaseInvariant, [Next]_vars
    PROVE  EffectInvariant'
<1>1. ASSUME UNCHANGED <<log, gigs, completed>>,
             \A c \in Consumers, m \in Messages : task'[c][m] = "applied" => task[c][m] = "applied"
      PROVE  EffectInvariant'
  BY <1>1, SameLog DEF EffectInvariant, Effect, Started
<1>2. CASE GroupAction
  <2>1. /\ UNCHANGED <<log, gigs, completed>>
        /\ \A c \in Consumers, m \in Messages :
             task'[c][m] = "applied" => task[c][m] = "applied"
    BY <1>2, GroupStep DEF GroupEffect, outcome
  <2>2. QED
    BY <1>1, <2>1
<1>3. CASE UNCHANGED vars
  BY <1>1, <1>3 DEF vars, outcome
<1>4. QED
  BY <1>2, <1>3, EffectLane DEF Next, GroupAction, LaneAction

\* If the id of a command names one command, the monolith is told that a command is
\* complete only when its effect is in the write model, and the effect stays.
THEOREM CompletionIsTrue ==
    ASSUME OneCommandPerEvent
    PROVE  Spec => []CompletionMeansApplied
<1>1. Init => EffectInvariant
  BY DEF Init, EffectInvariant
<1>2. BaseInvariant /\ EffectInvariant /\ [Next]_vars => EffectInvariant'
  BY EffectStep
<1>3. EffectInvariant => CompletionMeansApplied
  BY DEF EffectInvariant, CompletionMeansApplied, Effect
<1>4. QED
  BY <1>1, <1>2, <1>3, BaseInvariance, PTL DEF Spec

-----------------------------------------------------------------------------
(***************************************************************************)
(* The commands of a gig keep their order.                                 *)
(***************************************************************************)

\* A command that the producer repeats goes where it went before.
OnePartitionPerEvent ==
    \A l \in Logs : \A p, q \in Partitions : \A i \in DOMAIN l[p], j \in DOMAIN l[q] :
        l[p][i].event = l[q][j].event => p = q

\* What OrderIsKept says of a message in the dead letter topic.
Excused(m) ==
    HasPrerequisites(m) =>
        \E n \in Earlier(m) :
            \/ n \in dead
            \/ Message(n).op = "create" /\ m[2] - n[2] < BatchSize

\* The first generation goes on.
Undisturbed ==
    \A c \in Consumers, p \in Partitions :
        reader[c][p] # "none" => reader[c][p] # "ended" /\ stable /\ owner[p] = c

Unbroken == \A c \in Consumers, m \in Messages : task[c][m] # "broken"

\* A lane that has begun with a message is done with what comes before it.
Turns ==
    \A c \in Consumers, m, n \in Messages :
        /\ task[c][m] \notin {"none", "fetched"}
        /\ n[1] = m[1] /\ n[2] < m[2] /\ LaneKey(n) = LaneKey(m)
        => task[c][n] \in {"none", "done", "broken"}

\* What a lane is done with has taken effect or is a dead letter.
PastIsSettled ==
    \A n \in Messages :
        n[2] <= committed[n[1]] \/ (\E c \in Consumers : task[c][n] = "done")
          => n \in dead \/ Effect(n)

\* A claim that nobody holds stands for an effect.
ClaimsStand ==
    \A e \in claims :
        \/ \E c \in Consumers, m \in Messages : Holds(task[c][m]) /\ Message(m).event = e
        \/ \A m \in Messages : Message(m).event = e => Effect(m)

\* Whatever was refused had no prerequisite that could have been there.
RefusalsExcused ==
    /\ \A c \in Consumers, m \in Messages : task[c][m] \in {"failed", "doomed"} => Excused(m)
    /\ \A m \in dead : Excused(m)

Orderly == Undisturbed /\ Unbroken /\ Turns /\ PastIsSettled /\ ClaimsStand /\ RefusalsExcused

OrderInvariant == faults = 0 => Orderly

\* An excuse stays good, because dead letters stay.
LEMMA ExcuseStays ==
    ASSUME UNCHANGED log, dead \subseteq dead', NEW m, Excused(m)
    PROVE  Excused(m)'
<1>1. Messages' = Messages /\ \A n : Message(n)' = Message(n)
  BY SameLog
<1>2. Earlier(m)' = Earlier(m)
  BY <1>1 DEF Earlier
<1>3. HasPrerequisites(m)' = HasPrerequisites(m)
  BY <1>1, <1>2 DEF HasPrerequisites, Started
<1>4. QED
  BY <1>1, <1>2, <1>3 DEF Excused

\* Faults are never forgotten.
LEMMA NoFaultYet ==
    ASSUME TypeOK, faults' = 0, faults' = faults \/ Fault
    PROVE  faults = 0 /\ ~Fault
BY RecoveryAssumption DEF TypeOK, Fault

\* A message that is being handled is handled by the owner of its partition.
LEMMA OwnerHandles ==
    ASSUME BaseInvariant, Undisturbed, NEW c \in Consumers, NEW m \in Messages,
           task[c][m] # "none"
    PROVE  stable /\ owner[m[1]] = c
BY MessageParts DEF BaseInvariant, Batches, BatchOf, Undisturbed

\* A step of the group that leaves the handling undisturbed drops nothing that is held.
LEMMA OrderGroupFrame ==
    ASSUME BaseInvariant, Orderly, GroupEffect, Undisturbed', Turns',
           \A c \in Consumers, m \in Messages : Holds(task[c][m]) => Holds(task'[c][m])
    PROVE  Orderly'
<1>1. /\ UNCHANGED <<log, gigs, dead, claims>>
      /\ Messages' = Messages /\ \A n : Message(n)' = Message(n)
  BY SameLog DEF GroupEffect, outcome
<1>2. \A n \in Messages : Effect(n)' <=> Effect(n)
  BY <1>1 DEF Effect
<1>3. \A c \in Consumers, m \in Messages :
        task'[c][m] \notin {"none", "fetched"} => task'[c][m] = task[c][m]
  BY DEF GroupEffect
<1>4. Unbroken'
  BY <1>1, <1>3 DEF Orderly, Unbroken
<1>5. PastIsSettled'
  <2>1. \A n \in Messages :
          n[2] <= committed'[n[1]] \/ (\E c \in Consumers : task'[c][n] = "done")
            => n[2] <= committed[n[1]] \/ (\E c \in Consumers : task[c][n] = "done")
    BY <1>3 DEF GroupEffect
  <2>2. \A n \in Messages :
          n[2] <= committed'[n[1]] \/ (\E c \in Consumers : task'[c][n] = "done")
            => n \in dead' \/ Effect(n)'
    BY <1>1, <1>2, <2>1 DEF Orderly, PastIsSettled
  <2>3. QED
    BY <1>1, <2>2 DEF PastIsSettled
<1>6. ClaimsStand'
  BY <1>1, <1>2 DEF Orderly, ClaimsStand
<1>7. RefusalsExcused'
  <2>1. \A m : Excused(m) => Excused(m)'
    BY <1>1, ExcuseStays
  <2>2. \A c \in Consumers, m \in Messages :
          task'[c][m] \in {"failed", "doomed"} => task[c][m] \in {"failed", "doomed"}
    BY <1>3
  <2>3. QED
    BY <1>1, <2>1, <2>2 DEF Orderly, RefusalsExcused
<1>8. QED
  BY <1>4, <1>5, <1>6, <1>7 DEF Orderly

\* A generation starts when nobody handles anything.
LEMMA OrderGeneration ==
    ASSUME BaseInvariant, Orderly, NextGeneration, faults' = 0
    PROVE  Orderly'
<1>1. TypeOK /\ GroupEffect /\ ~stable
  BY GenerationStep DEF BaseInvariant, NextGeneration
<1>2. UNCHANGED <<log, task>> /\ ~Fault
  BY <1>1, NoFaultYet DEF NextGeneration
<1>3. PICK f \in Assignment(Consumers) :
        /\ owner' = f
        /\ reader' = [c \in Consumers |-> IF c \notin Consumers THEN reader[c] ELSE
                        [p \in Partitions |-> IF f[p] = c THEN "reading" ELSE "none"]]
  BY <1>2 DEF NextGeneration
<1>4. stable' = TRUE
  BY DEF NextGeneration
<1>5. Undisturbed'
  BY <1>3, <1>4 DEF Undisturbed
<1>6. Turns'
  BY <1>2, SameLog DEF Orderly, Turns, LaneKey
<1>7. QED
  BY <1>1, <1>2, <1>5, <1>6, OrderGroupFrame

\* The next batch is taken when the last one is put aside.
LEMMA OrderFetch ==
    ASSUME BaseInvariant, Orderly, NEW c \in Consumers, NEW p \in Partitions, Fetch(c, p)
    PROVE  Orderly'
<1>1. TypeOK /\ GroupEffect
  BY FetchStep DEF BaseInvariant
<1>2. /\ UNCHANGED <<log, owner, stable>>
      /\ reader' = [reader EXCEPT ![c][p] = "working"] /\ reader[c][p] = "reading"
  BY DEF Fetch
<1>3. Undisturbed'
  BY <1>1, <1>2 DEF Orderly, Undisturbed, TypeOK
<1>4. \A m \in Messages : m[1] = p => task[c][m] = "none"
  BY <1>2 DEF BaseInvariant, Batches, BatchOf
<1>5. /\ \A d \in Consumers, m \in Messages :
           d # c \/ m[1] # p => task'[d][m] = task[d][m]
      /\ \A m \in Messages : m[1] = p => task'[c][m] \in {"none", "fetched"}
  <2>1. PICK n \in 1 .. BatchSize :
          task' = [task EXCEPT ![c] = [m \in Messages |->
                     IF m[1] = p /\ m[2] \in committed[p] + 1 .. committed[p] + n
                     THEN "fetched" ELSE task[c][m]]]
    BY DEF Fetch
  <2>2. QED
    BY <1>1, <1>4, <2>1 DEF TypeOK
<1>6. Turns'
  <2>1. Messages' = Messages /\ \A m : LaneKey(m)' = LaneKey(m)
    BY <1>2, SameLog DEF LaneKey
  <2> SUFFICES ASSUME NEW d \in Consumers, NEW m \in Messages, NEW n \in Messages,
                      task'[d][m] \notin {"none", "fetched"},
                      n[1] = m[1], n[2] < m[2], LaneKey(n) = LaneKey(m)
               PROVE  task'[d][n] \in {"none", "done", "broken"}
    BY <2>1 DEF Turns
  <2>2. d # c \/ m[1] # p
    BY <1>5
  <2>3. task'[d][m] = task[d][m] /\ task'[d][n] = task[d][n]
    BY <1>5, <2>2
  <2>4. QED
    BY <2>3 DEF Orderly, Turns
<1>7. \A d \in Consumers, m \in Messages : Holds(task[d][m]) => Holds(task'[d][m])
  BY <1>4, <1>5 DEF Holds
<1>8. QED
  BY <1>1, <1>3, <1>6, <1>7, OrderGroupFrame

\* A batch is put aside when every lane is done with it.
LEMMA OrderCommit ==
    ASSUME BaseInvariant, Orderly, NEW c \in Consumers, NEW p \in Partitions, Commit(c, p)
    PROVE  Orderly'
<1>1. TypeOK /\ GroupEffect
  BY BatchEndStep DEF BaseInvariant
<1>2. /\ UNCHANGED <<log, owner, stable>>
      /\ reader' = [reader EXCEPT ![c][p] = "reading"] /\ reader[c][p] = "working"
      /\ task' = [task EXCEPT ![c] = [m \in Messages |->
                    IF m[1] = p THEN "none" ELSE task[c][m]]]
      /\ \A m \in Messages : m[1] = p => task[c][m] \in {"none", "done"}
  BY DEF Commit, ClosesBatch, LanesDone, NoError, Batch
<1>3. Undisturbed'
  BY <1>1, <1>2 DEF Orderly, Undisturbed, TypeOK
<1>4. /\ \A d \in Consumers, m \in Messages :
           d # c \/ m[1] # p => task'[d][m] = task[d][m]
      /\ \A m \in Messages : m[1] = p => task'[c][m] = "none"
  BY <1>1, <1>2 DEF TypeOK
<1>5. Turns'
  <2>1. Messages' = Messages /\ \A m : LaneKey(m)' = LaneKey(m)
    BY <1>2, SameLog DEF LaneKey
  <2> SUFFICES ASSUME NEW d \in Consumers, NEW m \in Messages, NEW n \in Messages,
                      task'[d][m] \notin {"none", "fetched"},
                      n[1] = m[1], n[2] < m[2], LaneKey(n) = LaneKey(m)
               PROVE  task'[d][n] \in {"none", "done", "broken"}
    BY <2>1 DEF Turns
  <2>2. d # c \/ m[1] # p
    BY <1>4
  <2>3. task'[d][m] = task[d][m] /\ task'[d][n] = task[d][n]
    BY <1>4, <2>2
  <2>4. QED
    BY <2>3 DEF Orderly, Turns
<1>6. \A d \in Consumers, m \in Messages : Holds(task[d][m]) => Holds(task'[d][m])
  BY <1>2, <1>4 DEF Holds
<1>7. QED
  BY <1>1, <1>3, <1>5, <1>6, OrderGroupFrame

\* Without a fault the group does nothing else.
LEMMA OrderGroup ==
    ASSUME BaseInvariant, OrderInvariant, GroupAction
    PROVE  OrderInvariant'
<1> SUFFICES ASSUME faults' = 0 PROVE Orderly'
  BY DEF OrderInvariant
<1>1. TypeOK /\ (faults' = faults \/ Fault)
  BY DEF BaseInvariant, GroupAction, NextGeneration, Rebalance, EndGeneration, Stop,
         PartitionStep, Fetch, FetchCancelled, Commit, BatchFails
<1>2. faults = 0 /\ ~Fault
  BY <1>1, NoFaultYet
<1>3. Orderly
  BY <1>2 DEF OrderInvariant
<1>4. ~Rebalance /\ \A c \in Consumers : ~Stop(c)
  BY <1>2 DEF Rebalance, Stop
<1>5. \A c \in Consumers : ~EndGeneration(c)
  BY <1>1, <1>3 DEF EndGeneration, Free, Orderly, Undisturbed
<1>6. ASSUME NEW c \in Consumers, NEW p \in Partitions
      PROVE  ~FetchCancelled(c, p) /\ ~BatchFails(c, p)
  <2>1. reader[c][p] # "none" => stable /\ owner[p] = c
    BY <1>3 DEF Orderly, Undisturbed
  <2>2. ~FetchCancelled(c, p)
    BY <2>1 DEF FetchCancelled, Interrupted
  <2>3. LanesDone(c, p) => NoError(c, p)
    BY <1>3 DEF LanesDone, NoError, Batch, Orderly, Unbroken
  <2>4. ~BatchFails(c, p)
    BY <1>2, <2>1, <2>3 DEF BatchFails, LanesDone
  <2>5. QED
    BY <2>2, <2>4
<1>7. QED
  BY <1>3, <1>4, <1>5, <1>6, OrderGeneration, OrderFetch, OrderCommit
  DEF GroupAction, PartitionStep

\* A command that is claimed already has taken effect when its turn comes: whoever holds
\* the claim would be in the same lane, and either comes before and is done, or comes
\* behind and waits.
LEMMA ClaimedHasEffect ==
    ASSUME OneCommandPerEvent, OnePartitionPerEvent, BaseInvariant, Orderly,
           NEW c \in Consumers, NEW m \in Messages,
           At(c, m, "fetched"), InTurn(c, m), Message(m).event \in claims
    PROVE  Effect(m)
<1>1. TypeOK /\ log \in Logs /\ stable /\ owner[m[1]] = c /\ task[c][m] = "fetched"
  BY OwnerHandles DEF BaseInvariant, TypeOK, Orderly, At
<1>2. ASSUME NEW d \in Consumers, NEW k \in Messages, Holds(task[d][k]),
             Message(k).event = Message(m).event
      PROVE  FALSE
  <2>1. /\ m[1] \in Partitions /\ k[1] \in Partitions
        /\ m[2] \in DOMAIN log[m[1]] /\ k[2] \in DOMAIN log[k[1]]
    BY DEF Messages
  <2>2. Message(k) = Message(m) /\ k[1] = m[1] /\ LaneKey(k) = LaneKey(m)
    BY <1>1, <1>2, <2>1 DEF OneCommandPerEvent, OnePartitionPerEvent, Message, LaneKey
  <2>3. task[d][k] \notin {"none", "fetched", "done", "broken"}
    BY <1>2 DEF Holds
  <2>4. d = c
    BY <1>1, <2>2, <2>3, OwnerHandles DEF Orderly
  <2>5. k = <<k[1], k[2]>> /\ m = <<m[1], m[2]>> /\ k[2] \in Nat /\ m[2] \in Nat
    BY <1>1, MessageParts
  <2>6. k[2] # m[2]
    BY <1>1, <2>2, <2>3, <2>4, <2>5
  <2>7. ~(k[2] < m[2])
    BY <1>1, <2>2, <2>3, <2>4 DEF InTurn, Batch
  <2>8. ~(m[2] < k[2])
    BY <1>1, <2>2, <2>3, <2>4 DEF Orderly, Turns
  <2>9. QED
    BY <2>5, <2>6, <2>7, <2>8
<1>3. QED
  BY <1>2 DEF Orderly, ClaimsStand

\* A use case refuses only what lacks something, in the gig or at the beginning.
LEMMA RefusedLacks ==
    ASSUME TypeOK, EffectInvariant, NEW m \in Messages, ~MayApply(m), HasPrerequisites(m)
    PROVE  \E n \in Earlier(m) : ~Effect(n)
<1> DEFINE op == Message(m).op
           g == Message(m).gig
<1>1. g \in Gigs /\ Started(g) \subseteq gigs[g]
  BY MessageParts DEF Command, EffectInvariant
<1>2. ~Accepted(op, gigs[g]) /\ op # "unsupported"
  BY DEF MayApply, HasPrerequisites
<1>3. ~(Needs(op) \subseteq gigs[g])
  BY <1>2 DEF Accepted, Passes
<1>4. PICK need \in Needs(op) : need \notin gigs[g]
  BY <1>3
<1>5. need \in {Message(n).op : n \in Earlier(m)}
  BY <1>1, <1>4 DEF HasPrerequisites
<1>6. PICK n \in Earlier(m) : Message(n).op = need
  BY <1>5
<1>7. QED
  BY <1>4, <1>6 DEF Earlier, Effect

\* A command whose turn has come is refused only with an excuse: what it lacks
\* comes before it, and is a dead letter, or is a create of the same batch.
LEMMA RefusedWithExcuse ==
    ASSUME BaseInvariant, EffectInvariant, Orderly, NEW c \in Consumers, NEW m \in Messages,
           At(c, m, "claimed"), ~MayApply(m)
    PROVE  Excused(m)
<1>1. /\ TypeOK /\ task[c][m] = "claimed" /\ owner[m[1]] = c
      /\ m[1] \in Partitions /\ m[2] \in Nat /\ committed[m[1]] \in Nat
      /\ \A n \in Messages : n[2] \in Nat
  BY OwnerHandles, MessageParts DEF BaseInvariant, TypeOK, Orderly, At
<1>2. PICK a \in Nat, k \in 1 .. BatchSize :
        a = committed[m[1]] /\ BatchIs(c, m[1], a, k)
  BY <1>1 DEF BaseInvariant, Batches, BatchOf
<1>3. m[2] \in a + 1 .. a + k
  BY <1>1, <1>2 DEF BatchIs
<1> SUFFICES ASSUME HasPrerequisites(m)
             PROVE  \E n \in Earlier(m) :
                      \/ n \in dead
                      \/ Message(n).op = "create" /\ m[2] - n[2] < BatchSize
  BY DEF Excused
<1>5. PICK n \in Earlier(m) : ~Effect(n)
  BY <1>1, RefusedLacks
<1>4. /\ n \in Messages /\ n[1] = m[1] /\ n[2] < m[2]
      /\ Message(n).gig = Message(m).gig
  BY DEF Earlier
<1> SUFFICES \/ n \in dead
             \/ Message(n).op = "create" /\ m[2] - n[2] < BatchSize
  OBVIOUS
<1>6. CASE n[2] <= a
  BY <1>2, <1>4, <1>5, <1>6 DEF Orderly, PastIsSettled
<1>7. CASE n[2] > a /\ Message(n).op = "create"
  <2>1. BatchSize \in Nat
    BY RecoveryAssumption
  <2>2. m[2] - n[2] < BatchSize
    BY <1>1, <1>3, <1>4, <1>7, <2>1
  <2>3. QED
    BY <1>7, <2>2
<1>8. CASE n[2] > a /\ Message(n).op # "create"
  <2>1. LaneKey(n) = LaneKey(m)
    <3>1. Message(m).op # "create"
      BY DEF MayApply, Accepted, Passes, Needs
    <3>2. QED
      BY <1>4, <1>8, <3>1 DEF LaneKey
  <2>2. task[c][n] # "none"
    BY <1>1, <1>2, <1>3, <1>4, <1>8 DEF BatchIs
  <2>3. task[c][n] = "done"
    BY <1>1, <1>4, <2>1, <2>2 DEF Orderly, Turns, Unbroken
  <2>4. QED
    BY <1>4, <1>5, <2>3 DEF Orderly, PastIsSettled
<1>9. QED
  BY <1>1, <1>4, <1>6, <1>7, <1>8

\* A step of a lane, as long as nothing fails.
LEMMA OrderLane ==
    ASSUME OneCommandPerEvent, OnePartitionPerEvent, BaseInvariant, EffectInvariant,
           OrderInvariant, NEW c \in Consumers, NEW m \in Messages, LaneAction(c, m)
    PROVE  OrderInvariant'
<1> SUFFICES ASSUME faults' = 0 PROVE Orderly'
  BY DEF OrderInvariant
<1> DEFINE e == Message(m).event
<1>1. /\ UNCHANGED <<log, committed, owner, stable, reader>> /\ TypeOK /\ log \in Logs
      /\ Messages' = Messages /\ \A n : Message(n)' = Message(n)
      /\ \A n : LaneKey(n)' = LaneKey(n)
      /\ dead \subseteq dead' /\ task[c][m] # "none"
      /\ \A d \in Consumers, n \in Messages :
           d # c \/ n # m => task'[d][n] = task[d][n]
  <2>1. /\ UNCHANGED <<log, group>> /\ dead \subseteq dead' /\ task[c][m] # "none"
        /\ \A d \in Consumers, n \in Messages :
             d # c \/ n # m => task'[d][n] = task[d][n]
    BY LaneBase
  <2>2. TypeOK /\ log \in Logs
    BY DEF BaseInvariant, TypeOK
  <2>3. Messages' = Messages /\ \A n : Message(n)' = Message(n)
    BY <2>1, SameLog
  <2>4. \A n : LaneKey(n)' = LaneKey(n)
    BY <2>3 DEF LaneKey
  <2>5. QED
    BY <2>1, <2>2, <2>3, <2>4 DEF group
<1>2. Orderly /\ ~Fault
  <2>1. faults' = faults \/ Fault
    BY DEF LaneAction, LaneStep, LaneFault, ClaimEvent, ClaimFails, Apply, Refuse,
         ApplyFails, Complete, CompleteFails, Release, ReleaseFails, DeadLetter,
         DeadLetterFails
  <2>2. QED
    BY <1>1, <2>1, NoFaultYet DEF OrderInvariant
<1>3. LaneStep(c, m)
  <2>1. ~Interrupted(c, m[1])
    BY <1>1, <1>2, OwnerHandles DEF Orderly, Interrupted
  <2>2. QED
    BY <1>2, <2>1 DEF LaneAction, LaneFault, ClaimFails, ApplyFails, CompleteFails,
       ReleaseFails, DeadLetterFails
<1>4. \A stage \in Stages : Reaches(c, m, stage) => task'[c][m] = stage
  BY <1>1, OneTask
<1>5. {"claimed", "applied", "failed", "doomed", "broken", "done"} \subseteq Stages
  BY DEF Stages
<1>6. /\ \A n \in Messages : Effect(n) => Effect(n)'
      /\ \A n : Excused(n) => Excused(n)'
  BY <1>1, LaneGigs, EffectStays, ExcuseStays
<1>7. ASSUME NEW n \in Messages, Effect(m), Message(n).event = e PROVE Effect(n)
  <2>1. /\ m[1] \in Partitions /\ n[1] \in Partitions
        /\ m[2] \in DOMAIN log[m[1]] /\ n[2] \in DOMAIN log[n[1]]
    BY DEF Messages
  <2>2. Message(n) = Message(m)
    BY <1>1, <1>7, <2>1 DEF OneCommandPerEvent, Message
  <2>3. QED
    BY <1>7, <2>2 DEF Effect
<1>8. Undisturbed'
  BY <1>1, <1>2 DEF Orderly, Undisturbed
<1>9. Unbroken'
  <2>1. task'[c][m] # "broken"
    BY <1>3, <1>4, <1>5 DEF LaneStep, ClaimEvent, Apply, Refuse, Complete, Release, DeadLetter
  <2>2. QED
    BY <1>1, <1>2, <2>1 DEF Orderly, Unbroken
<1>10. Turns'
  <2> SUFFICES ASSUME NEW d \in Consumers, NEW k \in Messages, NEW n \in Messages,
                      task'[d][k] \notin {"none", "fetched"},
                      n[1] = k[1], n[2] < k[2], LaneKey(n) = LaneKey(k)
               PROVE  task'[d][n] \in {"none", "done", "broken"}
    BY <1>1 DEF Turns
  <2>1. n # k
    BY <1>1, MessageParts
  <2>2. CASE d = c /\ k = m
    <3>1. task'[c][n] = task[c][n]
      BY <1>1, <2>1, <2>2
    <3>2. CASE task[c][m] = "fetched"
      <4>1. InTurn(c, m)
        BY <1>3, <3>2 DEF LaneStep, ClaimEvent, Apply, Refuse, Complete, Release, DeadLetter, At
      <4>2. QED
        BY <2>2, <3>1, <4>1 DEF InTurn, Batch
    <3>3. CASE task[c][m] # "fetched"
      BY <1>1, <1>2, <2>2, <3>1, <3>3 DEF Orderly, Turns
    <3>4. QED
      BY <3>2, <3>3
  <2>3. CASE d # c \/ k # m
    <3>1. task[d][n] \in {"none", "done", "broken"}
      BY <1>1, <1>2, <2>3 DEF Orderly, Turns
    <3>2. task[c][m] \notin {"none", "done", "broken"}
      BY <1>3 DEF LaneStep, ClaimEvent, Apply, Refuse, Complete, Release, DeadLetter, At
    <3>3. QED
      BY <1>1, <3>1, <3>2
  <2>4. QED
    BY <2>2, <2>3
<1>11. PastIsSettled'
  <2>1. task'[c][m] = "done" => m \in dead' \/ Effect(m)'
    <3>1. CASE ClaimEvent(c, m)
      <4>1. e \notin claims => task'[c][m] = "claimed"
        BY <1>4, <1>5, <3>1 DEF ClaimEvent, WinsClaim
      <4>2. e \in claims => Effect(m)
        BY <1>2, <3>1, ClaimedHasEffect DEF ClaimEvent
      <4>3. QED
        BY <1>6, <4>1, <4>2
    <3>2. CASE Complete(c, m)
      BY <1>6, <3>2 DEF Complete, At, EffectInvariant
    <3>3. CASE DeadLetter(c, m)
      BY <3>3 DEF DeadLetter
    <3>4. CASE Apply(c, m) \/ Refuse(c, m) \/ Release(c, m)
      BY <1>4, <1>5, <3>4 DEF Apply, Refuse, Release
    <3>5. QED
      BY <1>3, <3>1, <3>2, <3>3, <3>4 DEF LaneStep
  <2> SUFFICES ASSUME NEW n \in Messages,
                      n[2] <= committed[n[1]] \/ \E d \in Consumers : task'[d][n] = "done"
               PROVE  n \in dead' \/ Effect(n)'
    BY <1>1 DEF PastIsSettled
  <2>2. CASE n[2] <= committed[n[1]] \/ \E d \in Consumers : task[d][n] = "done"
    BY <1>1, <1>2, <1>6, <2>2 DEF Orderly, PastIsSettled
  <2>3. CASE ~(n[2] <= committed[n[1]] \/ \E d \in Consumers : task[d][n] = "done")
    BY <1>1, <2>1, <2>3
  <2>4. QED
    BY <2>2, <2>3
<1>12. ClaimsStand'
  <2> SUFFICES ASSUME NEW d \in claims'
               PROVE  \/ \E b \in Consumers, n \in Messages :
                           Holds(task'[b][n]) /\ Message(n).event = d
                      \/ \A n \in Messages : Message(n).event = d => Effect(n)'
    BY <1>1 DEF ClaimsStand
  <2>1. CASE Holds(task'[c][m]) /\ d = e
    BY <2>1
  <2>2. CASE d # e
    <3>1. d \in claims
      BY <1>3, <2>2 DEF LaneStep, ClaimEvent, Apply, Refuse, Complete, Release, DeadLetter, outcome
    <3>2. CASE \A n \in Messages : Message(n).event = d => Effect(n)
      BY <1>6, <3>2
    <3>3. CASE \E b \in Consumers, n \in Messages :
                 Holds(task[b][n]) /\ Message(n).event = d
      <4>1. PICK b \in Consumers, n \in Messages : Holds(task[b][n]) /\ Message(n).event = d
        BY <3>3
      <4>2. task'[b][n] = task[b][n]
        BY <1>1, <2>2, <4>1
      <4>3. QED
        BY <4>1, <4>2
    <3>4. QED
      BY <1>2, <3>1, <3>2, <3>3 DEF Orderly, ClaimsStand
  <2>3. CASE d = e /\ ~Holds(task'[c][m])
    <3>1. Effect(m) => \A n \in Messages : Message(n).event = d => Effect(n)'
      BY <1>6, <1>7, <2>3
    <3>2. CASE ClaimEvent(c, m)
      <4>1. e \in claims
        BY <1>4, <1>5, <2>3, <3>2 DEF ClaimEvent, WinsClaim, Holds
      <4>2. QED
        BY <1>2, <3>1, <3>2, <4>1, ClaimedHasEffect DEF ClaimEvent
    <3>3. CASE Complete(c, m)
      BY <3>1, <3>3 DEF Complete, At, EffectInvariant
    <3>4. CASE Release(c, m)
      BY <2>3, <3>4 DEF Release
    <3>5. CASE DeadLetter(c, m)
      <4>1. d \in claims /\ ~Holds(task[c][m])
        BY <3>5 DEF DeadLetter, At, Holds
      <4>2. CASE \A n \in Messages : Message(n).event = d => Effect(n)
        BY <1>6, <4>2
      <4>3. CASE \E b \in Consumers, n \in Messages :
                   Holds(task[b][n]) /\ Message(n).event = d
        <5>1. PICK b \in Consumers, n \in Messages : Holds(task[b][n]) /\ Message(n).event = d
          BY <4>3
        <5>2. task'[b][n] = task[b][n]
          BY <1>1, <4>1, <5>1
        <5>3. QED
          BY <5>1, <5>2
      <4>4. QED
        BY <1>2, <4>1, <4>2, <4>3 DEF Orderly, ClaimsStand
    <3>6. CASE Apply(c, m) \/ Refuse(c, m)
      BY <1>4, <1>5, <2>3, <3>6 DEF Apply, Refuse, Holds
    <3>7. QED
      BY <1>3, <3>2, <3>3, <3>4, <3>5, <3>6 DEF LaneStep
  <2>4. QED
    BY <2>1, <2>2, <2>3
<1>13. RefusalsExcused'
  <2>1. task'[c][m] \in {"failed", "doomed"} => Excused(m)
    <3>1. CASE Refuse(c, m)
      BY <1>2, <3>1, RefusedWithExcuse DEF Refuse
    <3>2. CASE Release(c, m)
      BY <1>2, <3>2 DEF Release, At, Orderly, RefusalsExcused
    <3>3. CASE ClaimEvent(c, m) \/ Apply(c, m) \/ Complete(c, m) \/ DeadLetter(c, m)
      BY <1>4, <1>5, <3>3 DEF ClaimEvent, Apply, Complete, DeadLetter
    <3>4. QED
      BY <1>3, <3>1, <3>2, <3>3 DEF LaneStep
  <2>2. \A n \in dead' : Excused(n)
    <3>1. CASE DeadLetter(c, m)
      BY <1>2, <3>1 DEF DeadLetter, At, Orderly, RefusalsExcused
    <3>2. CASE ~DeadLetter(c, m)
      BY <1>2, <1>3, <3>2 DEF LaneStep, ClaimEvent, Apply, Refuse, Complete, Release, outcome,
         Orderly, RefusalsExcused
    <3>3. QED
      BY <3>1, <3>2
  <2>3. \A d \in Consumers, n \in Messages :
          task'[d][n] \in {"failed", "doomed"} => Excused(n)
    BY <1>1, <1>2, <2>1 DEF Orderly, RefusalsExcused
  <2>4. QED
    BY <1>1, <1>6, <2>2, <2>3 DEF RefusalsExcused
<1>14. QED
  BY <1>8, <1>9, <1>10, <1>11, <1>12, <1>13 DEF Orderly

LEMMA OrderStep ==
    ASSUME OneCommandPerEvent, OnePartitionPerEvent, BaseInvariant, EffectInvariant,
           OrderInvariant, [Next]_vars
    PROVE  OrderInvariant'
<1>1. CASE UNCHANGED vars
  <2>1. SUFFICES ASSUME faults' = 0 PROVE Orderly'
    BY DEF OrderInvariant
  <2>2. Orderly
    BY <1>1, <2>1 DEF OrderInvariant, vars
  <2>3. GroupEffect
    BY <1>1 DEF vars, group, GroupEffect
  <2>4. Undisturbed' /\ Turns'
    BY <1>1, <2>2, SameLog DEF vars, group, Orderly, Undisturbed, Turns, LaneKey
  <2>5. QED
    BY <1>1, <2>2, <2>3, <2>4, OrderGroupFrame DEF vars
<1>2. QED
  BY <1>1, OrderGroup, OrderLane DEF Next, GroupAction, LaneAction

\* If the id of a command names one command in one partition, then as long as nothing
\* fails a command whose prerequisite comes before it in the log is not refused, unless
\* that one was refused or is a create of the same batch.
THEOREM LanesKeepTheOrder ==
    ASSUME OneCommandPerEvent, OnePartitionPerEvent
    PROVE  Spec => []OrderIsKept
<1>1. Init => EffectInvariant /\ OrderInvariant
  <2> SUFFICES ASSUME Init PROVE EffectInvariant /\ OrderInvariant
    OBVIOUS
  <2>1. TypeOK
    BY BaseInit DEF BaseInvariant
  <2>2. \A m \in Messages : ~(m[2] <= committed[m[1]])
    BY <2>1, MessageParts DEF Init
  <2>3. \A c \in Consumers, m \in Messages : task[c][m] = "none"
    BY DEF Init
  <2>4. Undisturbed /\ ClaimsStand /\ dead = {}
    BY DEF Init, Undisturbed, ClaimsStand
  <2>5. Unbroken /\ Turns /\ RefusalsExcused
    BY <2>3, <2>4 DEF Unbroken, Turns, RefusalsExcused
  <2>6. PastIsSettled
    BY <2>2, <2>3 DEF PastIsSettled
  <2>7. EffectInvariant
    BY DEF Init, EffectInvariant
  <2>8. QED
    BY <2>4, <2>5, <2>6, <2>7 DEF OrderInvariant, Orderly
<1>2. BaseInvariant /\ EffectInvariant /\ [Next]_vars => EffectInvariant'
  BY EffectStep
<1>3. BaseInvariant /\ EffectInvariant /\ OrderInvariant /\ [Next]_vars => OrderInvariant'
  BY OrderStep
<1>4. OrderInvariant => OrderIsKept
  BY DEF OrderInvariant, OrderIsKept, Orderly, RefusalsExcused, Excused
<1>5. QED
  BY <1>1, <1>2, <1>3, <1>4, BaseInvariance, PTL DEF Spec
=============================================================================
