---------------------------- MODULE OrderCountsProofs ----------------------------
(***************************************************************************)
(* The subscriptions of order.funded implement the ledger and lose no      *)
(* order but orphans; an order is counted twice, or lost from the count,   *)
(* only in the ways named.  All of it for any number of processes and      *)
(* orders, retries, moves of the partition, faults and other writers.      *)
(***************************************************************************)
EXTENDS OrderCounts, TLAPS

\* What a subscription has in hand is a message of the topic, and one that goes to the
\* retry topic has an attempt left.
InHand(c) ==
    /\ con[c].stage \notin {"ready", "off"} => con[c].pos >= 1
    /\ con[c].stage = "retry" => Msg(c).attempt < MaxAttempts

BaseInvariant == TypeOK /\ \A c \in Consumers : InHand(c)

\* A message enters the topic.
TopicStep == Fund \/ \E m \in retry : Requeue(m)

\* A subscription works.
SubscriptionStep(c) == Assign(c) \/ Progress(c) \/ Failure(c)

\* Somebody else writes the preview, or Redis forgets it.
OtherStep == OtherReads \/ OtherWrites \/ AppendsAgain \/ PreviewExpires

-----------------------------------------------------------------------------
(***************************************************************************)
(* What the steps leave of the topic and of the subscriptions.             *)
(***************************************************************************)

\* What is in hand is a message.
LEMMA HandMessage ==
    ASSUME BaseInvariant, NEW c \in Consumers, con[c].stage \notin {"ready", "off"}
    PROVE  /\ con[c].pos \in 1 .. Len(topic) /\ Msg(c) \in Message
           /\ Event(c) \in Orders /\ Msg(c).event = Event(c)
           /\ Msg(c).kind \in Kinds /\ Msg(c).attempt \in 1 .. MaxAttempts
<1>1. topic \in Seq(Message) /\ con[c].pos \in 0 .. Len(topic) /\ con[c].pos >= 1
  BY DEF BaseInvariant, TypeOK, InHand
<1>2. con[c].pos \in 1 .. Len(topic)
  BY <1>1
<1>3. Msg(c) \in Message
  BY <1>1, <1>2 DEF Msg
<1>4. QED
  BY <1>2, <1>3 DEF Message, Event

\* The topic grows at its end.
LEMMA TopicGrows ==
    ASSUME BaseInvariant, TopicStep
    PROVE  /\ \E m \in Message : topic' = Append(topic, m)
           /\ topic' \in Seq(Message) /\ Len(topic) \in Nat /\ Len(topic') = Len(topic) + 1
           /\ \A i \in 1 .. Len(topic) : topic'[i] = topic[i]
           /\ UNCHANGED <<log, offset, owner, dead, con, redis, outcome, faults>>
           /\ produced' \in 0 .. Len(log) /\ retry' \in SUBSET Message
<1>1. /\ topic \in Seq(Message) /\ log \in Seq(Message) /\ retry \in SUBSET Message
      /\ produced \in 0 .. Len(log)
  BY OrderCountsAssumption DEF BaseInvariant, TypeOK
<1>2. CASE Fund
  <2>1. produced + 1 \in 1 .. Len(log) /\ topic' = Append(topic, log[produced + 1])
    BY <1>1, <1>2 DEF Fund
  <2>2. log[produced + 1] \in Message
    BY <1>1, <2>1
  <2>3. produced' \in 0 .. Len(log) /\ retry' \in SUBSET Message
    BY <1>1, <1>2 DEF Fund
  <2>4. QED
    BY <1>1, <1>2, <2>1, <2>2, <2>3 DEF Fund
<1>3. CASE \E m \in retry : Requeue(m)
  <2>1. PICK m \in retry : Requeue(m)
    BY <1>3
  <2>2. m \in Message /\ topic' = Append(topic, m) /\ produced' = produced
        /\ retry' \in SUBSET Message
    BY <1>1, <2>1 DEF Requeue
  <2>3. QED
    BY <1>1, <2>1, <2>2 DEF Requeue
<1>4. QED
  BY <1>2, <1>3 DEF TopicStep

\* A subscription goes on to its next stage.
LEMMA NextStage ==
    ASSUME TypeOK, NEW c \in Consumers, NEW stage \in Stages, Goes(c, stage)
    PROVE  /\ con' \in [Consumers -> Subscription]
           /\ con'[c].stage = stage /\ con'[c].pos = con[c].pos /\ con'[c].held = con[c].held
           /\ \A d \in Consumers : d # c => con'[d] = con[d]
<1>1. con[c] \in Subscription
  BY DEF TypeOK
<1>2. con' = [con EXCEPT ![c] = [con[c] EXCEPT !.stage = stage]]
  BY DEF Goes
<1>3. [con[c] EXCEPT !.stage = stage] \in Subscription
  BY <1>1 DEF Subscription
<1>4. QED
  BY <1>1, <1>2, <1>3 DEF TypeOK, Subscription

\* The subscription of c takes up the preview.
LEMMA NextHeld ==
    ASSUME TypeOK, NEW c \in Consumers, NEW stage \in Stages, NEW count \in Counts,
           con' = [con EXCEPT ![c].stage = stage, ![c].held = count]
    PROVE  /\ con' \in [Consumers -> Subscription]
           /\ con'[c].stage = stage /\ con'[c].pos = con[c].pos /\ con'[c].held = count
           /\ \A d \in Consumers : d # c => con'[d] = con[d]
<1>1. con[c] \in Subscription
  BY DEF TypeOK
<1>2. con' = [con EXCEPT ![c] = [con[c] EXCEPT !.stage = stage, !.held = count]]
  BY DEF TypeOK
<1>3. [con[c] EXCEPT !.stage = stage, !.held = count] \in Subscription
  BY <1>1 DEF Subscription
<1>4. QED
  BY <1>1, <1>2, <1>3 DEF TypeOK, Subscription

\* The subscription of c moves in the topic.
LEMMA NextPos ==
    ASSUME TypeOK, NEW c \in Consumers, NEW stage \in Stages, NEW pos \in Nat,
           con' = [con EXCEPT ![c].pos = pos, ![c].stage = stage]
    PROVE  /\ con' \in [Consumers -> Subscription]
           /\ con'[c].stage = stage /\ con'[c].pos = pos /\ con'[c].held = con[c].held
           /\ \A d \in Consumers : d # c => con'[d] = con[d]
<1>1. con[c] \in Subscription
  BY DEF TypeOK
<1>2. con' = [con EXCEPT ![c] = [con[c] EXCEPT !.pos = pos, !.stage = stage]]
  BY DEF TypeOK
<1>3. [con[c] EXCEPT !.pos = pos, !.stage = stage] \in Subscription
  BY <1>1 DEF Subscription
<1>4. QED
  BY <1>1, <1>2, <1>3 DEF TypeOK, Subscription

\* A call fails, or not.
LEMMA OneFault ==
    ASSUME TypeOK, Fault \/ UNCHANGED faults
    PROVE  faults' \in 0 .. MaxTrouble
BY OrderCountsAssumption DEF TypeOK, Fault

\* What may be taken for the count of a preview is one.
LEMMA CountsRead ==
    ASSUME TypeOK
    PROVE  /\ NoOrders \in Counts /\ Canonical \in Counts /\ preview.count \in Counts
           /\ \A c \in Consumers : con[c].held \in Counts
           /\ other.held \in Counts
<1>1. NoOrders \in Counts /\ Canonical \in Counts
  BY DEF NoOrders, Canonical, Counts
<1>2. preview.count \in Counts /\ other.held \in Counts
  BY DEF TypeOK, Preview
<1>3. \A c \in Consumers : con[c].held \in Counts
  BY DEF TypeOK, Subscription
<1>4. QED
  BY <1>1, <1>2, <1>3

\* One order more.
LEMMA OneMoreCounted ==
    ASSUME NEW count \in Counts, NEW e \in Orders
    PROVE  /\ OneMore(count, e) \in Counts
           /\ OneMore(count, e)[e] = count[e] + 1
           /\ \A d \in Orders : d # e => OneMore(count, e)[d] = count[d]
BY DEF OneMore, Counts

\* A read of the preview.
LEMMA ReadTypes ==
    ASSUME TypeOK, NEW who \in Consumers \cup {Other}, NEW count, Reads(who, count)
    PROVE  /\ backfilled' \in SUBSET Orders
           /\ stale' \in SUBSET (Consumers \cup {Other})
           /\ faults' \in 0 .. MaxTrouble
<1>1. faults' \in 0 .. MaxTrouble
  BY OneFault DEF Reads
<1>2. backfilled' \in SUBSET Orders
  BY DEF Reads, FromOrderService, TypeOK
<1>3. stale' \in SUBSET (Consumers \cup {Other})
  BY DEF Reads, TypeOK
<1>4. QED
  BY <1>1, <1>2, <1>3

\* A write of the preview.
LEMMA WriteTypes ==
    ASSUME TypeOK, NEW who, NEW count \in Counts, NEW ttl \in BOOLEAN, Writes(who, count, ttl)
    PROVE  /\ preview' \in Preview /\ preview'.there /\ preview'.count = count
           /\ stale' \in SUBSET (Consumers \cup {Other})
<1>1. stale' \in SUBSET (Consumers \cup {Other})
  BY DEF Writes, Holders, TypeOK
<1>2. preview' \in Preview /\ preview'.there /\ preview'.count = count
  BY DEF Writes, Preview
<1>3. QED
  BY <1>1, <1>2

\* What a step of c does to the subscriptions.
SubscriptionEffect(c) ==
    /\ UNCHANGED <<log, produced, topic>>
    /\ con' \in [Consumers -> Subscription]
    /\ \A d \in Consumers : d # c => con'[d] = con[d]
    /\ con'[c].pos \in 0 .. Len(topic)
    /\ InHand(c)'
    /\ \/ con'[c].pos = con[c].pos
       \/ con'[c].stage = "ready"
       \/ con[c].stage = "ready"

LEMMA StageEffect ==
    ASSUME BaseInvariant, NEW c \in Consumers, NEW from \in Stages \ {"ready", "off"},
           NEW stage \in Stages, At(c, from), UNCHANGED <<log, produced, topic>>,
           \/ Goes(c, stage)
           \/ \E count \in Counts :
                con' = [con EXCEPT ![c].stage = stage, ![c].held = count],
           stage = "retry" => Msg(c).attempt < MaxAttempts
    PROVE  SubscriptionEffect(c) /\ con'[c].stage = stage /\ con'[c].pos = con[c].pos
<1>1. TypeOK
  BY DEF BaseInvariant
<1>2. /\ con' \in [Consumers -> Subscription]
      /\ con'[c].stage = stage /\ con'[c].pos = con[c].pos
      /\ \A d \in Consumers : d # c => con'[d] = con[d]
  BY <1>1, NextStage, NextHeld
<1>3. con[c].pos \in 1 .. Len(topic)
  BY HandMessage DEF At
<1>4. InHand(c)'
  <2>1. Msg(c)' = Msg(c)
    BY <1>2 DEF Msg
  <2>2. QED
    BY <1>2, <1>3, <2>1 DEF InHand
<1>5. QED
  BY <1>2, <1>3, <1>4 DEF SubscriptionEffect

\* The subscription of c comes to the stage, with the message it had.
Comes(c, stage) == SubscriptionEffect(c) /\ con'[c].stage = stage /\ con'[c].pos = con[c].pos

\* Where the steps lead.
LEMMA StageTable ==
    ASSUME BaseInvariant, NEW c \in Consumers
    PROVE  /\ Assign(c) => SubscriptionEffect(c) /\ con'[c].stage = "ready"
                           /\ con'[c].pos = offset
           /\ Fetch(c) => SubscriptionEffect(c) /\ con'[c].stage = "claim"
                          /\ con'[c].pos = con[c].pos + 1
           /\ Claim(c) =>
                Comes(c, IF WinsClaim(Event(c)) THEN AfterClaim(Msg(c).kind) ELSE "ready")
           /\ Look(c) => Comes(c, "store") \/ Comes(c, "build")
           /\ Build(c) => Comes(c, "store")
           /\ Store(c) => Comes(c, "commit")
           /\ Commit(c) => Comes(c, "ready")
           /\ CommitFails(c) \/ ClaimFails(c) \/ EnqueueFails(c) \/ DeadLetter(c) =>
                Comes(c, "off")
           /\ Release(c) \/ ReleaseFails(c) => Comes(c, AfterRelease(c))
           /\ Enqueue(c) => Comes(c, "ready")
           /\ HandlerFails(c) => Comes(c, "failed")
           /\ Restart(c) => SubscriptionEffect(c) /\ con'[c].stage = "ready"
                            /\ con'[c].pos = 0
<1> USE DEF broker, redis, outcome
<1>1. /\ TypeOK /\ con[c] \in Subscription /\ Len(topic) \in Nat
      /\ offset \in 0 .. Len(topic) /\ con[c].pos \in 0 .. Len(topic)
      /\ con[c].pos \in Nat /\ offset \in Nat
  BY DEF BaseInvariant, TypeOK
<1>2. ASSUME Assign(c)
      PROVE  SubscriptionEffect(c) /\ con'[c].stage = "ready" /\ con'[c].pos = offset
  <2>1. con[c].stage = "ready" /\ UNCHANGED <<log, produced, topic>>
        /\ con' = [con EXCEPT ![c].pos = offset]
    BY <1>2 DEF Assign, At
  <2>2. con' = [con EXCEPT ![c] = [con[c] EXCEPT !.pos = offset]]
    BY <1>1, <2>1 DEF TypeOK
  <2>3. [con[c] EXCEPT !.pos = offset] \in Subscription
    BY <1>1 DEF Subscription
  <2>4. /\ con' \in [Consumers -> Subscription]
        /\ con'[c].stage = "ready" /\ con'[c].pos = offset
        /\ \A d \in Consumers : d # c => con'[d] = con[d]
    BY <1>1, <2>1, <2>2, <2>3 DEF TypeOK, Subscription
  <2>5. QED
    BY <1>1, <2>1, <2>4 DEF SubscriptionEffect, InHand
<1>3. ASSUME Fetch(c)
      PROVE  SubscriptionEffect(c) /\ con'[c].stage = "claim"
             /\ con'[c].pos = con[c].pos + 1
  <2>1. /\ con[c].stage = "ready" /\ con[c].pos < Len(topic)
        /\ UNCHANGED <<log, produced, topic>>
    BY <1>3 DEF Fetch, At
  <2>2. con' = [con EXCEPT ![c].pos = con[c].pos + 1, ![c].stage = "claim"]
    BY <1>3 DEF Fetch
  <2>3. con[c].pos + 1 \in Nat /\ con[c].pos + 1 \in 1 .. Len(topic)
    BY <1>1, <2>1
  <2>4. /\ con' \in [Consumers -> Subscription]
        /\ con'[c].stage = "claim" /\ con'[c].pos = con[c].pos + 1
        /\ \A d \in Consumers : d # c => con'[d] = con[d]
    BY <1>1, <2>2, <2>3, NextPos DEF Stages
  <2>5. QED
    BY <2>1, <2>3, <2>4 DEF SubscriptionEffect, InHand
<1>4. ASSUME Claim(c)
      PROVE  Comes(c, IF WinsClaim(Event(c)) THEN AfterClaim(Msg(c).kind) ELSE "ready")
  <2>1. At(c, "claim") /\ UNCHANGED <<log, produced, topic>>
        /\ Goes(c, IF WinsClaim(Event(c)) THEN AfterClaim(Msg(c).kind) ELSE "ready")
    BY <1>4 DEF Claim
  <2>2. Msg(c).kind \in Kinds
    BY <2>1, HandMessage DEF At
  <2>3. AfterClaim(Msg(c).kind) \in Stages /\ AfterClaim(Msg(c).kind) # "retry"
    BY <2>2 DEF AfterClaim, Kinds, Stages
  <2>4. CASE WinsClaim(Event(c))
    BY <2>1, <2>3, <2>4, StageEffect DEF Comes, Stages
  <2>5. CASE ~WinsClaim(Event(c))
    BY <2>1, <2>5, StageEffect DEF Comes, Stages
  <2>6. QED
    BY <2>4, <2>5
<1>5. ASSUME Look(c) PROVE Comes(c, "store") \/ Comes(c, "build")
  <2>1. At(c, "look") /\ UNCHANGED <<log, produced, topic>>
    BY <1>5 DEF Look
  <2>2. CASE Goes(c, "build")
    BY <2>1, <2>2, StageEffect DEF Comes, Stages
  <2>3. CASE con' = [con EXCEPT ![c].stage = "store",
                                ![c].held = OneMore(preview.count, Event(c))]
    <3>1. OneMore(preview.count, Event(c)) \in Counts
      BY <1>1, <2>1, HandMessage, CountsRead, OneMoreCounted DEF At
    <3>2. QED
      BY <2>1, <2>3, <3>1, StageEffect DEF Comes, Stages
  <2>4. QED
    BY <1>5, <2>2, <2>3 DEF Look
<1>6. ASSUME Build(c) PROVE Comes(c, "store")
  <2>1. At(c, "build") /\ UNCHANGED <<log, produced, topic>>
    BY <1>6 DEF Build
  <2>2. PICK count \in {NoOrders, Canonical, preview.count} :
           con' = [con EXCEPT ![c].stage = "store", ![c].held = count]
    BY <1>6 DEF Build
  <2>3. count \in Counts
    BY <1>1, <2>2, CountsRead
  <2>4. QED
    BY <2>1, <2>2, <2>3, StageEffect DEF Comes, Stages
<1>7. Store(c) => Comes(c, "commit")
  BY StageEffect DEF Store, Comes, Stages
<1>8. Commit(c) => Comes(c, "ready")
  BY StageEffect DEF Commit, Comes, Stages
<1>9. CommitFails(c) \/ ClaimFails(c) \/ EnqueueFails(c) \/ DeadLetter(c) => Comes(c, "off")
  BY StageEffect DEF CommitFails, ClaimFails, EnqueueFails, DeadLetter, Comes, Stages
<1>10. ASSUME Release(c) \/ ReleaseFails(c) PROVE Comes(c, AfterRelease(c))
  <2>1. At(c, "failed") /\ UNCHANGED <<log, produced, topic>> /\ Goes(c, AfterRelease(c))
    BY <1>10 DEF Release, ReleaseFails
  <2>2. Msg(c).attempt \in 1 .. MaxAttempts
    BY <2>1, HandMessage DEF At
  <2>3. AfterRelease(c) = "retry" => Msg(c).attempt < MaxAttempts
    BY <2>2, OrderCountsAssumption DEF AfterRelease, LastAttempt
  <2>4. AfterRelease(c) \in Stages
    BY DEF AfterRelease, Stages
  <2>5. QED
    BY <2>1, <2>3, <2>4, StageEffect DEF Comes, Stages
<1>11. Enqueue(c) => Comes(c, "ready")
  BY StageEffect DEF Enqueue, Comes, Stages
<1>12. HandlerFails(c) => Comes(c, "failed")
  BY StageEffect DEF HandlerFails, Comes, Stages
<1>13. ASSUME Restart(c)
       PROVE  SubscriptionEffect(c) /\ con'[c].stage = "ready" /\ con'[c].pos = 0
  <2>1. con' = [con EXCEPT ![c] = [stage |-> "ready", pos |-> 0, held |-> NoOrders]]
        /\ UNCHANGED <<log, produced, topic>>
    BY <1>13 DEF Restart
  <2>2. [stage |-> "ready", pos |-> 0, held |-> NoOrders] \in Subscription
    BY <1>1, CountsRead DEF Subscription, Stages
  <2>3. QED
    BY <1>1, <2>1, <2>2 DEF TypeOK, SubscriptionEffect, InHand
<1>14. QED
  BY <1>2, <1>3, <1>4, <1>5, <1>6, <1>7, <1>8, <1>9, <1>10, <1>11, <1>12, <1>13

-----------------------------------------------------------------------------
(***************************************************************************)
(* Types.                                                                  *)
(***************************************************************************)

\* Every step of a subscription has its effect.
LEMMA SubscriptionMoves ==
    ASSUME BaseInvariant, NEW c \in Consumers, SubscriptionStep(c)
    PROVE  SubscriptionEffect(c)
BY StageTable DEF SubscriptionStep, Progress, Failure, Comes

\* The next message attempt is one.
LEMMA AgainTypes ==
    ASSUME BaseInvariant, NEW c \in Consumers, con[c].stage = "retry"
    PROVE  Again(c) \in Message /\ Again(c).event = Event(c)
<1>1. Msg(c) \in Message /\ Msg(c).attempt < MaxAttempts /\ Msg(c).event = Event(c)
      /\ Msg(c).attempt \in 1 .. MaxAttempts
  BY HandMessage DEF BaseInvariant, InHand
<1>2. Msg(c).attempt + 1 \in 1 .. MaxAttempts
  BY <1>1, OrderCountsAssumption
<1>3. QED
  BY <1>1, <1>2 DEF Again, Message

LEMMA SubscriptionTypes ==
    ASSUME BaseInvariant, NEW c \in Consumers, SubscriptionStep(c)
    PROVE  TypeOK'
<1> USE DEF broker, redis, outcome
<1>1. TypeOK /\ Len(topic) \in Nat
  BY DEF BaseInvariant, TypeOK
<1>2. /\ UNCHANGED <<log, produced, topic>>
      /\ con' \in [Consumers -> Subscription]
      /\ \A d \in Consumers : con'[d].pos \in 0 .. Len(topic)
  BY <1>1, SubscriptionMoves DEF SubscriptionEffect, TypeOK
<1>3. offset' \in 0 .. Len(topic)
  BY <1>1 DEF TypeOK, SubscriptionStep, Progress, Failure, Assign, Fetch, Claim, Look, Build,
     Store, Commit, CommitFails, ClaimFails, EnqueueFails, DeadLetter, Release, ReleaseFails,
     Enqueue, HandlerFails, Restart
<1>4. owner' \in Consumers \cup {NoConsumer}
  BY <1>1 DEF TypeOK, SubscriptionStep, Progress, Failure, Assign, Fetch, Claim, Look, Build,
     Store, Commit, CommitFails, ClaimFails, EnqueueFails, DeadLetter, Release, ReleaseFails,
     Enqueue, HandlerFails, Restart
<1>5. con[c].stage \notin {"ready", "off"} => Event(c) \in Orders
  BY HandMessage
<1>6. claims' \in SUBSET Orders /\ orphans' \in SUBSET Orders /\ undone' \in SUBSET Orders
  BY <1>1, <1>5 DEF TypeOK, SubscriptionStep, Progress, Failure, Assign, Fetch, Claim, Look,
     Build, Store, Commit, CommitFails, ClaimFails, EnqueueFails, DeadLetter, Release,
     ReleaseFails, Enqueue, HandlerFails, Restart, At, ReleasedClaims, Drops, Cut
<1>7. retry' \in SUBSET Message
  BY <1>1, AgainTypes DEF TypeOK, SubscriptionStep, Progress, Failure, Assign, Fetch, Claim,
     Look, Build, Store, Commit, CommitFails, ClaimFails, EnqueueFails, DeadLetter, Release,
     ReleaseFails, Enqueue, HandlerFails, Restart, At
<1>8. dead' \in SUBSET Message
  BY <1>1, HandMessage DEF TypeOK, SubscriptionStep, Progress, Failure, Assign, Fetch, Claim,
     Look, Build, Store, Commit, CommitFails, ClaimFails, EnqueueFails, DeadLetter, Release,
     ReleaseFails, Enqueue, HandlerFails, Restart, At
<1>9. handled' \in Counts
  <2>1. CASE Store(c)
    <3>1. Event(c) \in Orders /\ handled \in Counts
      BY <1>1, <1>5, <2>1 DEF Store, At, TypeOK
    <3>2. handled' = OneMore(handled, Event(c))
      BY <2>1 DEF Store, OneMore
    <3>3. QED
      BY <3>1, <3>2, OneMoreCounted
  <2>2. CASE ~Store(c)
    BY <1>1, <2>2 DEF TypeOK, SubscriptionStep, Progress, Failure, Assign, Fetch, Claim,
       Look, Build, Commit, CommitFails, ClaimFails, EnqueueFails, DeadLetter, Release,
       ReleaseFails, Enqueue, HandlerFails, Restart
  <2>3. QED
    BY <2>1, <2>2
<1>10. /\ preview' \in Preview /\ stale' \in SUBSET (Consumers \cup {Other})
       /\ backfilled' \in SUBSET Orders /\ faults' \in 0 .. MaxTrouble
       /\ other' \in [busy : BOOLEAN, held : Counts] /\ others' \in 0 .. MaxOthers
  <2>1. UNCHANGED <<other, others>>
    BY DEF SubscriptionStep, Progress, Failure, Assign, Fetch, Claim, Look,
       Build, Store, Commit, CommitFails, ClaimFails, EnqueueFails, DeadLetter, Release,
       ReleaseFails, Enqueue, HandlerFails, Restart
  <2>2. CASE Build(c)
    <3>1. PICK count \in {NoOrders, Canonical, preview.count} : Reads(c, count)
      BY <2>2 DEF Build
    <3>2. QED
      BY <1>1, <2>1, <2>2, <3>1, ReadTypes DEF Build, TypeOK
  <2>3. CASE Store(c) \/ (HandlerFails(c) /\ Stored(c))
    <3>1. Writes(c, con[c].held, FALSE) /\ con[c].held \in Counts
      BY <1>1, <2>3, CountsRead DEF Store, Stored
    <3>2. preview' \in Preview /\ stale' \in SUBSET (Consumers \cup {Other})
      BY <1>1, <3>1, WriteTypes
    <3>3. faults' \in 0 .. MaxTrouble
      BY <1>1, <2>3, OneFault DEF Store, HandlerFails
    <3>4. QED
      BY <1>1, <2>1, <2>3, <3>2, <3>3 DEF Store, HandlerFails, TypeOK
  <2>4. CASE ~Build(c) /\ ~Store(c) /\ ~(HandlerFails(c) /\ Stored(c))
    <3>1. UNCHANGED <<preview, backfilled>>
      BY <2>4 DEF SubscriptionStep, Progress, Failure, Assign, Fetch, Claim, Look,
         Commit, CommitFails, ClaimFails, EnqueueFails, DeadLetter, Release,
         ReleaseFails, Enqueue, HandlerFails, Restart
    <3>2. stale' \in SUBSET (Consumers \cup {Other})
      BY <1>1, <2>4 DEF TypeOK, SubscriptionStep, Progress, Failure, Assign, Fetch, Claim,
         Look, Commit, CommitFails, ClaimFails, EnqueueFails, DeadLetter, Release,
         ReleaseFails, Enqueue, HandlerFails, Restart
    <3>3. Fault \/ UNCHANGED faults
      BY <2>4 DEF SubscriptionStep, Progress, Failure, Assign, Fetch, Claim,
         Look, Commit, CommitFails, ClaimFails, EnqueueFails, DeadLetter, Release,
         ReleaseFails, Enqueue, HandlerFails, Restart
    <3>4. faults' \in 0 .. MaxTrouble
      BY <1>1, <3>3, OneFault
    <3>5. QED
      BY <1>1, <2>1, <3>1, <3>2, <3>4 DEF TypeOK
  <2>5. QED
    BY <2>2, <2>3, <2>4
<1>11. log' \in Logs /\ produced' \in 0 .. Len(log') /\ topic' \in Seq(Message)
  BY <1>1, <1>2 DEF TypeOK
<1>12. QED
  BY <1>2, <1>3, <1>4, <1>6, <1>7, <1>8, <1>9, <1>10, <1>11 DEF TypeOK

LEMMA OtherTypes ==
    ASSUME BaseInvariant, OtherStep
    PROVE  TypeOK' /\ UNCHANGED <<log, broker, con, outcome>>
<1>1. TypeOK
  BY DEF BaseInvariant
<1>2. UNCHANGED <<log, broker, con, outcome>>
  BY DEF OtherStep, OtherReads, OtherWrites, AppendsAgain, PreviewExpires
<1>3. /\ preview' \in Preview /\ stale' \in SUBSET (Consumers \cup {Other})
      /\ backfilled' \in SUBSET Orders /\ faults' \in 0 .. MaxTrouble
      /\ other' \in [busy : BOOLEAN, held : Counts] /\ others' \in 0 .. MaxOthers
  <2>1. CASE OtherReads
    <3>1. PICK count \in {NoOrders, Canonical, preview.count} :
             Reads(Other, count) /\ other' = [busy |-> TRUE, held |-> count]
      BY <2>1 DEF OtherReads
    <3>2. count \in Counts
      BY <1>1, <3>1, CountsRead
    <3>3. others' \in 0 .. MaxOthers
      BY <1>1, <2>1, OrderCountsAssumption DEF OtherReads, Another, TypeOK
    <3>4. QED
      BY <1>1, <2>1, <3>1, <3>2, <3>3, ReadTypes DEF OtherReads, TypeOK
  <2>2. CASE OtherWrites
    <3>1. PICK ttl \in BOOLEAN : Writes(Other, other.held, ttl)
      BY <2>2 DEF OtherWrites
    <3>2. preview' \in Preview /\ stale' \in SUBSET (Consumers \cup {Other})
      BY <1>1, <3>1, CountsRead, WriteTypes
    <3>3. other' \in [busy : BOOLEAN, held : Counts]
      BY <1>1, <2>2, CountsRead DEF OtherWrites
    <3>4. QED
      BY <1>1, <2>2, <3>2, <3>3 DEF OtherWrites, TypeOK
  <2>3. CASE AppendsAgain
    <3>1. PICK ttl \in BOOLEAN : Writes(NoConsumer, NoOrders, ttl)
      BY <2>3 DEF AppendsAgain
    <3>2. preview' \in Preview /\ stale' \in SUBSET (Consumers \cup {Other})
      BY <1>1, <3>1, CountsRead, WriteTypes
    <3>3. others' \in 0 .. MaxOthers
      BY <1>1, <2>3, OrderCountsAssumption DEF AppendsAgain, Another, TypeOK
    <3>4. QED
      BY <1>1, <2>3, <3>2, <3>3 DEF AppendsAgain, TypeOK
  <2>4. CASE PreviewExpires
    <3>1. preview' \in Preview
      BY <1>1, <2>4, CountsRead DEF PreviewExpires, Absent, Preview
    <3>2. QED
      BY <1>1, <2>4, <3>1 DEF PreviewExpires, TypeOK
  <2>5. QED
    BY <2>1, <2>2, <2>3, <2>4 DEF OtherStep
<1>4. QED
  BY <1>1, <1>2, <1>3 DEF TypeOK, broker, outcome

\* Next by the actors.
LEMMA StepKinds ==
    ASSUME Next
    PROVE  TopicStep \/ OtherStep \/ \E c \in Consumers : SubscriptionStep(c)
BY DEF Next, TopicStep, OtherStep, SubscriptionStep

LEMMA BaseStep ==
    ASSUME BaseInvariant, [Next]_vars
    PROVE  BaseInvariant'
<1>1. TypeOK /\ \A c \in Consumers : InHand(c)
  BY DEF BaseInvariant
<1>2. CASE TopicStep
  <2>1. /\ topic' \in Seq(Message) /\ Len(topic) \in Nat /\ Len(topic') = Len(topic) + 1
        /\ \A i \in 1 .. Len(topic) : topic'[i] = topic[i]
        /\ UNCHANGED <<log, offset, owner, dead, con, redis, outcome, faults>>
        /\ produced' \in 0 .. Len(log) /\ retry' \in SUBSET Message
    BY <1>2, TopicGrows
  <2>2. TypeOK'
    BY <1>1, <2>1 DEF TypeOK, redis, outcome
  <2>3. ASSUME NEW c \in Consumers PROVE InHand(c)'
    <3>1. CASE con[c].stage \in {"ready", "off"}
      BY <2>1, <3>1 DEF InHand
    <3>2. CASE con[c].stage \notin {"ready", "off"}
      <4>1. con[c].pos \in 1 .. Len(topic)
        BY <3>2, HandMessage
      <4>2. Msg(c)' = Msg(c)
        BY <2>1, <4>1 DEF Msg
      <4>3. QED
        BY <1>1, <2>1, <4>2 DEF InHand
    <3>3. QED
      BY <3>1, <3>2
  <2>4. QED
    BY <2>2, <2>3 DEF BaseInvariant
<1>3. CASE OtherStep
  <2>1. TypeOK' /\ UNCHANGED <<topic, con>>
    BY <1>3, OtherTypes DEF broker
  <2>2. \A c \in Consumers : InHand(c)'
    BY <1>1, <2>1 DEF InHand, Msg
  <2>3. QED
    BY <2>1, <2>2 DEF BaseInvariant
<1>4. ASSUME NEW c \in Consumers, SubscriptionStep(c) PROVE BaseInvariant'
  <2>1. SubscriptionEffect(c)
    BY <1>4, SubscriptionMoves
  <2>2. \A d \in Consumers : InHand(d)'
    BY <1>1, <2>1 DEF SubscriptionEffect, InHand, Msg
  <2>3. QED
    BY <1>4, <2>2, SubscriptionTypes DEF BaseInvariant
<1>5. CASE UNCHANGED vars
  BY <1>1, <1>5 DEF vars, broker, redis, outcome, BaseInvariant, TypeOK, InHand, Msg
<1>6. QED
  BY <1>2, <1>3, <1>4, <1>5, StepKinds

LEMMA BaseInit == Init => BaseInvariant
<1> SUFFICES ASSUME Init PROVE BaseInvariant
  OBVIOUS
<1>1. log \in Seq(Message) /\ Len(log) \in Nat
  BY OrderCountsAssumption DEF Init
<1>2. NoOrders \in Counts
  BY DEF NoOrders, Counts
<1>3. preview \in Preview /\ con \in [Consumers -> Subscription]
      /\ \A c \in Consumers : con[c].pos = 0 /\ con[c].stage = "ready"
  <2>1. Absent \in Preview /\ [Absent EXCEPT !.there = TRUE] \in Preview
    BY <1>2 DEF Absent, Preview
  <2>2. preview \in Preview
    BY <2>1 DEF Init
  <2>3. [stage |-> "ready", pos |-> 0, held |-> NoOrders] \in Subscription
    BY <1>2 DEF Subscription, Stages
  <2>4. QED
    BY <2>2, <2>3 DEF Init
<1>4. TypeOK
  BY <1>1, <1>2, <1>3, OrderCountsAssumption DEF Init, TypeOK
<1>5. QED
  BY <1>3, <1>4 DEF BaseInvariant, InHand

\* A subscription has a message in hand wherever it needs one.
THEOREM BaseInvariance == Spec => []BaseInvariant
BY BaseInit, BaseStep, PTL DEF Spec

\* Every variable keeps its type; offsets and positions stay in the topic.
THEOREM OrderTypeCorrect == Spec => []TypeOK
<1>1. BaseInvariant => TypeOK
  BY DEF BaseInvariant
<1>2. QED
  BY <1>1, BaseInvariance, PTL

-----------------------------------------------------------------------------
(***************************************************************************)
(* The ledger.                                                             *)
(***************************************************************************)

\* The handler of the event of c may still run, and its claim is that of c.
Holds(c) == con[c].stage \in {"look", "build", "store", "failed"}

\* A handled event stays claimed; one that is held is claimed, not handled, and held once.
HolderInvariant ==
    /\ \A e \in Orders : handled[e] # 0 => e \in claims
    /\ \A c \in Consumers : Holds(c) => Event(c) \in claims /\ handled[Event(c)] = 0
    /\ \A c, d \in Consumers : Holds(c) /\ Holds(d) /\ Event(c) = Event(d) => c = d

\* What is in hand stays the same where the position does.
LEMMA SameMessage ==
    ASSUME BaseInvariant, [Next]_vars, NEW d \in Consumers,
           con[d].stage \notin {"ready", "off"}, con'[d].pos = con[d].pos
    PROVE  Msg(d)' = Msg(d) /\ Event(d)' = Event(d)
<1>1. con[d].pos \in 1 .. Len(topic)
  BY HandMessage
<1>2. topic'[con[d].pos] = topic[con[d].pos]
  <2>1. CASE TopicStep
    BY <1>1, <2>1, TopicGrows
  <2>2. CASE OtherStep
    BY <2>2, OtherTypes DEF broker
  <2>3. CASE \E c \in Consumers : SubscriptionStep(c)
    BY <2>3, SubscriptionMoves DEF SubscriptionEffect
  <2>4. CASE UNCHANGED vars
    BY <2>4 DEF vars, broker
  <2>5. QED
    BY <2>1, <2>2, <2>3, <2>4, StepKinds
<1>3. QED
  BY <1>2 DEF Msg, Event

\* Nobody takes up an event.
LEMMA NoNewHolder ==
    ASSUME BaseInvariant, HolderInvariant, [Next]_vars, UNCHANGED <<claims, handled>>,
           \A c \in Consumers :
             Holds(c)' => Holds(c) /\ con'[c].pos = con[c].pos
    PROVE  HolderInvariant'
<1>1. \A c \in Consumers : Holds(c)' => Holds(c) /\ Event(c)' = Event(c)
  BY SameMessage DEF Holds
<1>2. \A c \in Consumers : Holds(c)' => Event(c)' \in claims' /\ handled'[Event(c)'] = 0
  BY <1>1 DEF HolderInvariant
<1>3. \A c, d \in Consumers : Holds(c)' /\ Holds(d)' /\ Event(c)' = Event(d)' => c = d
  BY <1>1 DEF HolderInvariant
<1>4. QED
  BY <1>2, <1>3 DEF HolderInvariant

\* Claiming and ending, by one subscription.
LEMMA ClaimHolder ==
    ASSUME BaseInvariant, HolderInvariant, [Next]_vars, NEW c \in Consumers,
           SubscriptionEffect(c), con'[c].pos = con[c].pos, At(c, "claim"),
           Event(c) \notin claims, claims' = claims \cup {Event(c)}, handled' = handled
    PROVE  HolderInvariant'
<1> DEFINE e == Event(c)
<1>1. e \in Orders /\ Event(c)' = e
  BY HandMessage, SameMessage DEF At
<1>2. handled[e] = 0
  BY <1>1 DEF HolderInvariant
<1>3. \A d \in Consumers : d # c /\ Holds(d)' => Holds(d) /\ Event(d)' = Event(d)
  BY SameMessage DEF SubscriptionEffect, Holds
<1>4. \A d \in Consumers : d # c /\ Holds(d)' =>
         Event(d)' \in claims /\ Event(d)' # e /\ handled[Event(d)'] = 0
  BY <1>3 DEF HolderInvariant
<1>5. \A d \in Consumers : Holds(d)' => Event(d)' \in claims' /\ handled'[Event(d)'] = 0
  BY <1>1, <1>2, <1>4
<1>6. \A a, b \in Consumers : Holds(a)' /\ Holds(b)' /\ Event(a)' = Event(b)' => a = b
  <2> SUFFICES ASSUME NEW a \in Consumers, NEW b \in Consumers,
                      Holds(a)', Holds(b)', Event(a)' = Event(b)'
               PROVE  a = b
    OBVIOUS
  <2>1. CASE a = c \/ b = c
    BY <1>1, <1>4, <2>1
  <2>2. CASE a # c /\ b # c
    BY <1>3, <2>2 DEF HolderInvariant
  <2>3. QED
    BY <2>1, <2>2
<1>7. \A d \in Orders : handled'[d] # 0 => d \in claims'
  BY DEF HolderInvariant
<1>8. QED
  BY <1>5, <1>6, <1>7 DEF HolderInvariant

LEMMA EndHolder ==
    ASSUME BaseInvariant, HolderInvariant, [Next]_vars, NEW c \in Consumers,
           SubscriptionEffect(c), Holds(c), ~Holds(c)',
           \/ handled' = handled /\ claims' = claims \ {Event(c)}
           \/ claims' = claims /\ handled' = [handled EXCEPT ![Event(c)] = @ + 1]
    PROVE  HolderInvariant'
<1> DEFINE e == Event(c)
<1>1. e \in Orders /\ handled \in Counts
  BY HandMessage DEF Holds, BaseInvariant, TypeOK
<1>2. e \in claims /\ handled[e] = 0
  BY DEF HolderInvariant
<1>3. \A d \in Consumers : Holds(d)' => d # c /\ Holds(d) /\ Event(d)' = Event(d)
  BY SameMessage DEF SubscriptionEffect, Holds
<1>4. \A d \in Consumers : Holds(d)' =>
         Event(d)' \in claims /\ Event(d)' # e /\ handled[Event(d)'] = 0
  BY <1>3 DEF HolderInvariant
<1>5. ASSUME NEW d \in Consumers, Holds(d)'
      PROVE  Event(d)' \in claims' /\ handled'[Event(d)'] = 0
  <2>1. Event(d)' \in Orders
    BY <1>3, <1>5, HandMessage DEF Holds
  <2>2. CASE handled' = handled
    BY <1>4, <1>5, <2>2
  <2>3. CASE handled' = [handled EXCEPT ![e] = @ + 1]
    BY <1>1, <1>4, <1>5, <2>1, <2>3 DEF Counts
  <2>4. QED
    BY <1>4, <1>5, <2>2, <2>3
<1>6. \A a, b \in Consumers : Holds(a)' /\ Holds(b)' /\ Event(a)' = Event(b)' => a = b
  BY <1>3 DEF HolderInvariant
<1>7. \A d \in Orders : handled'[d] # 0 => d \in claims'
  BY <1>1, <1>2 DEF HolderInvariant, Counts
<1>8. QED
  BY <1>5, <1>6, <1>7 DEF HolderInvariant

\* A step of a subscription is one of the ledger, or none.
LEMMA SubscriptionLedger ==
    ASSUME BaseInvariant, HolderInvariant, NEW c \in Consumers, SubscriptionStep(c)
    PROVE  HolderInvariant' /\ [Ledger!LedgerNext]_(Ledger!ledgerVars)
<1> DEFINE e == Event(c)
           Goal == HolderInvariant' /\ [Ledger!LedgerNext]_(Ledger!ledgerVars)
<1> USE DEF At, broker, redis, outcome
<1>1. SubscriptionEffect(c) /\ [Next]_vars
  BY SubscriptionMoves DEF SubscriptionStep, Next
<1>2. con[c].stage \notin {"ready", "off"} => e \in Orders /\ Msg(c).kind \in Kinds
  BY HandMessage
<1>3. handled \in Counts
  BY DEF BaseInvariant, TypeOK
<1>4. CASE UNCHANGED <<claims, handled>> /\ (Holds(c)' => Holds(c) /\ con'[c].pos = con[c].pos)
  <2>1. \A d \in Consumers : Holds(d)' => Holds(d) /\ con'[d].pos = con[d].pos
    BY <1>1, <1>4 DEF SubscriptionEffect, Holds
  <2>2. HolderInvariant'
    BY <1>1, <1>4, <2>1, NoNewHolder
  <2>3. QED
    BY <1>4, <2>2 DEF Ledger!ledgerVars
<1>5. CASE /\ At(c, "claim") /\ e \notin claims /\ claims' = claims \cup {e}
           /\ handled' = handled /\ con'[c].pos = con[c].pos
  <2>1. HolderInvariant'
    BY <1>1, <1>5, ClaimHolder
  <2>2. Ledger!Claim(e)
    BY <1>5 DEF Ledger!Claim
  <2>3. QED
    BY <1>2, <1>5, <2>1, <2>2 DEF Ledger!LedgerNext
<1>6. CASE Assign(c) \/ Fetch(c) \/ Commit(c) \/ CommitFails(c) \/ Enqueue(c)
           \/ EnqueueFails(c) \/ DeadLetter(c) \/ Restart(c)
  <2>1. UNCHANGED <<claims, handled>>
    BY <1>6 DEF Assign, Fetch, Commit, CommitFails, Enqueue, EnqueueFails, DeadLetter, Restart
  <2>2. ~Holds(c)'
    BY <1>6, StageTable DEF Comes, Holds
  <2>3. QED
    BY <1>4, <2>1, <2>2
<1>7. CASE Look(c) \/ Build(c) \/ HandlerFails(c) \/ ReleaseFails(c)
  <2>1. UNCHANGED <<claims, handled>> /\ Holds(c)
    BY <1>7 DEF Look, Build, HandlerFails, ReleaseFails, Holds
  <2>2. con'[c].pos = con[c].pos
    BY <1>7, StageTable DEF Comes
  <2>3. QED
    BY <1>4, <2>1, <2>2
<1>8. CASE Claim(c)
  <2>1. /\ con'[c].pos = con[c].pos
        /\ con'[c].stage = IF WinsClaim(e) THEN AfterClaim(Msg(c).kind) ELSE "ready"
    BY <1>8, StageTable DEF Comes
  <2>2. CASE WinsClaim(e)
    BY <1>5, <1>8, <2>1, <2>2 DEF Claim, WinsClaim
  <2>3. CASE ~WinsClaim(e)
    <3>1. UNCHANGED <<claims, handled>>
      BY <1>8, <2>3 DEF Claim, WinsClaim
    <3>2. ~Holds(c)'
      BY <2>1, <2>3 DEF Holds
    <3>3. QED
      BY <1>4, <3>1, <3>2
  <2>4. QED
    BY <2>2, <2>3
<1>9. CASE ClaimFails(c)
  <2>1. con'[c].pos = con[c].pos /\ ~Holds(c)'
    BY <1>9, StageTable DEF Comes, Holds
  <2>2. CASE UNCHANGED claims
    BY <1>4, <1>9, <2>1, <2>2 DEF ClaimFails
  <2>3. CASE ~UNCHANGED claims
    BY <1>5, <1>9, <2>1, <2>3 DEF ClaimFails, WinsClaim
  <2>4. QED
    BY <2>2, <2>3
<1>10. CASE Store(c)
  <2>1. /\ Holds(c) /\ UNCHANGED claims /\ ~Holds(c)' /\ e \in Orders
        /\ handled' = [handled EXCEPT ![e] = @ + 1]
    BY <1>2, <1>10, StageTable DEF Store, Holds, Comes
  <2>2. HolderInvariant'
    BY <1>1, <2>1, EndHolder
  <2>3. e \in claims /\ handled[e] = 0
    BY <2>1 DEF HolderInvariant
  <2>4. handled' = [handled EXCEPT ![e] = 1]
    BY <1>3, <2>1, <2>3 DEF Counts
  <2>5. Ledger!Finish(e)
    BY <2>1, <2>3, <2>4 DEF Ledger!Finish
  <2>6. QED
    BY <2>1, <2>2, <2>5 DEF Ledger!LedgerNext
<1>11. CASE Release(c)
  <2>1. /\ Holds(c) /\ UNCHANGED handled /\ e \in Orders /\ claims' = claims \ {e}
    BY <1>2, <1>11 DEF Release, Holds, ReleasedClaims
  <2>2. ~Holds(c)'
    BY <1>11, StageTable DEF Comes, Holds, AfterRelease
  <2>3. HolderInvariant'
    BY <1>1, <2>1, <2>2, EndHolder
  <2>4. e \in claims /\ handled[e] = 0
    BY <2>1 DEF HolderInvariant
  <2>5. Ledger!GiveBack(e)
    BY <2>1, <2>4 DEF Ledger!GiveBack
  <2>6. QED
    BY <2>1, <2>3, <2>5 DEF Ledger!LedgerNext
<1>12. QED
  BY <1>6, <1>7, <1>8, <1>9, <1>10, <1>11 DEF SubscriptionStep, Progress, Failure

LEMMA LedgerStep ==
    BaseInvariant /\ HolderInvariant /\ [Next]_vars
      => HolderInvariant' /\ [Ledger!LedgerNext]_(Ledger!ledgerVars)
<1> SUFFICES ASSUME BaseInvariant, HolderInvariant, [Next]_vars
             PROVE  HolderInvariant' /\ [Ledger!LedgerNext]_(Ledger!ledgerVars)
  OBVIOUS
<1>1. ASSUME UNCHANGED <<con, claims, handled>>
      PROVE  HolderInvariant' /\ [Ledger!LedgerNext]_(Ledger!ledgerVars)
  <2>1. \A c \in Consumers : Holds(c)' => Holds(c) /\ con'[c].pos = con[c].pos
    BY <1>1 DEF Holds
  <2>2. QED
    BY <1>1, <2>1, NoNewHolder DEF Ledger!ledgerVars
<1>2. CASE TopicStep
  BY <1>1, <1>2, TopicGrows DEF outcome
<1>3. CASE OtherStep
  BY <1>1, <1>3, OtherTypes DEF outcome
<1>4. CASE UNCHANGED vars
  BY <1>1, <1>4 DEF vars, outcome
<1>5. QED
  BY <1>2, <1>3, <1>4, SubscriptionLedger, StepKinds

LEMMA HolderInit == Init => HolderInvariant /\ Ledger!LedgerInit
BY DEF Init, HolderInvariant, Holds, Ledger!LedgerInit, NoOrders

\* Who is handling an event holds its claim, alone.
THEOREM HolderInvariance == Spec => []HolderInvariant
BY HolderInit, LedgerStep, BaseInvariance, PTL DEF Spec

\* The subscriptions of all the processes implement ClaimLedger: through any retries,
\* redeliveries and moves of the partition no order is handled twice.
THEOREM SubscriptionsImplementLedger == Spec => LedgerRespected
BY HolderInit, LedgerStep, BaseInvariance, PTL DEF Spec, LedgerRespected, Ledger!LedgerSpec

-----------------------------------------------------------------------------
(***************************************************************************)
(* Nothing is lost but orphans.                                            *)
(***************************************************************************)

\* c will end what it does with its message in one of the ways that settle it.
Handles(c) == Holds(c) \/ con[c].stage \in {"retry", "doomed"}

\* The event comes to an end although nobody reads the first k messages again.
Tracked(e, k) ==
    \/ Settled(e)
    \/ \E m \in retry : m.event = e
    \/ \E i \in k + 1 .. Len(topic) : topic[i].event = e
    \/ \E c \in Consumers : Handles(c) /\ Event(c) = e

AllTracked(k) == \A i \in 1 .. k : Tracked(topic[i].event, k)

\* The messages that c is done with.
Behind(c) == IF At(c, "ready") THEN con[c].pos ELSE con[c].pos - 1

\* A claim without a handled event, an orphan or a dead letter is that of somebody who
\* holds it; what is below the offset, or behind the owner, is tracked.
FateInvariant ==
    /\ \A e \in claims : Settled(e) \/ \E c \in Consumers : Holds(c) /\ Event(c) = e
    /\ \A c \in Consumers : At(c, "commit") => Settled(Event(c))
    /\ AllTracked(offset)
    /\ \A c \in Consumers : owner = c /\ ~At(c, "off") =>
         offset <= Behind(c) /\ AllTracked(Behind(c))

\* What is recorded of the past only grows.
LEMMA PastGrows ==
    ASSUME BaseInvariant, [Next]_vars
    PROVE  /\ \A e \in Orders : handled'[e] >= handled[e]
           /\ orphans \subseteq orphans' /\ dead \subseteq dead'
           /\ undone \subseteq undone' /\ backfilled \subseteq backfilled'
<1> USE DEF broker, redis, outcome
<1>1. handled \in Counts
  BY DEF BaseInvariant, TypeOK
<1>2. \A e \in Orders : handled[e] \in Nat
  BY <1>1 DEF Counts
<1>3. CASE TopicStep
  BY <1>2, <1>3, TopicGrows
<1>4. CASE OtherStep
  <2>1. UNCHANGED <<handled, orphans, dead, undone>>
    BY <1>4, OtherTypes
  <2>2. backfilled \subseteq backfilled'
    BY <1>4 DEF OtherStep, OtherReads, OtherWrites, AppendsAgain, PreviewExpires, Reads,
       FromOrderService
  <2>3. QED
    BY <1>2, <2>1, <2>2
<1>5. ASSUME NEW c \in Consumers, SubscriptionStep(c)
      PROVE  /\ \A e \in Orders : handled'[e] >= handled[e]
             /\ orphans \subseteq orphans' /\ dead \subseteq dead'
             /\ undone \subseteq undone' /\ backfilled \subseteq backfilled'
  <2>1. orphans \subseteq orphans' /\ dead \subseteq dead'
    BY <1>5 DEF SubscriptionStep, Progress, Failure, Assign, Fetch, Claim, Look, Build, Store,
       Commit, CommitFails, ClaimFails, EnqueueFails, DeadLetter, Release, ReleaseFails,
       Enqueue, HandlerFails, Restart, Drops
  <2>2. undone \subseteq undone' /\ backfilled \subseteq backfilled'
    BY <1>5 DEF SubscriptionStep, Progress, Failure, Assign, Fetch, Claim, Look, Build, Store,
       Commit, CommitFails, ClaimFails, EnqueueFails, DeadLetter, Release, ReleaseFails,
       Enqueue, HandlerFails, Restart, Reads, FromOrderService
  <2>3. \A e \in Orders : handled'[e] >= handled[e]
    <3>1. CASE Store(c)
      <4>1. Event(c) \in Orders /\ handled' = OneMore(handled, Event(c))
        BY <3>1, HandMessage DEF Store, At, OneMore
      <4>2. QED
        BY <1>1, <1>2, <4>1, OneMoreCounted
    <3>2. CASE ~Store(c)
      <4>1. UNCHANGED handled
        BY <1>5, <3>2 DEF SubscriptionStep, Progress, Failure, Assign, Fetch, Claim, Look,
           Build, Commit, CommitFails, ClaimFails, EnqueueFails, DeadLetter, Release,
           ReleaseFails, Enqueue, HandlerFails, Restart
      <4>2. QED
        BY <1>2, <4>1
    <3>3. QED
      BY <3>1, <3>2
  <2>4. QED
    BY <2>1, <2>2, <2>3
<1>6. CASE UNCHANGED vars
  BY <1>2, <1>6 DEF vars
<1>7. QED
  BY <1>3, <1>4, <1>5, <1>6, StepKinds

LEMMA SettledStays ==
    ASSUME BaseInvariant, [Next]_vars, NEW e \in Orders, Settled(e)
    PROVE  Settled(e)'
<1>1. handled[e] \in Nat /\ handled'[e] >= handled[e]
  BY PastGrows DEF BaseInvariant, TypeOK, Counts
<1>2. handled' \in Counts
  BY BaseStep DEF BaseInvariant, TypeOK
<1>3. handled'[e] \in Nat
  BY <1>2 DEF Counts
<1>4. QED
  BY <1>1, <1>3, PastGrows DEF Settled

\* Who handles a message ends it or goes on with it; only a process that gives
\* up reading drops one that is still to be read.
LEMMA HandsOn ==
    ASSUME BaseInvariant, NEW c \in Consumers, SubscriptionStep(c), Handles(c),
           NEW e, e = Event(c)
    PROVE  \/ Settled(e)'
           \/ \E m \in retry' : m.event = e
           \/ Handles(c)' /\ Event(c)' = e
           \/ owner = c /\ (owner' # c \/ At(c, "off")')
<1> USE DEF At
<1>1. [Next]_vars
  BY DEF SubscriptionStep, Next
<1>2. /\ con[c].stage \in {"look", "build", "store", "failed", "retry", "doomed"}
      /\ e \in Orders /\ Msg(c).event = e /\ handled[e] \in Nat /\ handled \in Counts
  BY HandMessage DEF Handles, Holds, BaseInvariant, TypeOK, Counts
<1>3. con'[c].pos = con[c].pos => Event(c)' = e
  BY <1>1, <1>2, SameMessage
<1>4. CASE Look(c) \/ Build(c) \/ HandlerFails(c) \/ Release(c) \/ ReleaseFails(c)
  <2>1. Handles(c)' /\ con'[c].pos = con[c].pos
    BY <1>4, StageTable DEF Comes, Handles, Holds, AfterRelease
  <2>2. QED
    BY <1>3, <2>1
<1>5. CASE Store(c)
  <2>1. handled' = OneMore(handled, e)
    BY <1>5 DEF Store, OneMore
  <2>2. handled'[e] > 0
    BY <1>2, <2>1, OneMoreCounted
  <2>3. QED
    BY <2>2 DEF Settled
<1>6. CASE Enqueue(c)
  <2>1. Again(c) \in retry' /\ Again(c).event = e
    BY <1>6, AgainTypes DEF Enqueue
  <2>2. QED
    BY <2>1
<1>7. CASE EnqueueFails(c)
  <2> At(c, "off")'
    BY <1>7, StageTable DEF Comes
  <2>1. CASE retry' = retry \cup {Again(c)}
    <3>1. Again(c) \in retry' /\ Again(c).event = e
      BY <1>7, <2>1, AgainTypes DEF EnqueueFails
    <3>2. QED
      BY <3>1
  <2>2. CASE Drops(c) /\ owner # c
    BY <2>2 DEF Drops, Settled
  <2>3. QED
    BY <1>7, <2>1, <2>2 DEF EnqueueFails
<1>8. CASE DeadLetter(c)
  <2> At(c, "off")'
    BY <1>8, StageTable DEF Comes
  <2>1. CASE dead' = dead \cup {Msg(c)}
    <3>1. Msg(c) \in dead'
      BY <2>1
    <3>2. QED
      BY <1>2, <3>1 DEF Settled
  <2>2. CASE Drops(c) /\ owner # c
    BY <2>2 DEF Drops, Settled
  <2>3. QED
    BY <1>8, <2>1, <2>2 DEF DeadLetter
<1>9. CASE Restart(c)
  <2>1. CASE e \in orphans'
    BY <2>1 DEF Settled
  <2>2. CASE Drops(c) /\ owner # c
    BY <2>2 DEF Drops, Settled
  <2>3. CASE owner = c
    <3>1. owner' # c
      BY <1>9, <2>3, OrderCountsAssumption DEF Restart
    <3>2. QED
      BY <2>3, <3>1
  <2>4. QED
    BY <1>2, <1>9, <2>1, <2>2, <2>3 DEF Restart
<1>10. QED
  BY <1>2, <1>4, <1>5, <1>6, <1>7, <1>8, <1>9 DEF SubscriptionStep, Progress, Failure,
     Assign, Fetch, Claim, Commit, CommitFails, ClaimFails

\* The messages that are in the topic stay there.
LEMMA TopicStays ==
    ASSUME BaseInvariant, [Next]_vars
    PROVE  /\ Len(topic) \in Nat /\ Len(topic') \in Nat /\ Len(topic) <= Len(topic')
           /\ \A i \in 1 .. Len(topic) : topic'[i] = topic[i] /\ topic[i].event \in Orders
<1>1. Len(topic) \in Nat /\ topic \in Seq(Message)
  BY DEF BaseInvariant, TypeOK
<1>2. ASSUME NEW i \in 1 .. Len(topic) PROVE topic[i].event \in Orders
  <2>1. topic[i] \in Message
    BY <1>1
  <2>2. QED
    BY <2>1 DEF Message
<1>3. CASE TopicStep
  BY <1>1, <1>2, <1>3, TopicGrows
<1>4. CASE OtherStep
  BY <1>1, <1>2, <1>4, OtherTypes DEF broker
<1>5. CASE \E c \in Consumers : SubscriptionStep(c)
  BY <1>1, <1>2, <1>5, SubscriptionMoves DEF SubscriptionEffect
<1>6. CASE UNCHANGED vars
  BY <1>1, <1>2, <1>6 DEF vars, broker
<1>7. QED
  BY <1>3, <1>4, <1>5, <1>6, StepKinds

\* What is tracked stays so, as long as the owner has it before itself.
LEMMA StillTracked ==
    ASSUME BaseInvariant, [Next]_vars, NEW e \in Orders, NEW k \in 0 .. Len(topic),
           Tracked(e, k),
           \A c \in Consumers : owner = c /\ Handles(c) =>
             k < con[c].pos \/ (owner' = c /\ ~At(c, "off")')
    PROVE  Tracked(e, k)'
<1>1. Len(topic) \in Nat /\ topic \in Seq(Message)
  BY DEF BaseInvariant, TypeOK
<1>2. Len(topic') \in Nat /\ Len(topic) <= Len(topic')
      /\ \A i \in 1 .. Len(topic) : topic'[i] = topic[i]
  BY TopicStays
<1>3. CASE Settled(e)
  BY <1>3, SettledStays DEF Tracked
<1>4. CASE \E i \in k + 1 .. Len(topic) : topic[i].event = e
  <2>1. PICK i \in k + 1 .. Len(topic) : topic[i].event = e
    BY <1>4
  <2>2. i \in 1 .. Len(topic) /\ i \in k + 1 .. Len(topic')
    BY <1>1, <1>2, <2>1
  <2>3. topic'[i].event = e
    BY <1>2, <2>1, <2>2
  <2>4. QED
    BY <2>2, <2>3 DEF Tracked
<1>5. ASSUME NEW m \in retry, m.event = e
      PROVE  Tracked(e, k)'
  <2>1. CASE m \in retry'
    BY <1>5, <2>1 DEF Tracked
  <2>2. CASE m \notin retry'
    <3>1. Requeue(m)
      <4>1. TopicStep
        BY <2>2, StepKinds, OtherTypes DEF broker, SubscriptionStep, Progress, Failure,
           Assign, Fetch, Claim, Look, Build, Store, Commit, CommitFails, ClaimFails,
           EnqueueFails, DeadLetter, Release, ReleaseFails, Enqueue, HandlerFails, Restart,
           vars
      <4>2. PICK n \in retry : Requeue(n)
        BY <2>2, <4>1 DEF TopicStep, Fund
      <4>3. n = m
        BY <2>2, <4>2 DEF Requeue
      <4>4. QED
        BY <4>2, <4>3
    <3>2. topic' = Append(topic, m) /\ m \in Message
      BY <3>1 DEF Requeue, BaseInvariant, TypeOK
    <3>3. topic'[Len(topic) + 1] = m /\ Len(topic') = Len(topic) + 1
      BY <1>1, <3>2
    <3>4. Len(topic) + 1 \in k + 1 .. Len(topic')
      BY <1>1, <3>3
    <3>5. QED
      BY <1>5, <3>3, <3>4 DEF Tracked
  <2>3. QED
    BY <2>1, <2>2
<1>6. ASSUME NEW c \in Consumers, Handles(c), Event(c) = e
      PROVE  Tracked(e, k)'
  <2>1. CASE con'[c] = con[c]
    <3>1. Event(c)' = Event(c) /\ Handles(c)'
      BY <1>6, <2>1, SameMessage DEF Handles, Holds
    <3>2. QED
      BY <1>6, <3>1 DEF Tracked
  <2>2. CASE SubscriptionStep(c)
    <3>1. CASE owner = c /\ k < con[c].pos
      <4>1. con[c].pos \in k + 1 .. Len(topic) /\ topic[con[c].pos].event = e
        BY <1>1, <1>6, <3>1, HandMessage DEF Handles, Holds, Event, Msg
      <4>2. QED
        BY <1>4, <4>1
    <3>2. CASE owner # c \/ (owner' = c /\ ~At(c, "off")')
      BY <1>6, <2>2, <3>2, HandsOn DEF Tracked
    <3>3. QED
      BY <1>6, <3>1, <3>2
  <2>3. QED
    <3>1. con'[c] = con[c] \/ SubscriptionStep(c)
      BY StepKinds, TopicGrows, OtherTypes, SubscriptionMoves DEF SubscriptionEffect, vars
    <3>2. QED
      BY <2>1, <2>2, <3>1
<1>7. QED
  BY <1>3, <1>4, <1>5, <1>6 DEF Tracked

LEMMA AllStillTracked ==
    ASSUME BaseInvariant, [Next]_vars, NEW k \in 0 .. Len(topic), AllTracked(k),
           \A c \in Consumers : owner = c /\ Handles(c) =>
             k < con[c].pos \/ (owner' = c /\ ~At(c, "off")')
    PROVE  AllTracked(k)'
<1>1. ASSUME NEW i \in 1 .. k PROVE (Tracked(topic[i].event, k))'
  <2>1. i \in 1 .. Len(topic) /\ topic'[i] = topic[i]
    BY TopicStays
  <2>2. PICK e \in Orders : e = topic[i].event
    BY <2>1, TopicStays
  <2>3. Tracked(e, k)
    BY <2>2 DEF AllTracked, Tracked
  <2>4. Tracked(e, k)'
    BY <2>3, StillTracked
  <2>5. e = topic'[i].event
    BY <2>1, <2>2
  <2>6. QED
    BY <2>4, <2>5 DEF Tracked, Settled
<1>2. QED
  BY <1>1 DEF AllTracked

\* c is done with one message more.
LEMMA OneMoreBehind ==
    ASSUME BaseInvariant, NEW c \in Consumers, con[c].stage \notin {"ready", "off"},
           AllTracked(con[c].pos - 1), Tracked(Event(c), con[c].pos)
    PROVE  AllTracked(con[c].pos)
<1> DEFINE k == con[c].pos
<1>1. k \in 1 .. Len(topic) /\ Len(topic) \in Nat /\ Event(c) = topic[k].event
  BY HandMessage DEF Event, Msg, BaseInvariant, TypeOK
<1>2. ASSUME NEW i \in 1 .. k PROVE Tracked(topic[i].event, k)
  <2>1. CASE topic[i].event = Event(c)
    BY <2>1
  <2>2. CASE topic[i].event # Event(c)
    <3>1. i \in 1 .. k - 1
      BY <1>1, <2>2
    <3>2. Tracked(topic[i].event, k - 1)
      BY <3>1 DEF AllTracked
    <3>3. \A j \in (k - 1) + 1 .. Len(topic) : j = k \/ j \in k + 1 .. Len(topic)
      BY <1>1
    <3>4. QED
      BY <1>1, <2>2, <3>2, <3>3 DEF Tracked
  <2>3. QED
    BY <2>1, <2>2
<1>3. QED
  BY <1>2 DEF AllTracked

\* Whoever holds a claim settles its event, gives the claim back or goes on.
LEMMA HolderGoesOn ==
    ASSUME BaseInvariant, NEW c \in Consumers, SubscriptionStep(c), Holds(c),
           NEW e, e = Event(c)
    PROVE  Settled(e)' \/ e \notin claims' \/ (Holds(c)' /\ Event(c)' = e)
<1> USE DEF At
<1>1. [Next]_vars
  BY DEF SubscriptionStep, Next
<1>2. /\ con[c].stage \in {"look", "build", "store", "failed"}
      /\ e \in Orders /\ handled[e] \in Nat /\ handled \in Counts
  BY HandMessage DEF Holds, BaseInvariant, TypeOK, Counts
<1>3. con'[c].pos = con[c].pos => Event(c)' = e
  BY <1>1, <1>2, SameMessage
<1>4. CASE Look(c) \/ Build(c) \/ HandlerFails(c)
  <2>1. Holds(c)' /\ con'[c].pos = con[c].pos
    BY <1>4, StageTable DEF Comes, Holds
  <2>2. QED
    BY <1>3, <2>1
<1>5. CASE Store(c)
  <2>1. handled' = OneMore(handled, e)
    BY <1>5 DEF Store, OneMore
  <2>2. handled'[e] > 0
    BY <1>2, <2>1, OneMoreCounted
  <2>3. QED
    BY <2>2 DEF Settled
<1>6. CASE Release(c)
  BY <1>6 DEF Release, ReleasedClaims
<1>7. CASE ReleaseFails(c) \/ Restart(c)
  <2>1. e \in orphans'
    BY <1>2, <1>7 DEF ReleaseFails, Restart
  <2>2. QED
    BY <2>1 DEF Settled
<1>8. QED
  BY <1>2, <1>4, <1>5, <1>6, <1>7 DEF SubscriptionStep, Progress, Failure, Assign, Fetch,
     Claim, Commit, CommitFails, ClaimFails, Enqueue, EnqueueFails, DeadLetter

\* A new claim is that of a holder, or of an orphan.
LEMMA ClaimExplained ==
    ASSUME BaseInvariant, NEW c \in Consumers, SubscriptionStep(c),
           NEW e, e \in claims', e \notin claims
    PROVE  Settled(e)' \/ (Holds(c)' /\ Event(c)' = e)
<1> USE DEF At
<1>1. CASE Claim(c)
  <2>1. /\ e = Event(c) /\ WinsClaim(e) /\ con[c].stage = "claim"
        /\ Msg(c).kind # "order" => e \in orphans'
    BY <1>1 DEF Claim, WinsClaim
  <2>2. con'[c].pos = con[c].pos /\ con'[c].stage = AfterClaim(Msg(c).kind)
    BY <1>1, <2>1, StageTable DEF Comes
  <2>3. Event(c)' = e
    BY <2>1, <2>2, SameMessage DEF SubscriptionStep, Next
  <2>4. CASE Msg(c).kind = "order"
    BY <2>2, <2>3, <2>4 DEF Holds, AfterClaim
  <2>5. CASE Msg(c).kind # "order"
    BY <2>1, <2>5 DEF Settled
  <2>6. QED
    BY <2>4, <2>5
<1>2. CASE ClaimFails(c)
  <2>1. e \in orphans'
    BY <1>2 DEF ClaimFails
  <2>2. QED
    BY <2>1 DEF Settled
<1>3. QED
  BY <1>1, <1>2 DEF SubscriptionStep, Progress, Failure, Assign, Fetch, Look, Build, Store,
     Commit, CommitFails, EnqueueFails, DeadLetter, Release, ReleaseFails, Enqueue,
     HandlerFails, Restart, broker, outcome, ReleasedClaims

LEMMA ClaimsStep ==
    ASSUME BaseInvariant, FateInvariant, [Next]_vars, NEW e \in claims'
    PROVE  Settled(e)' \/ \E c \in Consumers : Holds(c)' /\ Event(c)' = e
<1>1. ASSUME UNCHANGED <<con, claims>>
      PROVE  Settled(e)' \/ \E c \in Consumers : Holds(c)' /\ Event(c)' = e
  <2>1. CASE Settled(e)
    BY <1>1, <2>1, SettledStays DEF BaseInvariant, TypeOK
  <2>2. CASE \E c \in Consumers : Holds(c) /\ Event(c) = e
    BY <1>1, <2>2, SameMessage DEF Holds
  <2>3. QED
    BY <1>1, <2>1, <2>2 DEF FateInvariant
<1>2. ASSUME NEW c \in Consumers, SubscriptionStep(c)
      PROVE  Settled(e)' \/ \E d \in Consumers : Holds(d)' /\ Event(d)' = e
  <2>1. CASE e \notin claims
    BY <1>2, <2>1, ClaimExplained
  <2>2. CASE Settled(e) /\ e \in claims
    BY <2>2, SettledStays DEF BaseInvariant, TypeOK
  <2>3. ASSUME NEW d \in Consumers, Holds(d), Event(d) = e
        PROVE  Settled(e)' \/ \E x \in Consumers : Holds(x)' /\ Event(x)' = e
    <3>1. CASE d = c
      BY <1>2, <2>3, <3>1, HolderGoesOn
    <3>2. CASE d # c
      <4>1. con'[d] = con[d]
        BY <1>2, <3>2, SubscriptionMoves DEF SubscriptionEffect
      <4>2. QED
        BY <2>3, <4>1, SameMessage DEF Holds
    <3>3. QED
      BY <3>1, <3>2
  <2>4. QED
    BY <2>1, <2>2, <2>3 DEF FateInvariant
<1>3. CASE TopicStep
  BY <1>1, <1>3, TopicGrows DEF outcome
<1>4. CASE OtherStep
  BY <1>1, <1>4, OtherTypes DEF outcome
<1>5. CASE UNCHANGED vars
  BY <1>1, <1>5 DEF vars, outcome
<1>6. QED
  BY <1>2, <1>3, <1>4, <1>5, StepKinds

\* What comes to its commit is settled.
LEMMA CommitsStep ==
    ASSUME BaseInvariant, FateInvariant, [Next]_vars, NEW d \in Consumers, At(d, "commit")'
    PROVE  Settled(Event(d))'
<1> USE DEF At
<1>1. CASE con'[d] = con[d]
  <2>1. PICK e \in Orders : e = Event(d)
    BY <1>1, HandMessage
  <2>2. Event(d)' = e
    BY <1>1, <2>1, SameMessage
  <2>3. Settled(e)
    BY <1>1, <2>1 DEF FateInvariant, Settled
  <2>4. Settled(e)'
    BY <2>3, SettledStays
  <2>5. QED
    BY <2>2, <2>4 DEF Settled
<1>2. CASE SubscriptionStep(d)
  <2>1. Store(d) \/ Claim(d)
    BY <1>2, StageTable DEF SubscriptionStep, Progress, Failure, Comes, AfterRelease
  <2>2. con'[d].pos = con[d].pos /\ con[d].stage \in {"store", "claim"}
    BY <2>1, StageTable DEF Store, Claim, Comes
  <2>3. PICK e \in Orders : e = Event(d)
    BY <2>2, HandMessage
  <2>4. Event(d)' = e
    BY <2>2, <2>3, SameMessage
  <2>5. CASE Store(d)
    <3>1. handled' = OneMore(handled, e) /\ handled \in Counts
      BY <2>3, <2>5 DEF Store, OneMore, BaseInvariant, TypeOK
    <3>2. handled'[e] > 0
      BY <3>1, OneMoreCounted DEF Counts
    <3>3. QED
      BY <2>4, <3>2 DEF Settled
  <2>6. CASE Claim(d)
    <3>1. WinsClaim(e) /\ AfterClaim(Msg(d).kind) = "commit"
      BY <2>3, <2>6, StageTable DEF Comes
    <3>2. e \in orphans'
      BY <2>3, <2>6, <3>1 DEF Claim, AfterClaim
    <3>3. QED
      BY <2>4, <3>2 DEF Settled
  <2>7. QED
    BY <2>1, <2>5, <2>6
<1>3. QED
  <2>1. con'[d] = con[d] \/ SubscriptionStep(d)
    BY StepKinds, TopicGrows, OtherTypes, SubscriptionMoves DEF SubscriptionEffect, vars
  <2>2. QED
    BY <1>1, <1>2, <2>1

\* The owner has read what it commits.
LEMMA CommitBehind ==
    ASSUME BaseInvariant, FateInvariant, NEW c \in Consumers, owner = c, At(c, "commit")
    PROVE  con[c].pos \in 0 .. Len(topic) /\ offset <= con[c].pos /\ AllTracked(con[c].pos)
<1>1. con[c].pos \in 1 .. Len(topic) /\ Len(topic) \in Nat /\ offset \in Nat
  BY HandMessage DEF At, BaseInvariant, TypeOK
<1>2. offset <= con[c].pos - 1 /\ AllTracked(con[c].pos - 1)
  BY DEF FateInvariant, Behind, At
<1>3. Settled(Event(c))
  BY DEF FateInvariant
<1>4. AllTracked(con[c].pos)
  BY <1>2, <1>3, OneMoreBehind DEF At, Tracked
<1>5. QED
  BY <1>1, <1>2, <1>4

\* Only the owner moves the offset, to where it is.
LEMMA OffsetMoves ==
    ASSUME BaseInvariant, [Next]_vars
    PROVE  \/ offset' = offset
           \/ \E c \in Consumers : /\ owner = c /\ At(c, "commit") /\ offset' = con[c].pos
                                   /\ owner' = owner /\ con'[c].pos = con[c].pos
                                   /\ \/ At(c, "ready")' \/ At(c, "off")'
<1>1. CASE TopicStep
  BY <1>1, TopicGrows
<1>2. CASE OtherStep
  BY <1>2, OtherTypes DEF broker
<1>3. CASE UNCHANGED vars
  BY <1>3 DEF vars, broker
<1>4. ASSUME NEW c \in Consumers, SubscriptionStep(c), offset' # offset
      PROVE  /\ owner = c /\ At(c, "commit") /\ offset' = con[c].pos
             /\ owner' = owner /\ con'[c].pos = con[c].pos
             /\ \/ At(c, "ready")' \/ At(c, "off")'
  <2>1. Commit(c) \/ CommitFails(c)
    BY <1>4 DEF SubscriptionStep, Progress, Failure, Assign, Fetch, Claim, Look, Build, Store,
       ClaimFails, EnqueueFails, DeadLetter, Release, ReleaseFails, Enqueue, HandlerFails,
       Restart, broker
  <2>2. QED
    BY <1>4, <2>1, StageTable DEF Commit, CommitFails, Comes, At
<1>5. QED
  BY <1>1, <1>2, <1>3, <1>4, StepKinds

LEMMA OffsetStep ==
    ASSUME BaseInvariant, FateInvariant, [Next]_vars
    PROVE  AllTracked(offset)'
<1>1. offset \in 0 .. Len(topic) /\ Len(topic) \in Nat
  BY DEF BaseInvariant, TypeOK
<1>2. CASE offset' = offset
  <2>1. ASSUME NEW c \in Consumers, owner = c, Handles(c)
        PROVE  offset < con[c].pos
    <3>1. con[c].pos \in Nat /\ offset <= con[c].pos - 1
      BY <2>1, HandMessage DEF Handles, Holds, FateInvariant, Behind, At, BaseInvariant, TypeOK
    <3>2. QED
      BY <1>1, <3>1
  <2>2. PICK k \in 0 .. Len(topic) : k = offset
    BY <1>1
  <2>3. AllTracked(k)'
    BY <2>1, <2>2, AllStillTracked DEF FateInvariant
  <2>4. QED
    BY <1>2, <2>2, <2>3 DEF AllTracked, Tracked
<1>3. ASSUME NEW c \in Consumers, owner = c, At(c, "commit"), offset' = con[c].pos
      PROVE  AllTracked(offset)'
  <2>1. PICK k \in 0 .. Len(topic) : k = con[c].pos
    BY <1>3, CommitBehind
  <2>2. AllTracked(k)
    BY <1>3, <2>1, CommitBehind
  <2>3. AllTracked(k)'
    BY <1>3, <2>1, <2>2, AllStillTracked DEF Handles, Holds, At
  <2>4. QED
    BY <1>3, <2>1, <2>3 DEF AllTracked, Tracked
<1>4. QED
  BY <1>2, <1>3, OffsetMoves

\* The owner goes on, or is the next one; what is behind it stays tracked.
LEMMA BehindStays ==
    ASSUME BaseInvariant, [Next]_vars, NEW c \in Consumers,
           owner = c, owner' = c, ~At(c, "off")',
           NEW k \in 0 .. Len(topic), AllTracked(k), Behind(c)' = k, offset' <= k
    PROVE  (offset <= Behind(c) /\ AllTracked(Behind(c)))'
<1>1. AllTracked(k)'
  BY AllStillTracked
<1>2. QED
  BY <1>1 DEF AllTracked, Tracked

LEMMA OwnerStep ==
    ASSUME BaseInvariant, FateInvariant, [Next]_vars, NEW c \in Consumers,
           owner' = c, ~At(c, "off")'
    PROVE  (offset <= Behind(c) /\ AllTracked(Behind(c)))'
<1> USE DEF At
<1>1. /\ offset \in 0 .. Len(topic) /\ Len(topic) \in Nat /\ con[c].pos \in 0 .. Len(topic)
      /\ con[c].stage \notin {"ready", "off"} => con[c].pos >= 1
  BY DEF BaseInvariant, TypeOK, InHand
<1>2. owner = c /\ ~At(c, "off") =>
         Behind(c) \in 0 .. Len(topic) /\ offset <= Behind(c) /\ AllTracked(Behind(c))
  BY <1>1 DEF Behind, FateInvariant
<1>3. CASE owner = c /\ ~At(c, "off") /\ offset' = offset /\ Behind(c)' = Behind(c)
  <2>1. PICK k \in 0 .. Len(topic) : k = Behind(c)
    BY <1>2, <1>3
  <2>2. AllTracked(k) /\ offset' <= k /\ Behind(c)' = k
    BY <1>2, <1>3, <2>1
  <2>3. QED
    BY <1>3, <2>2, BehindStays
<1>4. CASE con'[c] = con[c] /\ owner = c /\ offset' = offset
  BY <1>3, <1>4 DEF Behind
<1>5. ASSUME SubscriptionStep(c), ~(con'[c] = con[c] /\ owner = c /\ offset' = offset)
      PROVE  (offset <= Behind(c) /\ AllTracked(Behind(c)))'
  <2>1. CASE Assign(c)
    <3>1. Behind(c)' = offset' /\ offset' = offset
      BY <2>1, StageTable DEF Assign, Behind
    <3>2. AllTracked(offset)'
      BY OffsetStep
    <3>3. QED
      BY <1>1, <3>1, <3>2
  <2>2. CASE Fetch(c)
    <3>1. Behind(c)' = Behind(c)
      <4>1. con[c].stage = "ready" /\ con'[c].stage = "claim" /\ con'[c].pos = con[c].pos + 1
        BY <2>2, StageTable DEF Fetch
      <4>2. (con[c].pos + 1) - 1 = con[c].pos
        BY <1>1
      <4>3. QED
        BY <4>1, <4>2 DEF Behind
    <3>2. QED
      BY <1>3, <2>2, <3>1 DEF Fetch, broker
  <2>3. CASE \/ Look(c) \/ Build(c) \/ Store(c) \/ HandlerFails(c) \/ Release(c)
             \/ ReleaseFails(c)
    <3>1. owner = c /\ offset' = offset /\ con[c].stage \in {"look", "build", "store", "failed"}
      BY <2>3 DEF Look, Build, Store, HandlerFails, Release, ReleaseFails, broker
    <3>2. Behind(c)' = Behind(c)
      BY <2>3, <3>1, StageTable DEF Comes, Behind, AfterRelease
    <3>3. QED
      BY <1>3, <3>1, <3>2
  <2>4. CASE Claim(c)
    <3>1. owner = c /\ offset' = offset /\ con[c].stage = "claim" /\ con'[c].pos = con[c].pos
      BY <2>4, StageTable DEF Claim, Comes, broker
    <3>2. Msg(c).kind \in Kinds /\ Event(c) \in Orders
      BY <3>1, HandMessage
    <3>3. CASE WinsClaim(Event(c))
      <4>1. con'[c].stage # "ready"
        BY <2>4, <3>2, <3>3, StageTable DEF Comes, AfterClaim, Kinds
      <4>2. Behind(c)' = Behind(c)
        BY <3>1, <4>1 DEF Behind
      <4>3. QED
        BY <1>3, <3>1, <4>2
    <3>4. CASE ~WinsClaim(Event(c))
      <4>1. Behind(c)' = con[c].pos
        BY <2>4, <3>1, <3>4, StageTable DEF Comes, Behind
      <4>2. Tracked(Event(c), con[c].pos)
        BY <3>4 DEF WinsClaim, FateInvariant, Tracked, Handles
      <4>3. AllTracked(con[c].pos - 1) /\ offset <= con[c].pos - 1
        BY <1>2, <3>1 DEF Behind
      <4>4. AllTracked(con[c].pos)
        BY <3>1, <4>2, <4>3, OneMoreBehind
      <4>5. PICK k \in 0 .. Len(topic) : k = con[c].pos
        BY <1>1
      <4>6. QED
        BY <1>1, <3>1, <4>1, <4>3, <4>4, <4>5, BehindStays
    <3>5. QED
      BY <3>3, <3>4
  <2>5. CASE Enqueue(c)
    <3>1. owner = c /\ offset' = offset /\ con[c].stage = "retry"
          /\ Behind(c)' = con[c].pos
      BY <2>5, StageTable DEF Enqueue, Comes, Behind
    <3>2. Tracked(Event(c), con[c].pos)
      BY <3>1 DEF Tracked, Handles
    <3>3. AllTracked(con[c].pos - 1) /\ offset <= con[c].pos - 1
      BY <1>2, <3>1 DEF Behind
    <3>4. AllTracked(con[c].pos)
      BY <3>1, <3>2, <3>3, OneMoreBehind
    <3>5. PICK k \in 0 .. Len(topic) : k = con[c].pos
      BY <1>1
    <3>6. QED
      BY <1>1, <3>1, <3>3, <3>4, <3>5, BehindStays
  <2>6. CASE Commit(c)
    <3>1. owner = c /\ offset' = con[c].pos /\ con[c].stage = "commit"
          /\ Behind(c)' = con[c].pos
      BY <2>6, StageTable DEF Commit, Comes, Behind
    <3>2. PICK k \in 0 .. Len(topic) : k = con[c].pos
      BY <1>1
    <3>3. AllTracked(k)
      BY <3>1, <3>2, CommitBehind
    <3>4. QED
      BY <1>1, <3>1, <3>2, <3>3, BehindStays
  <2>7. CASE CommitFails(c) \/ ClaimFails(c) \/ EnqueueFails(c) \/ DeadLetter(c)
    BY <2>7, StageTable DEF Comes
  <2>8. CASE Restart(c)
    BY <2>8, OrderCountsAssumption DEF Restart
  <2>9. QED
    BY <1>5, <2>1, <2>2, <2>3, <2>4, <2>5, <2>6, <2>7, <2>8
       DEF SubscriptionStep, Progress, Failure
<1>6. ASSUME NEW d \in Consumers, SubscriptionStep(d), d # c
      PROVE  con'[c] = con[c] /\ owner = c /\ offset' = offset
  <2>1. con'[c] = con[c]
    BY <1>6, SubscriptionMoves DEF SubscriptionEffect
  <2>2. owner = c
    BY <1>6, OrderCountsAssumption DEF SubscriptionStep, Progress, Failure, Assign, Fetch,
       Claim, Look, Build, Store, Commit, CommitFails, ClaimFails, EnqueueFails, DeadLetter,
       Release, ReleaseFails, Enqueue, HandlerFails, Restart, broker
  <2>3. offset' = offset
    BY <1>6, <2>2 DEF SubscriptionStep, Progress, Failure, Assign, Fetch,
       Claim, Look, Build, Store, Commit, CommitFails, ClaimFails, EnqueueFails, DeadLetter,
       Release, ReleaseFails, Enqueue, HandlerFails, Restart, broker
  <2>4. QED
    BY <2>1, <2>2, <2>3
<1>7. CASE TopicStep
  BY <1>4, <1>7, TopicGrows
<1>8. CASE OtherStep
  BY <1>4, <1>8, OtherTypes DEF broker
<1>9. CASE UNCHANGED vars
  BY <1>4, <1>9 DEF vars, broker
<1>10. QED
  BY <1>4, <1>5, <1>6, <1>7, <1>8, <1>9, StepKinds

LEMMA FateStep ==
    ASSUME BaseInvariant, FateInvariant, [Next]_vars
    PROVE  FateInvariant'
<1>1. \A e \in claims' : Settled(e)' \/ \E c \in Consumers : Holds(c)' /\ Event(c)' = e
  BY ClaimsStep
<1>2. \A c \in Consumers : At(c, "commit")' => Settled(Event(c))'
  BY CommitsStep
<1>3. AllTracked(offset)'
  BY OffsetStep
<1>4. \A c \in Consumers : owner' = c /\ ~At(c, "off")' =>
         (offset <= Behind(c) /\ AllTracked(Behind(c)))'
  BY OwnerStep
<1>5. QED
  BY <1>1, <1>2, <1>3, <1>4 DEF FateInvariant

LEMMA FateInit == Init => FateInvariant
<1> SUFFICES ASSUME Init PROVE FateInvariant
  OBVIOUS
<1>1. 1 .. 0 = {}
  OBVIOUS
<1>2. QED
  BY <1>1, OrderCountsAssumption DEF Init, FateInvariant, AllTracked, At

\* What is behind the offset, or behind the owner, is settled, waits or is in hand.
THEOREM FateInvariance == Spec => []FateInvariant
BY FateInit, FateStep, BaseInvariance, PTL DEF Spec

\* Below the offset no order is lost but orphans.
THEOREM NoOrderIsLost == Spec => []OnlyOrphansAreLost
<1>1. FateInvariant => OnlyOrphansAreLost
  BY DEF FateInvariant, AllTracked, Tracked, OnlyOrphansAreLost, Waiting, InProgress,
     Handles, Holds, Cut
<1>2. QED
  BY <1>1, FateInvariance, PTL

-----------------------------------------------------------------------------
(***************************************************************************)
(* The counts.                                                             *)
(***************************************************************************)

\* The order is in the count once at most, and only when it was handled.
Once(count, e) == count[e] <= 1 /\ (count[e] = 0 \/ handled[e] > 0)

\* Whatever is written, or waits to be written, counts an order once; what a handler is
\* about to write has its own order in addition.
ToBeOnce(c, e) ==
    At(c, "store") =>
        con[c].held[e] <= 1 /\ (con[c].held[e] = 0 \/ handled[e] > 0 \/ Event(c) = e)

CountInvariant ==
    \A e \in Orders \ (backfilled \cup undone) :
        /\ Once(preview.count, e)
        /\ Once(other.held, e)
        /\ \A c \in Consumers : ToBeOnce(c, e)

\* What is read counts an order once, or comes from the order service.
LEMMA ReadOnce ==
    ASSUME BaseInvariant, NEW who, NEW count, Reads(who, count),
           NEW e \in Orders, e \notin backfilled', Once(preview.count, e)
    PROVE  Once(count, e)
<1>1. NoOrders[e] = 0 /\ Canonical[e] \in {0, 1}
  BY DEF NoOrders, Canonical
<1>2. CASE count = preview.count
  BY <1>2
<1>3. CASE FromOrderService(count)
  BY <1>1, <1>3 DEF FromOrderService, Once
<1>4. QED
  BY <1>2, <1>3 DEF Reads

\* More handled orders do no harm.
LEMMA OnceStays ==
    ASSUME BaseInvariant, [Next]_vars, NEW e \in Orders, NEW count \in Counts, Once(count, e)
    PROVE  Once(count, e)'
<1>1. handled[e] \in Nat /\ handled'[e] >= handled[e] /\ count[e] \in Nat
  BY PastGrows DEF BaseInvariant, TypeOK, Counts
<1>2. handled' \in Counts
  BY BaseStep DEF BaseInvariant, TypeOK
<1>3. handled'[e] \in Nat
  BY <1>2 DEF Counts
<1>4. QED
  BY <1>1, <1>3 DEF Once

LEMMA ToBeOnceStays ==
    ASSUME BaseInvariant, [Next]_vars, NEW e \in Orders, NEW c \in Consumers, ToBeOnce(c, e),
           con'[c] = con[c]
    PROVE  ToBeOnce(c, e)'
<1>1. handled[e] \in Nat /\ handled'[e] >= handled[e]
  BY PastGrows DEF BaseInvariant, TypeOK, Counts
<1>2. handled' \in Counts
  BY BaseStep DEF BaseInvariant, TypeOK
<1>3. handled'[e] \in Nat
  BY <1>2 DEF Counts
<1>4. At(c, "store") => Event(c)' = Event(c)
  BY SameMessage DEF At
<1>5. QED
  BY <1>1, <1>3, <1>4 DEF ToBeOnce, At

\* Where a count is taken up or written, and where it stays.
LEMMA SubscriptionCount ==
    ASSUME BaseInvariant, HolderInvariant, NEW c \in Consumers, SubscriptionStep(c),
           NEW e \in Orders, e \notin backfilled' \cup undone',
           Once(preview.count, e), ToBeOnce(c, e)
    PROVE  Once(preview.count, e)' /\ ToBeOnce(c, e)'
<1> USE DEF At
<1>1. [Next]_vars /\ TypeOK
  BY DEF SubscriptionStep, Next, BaseInvariant
<1>2. preview.count \in Counts /\ preview.count[e] \in Nat /\ handled[e] \in Nat
      /\ handled \in Counts /\ con[c].held \in Counts
  BY <1>1, CountsRead DEF TypeOK, Counts
<1>3. CASE Look(c)
  <2>1. Once(preview.count, e)'
    BY <1>1, <1>2, <1>3, OnceStays DEF Look, Once
  <2>2. Event(c) \in Orders /\ Holds(c) /\ con'[c].pos = con[c].pos
    BY <1>3, HandMessage, StageTable DEF Look, Holds, Comes
  <2>3. Event(c)' = Event(c) /\ handled' = handled /\ handled[Event(c)] = 0
    BY <1>1, <1>3, <2>2, SameMessage DEF Look, outcome, Holds, HolderInvariant
  <2>4. CASE Goes(c, "build")
    <3>1. con'[c].stage = "build"
      BY <1>1, <2>4, NextStage DEF Stages
    <3>2. QED
      BY <2>1, <3>1 DEF ToBeOnce
  <2>5. CASE con' = [con EXCEPT ![c].stage = "store",
                                ![c].held = OneMore(preview.count, Event(c))]
    <3>1. OneMore(preview.count, Event(c)) \in Counts
      BY <1>2, <2>2, OneMoreCounted
    <3>2. con'[c].held = OneMore(preview.count, Event(c))
      BY <1>1, <2>5, <3>1, NextHeld DEF Stages
    <3>3. CASE Event(c) = e
      <4>1. preview.count[e] = 0
        BY <1>2, <2>3, <3>3 DEF Once
      <4>2. con'[c].held[e] = 1
        BY <1>2, <2>2, <3>2, <3>3, <4>1, OneMoreCounted
      <4>3. QED
        BY <2>1, <2>3, <3>3, <4>2 DEF ToBeOnce
    <3>4. CASE Event(c) # e
      <4>1. con'[c].held[e] = preview.count[e]
        BY <1>2, <2>2, <3>2, <3>4, OneMoreCounted
      <4>2. QED
        BY <1>2, <2>1, <2>3, <4>1 DEF ToBeOnce, Once
    <3>5. QED
      BY <3>3, <3>4
  <2>6. QED
    BY <1>3, <2>4, <2>5 DEF Look
<1>4. CASE Build(c)
  <2>1. PICK count \in {NoOrders, Canonical, preview.count} :
           Reads(c, count) /\ con' = [con EXCEPT ![c].stage = "store", ![c].held = count]
    BY <1>4 DEF Build
  <2>2. count \in Counts /\ Once(count, e)
    BY <1>1, <2>1, CountsRead, ReadOnce
  <2>3. con'[c].held = count
    BY <1>1, <2>1, <2>2, NextHeld DEF Stages
  <2>4. handled' = handled /\ preview' = preview
    BY <1>4 DEF Build, outcome
  <2>5. QED
    BY <2>2, <2>3, <2>4 DEF Once, ToBeOnce
<1>5. CASE Store(c)
  <2>1. Event(c) \in Orders
    BY <1>5, HandMessage DEF Store
  <2>2. preview'.count = con[c].held /\ handled' = OneMore(handled, Event(c))
    BY <1>5 DEF Store, Stored, Writes, OneMore
  <2>3. con'[c].stage = "commit"
    BY <1>5, StageTable DEF Comes
  <2>4. handled'[e] = IF e = Event(c) THEN handled[e] + 1 ELSE handled[e]
    BY <1>2, <2>1, <2>2, OneMoreCounted
  <2>5. con[c].held[e] <= 1 /\ (con[c].held[e] = 0 \/ handled[e] > 0 \/ Event(c) = e)
    BY <1>5 DEF Store, ToBeOnce
  <2>6. QED
    BY <1>2, <2>2, <2>3, <2>4, <2>5 DEF Once, ToBeOnce
<1>6. CASE HandlerFails(c) /\ Stored(c) /\ At(c, "store") /\ undone' = undone \cup {Event(c)}
  <2>1. preview'.count = con[c].held /\ handled' = handled /\ Event(c) # e
    BY <1>6 DEF HandlerFails, Stored, Writes
  <2>2. con'[c].stage = "failed"
    BY <1>6, StageTable DEF Comes
  <2>3. QED
    BY <1>6, <2>1, <2>2 DEF Once, ToBeOnce
<1>7. CASE HandlerFails(c) /\ UNCHANGED preview
  <2>1. con'[c].stage = "failed" /\ handled' = handled
    BY <1>7, StageTable DEF Comes, HandlerFails
  <2>2. QED
    BY <1>7, <2>1 DEF Once, ToBeOnce
<1>8. CASE ~(Look(c) \/ Build(c) \/ Store(c) \/ HandlerFails(c))
  <2>1. UNCHANGED <<preview, handled>>
    BY <1>8 DEF SubscriptionStep, Progress, Failure, Assign, Fetch, Claim, Commit,
       CommitFails, ClaimFails, EnqueueFails, DeadLetter, Release, ReleaseFails, Enqueue,
       Restart, redis, outcome
  <2>2. con'[c].stage # "store"
    <3>1. Claim(c) => Msg(c).kind \in Kinds
      BY HandMessage DEF Claim
    <3>2. QED
      BY <1>8, <3>1, StageTable DEF SubscriptionStep, Progress, Failure, Comes, AfterClaim,
         Kinds, AfterRelease
  <2>3. QED
    BY <2>1, <2>2 DEF Once, ToBeOnce
<1>9. QED
  BY <1>3, <1>4, <1>5, <1>6, <1>7, <1>8 DEF HandlerFails

LEMMA OtherCount ==
    ASSUME BaseInvariant, OtherStep, NEW e \in Orders, e \notin backfilled',
           Once(preview.count, e), Once(other.held, e)
    PROVE  Once(preview.count, e)' /\ Once(other.held, e)'
<1>1. handled' = handled
  BY OtherTypes DEF outcome
<1>2. Once(NoOrders, e)
  BY DEF Once, NoOrders
<1>3. CASE OtherReads
  <2>1. PICK count \in {NoOrders, Canonical, preview.count} :
           Reads(Other, count) /\ other' = [busy |-> TRUE, held |-> count]
    BY <1>3 DEF OtherReads
  <2>2. Once(count, e)
    BY <2>1, ReadOnce
  <2>3. other'.held = count /\ preview' = preview
    BY <1>3, <2>1 DEF OtherReads
  <2>4. QED
    BY <1>1, <2>2, <2>3 DEF Once
<1>4. CASE OtherWrites
  <2>1. preview'.count = other.held /\ other'.held = NoOrders
    BY <1>4 DEF OtherWrites, Writes
  <2>2. QED
    BY <1>1, <1>2, <2>1 DEF Once
<1>5. CASE AppendsAgain
  <2>1. preview'.count = NoOrders /\ other' = other
    BY <1>5 DEF AppendsAgain, Writes
  <2>2. QED
    BY <1>1, <1>2, <2>1 DEF Once
<1>6. CASE PreviewExpires
  <2>1. preview'.count = NoOrders /\ other' = other
    BY <1>6 DEF PreviewExpires, Absent
  <2>2. QED
    BY <1>1, <1>2, <2>1 DEF Once
<1>7. QED
  BY <1>3, <1>4, <1>5, <1>6 DEF OtherStep

LEMMA CountStep ==
    ASSUME BaseInvariant, HolderInvariant, CountInvariant, [Next]_vars
    PROVE  CountInvariant'
<1> SUFFICES ASSUME NEW e \in Orders, e \notin backfilled' \cup undone'
             PROVE  /\ Once(preview.count, e)' /\ Once(other.held, e)'
                    /\ \A c \in Consumers : ToBeOnce(c, e)'
  BY DEF CountInvariant
<1>1. /\ Once(preview.count, e) /\ Once(other.held, e)
      /\ \A c \in Consumers : ToBeOnce(c, e)
  BY PastGrows DEF CountInvariant
<1>2. preview.count \in Counts /\ other.held \in Counts
  BY CountsRead DEF BaseInvariant
<1>3. CASE UNCHANGED <<con, preview, other>>
  <2>1. Once(preview.count, e)' /\ Once(other.held, e)'
    BY <1>1, <1>2, <1>3, OnceStays DEF Once
  <2>2. QED
    BY <1>1, <1>3, <2>1, ToBeOnceStays
<1>4. CASE OtherStep
  <2>1. Once(preview.count, e)' /\ Once(other.held, e)'
    BY <1>1, <1>4, OtherCount
  <2>2. QED
    BY <1>1, <1>4, <2>1, ToBeOnceStays, OtherTypes
<1>5. ASSUME NEW c \in Consumers, SubscriptionStep(c)
      PROVE  /\ Once(preview.count, e)' /\ Once(other.held, e)'
             /\ \A d \in Consumers : ToBeOnce(d, e)'
  <2>1. Once(preview.count, e)' /\ ToBeOnce(c, e)'
    BY <1>1, <1>5, SubscriptionCount
  <2>2. other' = other
    BY <1>5 DEF SubscriptionStep, Progress, Failure, Assign, Fetch, Claim, Look, Build, Store,
       Commit, CommitFails, ClaimFails, EnqueueFails, DeadLetter, Release, ReleaseFails,
       Enqueue, HandlerFails, Restart, redis
  <2>3. Once(other.held, e)'
    BY <1>1, <1>2, <2>2, OnceStays DEF Once
  <2>4. \A d \in Consumers : d # c => ToBeOnce(d, e)'
    BY <1>1, <1>5, SubscriptionMoves, ToBeOnceStays DEF SubscriptionEffect
  <2>5. QED
    BY <2>1, <2>3, <2>4
<1>6. CASE TopicStep
  BY <1>3, <1>6, TopicGrows DEF redis
<1>7. CASE UNCHANGED vars
  BY <1>3, <1>7 DEF vars, redis
<1>8. QED
  BY <1>4, <1>5, <1>6, <1>7, StepKinds

LEMMA CountInit == Init => CountInvariant
<1> SUFFICES ASSUME Init, NEW e \in Orders
             PROVE  /\ Once(preview.count, e) /\ Once(other.held, e)
                    /\ \A c \in Consumers : ToBeOnce(c, e)
  BY DEF CountInvariant
<1>1. preview.count = NoOrders /\ other.held = NoOrders
  BY DEF Init, Absent
<1>2. QED
  BY <1>1 DEF Init, Once, ToBeOnce, NoOrders, At

\* Whatever is or will be written counts an order once, unless the order service had
\* counted it or its handler failed after its write.
THEOREM CountInvariance == Spec => []CountInvariant
BY CountInit, CountStep, BaseInvariance, HolderInvariance, PTL DEF Spec

\* No order is counted twice because its message comes again.
THEOREM NoOrderCountsTwice == Spec => []CountedTwiceOnlyWith
<1>1. BaseInvariant /\ CountInvariant => CountedTwiceOnlyWith
  <2> SUFFICES ASSUME BaseInvariant, CountInvariant, NEW e \in Orders, preview.count[e] > 1
               PROVE  e \in backfilled \cup undone
    BY DEF CountedTwiceOnlyWith
  <2>1. preview.count[e] \in Nat
    BY CountsRead DEF BaseInvariant, Counts
  <2>2. QED
    BY <2>1 DEF CountInvariant, Once
<1>2. QED
  BY <1>1, BaseInvariance, CountInvariance, PTL

-----------------------------------------------------------------------------
(***************************************************************************)
(* Which writes lose an order.                                             *)
(***************************************************************************)

\* Whoever is to write the preview has all its orders, or is stale.
FreshReader(c) ==
    At(c, "store") /\ c \notin stale => \A e \in Orders : preview.count[e] <= con[c].held[e]

FreshOther ==
    other.busy /\ Other \notin stale => \A e \in Orders : preview.count[e] <= other.held[e]

FreshInvariant == preview.there => FreshOther /\ \A c \in Consumers : FreshReader(c)

\* After a write every other reader is stale.
LEMMA WriteLeavesStale ==
    ASSUME NEW who, NEW count, NEW ttl, Writes(who, count, ttl),
           \A c \in Consumers : At(c, "store")' => c # who /\ At(c, "store"),
           other'.busy => Other # who /\ other.busy
    PROVE  FreshInvariant'
<1>1. \A c \in Consumers : At(c, "store")' => c \in stale'
  BY DEF Writes, Holders
<1>2. other'.busy => Other \in stale'
  BY DEF Writes, Holders
<1>3. QED
  BY <1>1, <1>2 DEF FreshInvariant, FreshOther, FreshReader

\* Whoever reads a preview has its orders, or is stale.
LEMMA ReadIsFresh ==
    ASSUME BaseInvariant, NEW who, NEW count, Reads(who, count), preview.there
    PROVE  who \in stale' \/ \A e \in Orders : preview.count[e] <= count[e]
<1>1. \A e \in Orders : preview.count[e] \in Nat
  BY CountsRead DEF BaseInvariant, Counts
<1>2. QED
  BY <1>1 DEF Reads

LEMMA FreshSubscription ==
    ASSUME BaseInvariant, FreshInvariant, NEW c \in Consumers, SubscriptionStep(c)
    PROVE  FreshInvariant'
<1> USE DEF At
<1>1. TypeOK /\ other' = other /\ \A d \in Consumers : d # c => con'[d] = con[d]
  <2>1. other' = other
    BY DEF SubscriptionStep, Progress, Failure, Assign, Fetch, Claim, Look, Build, Store,
       Commit, CommitFails, ClaimFails, EnqueueFails, DeadLetter, Release, ReleaseFails,
       Enqueue, HandlerFails, Restart, redis
  <2>2. QED
    BY <2>1, SubscriptionMoves DEF SubscriptionEffect, BaseInvariant
<1>2. ASSUME preview' = preview, stale' \ {c} = stale \ {c}, preview.there => FreshReader(c)'
      PROVE  FreshInvariant'
  <2>1. preview.there => FreshOther'
    BY <1>1, <1>2, OrderCountsAssumption DEF FreshInvariant, FreshOther
  <2>2. ASSUME NEW d \in Consumers, d # c, preview.there PROVE FreshReader(d)'
    BY <1>1, <1>2, <2>2 DEF FreshInvariant, FreshReader
  <2>3. QED
    BY <1>2, <2>1, <2>2 DEF FreshInvariant
<1>3. CASE Look(c)
  <2>1. preview' = preview /\ stale' \ {c} = stale \ {c}
    BY <1>3 DEF Look
  <2>2. CASE Goes(c, "build")
    <3>1. con'[c].stage = "build"
      BY <1>1, <2>2, NextStage DEF Stages
    <3>2. QED
      BY <1>2, <2>1, <3>1 DEF FreshReader
  <2>3. CASE con' = [con EXCEPT ![c].stage = "store",
                                ![c].held = OneMore(preview.count, Event(c))]
    <3>1. Event(c) \in Orders /\ preview.count \in Counts
      BY <1>1, <1>3, HandMessage, CountsRead DEF Look
    <3>2. OneMore(preview.count, Event(c)) \in Counts
      BY <3>1, OneMoreCounted
    <3>3. con'[c].held = OneMore(preview.count, Event(c))
      BY <1>1, <2>3, <3>2, NextHeld DEF Stages
    <3>4. ASSUME NEW e \in Orders PROVE preview.count[e] <= con'[c].held[e]
      <4>1. preview.count[e] \in Nat
        BY <3>1 DEF Counts
      <4>2. QED
        BY <3>1, <3>3, <4>1, OneMoreCounted
    <3>5. QED
      BY <1>2, <2>1, <3>4 DEF FreshReader
  <2>4. QED
    BY <1>3, <2>2, <2>3 DEF Look
<1>4. CASE Build(c)
  <2>1. PICK count \in {NoOrders, Canonical, preview.count} :
           Reads(c, count) /\ con' = [con EXCEPT ![c].stage = "store", ![c].held = count]
    BY <1>4 DEF Build
  <2>2. con'[c].held = count
    <3>1. count \in Counts
      BY <1>1, <2>1, CountsRead
    <3>2. QED
      BY <1>1, <2>1, <3>1, NextHeld DEF Stages
  <2>3. preview' = preview /\ stale' \ {c} = stale \ {c}
    BY <1>4, <2>1 DEF Build, Reads
  <2>4. preview.there => FreshReader(c)'
    BY <2>1, <2>2, <2>3, ReadIsFresh DEF FreshReader
  <2>5. QED
    BY <1>2, <2>3, <2>4
<1>5. CASE At(c, "store") /\ Stored(c) /\ con'[c].stage # "store"
  <2>1. \A d \in Consumers : At(d, "store")' => d # c /\ At(d, "store")
    BY <1>1, <1>5
  <2>2. other'.busy => Other # c /\ other.busy
    BY <1>1, OrderCountsAssumption
  <2>3. QED
    BY <1>5, <2>1, <2>2, WriteLeavesStale DEF Stored
<1>6. CASE UNCHANGED <<preview, stale>> /\ con'[c].stage # "store"
  BY <1>2, <1>6 DEF FreshReader
<1>7. CASE Store(c)
  BY <1>5, <1>7, StageTable DEF Store, Comes
<1>8. CASE HandlerFails(c)
  <2>1. con'[c].stage = "failed"
    BY <1>8, StageTable DEF Comes
  <2>2. QED
    BY <1>5, <1>6, <1>8, <2>1 DEF HandlerFails
<1>9. CASE ~(Look(c) \/ Build(c) \/ Store(c) \/ HandlerFails(c))
  <2>1. UNCHANGED <<preview, stale>>
    BY <1>9 DEF SubscriptionStep, Progress, Failure, Assign, Fetch, Claim, Commit,
       CommitFails, ClaimFails, EnqueueFails, DeadLetter, Release, ReleaseFails, Enqueue,
       Restart, redis
  <2>2. con'[c].stage # "store"
    <3>1. Claim(c) => Msg(c).kind \in Kinds
      BY HandMessage DEF Claim
    <3>2. QED
      BY <1>9, <3>1, StageTable DEF SubscriptionStep, Progress, Failure, Comes, AfterClaim,
         Kinds, AfterRelease
  <2>3. QED
    BY <1>6, <2>1, <2>2
<1>10. QED
  BY <1>3, <1>4, <1>7, <1>8, <1>9

LEMMA FreshStep ==
    ASSUME BaseInvariant, FreshInvariant, [Next]_vars
    PROVE  FreshInvariant'
<1> USE DEF At
<1>1. CASE UNCHANGED <<con, redis>>
  BY <1>1 DEF redis, FreshInvariant, FreshOther, FreshReader
<1>2. CASE OtherReads
  <2>1. PICK count \in {NoOrders, Canonical, preview.count} :
           Reads(Other, count) /\ other' = [busy |-> TRUE, held |-> count]
    BY <1>2 DEF OtherReads
  <2>2. preview' = preview /\ con' = con /\ stale' \ {Other} = stale \ {Other}
    BY <1>2, <2>1 DEF OtherReads, Reads
  <2>3. preview.there => FreshOther'
    BY <2>1, <2>2, ReadIsFresh DEF FreshOther
  <2>4. ASSUME NEW c \in Consumers, preview.there PROVE FreshReader(c)'
    BY <2>2, <2>4, OrderCountsAssumption DEF FreshInvariant, FreshReader
  <2>5. QED
    BY <2>2, <2>3, <2>4 DEF FreshInvariant
<1>3. CASE OtherWrites
  <2>1. PICK ttl \in BOOLEAN : Writes(Other, other.held, ttl)
    BY <1>3 DEF OtherWrites
  <2>2. con' = con /\ ~other'.busy
    BY <1>3 DEF OtherWrites
  <2>3. QED
    BY <2>1, <2>2, OrderCountsAssumption, WriteLeavesStale
<1>4. CASE AppendsAgain
  <2>1. PICK ttl \in BOOLEAN : Writes(NoConsumer, NoOrders, ttl)
    BY <1>4 DEF AppendsAgain
  <2>2. con' = con /\ other' = other
    BY <1>4 DEF AppendsAgain
  <2>3. QED
    BY <2>1, <2>2, OrderCountsAssumption, WriteLeavesStale
<1>5. CASE PreviewExpires
  BY <1>5 DEF PreviewExpires, Absent, FreshInvariant
<1>6. CASE TopicStep
  BY <1>1, <1>6, TopicGrows
<1>7. CASE UNCHANGED vars
  BY <1>1, <1>7 DEF vars
<1>8. QED
  BY <1>2, <1>3, <1>4, <1>5, <1>6, <1>7, FreshSubscription, StepKinds DEF OtherStep

\* A step that takes an order from the count puts the gig into a window again, or is
\* the write of a stale reader.
LEMMA LosingStep ==
    ASSUME BaseInvariant, FreshInvariant, [Next]_vars, preview.there, preview'.there,
           NEW e \in Orders, preview'.count[e] < preview.count[e]
    PROVE  AppendsAgain \/ \E who \in stale : Wrote(who)
<1> USE DEF At
<1>1. /\ TypeOK /\ preview.count[e] \in Nat /\ other.held[e] \in Nat
      /\ \A c \in Consumers : con[c].held[e] \in Nat
  BY CountsRead DEF BaseInvariant, Counts
<1>2. preview' # preview
  BY <1>1
<1>3. ASSUME NEW c \in Consumers, SubscriptionStep(c)
      PROVE  \E who \in stale : Wrote(who)
  <2>1. At(c, "store") /\ Stored(c) /\ (Store(c) \/ HandlerFails(c))
    BY <1>2, <1>3 DEF SubscriptionStep, Progress, Failure, Assign, Fetch, Claim, Look, Build,
       Store, Commit, CommitFails, ClaimFails, EnqueueFails, DeadLetter, Release,
       ReleaseFails, Enqueue, HandlerFails, Restart, redis
  <2>2. con'[c].stage # "store"
    BY <2>1, StageTable DEF Comes
  <2>3. preview'.count = con[c].held
    BY <2>1 DEF Stored, Writes
  <2>4. c \in stale
    BY <1>1, <2>1, <2>3 DEF FreshInvariant, FreshReader
  <2>5. Wrote(c)
    BY <2>1, <2>2, OrderCountsAssumption DEF Wrote
  <2>6. QED
    BY <2>4, <2>5
<1>4. CASE OtherStep /\ ~AppendsAgain
  <2>1. CASE OtherWrites
    <3>1. preview'.count = other.held /\ other.busy /\ ~other'.busy
      BY <2>1 DEF OtherWrites, Writes
    <3>2. Other \in stale
      <4>1. Other \notin stale => preview.count[e] <= other.held[e]
        BY <3>1 DEF FreshInvariant, FreshOther
      <4>2. other.held[e] < preview.count[e]
        BY <3>1
      <4>3. QED
        BY <1>1, <4>1, <4>2
    <3>3. QED
      BY <3>1, <3>2 DEF Wrote
  <2>2. CASE PreviewExpires
    BY <2>2 DEF PreviewExpires, Absent
  <2>3. QED
    BY <1>2, <1>4, <2>1, <2>2 DEF OtherStep, OtherReads
<1>5. ~TopicStep /\ ~UNCHANGED vars
  BY <1>2, TopicGrows DEF vars, redis
<1>6. QED
  BY <1>3, <1>4, <1>5, StepKinds

LEMMA FreshInit == Init => FreshInvariant
BY DEF Init, FreshInvariant, FreshOther, FreshReader, At

\* Only a reader that the last write overtook, or that could not read, lacks an order.
THEOREM FreshInvariance == Spec => []FreshInvariant
BY FreshInit, FreshStep, BaseInvariance, PTL DEF Spec

\* An order in the count is lost only to an overlap of two writers, a failed read, or
\* the return of the gig to a window.
THEOREM OnlyOverlapsLose == Spec => OnlyOverlapsLoseOrders
<1>1. BaseInvariant /\ FreshInvariant /\ [Next]_vars =>
        [preview.there /\ preview'.there =>
           \A e \in Orders :
             preview'.count[e] < preview.count[e] =>
               \/ AppendsAgain
               \/ \E who \in stale : Wrote(who)]_vars
  BY LosingStep
<1>2. QED
  BY <1>1, BaseInvariance, FreshInvariance, PTL DEF Spec, OnlyOverlapsLoseOrders
=============================================================================
