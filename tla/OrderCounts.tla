----------------------------- MODULE OrderCounts -----------------------------
(***************************************************************************)
(* The order count in the preview of one gig.  RunPullConsumer of          *)
(* internal/presentation/event_broker/kafka/broker.go (its single message  *)
(* loop) takes the events of order.funded one by one: claim, handler,      *)
(* commit; after an error release and retry topic, or dead letter and the  *)
(* end of the subscription.  The handler, RefreshPreviewOrderCount of      *)
(* internal/application/owner_preview.go, reads the preview in Redis, adds *)
(* one and writes it back, or builds the preview with the count of the     *)
(* order service.  Projections, page reads and rating events write the     *)
(* same key with no lock between them and the handler.                     *)
(*                                                                         *)
(* A count is a bag of orders: what it adds up to is shown, and it says    *)
(* which order was lost or counted twice.                                  *)
(***************************************************************************)
EXTENDS Naturals, Sequences, FiniteSets

CONSTANTS Consumers,   \* processes in the group of the topic
          Orders,      \* event ids
          Logs,        \* sequences of messages that may be produced
          MaxAttempts, \* of resilience.DefaultRetryPolicy
          MaxOthers,   \* bound: writes of the preview by others
          MaxTrouble,  \* bound: those, failed calls, restarts and moves of the partition
          Other,       \* whoever else writes the preview
          NoConsumer

\* order: a funded order; other: a result that is no success, or malformed;
\* broken: an envelope that cannot be unwrapped.
Kinds == {"order", "other", "broken"}

Message == [event : Orders, kind : Kinds, attempt : 1 .. MaxAttempts]

ASSUME OrderCountsAssumption ==
    /\ MaxAttempts \in Nat \ {0}
    /\ MaxOthers \in Nat /\ MaxTrouble \in Nat
    /\ NoConsumer \notin Consumers \cup {Other} /\ Other \notin Consumers
    /\ Logs \subseteq Seq(Message)

VARIABLES log,        \* what is produced, in this order; never changes
          produced,   \* messages of log that are in the topic
          topic,      \* the partition: produced messages and retried ones
          offset,     \* committed by the group
          owner,      \* the process that the partition is assigned to
          con,        \* con[c]: the subscription of process c
          claims,     \* events with a row in processed_events
          retry,      \* the retry topic
          dead,       \* messages in the dead letter topic
          preview,    \* the preview payload of the gig
          other,      \* a use case that read the preview to write it
          others,     \* writes of others
          handled,    \* handled[e]: times the handler of e returned no error
          orphans,    \* history: events that nobody will handle, see Restart
          backfilled, \* history: orders in a count taken from the order service
          undone,     \* history: events whose handler failed after it had written
          stale,      \* history: those whose read failed or came before the last write
          faults

broker == <<produced, topic, offset, owner, retry, dead>>
redis == <<preview, other, others, backfilled, stale>>
outcome == <<claims, handled, orphans, undone>>
vars == <<log, broker, con, redis, outcome, faults>>

Stages == {"ready", "claim", "look", "build", "store", "commit", "failed",
           "retry", "doomed", "off"}

Counts == [Orders -> Nat]

NoOrders == [e \in Orders |-> 0]

\* pos: messages fetched so far; held: the count to be written.
Subscription == [stage : Stages, pos : Nat, held : Counts]

Preview == [there : BOOLEAN, count : Counts, ttl : BOOLEAN]

Absent == [there |-> FALSE, count |-> NoOrders, ttl |-> FALSE]

-----------------------------------------------------------------------------
At(c, stage) == con[c].stage = stage

Goes(c, stage) == con' = [con EXCEPT ![c].stage = stage]

Msg(c) == topic[con[c].pos]

Event(c) == Msg(c).event

Fault == faults + others < MaxTrouble /\ faults' = faults + 1

Another ==
    /\ others < MaxOthers /\ faults + others < MaxTrouble
    /\ others' = others + 1

\* What the order service counts: it does so before the event is published.
Canonical == [e \in Orders |->
    IF \E i \in 1 .. produced : log[i].event = e /\ log[i].kind = "order" THEN 1 ELSE 0]

\* An order is paid for.
Fund ==
    /\ produced < Len(log)
    /\ produced' = produced + 1
    /\ topic' = Append(topic, log[produced + 1])
    /\ UNCHANGED <<log, offset, owner, retry, dead, con, redis, outcome, faults>>

\* The retry queue of the library puts a message back when its delay is over.
Requeue(m) ==
    /\ m \in retry
    /\ retry' = retry \ {m}
    /\ topic' = Append(topic, m)
    /\ UNCHANGED <<log, produced, offset, owner, dead, con, redis, outcome, faults>>

-----------------------------------------------------------------------------
(***************************************************************************)
(* The subscription.                                                       *)
(***************************************************************************)

Unattended == owner = NoConsumer \/ (owner \in Consumers /\ At(owner, "off"))

\* The partition goes to a process that reads, from the committed offset; it is
\* taken from one that still reads only when the group lost sight of that one.
Assign(c) ==
    /\ At(c, "ready") /\ owner # c
    /\ IF Unattended THEN UNCHANGED faults ELSE Fault
    /\ owner' = c
    /\ con' = [con EXCEPT ![c].pos = offset]
    /\ UNCHANGED <<log, produced, topic, offset, retry, dead, redis, outcome>>

Fetch(c) ==
    /\ At(c, "ready") /\ owner = c
    /\ con[c].pos < Len(topic)
    /\ con' = [con EXCEPT ![c].pos = @ + 1, ![c].stage = "claim"]
    /\ UNCHANGED <<log, broker, redis, outcome, faults>>

\* Faulty: the answer of ClaimDB is not looked at.
AnyoneWins(e) == TRUE

WinsClaim(e) == e \notin claims

AfterClaim(kind) ==
    CASE kind = "order"  -> "look"
      [] kind = "other"  -> "commit"
      [] kind = "broken" -> "doomed"

\* What is claimed already is skipped without a commit.  What cannot be unwrapped
\* is dead-lettered with its claim; a payload that is no funded order is ignored.
Claim(c) ==
    LET e == Event(c) IN
    /\ At(c, "claim")
    /\ claims' = claims \cup {e}
    /\ Goes(c, IF WinsClaim(e) THEN AfterClaim(Msg(c).kind) ELSE "ready")
    /\ orphans' = IF WinsClaim(e) /\ Msg(c).kind # "order" THEN orphans \cup {e} ELSE orphans
    /\ UNCHANGED <<log, broker, redis, handled, undone, faults>>

\* An error of ClaimDB ends the subscription.
ClaimFails(c) ==
    /\ At(c, "claim")
    /\ Fault
    /\ \/ UNCHANGED <<claims, orphans>>
       \/ /\ WinsClaim(Event(c))
          /\ claims' = claims \cup {Event(c)}
          /\ orphans' = orphans \cup {Event(c)}
    /\ Goes(c, "off")
    /\ UNCHANGED <<log, broker, redis, handled, undone>>

-----------------------------------------------------------------------------
(***************************************************************************)
(* The preview.                                                            *)
(***************************************************************************)

\* What the order service answers, or none when it does not.
FromOrderService(count) ==
    \/ count = NoOrders /\ UNCHANGED backfilled
    \/ /\ count = Canonical
       /\ backfilled' = backfilled \cup {e \in Orders : Canonical[e] = 1}

\* The count that UpsertPreviewGig writes: that of the preview in Redis, else that of
\* the order service.  An error of Redis counts as no preview.
Reads(who, count) ==
    \/ /\ preview.there
       /\ count = preview.count
       /\ stale' = stale \ {who}
       /\ UNCHANGED <<backfilled, faults>>
    \/ /\ ~preview.there
       /\ FromOrderService(count)
       /\ stale' = stale \ {who}
       /\ UNCHANGED faults
    \/ /\ preview.there /\ Fault
       /\ FromOrderService(count)
       /\ stale' = stale \cup {who}

Holders == {c \in Consumers : At(c, "store")} \cup (IF other.busy THEN {Other} ELSE {})

Writes(who, count, ttl) ==
    /\ preview' = [there |-> TRUE, count |-> count, ttl |-> ttl]
    /\ stale' = (stale \cup Holders) \ {who}

\* Faulty: the count starts from one.
OneOrder(count, e) == [NoOrders EXCEPT ![e] = 1]

OneMore(count, e) == [count EXCEPT ![e] = @ + 1]

\* GetPreviewByID; an error of Redis counts as no preview.
Look(c) ==
    /\ At(c, "look")
    /\ \/ /\ preview.there
          /\ con' = [con EXCEPT ![c].stage = "store",
                                ![c].held = OneMore(preview.count, Event(c))]
          /\ stale' = stale \ {c}
          /\ UNCHANGED faults
       \/ /\ IF preview.there THEN Fault ELSE UNCHANGED faults
          /\ Goes(c, "build")
          /\ UNCHANGED stale
    /\ UNCHANGED <<log, broker, outcome, preview, other, others, backfilled>>

\* UpsertPreviewGig with the gig from the database.
Build(c) ==
    /\ At(c, "build")
    /\ \E count \in {NoOrders, Canonical, preview.count} :
        /\ Reads(c, count)
        /\ con' = [con EXCEPT ![c].stage = "store", ![c].held = count]
    /\ UNCHANGED <<log, broker, outcome, preview, other, others>>

Stored(c) == Writes(c, con[c].held, FALSE)

Store(c) ==
    /\ At(c, "store")
    /\ Stored(c)
    /\ handled' = [handled EXCEPT ![Event(c)] = @ + 1]
    /\ Goes(c, "commit")
    /\ UNCHANGED <<log, broker, claims, orphans, undone, other, others, backfilled, faults>>

\* The gig cannot be loaded, or the write returns an error, done or not.
HandlerFails(c) ==
    /\ Fault
    /\ \/ At(c, "build") /\ UNCHANGED <<preview, stale, undone>>
       \/ /\ At(c, "store")
          /\ \/ UNCHANGED <<preview, stale, undone>>
             \/ Stored(c) /\ undone' = undone \cup {Event(c)}
    /\ Goes(c, "failed")
    /\ UNCHANGED <<log, broker, claims, handled, orphans, other, others, backfilled>>

\* A projection of the gig, a list of its owner or a rating event reads the preview ...
OtherReads ==
    /\ ~other.busy
    /\ Another
    /\ \E count \in {NoOrders, Canonical, preview.count} :
        /\ Reads(Other, count)
        /\ other' = [busy |-> TRUE, held |-> count]
    /\ UNCHANGED <<log, broker, con, outcome, preview>>

\* ... and writes it with the count it read; under a TTL when that is a window with
\* one more gig.
OtherWrites ==
    /\ other.busy
    /\ \E ttl \in BOOLEAN : Writes(Other, other.held, ttl)
    /\ other' = [busy |-> FALSE, held |-> NoOrders]
    /\ UNCHANGED <<log, broker, con, outcome, others, backfilled, faults>>

\* The gig is appended to a preview window that has lost it: its preview is
\* written without any order, under the TTL of the window if that has one.
AppendsAgain ==
    /\ Another
    /\ \E ttl \in BOOLEAN : Writes(NoConsumer, NoOrders, ttl)
    /\ UNCHANGED <<log, broker, con, outcome, other, backfilled, faults>>

PreviewExpires ==
    /\ preview.ttl
    /\ preview' = Absent
    /\ UNCHANGED <<log, broker, con, outcome, other, others, backfilled, stale, faults>>

-----------------------------------------------------------------------------
(***************************************************************************)
(* The end of a message.                                                   *)
(***************************************************************************)

\* Only the owner can commit.
Commit(c) ==
    /\ At(c, "commit") /\ owner = c
    /\ offset' = con[c].pos
    /\ Goes(c, "ready")
    /\ UNCHANGED <<log, produced, topic, owner, retry, dead, redis, outcome, faults>>

\* An error of the commit ends the subscription.
CommitFails(c) ==
    /\ At(c, "commit")
    /\ \/ owner # c /\ UNCHANGED <<offset, faults>>
       \/ owner = c /\ Fault /\ offset' \in {offset, con[c].pos}
    /\ Goes(c, "off")
    /\ UNCHANGED <<log, produced, topic, owner, retry, dead, redis, outcome>>

\* Faulty: one attempt more.
PastLastAttempt(c) == Msg(c).attempt > MaxAttempts

LastAttempt(c) == Msg(c).attempt >= MaxAttempts

AfterRelease(c) == IF LastAttempt(c) THEN "doomed" ELSE "retry"

\* Faulty: the claim of a failed handler is kept.
KeptClaims(e) == claims

ReleasedClaims(e) == claims \ {e}

Release(c) ==
    /\ At(c, "failed")
    /\ claims' = ReleasedClaims(Event(c))
    /\ Goes(c, AfterRelease(c))
    /\ UNCHANGED <<log, broker, redis, handled, orphans, undone, faults>>

\* The error of Release is ignored.
ReleaseFails(c) ==
    /\ At(c, "failed")
    /\ Fault
    /\ orphans' = orphans \cup {Event(c)}
    /\ Goes(c, AfterRelease(c))
    /\ UNCHANGED <<log, broker, redis, claims, handled, undone>>

Again(c) == [Msg(c) EXCEPT !.attempt = @ + 1]

\* The message goes to the retry topic; it is not committed.
Enqueue(c) ==
    /\ At(c, "retry")
    /\ retry' = retry \cup {Again(c)}
    /\ Goes(c, "ready")
    /\ UNCHANGED <<log, produced, topic, offset, owner, dead, redis, outcome, faults>>

\* c drops its message, whose claim is free again.  To the owner it comes again; when
\* the partition has moved, the new owner may have skipped it because of the claim.
Drops(c) == orphans' = IF owner = c THEN orphans ELSE orphans \cup {Event(c)}

EnqueueFails(c) ==
    /\ At(c, "retry")
    /\ Fault
    /\ \/ retry' = retry \cup {Again(c)} /\ UNCHANGED orphans
       \/ UNCHANGED retry /\ Drops(c)
    /\ Goes(c, "off")
    /\ UNCHANGED <<log, produced, topic, offset, owner, dead, redis, claims, handled, undone>>

\* A dead letter ends the subscription, written or not; nothing starts it again.
DeadLetter(c) ==
    /\ At(c, "doomed")
    /\ \/ dead' = dead \cup {Msg(c)} /\ UNCHANGED <<orphans, faults>>
       \/ UNCHANGED dead /\ Fault /\ Drops(c)
    /\ Goes(c, "off")
    /\ UNCHANGED <<log, produced, topic, offset, owner, retry, redis, claims, handled, undone>>

Cut == {"look", "build", "store", "commit", "failed"}

\* The process stops and is started again.  What it was handling becomes an orphan: its
\* claim stays, or it is dropped.
Restart(c) ==
    /\ Fault
    /\ owner' = IF owner = c THEN NoConsumer ELSE owner
    /\ \/ con[c].stage \in Cut /\ orphans' = orphans \cup {Event(c)}
       \/ con[c].stage \in {"retry", "doomed"} /\ Drops(c)
       \/ con[c].stage \in {"ready", "claim", "off"} /\ UNCHANGED orphans
    /\ con' = [con EXCEPT ![c] = [stage |-> "ready", pos |-> 0, held |-> NoOrders]]
    /\ UNCHANGED <<log, produced, topic, offset, retry, dead, redis, claims, handled, undone>>

-----------------------------------------------------------------------------
Init ==
    /\ log \in Logs
    /\ produced = 0
    /\ topic = <<>>
    /\ offset = 0
    /\ owner = NoConsumer
    /\ con = [c \in Consumers |-> [stage |-> "ready", pos |-> 0, held |-> NoOrders]]
    /\ claims = {}
    /\ retry = {}
    /\ dead = {}
    /\ preview \in {Absent, [Absent EXCEPT !.there = TRUE]}
    /\ other = [busy |-> FALSE, held |-> NoOrders]
    /\ others = 0
    /\ handled = NoOrders
    /\ orphans = {}
    /\ backfilled = {}
    /\ undone = {}
    /\ stale = {}
    /\ faults = 0

Progress(c) ==
    \/ Fetch(c)
    \/ Claim(c)
    \/ Look(c)
    \/ Build(c)
    \/ Store(c)
    \/ Commit(c)
    \/ CommitFails(c)
    \/ Release(c)
    \/ Enqueue(c)
    \/ DeadLetter(c)

Failure(c) ==
    \/ ClaimFails(c)
    \/ HandlerFails(c)
    \/ ReleaseFails(c)
    \/ EnqueueFails(c)
    \/ Restart(c)

Next ==
    \/ Fund
    \/ \E m \in retry : Requeue(m)
    \/ \E c \in Consumers : Assign(c) \/ Progress(c) \/ Failure(c)
    \/ OtherReads
    \/ OtherWrites
    \/ AppendsAgain
    \/ PreviewExpires

\* A subscription that has not ended is scheduled and its calls return; Kafka finds
\* an owner for the partition; the retry queue delivers.
Fairness ==
    /\ WF_vars(\E m \in retry : Requeue(m))
    /\ WF_vars(\E c \in Consumers : Unattended /\ Assign(c))
    /\ \A c \in Consumers : WF_vars(Progress(c))

Spec == Init /\ [][Next]_vars /\ Fairness

-----------------------------------------------------------------------------
(***************************************************************************)
(* What holds of it.                                                       *)
(***************************************************************************)

\* Every variable stays in its type; the offsets stay within the topic.
TypeOK ==
    /\ log \in Logs
    /\ produced \in 0 .. Len(log)
    /\ topic \in Seq(Message)
    /\ offset \in 0 .. Len(topic)
    /\ owner \in Consumers \cup {NoConsumer}
    /\ con \in [Consumers -> Subscription]
    /\ \A c \in Consumers : con[c].pos \in 0 .. Len(topic)
    /\ claims \in SUBSET Orders
    /\ retry \in SUBSET Message
    /\ dead \in SUBSET Message
    /\ preview \in Preview
    /\ other \in [busy : BOOLEAN, held : Counts]
    /\ others \in 0 .. MaxOthers
    /\ handled \in Counts
    /\ orphans \in SUBSET Orders
    /\ backfilled \in SUBSET Orders
    /\ undone \in SUBSET Orders
    /\ stale \in SUBSET (Consumers \cup {Other})
    /\ faults \in 0 .. MaxTrouble

\* The subscriptions of all the processes implement the ledger: retries, redeliveries
\* and moves of the partition included, no order is handled twice.
Ledger == INSTANCE ClaimLedger WITH Events <- Orders, held <- claims, runs <- handled

LedgerRespected == Ledger!LedgerSpec

InProgress(e) == \E c \in Consumers : con[c].stage \in Cut \cup {"claim", "retry", "doomed"}
                                      /\ Event(c) = e

Waiting(e) == \/ \E m \in retry : m.event = e
              \/ \E i \in offset + 1 .. Len(topic) : topic[i].event = e

Settled(e) == handled[e] > 0 \/ e \in orphans \/ \E m \in dead : m.event = e

\* A message below the offset was handled, waits for its retry, is in the dead letter
\* topic or in somebody's hands, or a handling that was cut off or had nothing to do left
\* its claim behind, or dropped it after the partition had moved.
OnlyOrphansAreLost ==
    \A i \in 1 .. offset : LET e == topic[i].event IN
        Settled(e) \/ Waiting(e) \/ InProgress(e)

Wrote(who) == IF who = Other THEN other.busy /\ ~other'.busy
              ELSE At(who, "store") /\ ~At(who, "store")'

\* An order that is in the count disappears from it only when the gig is put into a
\* window again, or when a writer had read the preview before that order was written, or could not:
\* whoever reads the preview later carries the order on.
OnlyOverlapsLoseOrders ==
    [][preview.there /\ preview'.there =>
        \A e \in Orders :
            preview'.count[e] < preview.count[e] =>
                \/ AppendsAgain
                \/ \E who \in stale : Wrote(who)]_vars

\* An order is counted twice only when a count of the order service that had it already
\* was taken over, or when its handler failed after it had written: not because
\* a message comes again after a restart, a retry or a move.
CountedTwiceOnlyWith ==
    \A e \in Orders : preview.count[e] > 1 => e \in backfilled \cup undone

AllOff == \A c \in Consumers : At(c, "off")

\* As long as some process is subscribed, every order is handled, dead-lettered or an
\* orphan in the end.  When none is, nothing restarts them: RunPullConsumer returns nil
\* after a dead letter (broker.go:141, :159) and presentation.go:281 does not call it again.
SettledUnlessAllEnd ==
    \A e \in Orders : (\E i \in 1 .. produced : log[i].event = e) ~> (Settled(e) \/ AllOff)
=============================================================================
