------------------------------ MODULE Projection ------------------------------
(***************************************************************************)
(* The batch consumer of the projection topics: runProjectionBatchConsumer *)
(* of internal/presentation/event_broker/kafka/broker.go, with the handler *)
(* of gig.projection.requested, which writes the gig it carries to Redis.  *)
(*                                                                         *)
(* Two processes of the service share a consumer group.  One partition is  *)
(* modelled, owned by one of them at a time; a process that loses it goes  *)
(* on with the batch it has.  A pool of workers handles a batch: a worker  *)
(* claims the event in processed_events, calls the handler, and on failure *)
(* releases the claim and dead-letters the message.  The batch is committed*)
(* when every worker is done and every dead letter was written; otherwise  *)
(* the consumer returns its error and its subscription loop starts it again*)
(* at the committed offset.  Claim, effect, release, dead letter and commit*)
(* are five separate remote calls, and each of them can fail.              *)
(***************************************************************************)
EXTENDS Naturals, Sequences, FiniteSets

CONSTANTS Consumers,   \* processes in the consumer group
          Logs,        \* the contents the partition can have
          Gigs,
          Events,      \* event ids
          BatchSize,   \* 32 in the code
          PoolSize,    \* 8 in the code
          MaxFaults,   \* bound: failed calls, crashes and rebalances
          NoConsumer

ASSUME ProjectionAssumption ==
    /\ BatchSize \in Nat \ {0}
    /\ PoolSize \in Nat \ {0}
    /\ MaxFaults \in Nat
    /\ NoConsumer \notin Consumers
    /\ Logs \subseteq Seq([event : Events, gig : Gigs, version : Nat,
                           readable : BOOLEAN])

VARIABLES log,        \* the messages of the partition; never changes
          committed,  \* offset committed by the group
          owner,      \* the consumer the partition is assigned to
          phase,      \* phase[c]: "off", "filling" a batch or "working" on it
          position,   \* position[c]: offset c fetched last
          task,       \* task[c][i]: how far c is with the message at offset i
          claims,     \* events with a row in processed_events
          redis,      \* redis[g]: version of g in the read model
          handled,    \* handled[e]: times the handler of e returned no error
          dead,       \* offsets in the dead letter topic
          orphans,    \* history: events whose handling stopped with no outcome
          faults

vars == <<log, committed, owner, phase, position, task, claims, redis, handled,
          dead, orphans, faults>>

outcome == <<claims, redis, handled, dead>>

Stages == {"none", "fetched", "taken", "claimed", "failed", "doomed", "done",
           "broken"}

Offsets == DOMAIN log

Batch(c) == {i \in Offsets : task[c][i] # "none"}

At(c, i, stage) == phase[c] = "working" /\ task[c][i] = stage

\* Messages of the batch of c that a worker of its pool is busy with.
Busy(c) == {i \in Offsets : task[c][i] \in {"taken", "claimed", "failed", "doomed"}}

Fault == faults < MaxFaults /\ faults' = faults + 1

-----------------------------------------------------------------------------
(***************************************************************************)
(* The group, and filling a batch.                                         *)
(***************************************************************************)

\* Faulty: an error of the consumer ends its subscription for good.
OnlyFirstStart(c) == phase[c] = "off" /\ faults = 0

\* The subscription loop calls Subscribe again after any error.
MayStart(c) == phase[c] = "off"

Start(c) ==
    /\ MayStart(c)
    /\ phase' = [phase EXCEPT ![c] = "filling"]
    /\ UNCHANGED <<log, committed, owner, position, task, outcome, orphans, faults>>

\* The coordinator gives the partition to c, which reads on from the committed
\* offset; to take it from a consumer that is up is a rebalance.
Assign(c) ==
    /\ owner # c
    /\ phase[c] = "filling" /\ Batch(c) = {}
    /\ \/ owner = NoConsumer /\ UNCHANGED faults
       \/ owner # NoConsumer /\ Fault
    /\ owner' = c
    /\ position' = [position EXCEPT ![c] = committed]
    /\ UNCHANGED <<log, committed, phase, task, outcome, orphans>>

\* Faulty: reads one past the end.
OnePastTheEnd(c) == position[c] <= Len(log)

MessageLeft(c) == position[c] < Len(log)

Fetch(c) ==
    /\ phase[c] = "filling" /\ owner = c
    /\ MessageLeft(c)
    /\ Cardinality(Batch(c)) < BatchSize
    /\ position' = [position EXCEPT ![c] = @ + 1]
    /\ task' = [task EXCEPT ![c][position[c] + 1] = "fetched"]
    /\ UNCHANGED <<log, committed, owner, phase, outcome, orphans, faults>>

\* The batch is full, or no message came within 5 ms.
Dispatch(c) ==
    /\ phase[c] = "filling" /\ Batch(c) # {}
    /\ phase' = [phase EXCEPT ![c] = "working"]
    /\ UNCHANGED <<log, committed, owner, position, task, outcome, orphans, faults>>

-----------------------------------------------------------------------------
(***************************************************************************)
(* A worker of the pool and one message.                                   *)
(***************************************************************************)

Reaches(c, i, stage) == task' = [task EXCEPT ![c][i] = stage]

\* Messages leave the channel in order; a free worker takes the next.
Take(c, i) ==
    /\ At(c, i, "fetched")
    /\ \A j \in Batch(c) : j < i => task[c][j] # "fetched"
    /\ Cardinality(Busy(c)) < PoolSize
    /\ Reaches(c, i, "taken")
    /\ UNCHANGED <<log, committed, owner, phase, position, outcome, orphans, faults>>

\* Faulty: the answer of ClaimDB is not looked at.
EveryoneWins(e) == TRUE

\* INSERT ... ON CONFLICT DO NOTHING has inserted a row.
WinsClaim(e) == e \notin claims

\* An event that is claimed already counts as handled.  A message whose
\* envelope cannot be opened is dead-lettered with its claim kept.
ClaimEvent(c, i) ==
    LET e == log[i].event IN
    /\ At(c, i, "taken")
    /\ IF WinsClaim(e)
       THEN /\ claims' = claims \cup {e}
            /\ Reaches(c, i, IF log[i].readable THEN "claimed" ELSE "doomed")
       ELSE /\ UNCHANGED claims
            /\ Reaches(c, i, "done")
    /\ UNCHANGED <<log, committed, owner, phase, position, redis, handled, dead,
                   orphans, faults>>

\* ClaimDB returns an error, before or after its row was inserted.
ClaimFails(c, i) ==
    /\ At(c, i, "taken")
    /\ Fault
    /\ claims' \in {claims, claims \cup {log[i].event}}
    /\ Reaches(c, i, "doomed")
    /\ UNCHANGED <<log, committed, owner, phase, position, redis, handled, dead,
                   orphans>>

Stored(i) == [redis EXCEPT ![log[i].gig] = log[i].version]

\* Upsert overwrites the read model with the copy in the message; no version
\* is compared.  The notification that follows is best effort.
Handle(c, i) ==
    /\ At(c, i, "claimed")
    /\ redis' = Stored(i)
    /\ handled' = [handled EXCEPT ![log[i].event] = @ + 1]
    /\ Reaches(c, i, "done")
    /\ UNCHANGED <<log, committed, owner, phase, position, claims, dead, orphans,
                   faults>>

\* The handler returns an error, whether Redis took the write or not.
HandleFails(c, i) ==
    /\ At(c, i, "claimed")
    /\ Fault
    /\ redis' \in {redis, Stored(i)}
    /\ Reaches(c, i, "failed")
    /\ UNCHANGED <<log, committed, owner, phase, position, claims, handled, dead,
                   orphans>>

\* Faulty: a message whose handler failed counts as done.
FailureIsDone == "done"

\* A failed message is dead-lettered after its claim is released.
AfterRelease == "doomed"

Release(c, i) ==
    /\ At(c, i, "failed")
    /\ claims' = claims \ {log[i].event}
    /\ Reaches(c, i, AfterRelease)
    /\ UNCHANGED <<log, committed, owner, phase, position, redis, handled, dead,
                   orphans, faults>>

\* The error of Release is ignored.
ReleaseFails(c, i) ==
    /\ At(c, i, "failed")
    /\ Fault
    /\ Reaches(c, i, AfterRelease)
    /\ UNCHANGED <<log, committed, owner, phase, position, outcome, orphans>>

DeadLetter(c, i) ==
    /\ At(c, i, "doomed")
    /\ dead' = dead \cup {i}
    /\ Reaches(c, i, "done")
    /\ UNCHANGED <<log, committed, owner, phase, position, claims, redis, handled,
                   orphans, faults>>

\* The dead letter is not written: the batch fails.
DeadLetterFails(c, i) ==
    /\ At(c, i, "doomed")
    /\ Fault
    /\ Reaches(c, i, "broken")
    /\ UNCHANGED <<log, committed, owner, phase, position, outcome, orphans>>

-----------------------------------------------------------------------------
(***************************************************************************)
(* The end of a batch, and of a consumer.                                  *)
(***************************************************************************)

NoTasks == [i \in Offsets |-> "none"]

\* c leaves the group.  What it was handling has no outcome.
Leave(c) ==
    /\ phase' = [phase EXCEPT ![c] = "off"]
    /\ task' = [task EXCEPT ![c] = NoTasks]
    /\ owner' = IF owner = c THEN NoConsumer ELSE owner
    /\ orphans' = orphans \cup {log[i].event : i \in
         {j \in Offsets : task[c][j] \in {"claimed", "failed", "doomed", "broken"}}}
    /\ UNCHANGED <<log, committed, position, outcome>>

WorkersDone(c) ==
    /\ phase[c] = "working"
    /\ \A i \in Batch(c) : task[c][i] \in {"done", "broken"}

\* Every worker is done, no dead letter is missing, the partition is still c's.
Commit(c) ==
    /\ WorkersDone(c)
    /\ \A i \in Batch(c) : task[c][i] = "done"
    /\ owner = c
    /\ committed' = position[c]
    /\ phase' = [phase EXCEPT ![c] = "filling"]
    /\ task' = [task EXCEPT ![c] = NoTasks]
    /\ UNCHANGED <<log, owner, position, outcome, orphans, faults>>

\* The consumer returns an error: a dead letter is missing, or the commit of a
\* consumer that lost the partition is refused.
GiveUp(c) ==
    /\ WorkersDone(c)
    /\ owner # c \/ \E i \in Batch(c) : task[c][i] = "broken"
    /\ Leave(c)
    /\ UNCHANGED faults

\* The process stops, or the commit returns an error.
Stop(c) ==
    /\ phase[c] # "off"
    /\ Fault
    /\ Leave(c)

-----------------------------------------------------------------------------
Init ==
    /\ log \in Logs
    /\ committed = 0
    /\ owner = NoConsumer
    /\ phase = [c \in Consumers |-> "off"]
    /\ position = [c \in Consumers |-> 0]
    /\ task = [c \in Consumers |-> NoTasks]
    /\ claims = {}
    /\ redis = [g \in Gigs |-> 0]
    /\ handled = [e \in Events |-> 0]
    /\ dead = {}
    /\ orphans = {}
    /\ faults = 0

\* What a consumer does when no call fails.
WorkerStep(c, i) ==
    \/ Take(c, i)
    \/ ClaimEvent(c, i)
    \/ Handle(c, i)
    \/ Release(c, i)
    \/ DeadLetter(c, i)

Progress(c) ==
    \/ Start(c)
    \/ owner = NoConsumer /\ Assign(c)
    \/ Fetch(c)
    \/ Dispatch(c)
    \/ \E i \in Offsets : WorkerStep(c, i)
    \/ Commit(c)
    \/ GiveUp(c)

FaultStep(c) ==
    \/ owner # NoConsumer /\ Assign(c)
    \/ \E i \in Offsets : \/ ClaimFails(c, i)
                          \/ HandleFails(c, i)
                          \/ ReleaseFails(c, i)
                          \/ DeadLetterFails(c, i)
    \/ Stop(c)

Next == \E c \in Consumers : Progress(c) \/ FaultStep(c)

\* The processes are scheduled, remote calls return, and the subscription
\* loops reconnect for ever.
Fairness == \A c \in Consumers : WF_vars(Progress(c))

Spec == Init /\ [][Next]_vars /\ Fairness

-----------------------------------------------------------------------------
(***************************************************************************)
(* What the consumer promises.                                             *)
(***************************************************************************)

\* Every variable stays in its type; nothing is read past the end of the log.
TypeOK ==
    /\ log \in Logs
    /\ committed \in 0 .. Len(log)
    /\ owner \in Consumers \cup {NoConsumer}
    /\ phase \in [Consumers -> {"off", "filling", "working"}]
    /\ position \in [Consumers -> 0 .. Len(log)]
    /\ task \in [Consumers -> [Offsets -> Stages]]
    /\ claims \in SUBSET Events
    /\ redis \in [Gigs -> Nat]
    /\ handled \in [Events -> Nat]
    /\ dead \in SUBSET Offsets
    /\ orphans \in SUBSET Events
    /\ faults \in 0 .. MaxFaults

\* The consumers implement the ledger: whatever is redelivered, duplicated or
\* handled by two processes at once, no event is processed twice.
Ledger == INSTANCE ClaimLedger WITH held <- claims, runs <- handled

LedgerRespected == Ledger!LedgerSpec

DeadLettered(e) == \E j \in dead : log[j].event = e

InProgress(e) ==
    \E c \in Consumers, j \in Offsets :
        /\ log[j].event = e
        /\ task[c][j] \in {"claimed", "failed", "doomed", "broken"}

\* A committed message was applied, is in the dead letter topic, is being
\* handled by another consumer, or its handling was cut off by a stop of its
\* process or by a dead letter that could not be written.
OnlyOrphansAreLost ==
    \A i \in 1 .. committed :
        LET e == log[i].event IN
        handled[e] > 0 \/ DeadLettered(e) \/ InProgress(e) \/ e \in orphans

\* The reconnecting consumers get to the end of the log, whatever fails.
EverythingIsCommitted == <>(committed = Len(log))

\* README.md:11: events "are acknowledged only after the destination
\* transaction succeeds" (or after they are dead-lettered).
AcknowledgedAfterSuccess ==
    \A i \in 1 .. committed :
        handled[log[i].event] > 0 \/ DeadLettered(log[i].event)

\* broker.go:195 "permits independent aggregates to be processed concurrently":
\* the messages of one gig, which are in order in the log, are not reordered.
ReadModelNeverRegresses == [][\A g \in Gigs : redis'[g] >= redis[g]]_redis
=============================================================================
