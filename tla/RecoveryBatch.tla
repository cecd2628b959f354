---------------------------- MODULE RecoveryBatch ----------------------------
(***************************************************************************)
(* The consumer of the recovery topic: runExplicitConsumerGroup and        *)
(* runRecoveryBatch of internal/presentation/event_broker/kafka/broker.go  *)
(* with the handler of recovery_subscriber.go, which replays commands that *)
(* the monolith took while this service was away.                          *)
(*                                                                         *)
(* A generation of the group gives every partition to a process, which     *)
(* reads each of its partitions in a goroutine.  A batch is spread over    *)
(* lanes; a lane handles its commands in turn: claim, use case, completion *)
(* event, and after a failure release of the claim and dead letter.  The   *)
(* batch is committed when no dead letter is missing; otherwise the        *)
(* partition is not read again in this generation, which ends for the      *)
(* process only when all its partitions have ended.                        *)
(***************************************************************************)
EXTENDS Naturals, Sequences, FiniteSets

CONSTANTS Consumers,   \* processes in the consumer group
          Partitions,
          Logs,        \* the contents the partitions can have
          Gigs,
          Live,        \* gigs that this service created before the monolith took over
          Events,      \* command ids
          BatchSize,   \* 200 in the code
          MaxFaults,   \* bound: failed calls, stops and rebalances
          NoConsumer

\* Questions and media are replaced like the basic info and nothing waits for them.
Ops == {"create", "basicInfo", "packages", "publish", "unsupported"}

Command == [event : Events, op : Ops, gig : Gigs]

ASSUME RecoveryAssumption ==
    /\ BatchSize \in Nat \ {0}
    /\ MaxFaults \in Nat
    /\ NoConsumer \notin Consumers
    /\ IsFiniteSet(Consumers) /\ IsFiniteSet(Partitions)
    /\ Logs \subseteq [Partitions -> Seq(Command)]

VARIABLES log,        \* the commands of each partition; never changes
          committed,  \* offsets committed by the group
          owner,      \* the process that each partition is assigned to
          stable,     \* FALSE while the group rebalances
          reader,     \* reader[c][p]: the goroutine of c for partition p
          task,       \* task[c][m]: how far c is with message m
          claims,     \* events with a row in processed_events
          gigs,       \* the commands whose effect each gig of the write model has
          handled,    \* handled[e]: times the handler of e returned no error
          completed,  \* commands with a completion event
          dead,       \* messages in the dead letter topic
          orphans,    \* history: events whose handling stopped with no outcome
          faults

group == <<committed, owner, stable, reader>>
outcome == <<claims, gigs, handled, completed, dead>>
vars == <<log, group, task, outcome, orphans, faults>>

Stages == {"none", "fetched", "claimed", "applied", "failed", "doomed", "done",
           "broken"}

\* A message is named by its partition and its place there.
Messages == UNION {{p} \X DOMAIN log[p] : p \in Partitions}

Message(m) == log[m[1]][m[2]]

Batch(c, p) == {m \in Messages : m[1] = p /\ task[c][m] # "none"}

Fault == faults < MaxFaults /\ faults' = faults + 1

-----------------------------------------------------------------------------
(***************************************************************************)
(* Generations.  The context of a generation is cancelled when the group   *)
(* rebalances; a process learns it later than the coordinator.             *)
(***************************************************************************)
Free(c) == \A p \in Partitions : reader[c][p] = "none"

Assignment(members) ==
    {f \in [Partitions -> members] :
        \A c, d \in members : Cardinality({p \in Partitions : f[p] = c})
                              <= Cardinality({p \in Partitions : f[p] = d}) + 1}

\* The members share the partitions; a process that still works on its last
\* generation is left out only when the coordinator has waited too long.
NextGeneration ==
    LET members == {c \in Consumers : Free(c)} IN
    /\ ~stable
    /\ members # {}
    /\ \/ members = Consumers /\ UNCHANGED faults
       \/ members # Consumers /\ Fault
    /\ \E f \in Assignment(members) :
        /\ owner' = f
        /\ reader' = [c \in Consumers |-> IF c \notin members THEN reader[c] ELSE
                        [p \in Partitions |-> IF f[p] = c THEN "reading" ELSE "none"]]
    /\ stable' = TRUE
    /\ UNCHANGED <<log, committed, task, outcome, orphans>>

\* A member was lost or added.
Rebalance ==
    /\ stable
    /\ Fault
    /\ stable' = FALSE
    /\ UNCHANGED <<log, committed, owner, reader, task, outcome, orphans>>

Interrupted(c, p) == ~stable \/ owner[p] # c

Leaves(c) ==
    /\ reader' = [reader EXCEPT ![c] = [p \in Partitions |-> "none"]]
    /\ owner' = [p \in Partitions |-> IF owner[p] = c THEN NoConsumer ELSE owner[p]]
    /\ stable' = FALSE

\* Faulty: the group is joined again only when there was no error.
OnlyWithoutError(c) == faults = 0

\* cg.Next is called again after any generation.
JoinsAgain(c) == TRUE

\* The last goroutine of the generation has returned: c joins again.
EndGeneration(c) ==
    /\ ~Free(c)
    /\ \A p \in Partitions : reader[c][p] \in {"none", "ended"}
    /\ JoinsAgain(c)
    /\ Leaves(c)
    /\ UNCHANGED <<log, committed, task, outcome, orphans, faults>>

-----------------------------------------------------------------------------
(***************************************************************************)
(* A batch.                                                                *)
(***************************************************************************)

\* The first message, and what else comes within 50 ms.
Fetch(c, p) ==
    /\ reader[c][p] = "reading"
    /\ owner[p] = c
    /\ \E n \in 1 .. BatchSize :
        /\ committed[p] + n <= Len(log[p])
        /\ task' = [task EXCEPT ![c] = [m \in Messages |->
                      IF m[1] = p /\ m[2] \in committed[p] + 1 .. committed[p] + n
                      THEN "fetched" ELSE task[c][m]]]
    /\ reader' = [reader EXCEPT ![c][p] = "working"]
    /\ UNCHANGED <<log, committed, owner, stable, outcome, orphans, faults>>

\* FetchMessage returns because the generation was cancelled.
FetchCancelled(c, p) ==
    /\ reader[c][p] = "reading"
    /\ Interrupted(c, p)
    /\ reader' = [reader EXCEPT ![c][p] = "ended"]
    /\ UNCHANGED <<log, committed, owner, stable, task, outcome, orphans, faults>>

LanesDone(c, p) ==
    /\ reader[c][p] = "working"
    /\ \A m \in Batch(c, p) : task[c][m] \in {"done", "broken"}

\* c puts the batch aside; what has no outcome is left to the redelivery.
ClosesBatch(c, p, next) ==
    /\ reader' = [reader EXCEPT ![c][p] = next]
    /\ task' = [task EXCEPT ![c] = [m \in Messages |->
                  IF m[1] = p THEN "none" ELSE task[c][m]]]

\* Faulty: the errors of the lanes are not looked at.
NoResultRead(c, p) == TRUE

NoError(c, p) == \A m \in Batch(c, p) : task[c][m] = "done"

\* Faulty: the offset after the next message.
OneTooFar(c, p) == committed[p] + Cardinality(Batch(c, p)) + 1

CommitPoint(c, p) == committed[p] + Cardinality(Batch(c, p))

Commit(c, p) ==
    /\ LanesDone(c, p)
    /\ NoError(c, p)
    /\ owner[p] = c
    /\ committed' = [committed EXCEPT ![p] = CommitPoint(c, p)]
    /\ ClosesBatch(c, p, "reading")
    /\ UNCHANGED <<log, owner, stable, outcome, orphans, faults>>

\* A dead letter is missing, the commit is refused because the partition has
\* another owner, or the commit returns an error, having moved the offset or not.
BatchFails(c, p) ==
    /\ LanesDone(c, p)
    /\ \/ /\ ~NoError(c, p) \/ owner[p] # c
          /\ UNCHANGED <<committed, faults>>
       \/ /\ NoError(c, p) /\ owner[p] = c
          /\ Fault
          /\ committed' \in {committed, [committed EXCEPT ![p] = CommitPoint(c, p)]}
    /\ ClosesBatch(c, p, "ended")
    /\ orphans' = orphans \cup
         {Message(m).event : m \in {n \in Batch(c, p) : task[c][n] = "broken"}}
    /\ UNCHANGED <<log, owner, stable, outcome>>

-----------------------------------------------------------------------------
(***************************************************************************)
(* A lane and one command.                                                 *)
(***************************************************************************)
At(c, m, stage) == task[c][m] = stage

Reaches(c, m, stage) == task' = [task EXCEPT ![c][m] = stage]

\* Faulty: the commands of a gig are spread over the lanes.
KeyByCommand(m) == <<"command", Message(m).event>>

\* A create is keyed by its command, everything else by the gig in its path.
\* Two keys may share one of the 16 lanes, which only orders more.
LaneKey(m) == IF Message(m).op = "create" THEN <<"command", Message(m).event>>
                                          ELSE <<"gig", Message(m).gig>>

InTurn(c, m) ==
    \A n \in Batch(c, m[1]) :
        n[2] < m[2] /\ LaneKey(n) = LaneKey(m) => task[c][n] \in {"done", "broken"}

\* Faulty: the answer of ClaimDB is not looked at.
EveryoneWins(e) == TRUE

WinsClaim(e) == e \notin claims

\* A command that is claimed already counts as handled.
ClaimEvent(c, m) ==
    LET e == Message(m).event IN
    /\ At(c, m, "fetched")
    /\ InTurn(c, m)
    /\ claims' = claims \cup {e}
    /\ Reaches(c, m, IF WinsClaim(e) THEN "claimed" ELSE "done")
    /\ UNCHANGED <<log, group, gigs, handled, completed, dead, orphans, faults>>

\* ClaimDB returns an error, also because the generation was cancelled: the
\* command is dead-lettered without having been tried.
ClaimFails(c, m) ==
    /\ At(c, m, "fetched")
    /\ InTurn(c, m)
    /\ \/ Interrupted(c, m[1]) /\ UNCHANGED faults
       \/ Fault
    /\ claims' \in {claims, claims \cup {Message(m).event}}
    /\ Reaches(c, m, "doomed")
    /\ UNCHANGED <<log, group, gigs, handled, completed, dead, orphans>>

\* What a gig must have for a command: everything but the create loads it, and
\* validatePublishReady wants both flags of the draft.
Needs(op) ==
    CASE op = "create"  -> {}
      [] op = "publish" -> {"create", "basicInfo", "packages"}
      [] OTHER          -> {"create"}

\* The use case returns no error.  The status is looked at before the flags.
Passes(op, state) ==
    /\ op # "unsupported"
    /\ Needs(op) \subseteq state
    /\ op = "publish" => "publish" \notin state

\* Faulty: any error of Publish is taken for "already published".
AnyPublishAccepted(op, state) == Passes(op, state) \/ op = "publish"

\* The handler goes on: a gig that is published already is read instead.
Accepted(op, state) == Passes(op, state) \/ (op = "publish" /\ op \in state)

After(op, state) == IF Passes(op, state) THEN state \cup {op} ELSE state

Applied(m) == [gigs EXCEPT ![Message(m).gig] = After(Message(m).op, @)]

MayApply(m) == Accepted(Message(m).op, gigs[Message(m).gig])

\* The use case; neither it nor the completion sees the cancellation.
Apply(c, m) ==
    /\ At(c, m, "claimed")
    /\ MayApply(m)
    /\ gigs' = Applied(m)
    /\ Reaches(c, m, "applied")
    /\ UNCHANGED <<log, group, claims, handled, completed, dead, orphans, faults>>

Refuse(c, m) ==
    /\ At(c, m, "claimed")
    /\ ~MayApply(m)
    /\ Reaches(c, m, "failed")
    /\ UNCHANGED <<log, group, outcome, orphans, faults>>

\* The use case returns an error, having written or not.
ApplyFails(c, m) ==
    /\ At(c, m, "claimed")
    /\ MayApply(m)
    /\ Fault
    /\ gigs' \in {gigs, Applied(m)}
    /\ Reaches(c, m, "failed")
    /\ UNCHANGED <<log, group, claims, handled, completed, dead, orphans>>

\* The completion event is published; the notification is best effort.
Complete(c, m) ==
    LET e == Message(m).event IN
    /\ At(c, m, "applied")
    /\ completed' = completed \cup {e}
    /\ handled' = [handled EXCEPT ![e] = @ + 1]
    /\ Reaches(c, m, "done")
    /\ UNCHANGED <<log, group, claims, gigs, dead, orphans, faults>>

CompleteFails(c, m) ==
    /\ At(c, m, "applied")
    /\ Fault
    /\ completed' \in {completed, completed \cup {Message(m).event}}
    /\ Reaches(c, m, "failed")
    /\ UNCHANGED <<log, group, claims, gigs, handled, dead, orphans>>

Release(c, m) ==
    /\ At(c, m, "failed")
    /\ claims' = claims \ {Message(m).event}
    /\ Reaches(c, m, "doomed")
    /\ UNCHANGED <<log, group, gigs, handled, completed, dead, orphans, faults>>

\* Release has the context of the generation; its error is ignored.
ReleaseFails(c, m) ==
    /\ At(c, m, "failed")
    /\ \/ Interrupted(c, m[1]) /\ UNCHANGED faults
       \/ Fault
    /\ Reaches(c, m, "doomed")
    /\ UNCHANGED <<log, group, outcome, orphans>>

\* The dead letter is written with a context of its own.
DeadLetter(c, m) ==
    /\ At(c, m, "doomed")
    /\ dead' = dead \cup {m}
    /\ Reaches(c, m, "done")
    /\ UNCHANGED <<log, group, claims, gigs, handled, completed, orphans, faults>>

\* The lane goes on with its next command.
DeadLetterFails(c, m) ==
    /\ At(c, m, "doomed")
    /\ Fault
    /\ Reaches(c, m, "broken")
    /\ UNCHANGED <<log, group, outcome, orphans>>

Cut == {"claimed", "applied", "failed", "doomed", "broken"}

\* The process stops (a nil gig in Publish stops it too) and starts again.
Stop(c) ==
    /\ ~Free(c)
    /\ Fault
    /\ Leaves(c)
    /\ task' = [task EXCEPT ![c] = [m \in Messages |-> "none"]]
    /\ orphans' = orphans \cup {Message(m).event : m \in {n \in Messages : task[c][n] \in Cut}}
    /\ UNCHANGED <<log, committed, outcome>>

-----------------------------------------------------------------------------
Started(g) == IF g \in Live THEN {"create"} ELSE {}

Init ==
    /\ log \in Logs
    /\ committed = [p \in Partitions |-> 0]
    /\ owner = [p \in Partitions |-> NoConsumer]
    /\ stable = FALSE
    /\ reader = [c \in Consumers |-> [p \in Partitions |-> "none"]]
    /\ task = [c \in Consumers |-> [m \in Messages |-> "none"]]
    /\ claims = {}
    /\ gigs = [g \in Gigs |-> Started(g)]
    /\ handled = [e \in Events |-> 0]
    /\ completed = {}
    /\ dead = {}
    /\ orphans = {}
    /\ faults = 0

LaneStep(c, m) ==
    \/ ClaimEvent(c, m)
    \/ Apply(c, m)
    \/ Refuse(c, m)
    \/ Complete(c, m)
    \/ Release(c, m)
    \/ DeadLetter(c, m)

LaneFault(c, m) ==
    \/ ClaimFails(c, m)
    \/ ApplyFails(c, m)
    \/ CompleteFails(c, m)
    \/ ReleaseFails(c, m)
    \/ DeadLetterFails(c, m)

PartitionStep(c, p) ==
    \/ Fetch(c, p)
    \/ FetchCancelled(c, p)
    \/ Commit(c, p)
    \/ BatchFails(c, p)

Next ==
    \/ NextGeneration
    \/ Rebalance
    \/ \E c \in Consumers :
        \/ EndGeneration(c)
        \/ Stop(c)
        \/ \E p \in Partitions : PartitionStep(c, p)
        \/ \E m \in Messages : LaneStep(c, m) \/ LaneFault(c, m)

\* Each goroutine is scheduled and its remote calls return; the coordinator
\* completes a rebalance once all the processes have joined.
Fairness ==
    /\ WF_vars(NextGeneration)
    /\ \A c \in Consumers :
        /\ WF_vars(EndGeneration(c))
        /\ \A p \in Partitions : WF_vars(PartitionStep(c, p))
        /\ WF_vars(\E m \in Messages : LaneStep(c, m))

Spec == Init /\ [][Next]_vars /\ Fairness

-----------------------------------------------------------------------------
(***************************************************************************)
(* What the consumer promises.                                             *)
(***************************************************************************)

\* Every variable stays in its type; the offsets stay within the log.
TypeOK ==
    /\ log \in Logs
    /\ committed \in [Partitions -> Nat]
    /\ \A p \in Partitions : committed[p] <= Len(log[p])
    /\ owner \in [Partitions -> Consumers \cup {NoConsumer}]
    /\ stable \in BOOLEAN
    /\ reader \in [Consumers -> [Partitions -> {"none", "reading", "working", "ended"}]]
    /\ task \in [Consumers -> [Messages -> Stages]]
    /\ claims \in SUBSET Events
    /\ gigs \in [Gigs -> SUBSET Ops]
    /\ handled \in [Events -> Nat]
    /\ completed \in SUBSET Events
    /\ dead \in SUBSET Messages
    /\ orphans \in SUBSET Events
    /\ faults \in 0 .. MaxFaults

\* The lanes of all the processes implement the ledger: a command whose handler
\* returned without error is not executed again, whoever gets it again.
Ledger == INSTANCE ClaimLedger WITH held <- claims, runs <- handled

LedgerRespected == Ledger!LedgerSpec

DeadLettered(e) == \E m \in dead : Message(m).event = e

InProgress(e) ==
    \E c \in Consumers, m \in Messages : Message(m).event = e /\ task[c][m] \in Cut

Done(p) == {m \in Messages : m[1] = p /\ m[2] <= committed[p]}

\* A committed command was executed, is in the dead letter topic, is in the
\* hands of another process, or its handling was cut off by a stop of the process or by
\* a dead letter that could not be written.
OnlyOrphansAreLost ==
    \A p \in Partitions : \A m \in Done(p) :
        LET e == Message(m).event IN
        handled[e] > 0 \/ DeadLettered(e) \/ InProgress(e) \/ e \in orphans

\* The monolith is told that a command is complete only when its effect is in
\* the write model, also when Publish was answered by "already published".
CompletionMeansApplied ==
    \A m \in Messages :
        Message(m).event \in completed => Message(m).op \in gigs[Message(m).gig]

Earlier(m) == {n \in Messages : n[1] = m[1] /\ n[2] < m[2] /\ Message(n).gig = Message(m).gig}

\* All that the command needs is there from the beginning or comes before it in the log.
HasPrerequisites(m) ==
    LET op == Message(m).op IN
    /\ op # "unsupported"
    /\ Needs(op) \subseteq Started(Message(m).gig) \cup {Message(n).op : n \in Earlier(m)}

\* As long as nothing fails, a command whose prerequisites come before it in the
\* log is not refused, unless an earlier command of its gig was or the gig was created
\* in the same batch: the lanes keep the order of a gig, but not of its create.
OrderIsKept ==
    faults = 0 =>
        \A m \in dead :
            HasPrerequisites(m) =>
                \E n \in Earlier(m) :
                    \/ n \in dead
                    \/ Message(n).op = "create" /\ m[2] - n[2] < BatchSize

\* With a process for each partition, every command gets its turn whatever fails.
\* recovery_subscriber.go:25: the subscriber "consumes durable monolith fallback
\* commands owned by gig-service and dispatches them".
EverythingIsCommitted == \A p \in Partitions : <>(committed[p] = Len(log[p]))
=============================================================================
