--------------------------- MODULE ProjectionProofs ---------------------------
(***************************************************************************)
(* The batch consumers implement the ledger and lose no message, for any   *)
(* number of processes, any log, any batch and pool size, and any faults.  *)
(***************************************************************************)
EXTENDS Projection, TLAPS

Message == [event : Events, gig : Gigs, version : Nat, readable : BOOLEAN]

\* The worker of c that has offset i won the claim and has not ended.
Holds(stage) == stage \in {"claimed", "failed"}

\* Which tasks exist, and what a worker that holds a claim can count on: the
\* row is there, nobody else holds it, and the event was not processed yet.
HolderInvariant ==
    /\ log \in Seq(Message)
    /\ task \in [Consumers -> [Offsets -> Stages]]
    /\ claims \in SUBSET Events
    /\ handled \in [Events -> Nat]
    /\ \A e \in Events : handled[e] # 0 => e \in claims
    /\ \A c \in Consumers, i \in Offsets : Holds(task[c][i]) =>
         log[i].event \in claims /\ handled[log[i].event] = 0
    /\ \A c, d \in Consumers, i, j \in Offsets :
         Holds(task[c][i]) /\ Holds(task[d][j]) /\ log[i].event = log[j].event
           => c = d /\ i = j

\* A worker's step changes one task.
LEMMA OneTask ==
    ASSUME task \in [Consumers -> [Offsets -> Stages]],
           NEW c \in Consumers, NEW i \in Offsets, NEW stage \in Stages,
           Reaches(c, i, stage), UNCHANGED log
    PROVE  /\ task' \in [Consumers -> [Offsets' -> Stages]]
           /\ task'[c][i] = stage
           /\ \A d \in Consumers, j \in Offsets :
                d # c \/ j # i => task'[d][j] = task[d][j]
BY DEF Reaches, Offsets

\* The states a process group starts from.
LEMMA HolderInit == Init => HolderInvariant
<1> SUFFICES ASSUME Init PROVE HolderInvariant
  OBVIOUS
<1>1. log \in Seq(Message)
  BY ProjectionAssumption DEF Init, Message
<1>2. task \in [Consumers -> [Offsets -> Stages]]
  BY DEF Init, NoTasks, Stages
<1>3. \A c \in Consumers, i \in Offsets : ~Holds(task[c][i])
  BY DEF Init, NoTasks, Holds
<1>4. QED
  BY <1>1, <1>2, <1>3 DEF Init, HolderInvariant

\* What the invariant says of one message.
LEMMA EventOf ==
    ASSUME HolderInvariant, NEW i \in Offsets
    PROVE  log[i].event \in Events
<1>1. log \in Seq(Message)
  BY DEF HolderInvariant
<1>2. log[i] \in Message
  BY <1>1 DEF Offsets
<1>3. QED
  BY <1>2 DEF Message

\* A step that neither claims, handles nor releases, and makes no new holder.
LEMMA NoNewHolder ==
    ASSUME HolderInvariant, UNCHANGED <<log, claims, handled>>,
           task' \in [Consumers -> [Offsets -> Stages]],
           \A c \in Consumers, i \in Offsets :
             Holds(task'[c][i]) => Holds(task[c][i])
    PROVE  HolderInvariant'
<1>1. Offsets' = Offsets
  BY DEF Offsets
<1>2. \A c \in Consumers, i \in Offsets' : Holds(task'[c][i]) =>
         log'[i].event \in claims' /\ handled'[log'[i].event] = 0
  BY <1>1 DEF HolderInvariant
<1>3. \A c, d \in Consumers, i, j \in Offsets' :
         Holds(task'[c][i]) /\ Holds(task'[d][j])
           /\ log'[i].event = log'[j].event => c = d /\ i = j
  BY <1>1 DEF HolderInvariant
<1>4. QED
  BY <1>1, <1>2, <1>3 DEF HolderInvariant

\* A worker's step that neither claims, handles nor releases.
LEMMA QuietTask ==
    ASSUME HolderInvariant, UNCHANGED <<log, claims, handled>>,
           NEW c \in Consumers, NEW i \in Offsets, NEW stage \in Stages,
           Reaches(c, i, stage), Holds(stage) => Holds(task[c][i])
    PROVE  HolderInvariant'
<1>1. task \in [Consumers -> [Offsets -> Stages]]
  BY DEF HolderInvariant
<1>2. Offsets' = Offsets
  BY DEF Offsets
<1>3. /\ task' \in [Consumers -> [Offsets -> Stages]]
      /\ task'[c][i] = stage
      /\ \A d \in Consumers, j \in Offsets :
           d # c \/ j # i => task'[d][j] = task[d][j]
  BY <1>1, <1>2, OneTask
<1>4. \A d \in Consumers, j \in Offsets : Holds(task'[d][j]) => Holds(task[d][j])
  BY <1>3
<1>5. QED
  BY <1>3, <1>4, NoNewHolder

\* A worker that wins a claim becomes the only holder of its event.
LEMMA ClaimTask ==
    ASSUME HolderInvariant, UNCHANGED <<log, handled>>,
           NEW c \in Consumers, NEW i \in Offsets, NEW stage \in Stages,
           Reaches(c, i, stage), log[i].event \notin claims,
           claims' = claims \cup {log[i].event}
    PROVE  HolderInvariant'
<1>1. task \in [Consumers -> [Offsets -> Stages]] /\ log[i].event \in Events
  BY EventOf DEF HolderInvariant
<1>2. Offsets' = Offsets
  BY DEF Offsets
<1>3. /\ task' \in [Consumers -> [Offsets -> Stages]]
      /\ task'[c][i] = stage
      /\ \A d \in Consumers, j \in Offsets :
           d # c \/ j # i => task'[d][j] = task[d][j]
  BY <1>1, <1>2, OneTask
<1>4. \A d \in Consumers, j \in Offsets :
        Holds(task[d][j]) => log[j].event # log[i].event
  BY DEF HolderInvariant
<1>5. handled[log[i].event] = 0
  BY <1>1 DEF HolderInvariant
<1>6. ASSUME NEW d \in Consumers, NEW j \in Offsets, Holds(task'[d][j])
      PROVE  log[j].event \in claims' /\ handled[log[j].event] = 0
  <2>1. CASE d = c /\ j = i
    BY <1>5, <2>1
  <2>2. CASE d # c \/ j # i
    BY <1>3, <1>6, <2>2 DEF HolderInvariant
  <2>3. QED
    BY <2>1, <2>2
<1>7. ASSUME NEW d \in Consumers, NEW b \in Consumers, NEW j \in Offsets,
             NEW k \in Offsets, Holds(task'[d][j]), Holds(task'[b][k]),
             log[j].event = log[k].event
      PROVE  d = b /\ j = k
  <2>1. CASE (d # c \/ j # i) /\ (b # c \/ k # i)
    BY <1>3, <1>7, <2>1 DEF HolderInvariant
  <2>2. CASE d = c /\ j = i
    BY <1>3, <1>4, <1>7, <2>2
  <2>3. CASE b = c /\ k = i
    BY <1>3, <1>4, <1>7, <2>3
  <2>4. QED
    BY <2>1, <2>2, <2>3
<1>8. QED
  BY <1>1, <1>2, <1>3, <1>6, <1>7 DEF HolderInvariant

\* A holder that ends, by success or by giving its claim back, leaves no other
\* holder of its event behind.
LEMMA EndTask ==
    ASSUME HolderInvariant, UNCHANGED log,
           NEW c \in Consumers, NEW i \in Offsets, NEW stage \in Stages,
           Reaches(c, i, stage), Holds(task[c][i]), ~Holds(stage),
           \/ /\ handled' = [handled EXCEPT ![log[i].event] = @ + 1]
              /\ UNCHANGED claims
           \/ claims' = claims \ {log[i].event} /\ UNCHANGED handled
    PROVE  HolderInvariant'
<1>1. /\ task \in [Consumers -> [Offsets -> Stages]] /\ log[i].event \in Events
      /\ log[i].event \in claims /\ handled[log[i].event] = 0
      /\ handled \in [Events -> Nat] /\ claims \in SUBSET Events
  BY EventOf DEF HolderInvariant
<1>2. Offsets' = Offsets
  BY DEF Offsets
<1>3. /\ task' \in [Consumers -> [Offsets -> Stages]]
      /\ task'[c][i] = stage
      /\ \A d \in Consumers, j \in Offsets :
           d # c \/ j # i => task'[d][j] = task[d][j]
  BY <1>1, <1>2, OneTask
<1>4. \A d \in Consumers, j \in Offsets : Holds(task'[d][j]) =>
        Holds(task[d][j]) /\ log[j].event # log[i].event
  BY <1>3 DEF HolderInvariant
<1>5. /\ handled' \in [Events -> Nat] /\ claims' \in SUBSET Events
      /\ \A e \in Events : e # log[i].event =>
           handled'[e] = handled[e] /\ (e \in claims' <=> e \in claims)
      /\ handled'[log[i].event] # 0 => log[i].event \in claims'
  BY <1>1
<1>6. \A e \in Events : handled'[e] # 0 => e \in claims'
  BY <1>5 DEF HolderInvariant
<1>7. \A d \in Consumers, j \in Offsets : Holds(task'[d][j]) =>
        log[j].event \in claims' /\ handled'[log[j].event] = 0
  BY <1>4, <1>5, EventOf DEF HolderInvariant
<1>8. \A d, b \in Consumers, j, k \in Offsets :
        Holds(task'[d][j]) /\ Holds(task'[b][k]) /\ log[j].event = log[k].event
          => d = b /\ j = k
  BY <1>4 DEF HolderInvariant
<1>9. QED
  BY <1>2, <1>3, <1>5, <1>6, <1>7, <1>8 DEF HolderInvariant

\* Leaving the group drops tasks and claims nothing.
LEMMA LeaveHolders ==
    ASSUME HolderInvariant, NEW c \in Consumers, Leave(c)
    PROVE  HolderInvariant' /\ UNCHANGED <<claims, handled>>
<1>1. /\ UNCHANGED <<log, claims, handled>>
      /\ task' = [task EXCEPT ![c] = NoTasks]
  BY DEF Leave, outcome
<1>2. task \in [Consumers -> [Offsets -> Stages]] /\ NoTasks \in [Offsets -> Stages]
  BY DEF HolderInvariant, NoTasks, Stages
<1>3. task' \in [Consumers -> [Offsets -> Stages]]
  BY <1>1, <1>2
<1>4. \A d \in Consumers, j \in Offsets : Holds(task'[d][j]) => Holds(task[d][j])
  BY <1>1, <1>2 DEF NoTasks, Holds
<1>5. QED
  BY <1>1, <1>3, <1>4, NoNewHolder

\* Every step keeps the invariant and is a step of the ledger, or none.
LEMMA LedgerStep ==
    HolderInvariant /\ [Next]_vars
      => HolderInvariant' /\ [Ledger!LedgerNext]_(Ledger!ledgerVars)
<1> SUFFICES ASSUME HolderInvariant, [Next]_vars
             PROVE  HolderInvariant' /\ [Ledger!LedgerNext]_(Ledger!ledgerVars)
  OBVIOUS
<1> DEFINE Goal == HolderInvariant' /\ [Ledger!LedgerNext]_(Ledger!ledgerVars)
<1>t. task \in [Consumers -> [Offsets -> Stages]]
  BY DEF HolderInvariant
<1>q. ASSUME HolderInvariant', UNCHANGED <<claims, handled>> PROVE Goal
  BY <1>q DEF Ledger!ledgerVars
<1>u. ASSUME UNCHANGED <<log, task, claims, handled>> PROVE Goal
  <2>1. HolderInvariant'
    BY <1>u DEF HolderInvariant, Offsets
  <2>2. QED
    BY <1>u, <1>q, <2>1
<1>1. ASSUME NEW c \in Consumers, Start(c) \/ Assign(c) \/ Dispatch(c) PROVE Goal
  BY <1>1, <1>u DEF Start, Assign, Dispatch, outcome
<1>2. ASSUME NEW c \in Consumers, Fetch(c) PROVE Goal
  <2>1. /\ UNCHANGED <<log, claims, handled>>
        /\ task' = [task EXCEPT ![c][position[c] + 1] = "fetched"]
    BY <1>2 DEF Fetch, outcome
  <2>2. task' \in [Consumers -> [Offsets -> Stages]]
    BY <1>t, <2>1 DEF Stages
  <2>3. \A d \in Consumers, j \in Offsets : Holds(task'[d][j]) => Holds(task[d][j])
    BY <1>t, <2>1 DEF Holds
  <2>4. QED
    BY <1>q, <2>1, <2>2, <2>3, NoNewHolder
<1>3. ASSUME NEW c \in Consumers, NEW i \in Offsets,
             Take(c, i) \/ ReleaseFails(c, i) \/ DeadLetter(c, i)
               \/ DeadLetterFails(c, i)
      PROVE  Goal
  <2>1. UNCHANGED <<log, claims, handled>>
    BY <1>3 DEF Take, ReleaseFails, DeadLetter, DeadLetterFails, outcome
  <2>2. PICK stage \in {"taken", "doomed", "done", "broken"} : Reaches(c, i, stage)
    BY <1>3 DEF Take, ReleaseFails, AfterRelease, DeadLetter, DeadLetterFails
  <2>3. stage \in Stages /\ ~Holds(stage)
    BY DEF Stages, Holds
  <2>4. QED
    BY <1>q, <2>1, <2>2, <2>3, QuietTask
<1>4. ASSUME NEW c \in Consumers, NEW i \in Offsets, ClaimEvent(c, i) PROVE Goal
  <2>1. UNCHANGED <<log, handled>>
    BY <1>4 DEF ClaimEvent
  <2>2. CASE WinsClaim(log[i].event)
    <3>1. PICK stage \in {"claimed", "doomed"} : Reaches(c, i, stage)
      BY <1>4, <2>2 DEF ClaimEvent
    <3>2. stage \in Stages
      BY DEF Stages
    <3>3. /\ log[i].event \notin claims
          /\ claims' = claims \cup {log[i].event}
      BY <1>4, <2>2 DEF ClaimEvent, WinsClaim
    <3>4. HolderInvariant'
      BY <2>1, <3>1, <3>2, <3>3, ClaimTask
    <3>5. Ledger!Claim(log[i].event)
      BY <2>1, <3>3 DEF Ledger!Claim
    <3>6. QED
      BY <3>4, <3>5, EventOf DEF Ledger!LedgerNext
  <2>3. CASE ~WinsClaim(log[i].event)
    <3>1. Reaches(c, i, "done") /\ UNCHANGED claims
      BY <1>4, <2>3 DEF ClaimEvent
    <3>2. "done" \in Stages /\ ~Holds("done")
      BY DEF Stages, Holds
    <3>3. QED
      BY <1>q, <2>1, <3>1, <3>2, QuietTask
  <2>4. QED
    BY <2>2, <2>3
<1>5. ASSUME NEW c \in Consumers, NEW i \in Offsets, ClaimFails(c, i) PROVE Goal
  <2>1. /\ UNCHANGED <<log, handled>> /\ Reaches(c, i, "doomed")
        /\ claims' \in {claims, claims \cup {log[i].event}}
    BY <1>5 DEF ClaimFails
  <2>2. "doomed" \in Stages /\ ~Holds("doomed")
    BY DEF Stages, Holds
  <2>3. CASE claims' = claims
    BY <1>q, <2>1, <2>2, <2>3, QuietTask
  <2>4. CASE claims' # claims
    <3>1. /\ log[i].event \notin claims
          /\ claims' = claims \cup {log[i].event}
      BY <2>1, <2>4
    <3>2. HolderInvariant'
      BY <2>1, <2>2, <3>1, ClaimTask
    <3>3. Ledger!Claim(log[i].event)
      BY <2>1, <3>1 DEF Ledger!Claim
    <3>4. QED
      BY <3>2, <3>3, EventOf DEF Ledger!LedgerNext
  <2>5. QED
    BY <2>3, <2>4
<1>6. ASSUME NEW c \in Consumers, NEW i \in Offsets, Handle(c, i) PROVE Goal
  <2>1. /\ UNCHANGED <<log, claims>> /\ Reaches(c, i, "done")
        /\ handled' = [handled EXCEPT ![log[i].event] = @ + 1]
        /\ Holds(task[c][i])
    BY <1>6 DEF Handle, At, Holds
  <2>2. "done" \in Stages /\ ~Holds("done")
    BY DEF Stages, Holds
  <2>3. HolderInvariant'
    BY <2>1, <2>2, EndTask
  <2>4. /\ log[i].event \in claims /\ handled[log[i].event] = 0
        /\ handled' = [handled EXCEPT ![log[i].event] = 1]
    <3>1. log[i].event \in claims /\ handled[log[i].event] = 0
      BY <2>1 DEF HolderInvariant
    <3>2. handled[log[i].event] + 1 = 1
      BY <3>1
    <3>3. QED
      BY <2>1, <3>1, <3>2
  <2>5. Ledger!Finish(log[i].event)
    BY <2>1, <2>4 DEF Ledger!Finish
  <2>6. QED
    BY <2>3, <2>5, EventOf DEF Ledger!LedgerNext
<1>7. ASSUME NEW c \in Consumers, NEW i \in Offsets, HandleFails(c, i) PROVE Goal
  <2>1. /\ UNCHANGED <<log, claims, handled>> /\ Reaches(c, i, "failed")
        /\ Holds(task[c][i])
    BY <1>7 DEF HandleFails, At, Holds
  <2>2. "failed" \in Stages
    BY DEF Stages
  <2>3. QED
    BY <1>q, <2>1, <2>2, QuietTask
<1>8. ASSUME NEW c \in Consumers, NEW i \in Offsets, Release(c, i) PROVE Goal
  <2>1. /\ UNCHANGED <<log, handled>> /\ Reaches(c, i, "doomed")
        /\ claims' = claims \ {log[i].event}
        /\ Holds(task[c][i])
    BY <1>8 DEF Release, AfterRelease, At, Holds
  <2>2. "doomed" \in Stages /\ ~Holds("doomed")
    BY DEF Stages, Holds
  <2>3. HolderInvariant'
    BY <2>1, <2>2, EndTask
  <2>4. log[i].event \in claims /\ handled[log[i].event] = 0
    BY <2>1 DEF HolderInvariant
  <2>5. Ledger!GiveBack(log[i].event)
    BY <2>1, <2>4 DEF Ledger!GiveBack
  <2>6. QED
    BY <2>3, <2>5, EventOf DEF Ledger!LedgerNext
<1>9. ASSUME NEW c \in Consumers, Commit(c) PROVE Goal
  <2>1. /\ UNCHANGED <<log, claims, handled>>
        /\ task' = [task EXCEPT ![c] = NoTasks]
    BY <1>9 DEF Commit, outcome
  <2>2. NoTasks \in [Offsets -> Stages]
    BY DEF NoTasks, Stages
  <2>3. task' \in [Consumers -> [Offsets -> Stages]]
    BY <1>t, <2>1, <2>2
  <2>4. \A d \in Consumers, j \in Offsets : Holds(task'[d][j]) => Holds(task[d][j])
    BY <1>t, <2>1 DEF NoTasks, Holds
  <2>5. QED
    BY <1>q, <2>1, <2>3, <2>4, NoNewHolder
<1>10. ASSUME NEW c \in Consumers, GiveUp(c) \/ Stop(c) PROVE Goal
  BY <1>10, <1>q, LeaveHolders DEF GiveUp, Stop
<1>11. CASE UNCHANGED vars
  BY <1>11, <1>u DEF vars
<1>12. QED
  BY <1>1, <1>2, <1>3, <1>4, <1>5, <1>6, <1>7, <1>8, <1>9, <1>10, <1>11
  DEF Next, Progress, FaultStep, WorkerStep

-----------------------------------------------------------------------------
\* The consumers implement the ledger of processed events: an event is held by
\* one worker at a time and its handler returns without error at most once,
\* across processes, redeliveries, duplicates, failed calls and rebalances.
THEOREM ProjectionImplementsLedger == Spec => LedgerRespected
<1>1. Init => HolderInvariant /\ Ledger!LedgerInit
  BY HolderInit DEF Init, Ledger!LedgerInit
<1>2. HolderInvariant /\ [Next]_vars => HolderInvariant'
  BY LedgerStep
<1>3. HolderInvariant /\ [Next]_vars => [Ledger!LedgerNext]_(Ledger!ledgerVars)
  BY LedgerStep
<1>4. QED
  BY <1>1, <1>2, <1>3, PTL DEF Spec, LedgerRespected, Ledger!LedgerSpec

-----------------------------------------------------------------------------
(***************************************************************************)
(* No message is lost.                                                     *)
(***************************************************************************)

\* What became of event e, or who still has it.
Accounted(e) ==
    handled[e] > 0 \/ DeadLettered(e) \/ InProgress(e) \/ e \in orphans

\* The owner of the partition has in its batch whatever it read past the offset.
OwnerHasTheRest ==
    \A c \in Consumers : owner = c =>
        \A i \in Offsets : i <= position[c] => i <= committed \/ task[c][i] # "none"

\* No worker has a message of a batch that is still being filled.
FillingIsFresh ==
    \A c \in Consumers, i \in Offsets :
        phase[c] # "working" => task[c][i] \in {"none", "fetched"}

\* Every claim, every message that a worker is done with, and every message below the
\* offset is accounted for.
AccountInvariant ==
    /\ TypeOK
    /\ OwnerHasTheRest
    /\ FillingIsFresh
    /\ \A e \in claims : Accounted(e)
    /\ \A c \in Consumers, i \in Offsets :
         task[c][i] = "done" => Accounted(log[i].event)
    /\ \A i \in Offsets : i <= committed => Accounted(log[i].event)

\* A worker of c is busy with offset i, or could not write its dead letter.
Active(stage) == stage \in {"claimed", "failed", "doomed", "broken"}

\* The log has its messages at the offsets.
LEMMA LogShape ==
    ASSUME TypeOK
    PROVE  /\ Len(log) \in Nat /\ Offsets = 1 .. Len(log)
           /\ \A i \in Offsets : log[i] \in Message /\ log[i].event \in Events
<1>1. log \in Seq(Message)
  BY ProjectionAssumption DEF TypeOK, Message
<1>2. Len(log) \in Nat /\ Offsets = 1 .. Len(log)
  BY <1>1 DEF Offsets
<1>3. \A i \in Offsets : log[i] \in Message
  BY <1>1 DEF Offsets
<1>4. QED
  BY <1>2, <1>3 DEF Message

LEMMA AccountInit == Init => AccountInvariant
<1> SUFFICES ASSUME Init PROVE AccountInvariant
  OBVIOUS
<1>1. Len(log) \in Nat
  BY ProjectionAssumption DEF Init
<1>2. task \in [Consumers -> [Offsets -> Stages]]
  BY DEF Init, NoTasks, Stages
<1>3. TypeOK
  BY <1>1, <1>2, ProjectionAssumption DEF Init, TypeOK
<1>4. \A c \in Consumers, i \in Offsets : task[c][i] = "none"
  BY DEF Init, NoTasks
<1>5. \A i \in Offsets : ~(i <= committed)
  BY <1>3, LogShape DEF Init
<1>6. OwnerHasTheRest
  BY ProjectionAssumption DEF Init, OwnerHasTheRest
<1>7. QED
  BY <1>3, <1>4, <1>5, <1>6 DEF Init, AccountInvariant, FillingIsFresh

\* What a step has to show when it keeps everything that is accounted for so.
LEMMA AccountFrame ==
    ASSUME AccountInvariant, TypeOK', UNCHANGED log, OwnerHasTheRest', FillingIsFresh',
           \A e \in Events : Accounted(e) => Accounted(e)',
           \A e \in claims' : e \in claims \/ Accounted(e)',
           \A c \in Consumers, i \in Offsets :
             task'[c][i] = "done" => task[c][i] = "done" \/ Accounted(log[i].event)',
           \A i \in Offsets : i <= committed' => i <= committed \/ Accounted(log[i].event)'
    PROVE  AccountInvariant'
<1>1. TypeOK /\ Offsets' = Offsets /\ log' = log
  BY DEF AccountInvariant, Offsets
<1>2. \A i \in Offsets : log[i].event \in Events
  BY <1>1, LogShape
<1>3. \A e \in claims' : Accounted(e)'
  BY <1>1 DEF AccountInvariant, TypeOK
<1>4. \A c \in Consumers, i \in Offsets : task'[c][i] = "done" => Accounted(log[i].event)'
  BY <1>2 DEF AccountInvariant
<1>5. \A i \in Offsets : i <= committed' => Accounted(log[i].event)'
  BY <1>2 DEF AccountInvariant
<1>6. QED
  BY <1>1, <1>3, <1>4, <1>5 DEF AccountInvariant

\* A step that only changes the group: nothing that is accounted for is forgotten.
LEMMA SameTasks ==
    ASSUME UNCHANGED <<log, task, outcome, orphans>>, NEW e \in Events, Accounted(e)
    PROVE  Accounted(e)'
BY DEF outcome, Accounted, DeadLettered, InProgress, Offsets

\* A worker's step: what was in its hands is accounted for afterwards.
LEMMA AccountTask ==
    ASSUME AccountInvariant, NEW c \in Consumers, NEW i \in Offsets,
           NEW stage \in Stages \ {"none"}, Reaches(c, i, stage), At(c, i, task[c][i]),
           task[c][i] # "none",
           UNCHANGED <<log, committed, owner, phase, position, orphans>>,
           claims' \in SUBSET (claims \cup {log[i].event}),
           redis' \in [Gigs -> Nat], faults' \in 0 .. MaxFaults,
           handled' \in [Events -> Nat], \A e \in Events : handled[e] <= handled'[e],
           dead' \in SUBSET Offsets, dead \subseteq dead',
           \/ Accounted(log[i].event)'
           \/ ~Active(task[c][i]) /\ stage # "done" /\ claims' \subseteq claims
    PROVE  AccountInvariant'
<1>1. /\ TypeOK /\ Offsets' = Offsets /\ log' = log /\ log[i].event \in Events
      /\ handled \in [Events -> Nat] /\ orphans' = orphans
  BY LogShape DEF AccountInvariant, Offsets, TypeOK
<1>2. /\ task' \in [Consumers -> [Offsets' -> Stages]] /\ task'[c][i] = stage
      /\ \A d \in Consumers, j \in Offsets :
           d # c \/ j # i => task'[d][j] = task[d][j]
  BY <1>1, OneTask DEF TypeOK
<1>3. TypeOK'
  BY <1>1, <1>2 DEF TypeOK
<1>4. OwnerHasTheRest'
  BY <1>1, <1>2 DEF AccountInvariant, OwnerHasTheRest
<1>fresh. FillingIsFresh'
  BY <1>1, <1>2 DEF AccountInvariant, FillingIsFresh, At
<1>5. ASSUME NEW e \in Events, Accounted(e) PROVE Accounted(e)'
  <2>1. CASE handled[e] > 0 \/ DeadLettered(e) \/ e \in orphans
    BY <1>1, <2>1 DEF Accounted, DeadLettered
  <2>2. CASE InProgress(e)
    <3>1. PICK d \in Consumers, j \in Offsets : log[j].event = e /\ Active(task[d][j])
      BY <2>2 DEF InProgress, Active
    <3>2. CASE d = c /\ j = i
      BY <3>1, <3>2
    <3>3. CASE d # c \/ j # i
      BY <1>1, <1>2, <3>1, <3>3 DEF Accounted, InProgress, Active
    <3>4. QED
      BY <3>2, <3>3
  <2>3. QED
    BY <1>5, <2>1, <2>2 DEF Accounted
<1>6. \A d \in Consumers, j \in Offsets :
        task'[d][j] = "done" => task[d][j] = "done" \/ Accounted(log[j].event)'
  BY <1>2
<1>7. QED
  BY <1>1, <1>3, <1>4, <1>5, <1>6, <1>fresh, AccountFrame

\* A worker's step, action by action.
LEMMA AccountWorker ==
    ASSUME AccountInvariant, NEW c \in Consumers, NEW i \in Offsets,
           \/ WorkerStep(c, i)
           \/ ClaimFails(c, i)
           \/ HandleFails(c, i)
           \/ ReleaseFails(c, i)
           \/ DeadLetterFails(c, i)
    PROVE  AccountInvariant'
<1> DEFINE e == log[i].event
<1>1. /\ TypeOK /\ e \in Events /\ task \in [Consumers -> [Offsets -> Stages]]
      /\ handled \in [Events -> Nat] /\ redis \in [Gigs -> Nat] /\ dead \in SUBSET Offsets
      /\ faults \in 0 .. MaxFaults /\ MaxFaults \in Nat
      /\ log[i].gig \in Gigs /\ log[i].version \in Nat
  BY LogShape, ProjectionAssumption DEF AccountInvariant, TypeOK, Message
<1>2. Fault => faults' \in 0 .. MaxFaults
  BY <1>1 DEF Fault
<1>3. ASSUME NEW stage \in Stages, Active(stage), Reaches(c, i, stage), UNCHANGED log
      PROVE  Accounted(e)'
  <2>1. task'[c][i] = stage /\ Offsets' = Offsets
    BY <1>1, <1>3, OneTask DEF Offsets
  <2>2. QED
    BY <1>3, <2>1 DEF Accounted, InProgress, Active
<1>4. /\ {"claimed", "failed", "doomed", "broken"} \subseteq Stages \ {"none"}
      /\ \A stage \in {"claimed", "failed", "doomed", "broken"} : Active(stage)
      /\ {"taken", "done"} \subseteq Stages \ {"none"}
      /\ ~Active("fetched") /\ ~Active("taken")
  BY DEF Stages, Active
<1>5. CASE Take(c, i)
  BY <1>1, <1>4, <1>5, AccountTask DEF Take, At, outcome
<1>6. CASE ClaimEvent(c, i)
  <2>1. /\ task[c][i] = "taken" /\ At(c, i, task[c][i])
        /\ UNCHANGED <<log, committed, owner, phase, position, redis, handled, dead,
                       orphans, faults>>
    BY <1>6 DEF ClaimEvent, At
  <2>2. CASE e \notin claims
    <3>1. PICK stage \in {"claimed", "doomed"} : Reaches(c, i, stage)
      BY <1>6, <2>2 DEF ClaimEvent, WinsClaim
    <3>2. claims' = claims \cup {e}
      BY <1>6, <2>2 DEF ClaimEvent, WinsClaim
    <3>3. Accounted(e)'
      BY <1>3, <1>4, <2>1, <3>1
    <3>4. QED
      BY <1>1, <1>4, <2>1, <3>1, <3>2, <3>3, AccountTask
  <2>3. CASE e \in claims
    <3>1. Reaches(c, i, "done") /\ claims' = claims
      BY <1>6, <2>3 DEF ClaimEvent, WinsClaim
    <3>2. /\ \A d \in Consumers, j \in Offsets :
               d # c \/ j # i => task'[d][j] = task[d][j]
          /\ Offsets' = Offsets
      BY <1>1, <1>4, <2>1, <3>1, OneTask DEF Offsets
    <3>3. Accounted(e)
      BY <2>3 DEF AccountInvariant
    <3>4. InProgress(e) => InProgress(e)'
      BY <1>4, <2>1, <3>2 DEF InProgress, Active
    <3>5. Accounted(e)'
      BY <2>1, <3>3, <3>4 DEF Accounted, DeadLettered
    <3>6. QED
      BY <1>1, <1>4, <2>1, <3>1, <3>5, AccountTask
  <2>4. QED
    BY <2>2, <2>3
<1>7. CASE Handle(c, i)
  <2>1. handled' = [handled EXCEPT ![e] = @ + 1] /\ UNCHANGED log
    BY <1>7 DEF Handle
  <2>2. /\ handled' \in [Events -> Nat] /\ \A d \in Events : handled[d] <= handled'[d]
        /\ handled'[e] > 0
    BY <1>1, <2>1
  <2>3. Accounted(e)'
    BY <2>1, <2>2 DEF Accounted
  <2>4. redis' \in [Gigs -> Nat]
    BY <1>1, <1>7 DEF Handle, Stored
  <2>5. QED
    BY <1>1, <1>4, <1>7, <2>2, <2>3, <2>4, AccountTask DEF Handle, At
<1>8. CASE Release(c, i)
  <2>1. Accounted(e)'
    BY <1>3, <1>4, <1>8 DEF Release, AfterRelease
  <2>2. QED
    BY <1>1, <1>4, <1>8, <2>1, AccountTask DEF Release, AfterRelease, At
<1>9. CASE DeadLetter(c, i)
  <2>1. Accounted(e)'
    BY <1>9 DEF DeadLetter, Accounted, DeadLettered
  <2>2. QED
    BY <1>1, <1>4, <1>9, <2>1, AccountTask DEF DeadLetter, At
<1>10. CASE ClaimFails(c, i)
  <2>1. Accounted(e)'
    BY <1>3, <1>4, <1>10 DEF ClaimFails
  <2>2. QED
    BY <1>1, <1>2, <1>4, <1>10, <2>1, AccountTask DEF ClaimFails, At
<1>11. CASE HandleFails(c, i)
  <2>1. Accounted(e)'
    BY <1>3, <1>4, <1>11 DEF HandleFails
  <2>2. redis' \in [Gigs -> Nat]
    BY <1>1, <1>11 DEF HandleFails, Stored
  <2>3. QED
    BY <1>1, <1>2, <1>4, <1>11, <2>1, <2>2, AccountTask DEF HandleFails, At
<1>12. CASE ReleaseFails(c, i)
  <2>1. Accounted(e)'
    BY <1>3, <1>4, <1>12 DEF ReleaseFails, AfterRelease
  <2>2. QED
    BY <1>1, <1>2, <1>4, <1>12, <2>1, AccountTask DEF ReleaseFails, AfterRelease, At, outcome
<1>13. CASE DeadLetterFails(c, i)
  <2>1. Accounted(e)'
    BY <1>3, <1>4, <1>13 DEF DeadLetterFails
  <2>2. QED
    BY <1>1, <1>2, <1>4, <1>13, <2>1, AccountTask DEF DeadLetterFails, At, outcome
<1>14. QED
  BY <1>5, <1>6, <1>7, <1>8, <1>9, <1>10, <1>11, <1>12, <1>13 DEF WorkerStep

\* The subscription starts, a batch is handed to the pool.
LEMMA AccountPhase ==
    ASSUME AccountInvariant, NEW c \in Consumers, Start(c) \/ Dispatch(c)
    PROVE  AccountInvariant'
<1>1. /\ UNCHANGED <<log, committed, owner, position, task, outcome, orphans, faults>>
      /\ phase' \in [Consumers -> {"off", "filling", "working"}]
  BY DEF Start, Dispatch, AccountInvariant, TypeOK
<1>2. TypeOK' /\ OwnerHasTheRest'
  BY <1>1 DEF AccountInvariant, TypeOK, OwnerHasTheRest, outcome, Offsets
<1>fresh. FillingIsFresh'
  BY <1>1 DEF Start, Dispatch, MayStart, AccountInvariant, TypeOK, FillingIsFresh, Offsets
<1>3. QED
  BY <1>1, <1>2, <1>fresh, SameTasks, AccountFrame DEF AccountInvariant, outcome

\* The new owner of the partition starts at the offset.
LEMMA AccountAssign ==
    ASSUME AccountInvariant, NEW c \in Consumers, Assign(c)
    PROVE  AccountInvariant'
<1>1. /\ UNCHANGED <<log, committed, phase, task, outcome, orphans>>
      /\ owner' = c /\ position' = [position EXCEPT ![c] = committed]
  BY DEF Assign
<1>2. faults' \in 0 .. MaxFaults
  BY ProjectionAssumption DEF Assign, Fault, AccountInvariant, TypeOK
<1>3. TypeOK'
  BY <1>1, <1>2 DEF AccountInvariant, TypeOK, outcome, Offsets
<1>4. OwnerHasTheRest'
  BY <1>1 DEF AccountInvariant, TypeOK, OwnerHasTheRest, Offsets
<1>5. FillingIsFresh'
  BY <1>1 DEF AccountInvariant, FillingIsFresh, Offsets
<1>6. QED
  BY <1>1, <1>3, <1>4, <1>5, SameTasks, AccountFrame DEF outcome

\* The message that is read next is put into the batch.
LEMMA AccountFetch ==
    ASSUME AccountInvariant, NEW c \in Consumers, Fetch(c)
    PROVE  AccountInvariant'
<1> DEFINE n == position[c] + 1
<1>1. /\ TypeOK /\ position[c] \in 0 .. Len(log) /\ position[c] < Len(log)
      /\ Len(log) \in Nat /\ Offsets = 1 .. Len(log)
  BY LogShape DEF AccountInvariant, TypeOK, Fetch, MessageLeft
<1>2. n \in Offsets /\ n \in 0 .. Len(log)
  BY <1>1
<1>3. /\ position' = [position EXCEPT ![c] = n]
      /\ task' = [task EXCEPT ![c][n] = "fetched"]
      /\ UNCHANGED <<log, committed, owner, phase, outcome, orphans, faults>>
      /\ Offsets' = Offsets
  BY DEF Fetch, Offsets
<1>4. /\ task' \in [Consumers -> [Offsets -> Stages]]
      /\ task'[c][n] = "fetched"
      /\ \A d \in Consumers, j \in Offsets :
           d # c \/ j # n => task'[d][j] = task[d][j]
  BY <1>1, <1>2, <1>3, OneTask DEF TypeOK, Stages, Reaches
<1>5. TypeOK'
  BY <1>1, <1>2, <1>3, <1>4 DEF TypeOK, outcome
<1>6. OwnerHasTheRest'
  <2> SUFFICES ASSUME NEW d \in Consumers, owner = d, NEW i \in Offsets,
                      i <= position'[d]
               PROVE  i <= committed \/ task'[d][i] # "none"
    BY <1>3 DEF OwnerHasTheRest
  <2>1. CASE d = c /\ i = n
    BY <1>4, <2>1
  <2>2. CASE d # c \/ i # n
    <3>1. i <= position[d]
      BY <1>1, <1>3, <2>2 DEF TypeOK
    <3>2. QED
      BY <1>4, <2>2, <3>1 DEF AccountInvariant, OwnerHasTheRest
  <2>3. QED
    BY <2>1, <2>2
<1>7. ASSUME NEW e \in Events, Accounted(e) PROVE Accounted(e)'
  <2>1. CASE handled[e] > 0 \/ DeadLettered(e) \/ e \in orphans
    BY <1>3, <2>1 DEF Accounted, DeadLettered, outcome
  <2>2. CASE InProgress(e)
    <3>1. PICK d \in Consumers, j \in Offsets : log[j].event = e /\ Active(task[d][j])
      BY <2>2 DEF InProgress, Active
    <3>2. d # c
      BY <3>1 DEF Fetch, AccountInvariant, FillingIsFresh, Active
    <3>3. QED
      BY <1>3, <1>4, <3>1, <3>2 DEF Accounted, InProgress, Active
  <2>3. QED
    BY <1>7, <2>1, <2>2 DEF Accounted
<1>8. FillingIsFresh'
  BY <1>1, <1>3, <1>4 DEF AccountInvariant, FillingIsFresh
<1>9. QED
  BY <1>3, <1>4, <1>5, <1>6, <1>7, <1>8, AccountFrame DEF outcome

\* The batch of the owner is done: everything up to its position is accounted for.
LEMMA AccountCommit ==
    ASSUME AccountInvariant, NEW c \in Consumers, Commit(c)
    PROVE  AccountInvariant'
<1>1. /\ TypeOK /\ position[c] \in 0 .. Len(log)
      /\ NoTasks \in [Offsets -> Stages] /\ \A i \in Offsets : NoTasks[i] = "none"
  BY DEF AccountInvariant, TypeOK, NoTasks, Stages
<1>2. /\ committed' = position[c] /\ phase' = [phase EXCEPT ![c] = "filling"]
      /\ task' = [task EXCEPT ![c] = NoTasks]
      /\ UNCHANGED <<log, owner, position, outcome, orphans, faults>>
      /\ owner = c /\ \A i \in Offsets : task[c][i] \in {"none", "done"}
      /\ Offsets' = Offsets
  BY DEF Commit, Batch, Offsets
<1>3. TypeOK'
  BY <1>1, <1>2 DEF TypeOK, outcome
<1>4. OwnerHasTheRest'
  BY <1>2 DEF OwnerHasTheRest
<1>5. FillingIsFresh'
  BY <1>1, <1>2 DEF AccountInvariant, FillingIsFresh, TypeOK
<1>6. ASSUME NEW e \in Events, Accounted(e) PROVE Accounted(e)'
  <2>1. CASE handled[e] > 0 \/ DeadLettered(e) \/ e \in orphans
    BY <1>2, <2>1 DEF Accounted, DeadLettered, outcome
  <2>2. CASE InProgress(e)
    <3>1. PICK d \in Consumers, j \in Offsets : log[j].event = e /\ Active(task[d][j])
      BY <2>2 DEF InProgress, Active
    <3>2. d # c
      BY <1>2, <3>1 DEF Active
    <3>3. QED
      BY <1>1, <1>2, <3>1, <3>2 DEF Accounted, InProgress, Active, TypeOK
  <2>3. QED
    BY <1>6, <2>1, <2>2 DEF Accounted
<1>7. \A i \in Offsets : i <= committed' => i <= committed \/ Accounted(log[i].event)'
  <2> SUFFICES ASSUME NEW i \in Offsets, i <= position[c], ~(i <= committed)
               PROVE  Accounted(log[i].event)'
    BY <1>2
  <2>1. task[c][i] = "done"
    BY <1>2 DEF AccountInvariant, OwnerHasTheRest
  <2>2. Accounted(log[i].event) /\ log[i].event \in Events
    BY <1>1, <2>1, LogShape DEF AccountInvariant
  <2>3. log'[i] = log[i]
    BY <1>2
  <2>4. QED
    BY <1>6, <2>2, <2>3
<1>8. \A d \in Consumers, i \in Offsets :
        task'[d][i] = "done" => task[d][i] = "done"
  BY <1>1, <1>2 DEF TypeOK
<1>9. QED
  BY <1>2, <1>3, <1>4, <1>5, <1>6, <1>7, <1>8, AccountFrame DEF outcome

\* What a consumer that leaves was handling becomes an orphan.
LEMMA AccountLeave ==
    ASSUME AccountInvariant, NEW c \in Consumers, Leave(c), faults' \in 0 .. MaxFaults
    PROVE  AccountInvariant'
<1>1. /\ TypeOK
      /\ NoTasks \in [Offsets -> Stages] /\ \A i \in Offsets : NoTasks[i] = "none"
  BY DEF AccountInvariant, TypeOK, NoTasks, Stages
<1>2. /\ phase' = [phase EXCEPT ![c] = "off"]
      /\ task' = [task EXCEPT ![c] = NoTasks]
      /\ owner' = IF owner = c THEN NoConsumer ELSE owner
      /\ orphans' = orphans \cup {log[i].event : i \in {j \in Offsets : Active(task[c][j])}}
      /\ UNCHANGED <<log, committed, position, outcome>>
      /\ Offsets' = Offsets
  BY DEF Leave, Active, Offsets
<1>3. orphans' \in SUBSET Events /\ owner' \in Consumers \cup {NoConsumer}
  BY <1>1, <1>2, LogShape DEF TypeOK
<1>4. TypeOK'
  BY <1>1, <1>2, <1>3 DEF TypeOK, outcome
<1>5. OwnerHasTheRest'
  BY <1>1, <1>2, ProjectionAssumption DEF AccountInvariant, OwnerHasTheRest, TypeOK
<1>6. FillingIsFresh'
  BY <1>1, <1>2 DEF AccountInvariant, FillingIsFresh, TypeOK
<1>7. ASSUME NEW e \in Events, Accounted(e) PROVE Accounted(e)'
  <2>1. CASE handled[e] > 0 \/ DeadLettered(e) \/ e \in orphans
    BY <1>2, <2>1 DEF Accounted, DeadLettered, outcome
  <2>2. CASE InProgress(e)
    <3>1. PICK d \in Consumers, j \in Offsets : log[j].event = e /\ Active(task[d][j])
      BY <2>2 DEF InProgress, Active
    <3>2. CASE d = c
      BY <1>2, <3>1, <3>2 DEF Accounted
    <3>3. CASE d # c
      BY <1>1, <1>2, <3>1, <3>3 DEF Accounted, InProgress, Active, TypeOK
    <3>4. QED
      BY <3>2, <3>3
  <2>3. QED
    BY <1>7, <2>1, <2>2 DEF Accounted
<1>8. \A d \in Consumers, i \in Offsets :
        task'[d][i] = "done" => task[d][i] = "done"
  BY <1>1, <1>2 DEF TypeOK
<1>9. QED
  BY <1>2, <1>4, <1>5, <1>6, <1>7, <1>8, AccountFrame DEF outcome

LEMMA AccountStep == AccountInvariant /\ [Next]_vars => AccountInvariant'
<1> SUFFICES ASSUME AccountInvariant, [Next]_vars PROVE AccountInvariant'
  OBVIOUS
<1>1. ASSUME NEW c \in Consumers, GiveUp(c) \/ Stop(c) PROVE AccountInvariant'
  <2>1. faults' \in 0 .. MaxFaults
    BY <1>1, ProjectionAssumption DEF GiveUp, Stop, Fault, AccountInvariant, TypeOK
  <2>2. QED
    BY <1>1, <2>1, AccountLeave DEF GiveUp, Stop
<1>2. CASE UNCHANGED vars
  <2>1. TypeOK' /\ OwnerHasTheRest' /\ FillingIsFresh'
    BY <1>2 DEF vars, AccountInvariant, TypeOK, OwnerHasTheRest, FillingIsFresh, Offsets
  <2>2. QED
    BY <1>2, <2>1, SameTasks, AccountFrame DEF vars, outcome
<1>3. ASSUME NEW c \in Consumers, Progress(c) \/ FaultStep(c) PROVE AccountInvariant'
  BY <1>1, <1>3, AccountPhase, AccountAssign, AccountFetch, AccountCommit, AccountWorker
  DEF Progress, FaultStep
<1>4. QED
  BY <1>2, <1>3 DEF Next

-----------------------------------------------------------------------------
\* Whatever fails, every claim, finished task and committed message is accounted for.
THEOREM AccountInvariance == Spec => []AccountInvariant
BY AccountInit, AccountStep, PTL DEF Spec

\* Every variable stays in its type; nothing is read or committed past the log.
THEOREM ProjectionTypeCorrect == Spec => []TypeOK
<1>1. AccountInvariant => TypeOK
  BY DEF AccountInvariant
<1>2. QED
  BY <1>1, AccountInvariance, PTL

\* The offset passes no message that was not applied, dead-lettered, in somebody's hands,
\* or cut off by a stop or a dead letter that could not be written.
THEOREM OrphansAreTheOnlyLoss == Spec => []OnlyOrphansAreLost
<1>1. AccountInvariant => OnlyOrphansAreLost
  <2> SUFFICES ASSUME AccountInvariant, NEW i \in 1 .. committed
               PROVE  Accounted(log[i].event)
    BY DEF OnlyOrphansAreLost, Accounted
  <2>1. i \in Offsets /\ i <= committed
    BY LogShape DEF AccountInvariant, TypeOK
  <2>2. QED
    BY <2>1 DEF AccountInvariant
<1>2. QED
  BY <1>1, AccountInvariance, PTL
=============================================================================
