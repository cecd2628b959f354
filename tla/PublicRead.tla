------------------------------ MODULE PublicRead ------------------------------
(***************************************************************************)
(* GetPublicByID of internal/application/service.go: one gig as the public *)
(* sees it, read through the read model in Redis.  A read that finds no    *)
(* copy there loads the gig from the database, stores the copy and shows   *)
(* it.  The projections that follow each write store copies too, in any    *)
(* order (see Projection); nothing compares versions.                      *)
(***************************************************************************)
EXTENDS Integers

CONSTANTS Handlers,   \* goroutines that read or project
          MaxVersion, \* bound: committed writes
          MaxTasks    \* bound: reads and projections

ASSUME PublicReadAssumption == MaxVersion \in Nat /\ MaxTasks \in Nat

VARIABLES version,      \* committed writes of the gig; its create is the first
          publishedAt,  \* the version at which it was published; 0 is a draft
          cache,        \* version of the copy in the read model; 0 is no copy
          task,         \* task[w]: what goroutine w does
          tasks,        \* tasks begun
          requested,    \* history: versions of which a projection was requested
          shown,        \* history: versions that a public read has shown
          early         \* history: those whose task had its copy when the cached one
                        \* was stored

gig == <<version, publishedAt>>
publicVars == <<gig, cache, task, tasks, requested, shown, early>>

Versions == 0 .. MaxVersion

Task == [kind : {"none", "read", "projection"}, stage : {"idle", "load", "store"},
         copy : Versions]

NoTask == [kind |-> "none", stage |-> "idle", copy |-> 0]

Doing(w, stage) == task[w].stage = stage

Finishes(w) == task' = [task EXCEPT ![w] = NoTask]

IsPublished(v) == publishedAt # 0 /\ publishedAt <= v

-----------------------------------------------------------------------------
\* A use case commits a write of the gig; one of them publishes it.
CommitWrite ==
    /\ version < MaxVersion
    /\ version' = version + 1
    /\ \/ UNCHANGED publishedAt
       \/ version > 0 /\ publishedAt = 0 /\ publishedAt' = version'
    /\ UNCHANGED <<cache, task, tasks, requested, shown, early>>

Starts(w, new) ==
    /\ Doing(w, "idle")
    /\ tasks < MaxTasks
    /\ tasks' = tasks + 1
    /\ task' = [task EXCEPT ![w] = new]

\* Faulty: the row is read from a replica that can be a write behind.
CopiesOfReplica == {v \in Versions : v \in {version - 1, version}}

\* What is loaded is the row as it is now.
CopiesOfRow == {version}

\* After its write a use case has loaded the gig, published or not, and requested
\* its projection; the consumer stores that copy whenever it comes to it.
BeginProjection(w) ==
    /\ version > 0
    /\ \E copy \in CopiesOfRow :
        /\ Starts(w, [kind |-> "projection", stage |-> "store", copy |-> copy])
        /\ requested' = requested \cup {copy}
    /\ early' = early \ {w}
    /\ UNCHANGED <<gig, cache, shown>>

\* The read model has a copy: it is shown as it is.
ReadHit(w) ==
    /\ cache # 0
    /\ tasks < MaxTasks /\ Doing(w, "idle")
    /\ tasks' = tasks + 1
    /\ shown' = shown \cup {cache}
    /\ UNCHANGED <<gig, cache, task, requested, early>>

ReadMiss(w) ==
    /\ cache = 0
    /\ Starts(w, [kind |-> "read", stage |-> "load", copy |-> 0])
    /\ UNCHANGED <<gig, cache, requested, shown, early>>

\* Faulty: the status is not looked at.
AnyStatus(v) == TRUE

MayBeShown(v) == IsPublished(v)

\* The row is there and published, or the gig is not found.
LoadRow(w) ==
    /\ Doing(w, "load")
    /\ IF version > 0 /\ MayBeShown(version)
       THEN \E copy \in CopiesOfRow :
                task' = [task EXCEPT ![w].stage = "store", ![w].copy = copy]
       ELSE Finishes(w)
    /\ early' = early \ {w}
    /\ UNCHANGED <<gig, cache, tasks, requested, shown>>

CopyStored(w) == cache' = task[w].copy

Answers(w) == IF task[w].kind = "read" THEN {task[w].copy} ELSE {}

\* The copy is stored; only then a read answers with it.
StoreCopy(w) ==
    /\ Doing(w, "store")
    /\ CopyStored(w)
    /\ shown' = shown \cup Answers(w)
    /\ early' = {v \in Handlers \ {w} : Doing(v, "store")}
    /\ Finishes(w)
    /\ UNCHANGED <<gig, tasks, requested>>

\* A call returns an error; that of Redis may have stored the copy.
TaskFails(w) ==
    /\ ~Doing(w, "idle")
    /\ \/ UNCHANGED <<cache, early>>
       \/ /\ Doing(w, "store")
          /\ CopyStored(w)
          /\ early' = {v \in Handlers \ {w} : Doing(v, "store")}
    /\ Finishes(w)
    /\ UNCHANGED <<gig, tasks, requested, shown>>

-----------------------------------------------------------------------------
PublicInit ==
    /\ version = 0
    /\ publishedAt = 0
    /\ cache = 0
    /\ task = [w \in Handlers |-> NoTask]
    /\ tasks = 0
    /\ requested = {}
    /\ shown = {}
    /\ early = {}

PublicNext ==
    \/ CommitWrite
    \/ \E w \in Handlers :
        \/ BeginProjection(w)
        \/ ReadHit(w)
        \/ ReadMiss(w)
        \/ LoadRow(w)
        \/ StoreCopy(w)
        \/ TaskFails(w)

PublicSpec == PublicInit /\ [][PublicNext]_publicVars

-----------------------------------------------------------------------------
\* Every variable stays in its type.
PublicTypeOK ==
    /\ version \in Versions
    /\ publishedAt \in Versions
    /\ cache \in Versions
    /\ task \in [Handlers -> Task]
    /\ tasks \in 0 .. MaxTasks
    /\ requested \in SUBSET Versions
    /\ shown \in SUBSET Versions
    /\ early \in SUBSET Handlers

\* The public sees a draft only as a copy that a projection has left in the read
\* model; a read never stores or shows one of its own accord.
DraftsComeFromProjections ==
    /\ \A v \in shown : IsPublished(v) \/ v \in requested
    /\ cache = 0 \/ IsPublished(cache) \/ cache \in requested

\* The read model goes back to an older copy only through a read or a projection that
\* had its copy before the newer one was stored; one that loads later cannot undo it.
RegressionNeedsOverlap ==
    [][cache' < cache => \E w \in Handlers : Doing(w, "store") /\ w \in early /\ ~Doing(w, "store")']_publicVars
=============================================================================
