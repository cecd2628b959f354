---------------------------- MODULE PreviewWindows ----------------------------
(***************************************************************************)
(* The preview windows of one seller in Redis.  A window is a sorted set   *)
(* of gig ids; the preview of a gig is kept under a key of its own that    *)
(* the windows and the list of the owner share.                            *)
(*                                                                         *)
(* AppendPreviewGig (internal/application/service.go and                   *)
(* internal/infra/read/redis/repository.go) puts a gig into the last       *)
(* window under a lease that Redis takes back after 15 s.                  *)
(* GetPreviewGigsByFreelancerUsername (preview.go) writes window 0 anew    *)
(* without the lease.  A window is written by a pipeline: first its key is *)
(* deleted, then previews and ids are set.  Window TTLs are on.            *)
(*                                                                         *)
(* UpsertPreviewGig is one step here; OrderCounts has it call by call.     *)
(***************************************************************************)
EXTENDS Integers, FiniteSets, FiniteSetsExt

CONSTANTS Workers,    \* goroutines: projection handlers and page reads
          Gigs,
          WindowSize, \* gigs in a window that is not window 0
          MaxWindow,  \* bound: the last window that can be opened
          MaxJobs,    \* bound: messages and page reads
          Free,       \* nobody has the lease
          Lost        \* a token whose holder has gone without releasing it

ASSUME PreviewWindowsAssumption ==
    /\ WindowSize \in Nat \ {0}
    /\ MaxWindow \in Nat /\ MaxJobs \in Nat
    /\ Free # Lost /\ {Free, Lost} \cap Workers = {}
    /\ IsFiniteSet(Gigs)

VARIABLES published, \* published gigs of the seller in the database
          preview,   \* preview[g]: absent, kept, or kept under a TTL
          window,    \* window[k]: ids in window k; {} when the key is gone
          owned,     \* the owner index
          lease,     \* the token stored under the lease key
          job,       \* job[w]: what goroutine w does
          jobs,      \* jobs begun
          tailed     \* history: gigs an append has written under the TTL

redis == <<preview, window, owned, lease>>
windowVars == <<published, redis, job, jobs, tailed>>

Windows == 0 .. MaxWindow

Listed == UNION {window[k] : k \in Windows}

Live(k) == {g \in window[k] : preview[g] # "absent"}

Stages == {"idle", "own", "seed", "look", "list", "fill", "wipe", "rebuild",
           "lease", "scan", "read", "clear", "rewrite", "release"}

\* gig: the one to append, or none for a page read; live: its copy is published;
\* todo: windows still to look at; target, content, ttl: what to write; late: the
\* lease ran out; raced: somebody without the lease wrote a window after the scan;
\* unseen: ids of the target that had no preview.
Job == [stage : Stages, gig : SUBSET Gigs, live : BOOLEAN, todo : SUBSET Windows,
        target : Windows, content : SUBSET Gigs, ttl : BOOLEAN,
        late : BOOLEAN, raced : BOOLEAN, unseen : SUBSET Gigs]

Idle == [stage |-> "idle", gig |-> {}, live |-> FALSE, todo |-> {}, target |-> 0,
         content |-> {}, ttl |-> FALSE, late |-> FALSE, raced |-> FALSE, unseen |-> {}]

-----------------------------------------------------------------------------
At(w, stage) == job[w].stage = stage

Goes(w, stage) == job' = [job EXCEPT ![w].stage = stage]

Ends(w) == job' = [job EXCEPT ![w] = Idle]

InLease(w) == job[w].stage \in {"scan", "read", "clear", "rewrite", "release"}

Begins(w, new) ==
    /\ At(w, "idle")
    /\ jobs < MaxJobs
    /\ jobs' = jobs + 1
    /\ job' = [job EXCEPT ![w] = new]

\* The use case Publish; a published gig stays so.
Publish(g) ==
    /\ g \notin published
    /\ published' = published \cup {g}
    /\ UNCHANGED <<redis, job, jobs, tailed>>

\* A preview projection with a copy of g; the copy may be older than the row.
BeginAppend(w, g) ==
    /\ \E live \in BOOLEAN :
        /\ live => g \in published
        /\ Begins(w, [Idle EXCEPT !.stage = "seed", !.gig = {g}, !.live = live])
    /\ UNCHANGED <<published, redis, tailed>>

BeginPage(w) ==
    /\ Begins(w, [Idle EXCEPT !.stage = "list"])
    /\ UNCHANGED <<published, redis, tailed>>

Upserted(gigs) ==
    /\ preview' = [g \in Gigs |-> IF g \in gigs THEN "kept" ELSE preview[g]]
    /\ owned' = owned \cup gigs

\* GetMyGigs finds no preview of the owner's gigs: it makes them one after the other,
\* of drafts too.
BeginOwnerList(w) ==
    /\ \A g \in owned : preview[g] = "absent"
    /\ Begins(w, [Idle EXCEPT !.stage = "own", !.content = Gigs])
    /\ UNCHANGED <<published, redis, tailed>>

Without(j, g) ==
    IF j.content = {g} THEN Idle ELSE [j EXCEPT !.content = j.content \ {g}]

PreviewOwned(w) ==
    /\ At(w, "own")
    /\ \E g \in job[w].content :
        /\ Upserted({g})
        /\ job' = [job EXCEPT ![w] = Without(job[w], g)]
    /\ UNCHANGED <<published, window, lease, jobs, tailed>>

\* Faulty: a preview projection goes into the windows whatever its copy says.
EveryCopy(w) == TRUE

CopyIsLive(w) == job[w].live

\* AppendPreviewGig of the service: the preview is refreshed, and a copy that
\* is not published goes no further.
Seed(w) ==
    /\ At(w, "seed")
    /\ Upserted(job[w].gig)
    /\ IF CopyIsLive(w) THEN Goes(w, "look") ELSE Ends(w)
    /\ UNCHANGED <<published, window, lease, jobs, tailed>>

\* Window 0 is looked at twice; only if it shows nothing both times it is
\* rebuilt first.
Look(w) ==
    /\ At(w, "look")
    /\ Goes(w, IF Live(0) # {} THEN "lease" ELSE "list")
    /\ UNCHANGED <<published, redis, jobs, tailed>>

-----------------------------------------------------------------------------
(***************************************************************************)
(* A page of the seller's gigs, whose side effect is to rewrite window 0.  *)
(***************************************************************************)
\* A page read ends, an append goes on.
AfterPage(w) == IF job[w].gig = {} THEN Idle ELSE [job[w] EXCEPT !.stage = "lease"]

ListPublished(w) ==
    /\ At(w, "list")
    /\ job' = [job EXCEPT ![w] = IF published = {} THEN AfterPage(w)
                                ELSE [@ EXCEPT !.stage = "fill", !.content = published]]
    /\ UNCHANGED <<published, redis, jobs, tailed>>

\* Gigs without a preview get one.
FillPreviews(w) ==
    /\ At(w, "fill")
    /\ Upserted({g \in job[w].content : preview[g] = "absent"})
    /\ Goes(w, "wipe")
    /\ UNCHANGED <<published, window, lease, jobs, tailed>>

\* The two halves of UpsertPreviewWindow, which other clients can come between.
Cleared(k) == window' = [window EXCEPT ![k] = {}]

\* SET without a TTL takes an earlier TTL away, SET with one gives it to all.
Written(k, content, ttl) ==
    /\ preview' = [g \in Gigs |-> IF g \notin content THEN preview[g]
                                  ELSE IF ttl THEN "expiring" ELSE "kept"]
    /\ window' = [window EXCEPT ![k] = @ \cup content]

\* job with goroutine w ahead as next says, and all that hold the lease warned.
Overtaken(next) ==
    [v \in Workers |-> IF job[v].stage \in {"read", "clear"}
                       THEN [next[v] EXCEPT !.raced = TRUE] ELSE next[v]]

Wipe(w) ==
    /\ At(w, "wipe")
    /\ Cleared(0)
    /\ Goes(w, "rebuild")
    /\ UNCHANGED <<published, preview, owned, lease, jobs, tailed>>

\* Faulty: the rebuild writes under the TTL of the other windows.
RebuildTTL == TRUE

\* Window 0 and what it shows do not expire.
NoTTL == FALSE

Rebuild(w) ==
    /\ At(w, "rebuild")
    /\ Written(0, job[w].content, NoTTL)
    /\ job' = Overtaken([job EXCEPT ![w] = AfterPage(w)])
    /\ UNCHANGED <<published, owned, lease, jobs, tailed>>

-----------------------------------------------------------------------------
(***************************************************************************)
(* AppendPreviewGig of the repository.                                     *)
(***************************************************************************)

LeaseIsFree == lease = Free

TakeLease(w) ==
    /\ At(w, "lease")
    /\ LeaseIsFree
    /\ lease' = w
    /\ Goes(w, "scan")
    /\ UNCHANGED <<published, preview, window, owned, jobs, tailed>>

\* The handler gets an error, and its message a dead letter.
LeaseIsBusy(w) ==
    /\ At(w, "lease")
    /\ ~LeaseIsFree
    /\ Ends(w)
    /\ UNCHANGED <<published, redis, jobs, tailed>>

LeaseExpires ==
    /\ lease # Free
    /\ lease' = Free
    /\ job' = [w \in Workers |-> IF lease = w THEN [job[w] EXCEPT !.late = TRUE] ELSE job[w]]
    /\ UNCHANGED <<published, preview, window, owned, jobs, tailed>>

Writes(w, k, content, ttl, unseen) ==
    job' = [job EXCEPT ![w].stage = "clear", ![w].target = k, ![w].content = content,
                       ![w].ttl = ttl, ![w].unseen = unseen, ![w].todo = {}]

\* Without any window, window 0 is opened for good.
Scan(w) ==
    LET open == {k \in Windows : window[k] # {}} IN
    /\ At(w, "scan")
    /\ IF open = {} THEN Writes(w, 0, job[w].gig, FALSE, {})
       ELSE job' = [job EXCEPT ![w].stage = "read", ![w].todo = open, ![w].target = Max(open)]
    /\ UNCHANGED <<published, redis, jobs, tailed>>

\* Faulty: the tail is written with the new gig alone.
NothingElse(k) == {}

\* What the tail shows is written again, with the new gig.
Current(k) == Live(k)

\* The next window: does it show the gig, is it the tail and has it room, or are
\* there more?  After the last one a new window is opened.
ReadWindow(w) ==
    LET k == Min(job[w].todo)
        tail == job[w].target
        rest == job[w].todo \ {k}
    IN
    /\ At(w, "read")
    /\ IF job[w].gig \subseteq Live(k) THEN Goes(w, "release")
       ELSE IF k = tail /\ window[k] # {} /\ Cardinality(Live(k)) < WindowSize
       THEN Writes(w, k, Current(k) \cup job[w].gig, TRUE, window[k] \ Live(k))
       ELSE IF rest # {} THEN job' = [job EXCEPT ![w].todo = rest]
       ELSE tail < MaxWindow /\ Writes(w, tail + 1, job[w].gig, TRUE, {})
    /\ UNCHANGED <<published, redis, jobs, tailed>>

Clear(w) ==
    /\ At(w, "clear")
    /\ Cleared(job[w].target)
    /\ Goes(w, "rewrite")
    /\ UNCHANGED <<published, preview, owned, lease, jobs, tailed>>

Rewrite(w) ==
    LET next == [job EXCEPT ![w].stage = "release"] IN
    /\ At(w, "rewrite")
    /\ Written(job[w].target, job[w].content, job[w].ttl)
    /\ job' = IF job[w].late THEN Overtaken(next) ELSE next
    /\ tailed' = IF job[w].ttl THEN tailed \cup job[w].content ELSE tailed
    /\ UNCHANGED <<published, owned, lease, jobs>>

\* Faulty: the lease is deleted whoever has it.
WithoutToken(w) == Free

\* The lease is deleted if it still holds the token of w.
ReleasedBy(w) == IF lease = w THEN Free ELSE lease

Release(w) ==
    /\ At(w, "release")
    /\ lease' = ReleasedBy(w)
    /\ Ends(w)
    /\ UNCHANGED <<published, preview, window, owned, jobs, tailed>>

-----------------------------------------------------------------------------
(***************************************************************************)
(* Expiry and failure.                                                     *)
(***************************************************************************)
WindowExpires(k) ==
    /\ k > 0 /\ window[k] # {}
    /\ window' = [window EXCEPT ![k] = {}]
    /\ UNCHANGED <<published, preview, owned, lease, job, jobs, tailed>>

PreviewExpires(g) ==
    /\ preview[g] = "expiring"
    /\ preview' = [preview EXCEPT ![g] = "absent"]
    /\ UNCHANGED <<published, window, owned, lease, job, jobs, tailed>>

LeaseLost(w) == IF lease = w THEN Lost ELSE lease

\* A call returns an error.  Under the lease, it is released; elsewhere the job
\* ends, but an error while window 0 is rebuilt is overlooked.
Fail(w) ==
    /\ IF InLease(w) /\ ~At(w, "release") THEN Goes(w, "release") /\ UNCHANGED lease
       ELSE IF job[w].stage \in {"wipe", "rebuild"}
       THEN job' = [job EXCEPT ![w] = AfterPage(w)] /\ UNCHANGED lease
       ELSE Ends(w) /\ lease' \in {LeaseLost(w)} \cup
                (IF At(w, "lease") /\ LeaseIsFree THEN {Lost} ELSE {})
    /\ ~At(w, "idle")
    /\ UNCHANGED <<published, preview, window, owned, jobs, tailed>>

\* The process stops; its lease stays until it expires.
Stop(w) ==
    /\ InLease(w)
    /\ Ends(w)
    /\ lease' = LeaseLost(w)
    /\ UNCHANGED <<published, preview, window, owned, jobs, tailed>>

-----------------------------------------------------------------------------
WindowsInit ==
    /\ published = {}
    /\ preview = [g \in Gigs |-> "absent"]
    /\ window = [k \in Windows |-> {}]
    /\ owned = {}
    /\ lease = Free
    /\ job = [w \in Workers |-> Idle]
    /\ jobs = 0
    /\ tailed = {}

ServiceStep(w) ==
    \/ BeginPage(w)
    \/ BeginOwnerList(w)
    \/ PreviewOwned(w)
    \/ \E g \in Gigs : BeginAppend(w, g)
    \/ Seed(w)
    \/ Look(w)
    \/ ListPublished(w)
    \/ FillPreviews(w)
    \/ Wipe(w)
    \/ Rebuild(w)

AppendStep(w) ==
    \/ TakeLease(w)
    \/ LeaseIsBusy(w)
    \/ Scan(w)
    \/ ReadWindow(w)
    \/ Clear(w)
    \/ Rewrite(w)
    \/ Release(w)

WindowsNext ==
    \/ LeaseExpires
    \/ \E g \in Gigs : Publish(g) \/ PreviewExpires(g)
    \/ \E k \in Windows : WindowExpires(k)
    \/ \E w \in Workers : ServiceStep(w) \/ AppendStep(w) \/ Fail(w) \/ Stop(w)

WindowsSpec == WindowsInit /\ [][WindowsNext]_windowVars

-----------------------------------------------------------------------------
\* Every variable stays in its type.
WindowsTypeOK ==
    /\ published \in SUBSET Gigs
    /\ preview \in [Gigs -> {"absent", "kept", "expiring"}]
    /\ window \in [Windows -> SUBSET Gigs]
    /\ owned \in SUBSET Gigs
    /\ lease \in Workers \cup {Free, Lost}
    /\ job \in [Workers -> Job]
    /\ jobs \in 0 .. MaxJobs
    /\ tailed \in SUBSET Gigs

\* A window never shows a gig that is not published, though projections come for
\* drafts too and windows are written from copies of several readers.
WindowsHoldPublished == Listed \subseteq published

\* GigPreviewLeaseKey (repository.go:707) serializes the appends of a seller: of two
\* between taking and releasing the lease, one has outlived its 15 s, and such a
\* one cannot release the lease of the other.
OneLeaseHolder ==
    \A v, w \in Workers :
        v # w /\ InLease(v) /\ InLease(w) => job[v].late \/ job[w].late

\* An append that rewrites a window keeps the gigs it holds, those of other appends
\* included, unless its lease ran out, a writer without the lease came after its
\* scan, or the preview of the gig had expired when it read the window.
AppendKeepsWindow ==
    \A w \in Workers :
        At(w, "clear") /\ ~job[w].late /\ ~job[w].raced =>
            window[job[w].target] \subseteq job[w].content \cup job[w].unseen

\* The owner's list, which is answered from Redis as long as it shows anything, lacks
\* a gig that it had only when an append had put the preview of that gig under the TTL.
OwnerListLosesOnlyTailed ==
    \A g \in Gigs :
        (g \in owned /\ preview[g] = "absent") \/ preview[g] = "expiring" => g \in tailed
=============================================================================
