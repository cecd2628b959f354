------------------------- MODULE PreviewWindowsProofs -------------------------
(***************************************************************************)
(* Windows hold published gigs only, and one append at a time has a valid  *)
(* lease: for any number of goroutines, gigs, windows and jobs.            *)
(***************************************************************************)
EXTENDS PreviewWindows, WellFoundedInduction, TLAPS

\* A set of windows that is not empty has a first and a last one.
LEMMA SomeLeast ==
    ASSUME NEW S \in SUBSET Nat, S # {}
    PROVE  \E x \in S : \A y \in S : x <= y
<1> DEFINE less == OpToRel(<, Nat)
<1>1. \E x \in S : \A y \in S : ~(<<y, x>> \in less)
  BY NatLessThanWellFounded, WFMin
<1>2. \A x, y \in Nat : ~(<<y, x>> \in less) => x <= y
  BY DEF OpToRel
<1>3. QED
  BY <1>1, <1>2

LEMMA FirstWindow ==
    ASSUME NEW S \in SUBSET Windows, S # {}
    PROVE  Min(S) \in S
<1>1. S \in SUBSET Nat
  BY PreviewWindowsAssumption DEF Windows
<1>2. \E x \in S : \A y \in S : x =< y
  BY <1>1, SomeLeast
<1>3. QED
  BY <1>2 DEF Min

LEMMA LastWindow ==
    ASSUME NEW S \in SUBSET Windows, S # {}
    PROVE  Max(S) \in S /\ \A y \in S : Max(S) >= y
<1> DEFINE T == {MaxWindow - x : x \in S}
<1>1. \A x \in S : x \in Nat /\ MaxWindow - x \in Nat /\ MaxWindow \in Nat
  BY PreviewWindowsAssumption DEF Windows
<1>2. T \in SUBSET Nat /\ T # {}
  BY <1>1
<1>3. PICK t \in T : \A u \in T : t <= u
  BY <1>2, SomeLeast
<1>4. PICK x \in S : t = MaxWindow - x
  OBVIOUS
<1>5. \A y \in S : x >= y
  <2> SUFFICES ASSUME NEW y \in S PROVE x >= y
    OBVIOUS
  <2>1. MaxWindow - x <= MaxWindow - y
    BY <1>3, <1>4
  <2>2. QED
    BY <1>1, <2>1
<1>6. QED
  BY <1>5 DEF Max

-----------------------------------------------------------------------------
(***************************************************************************)
(* The inductive invariant.  A window is written from what a goroutine     *)
(* carries, and the lease is known by who is between taking and releasing  *)
(* it; so both must be said of the jobs.                                   *)
(***************************************************************************)

LeaseStages == {"scan", "read", "clear", "rewrite", "release"}

Writing == {"fill", "wipe", "rebuild", "clear", "rewrite"}

Tokens == Workers \cup {Free, Lost}

\* Once its copy was found to be published, the gig of a job is; so are those it
\* has loaded or read from a window to write them.
JobSafe(j, pub) ==
    /\ j.stage # "seed" \/ j.live => j.gig \subseteq pub
    /\ j.stage \in Writing => j.content \subseteq pub
    /\ j.stage = "read" => j.todo # {}

\* Who works under the lease and has not outlived it has its token there.
HoldsLease(j, w, token) == j.stage \in LeaseStages /\ ~j.late => token = w

WindowInvariant ==
    /\ WindowsTypeOK
    /\ WindowsHoldPublished
    /\ \A w \in Workers : JobSafe(job[w], published)
    /\ \A w \in Workers : HoldsLease(job[w], w, lease)

\* Two jobs that JobSafe and HoldsLease do not tell apart.
Alike(i, j) ==
    /\ i.stage = j.stage /\ i.gig = j.gig /\ i.live = j.live
    /\ i.todo = j.todo /\ i.content = j.content /\ i.late = j.late

LEMMA WindowsStart == WindowsInit => WindowInvariant
<1> SUFFICES ASSUME WindowsInit PROVE WindowInvariant
  OBVIOUS
<1>1. Idle \in Job
  BY PreviewWindowsAssumption DEF Idle, Job, Stages, Windows
<1>2. WindowsTypeOK
  BY <1>1, PreviewWindowsAssumption DEF WindowsInit, WindowsTypeOK
<1>3. WindowsHoldPublished
  BY DEF WindowsInit, WindowsHoldPublished, Listed
<1>4. \A w \in Workers : JobSafe(job[w], published) /\ HoldsLease(job[w], w, lease)
  BY DEF WindowsInit, JobSafe, HoldsLease, LeaseStages, Writing, Idle
<1>5. QED
  BY <1>2, <1>3, <1>4 DEF WindowInvariant

\* A step in which goroutine w goes on as new says, and the others at most learn that
\* a window was written behind their backs.
LEMMA OneGoesOn ==
    ASSUME WindowInvariant, WindowsTypeOK', WindowsHoldPublished',
           NEW w \in Workers, NEW new,
           Alike(job'[w], new),
           \A v \in Workers \ {w} : Alike(job'[v], job[v]),
           JobSafe(new, published), HoldsLease(new, w, lease'),
           lease' = lease \/ lease \in {w, Free, Lost},
           UNCHANGED published
    PROVE  WindowInvariant'
<1>1. ASSUME NEW v \in Workers
      PROVE  JobSafe(job'[v], published') /\ HoldsLease(job'[v], v, lease')
  <2>1. CASE v = w
    BY <2>1 DEF Alike, JobSafe, HoldsLease
  <2>2. CASE v # w
    <3>1. JobSafe(job[v], published) /\ HoldsLease(job[v], v, lease) /\ Alike(job'[v], job[v])
      BY <2>2 DEF WindowInvariant
    <3>2. JobSafe(job'[v], published')
      BY <3>1 DEF Alike, JobSafe
    <3>3. v \notin {w, Free, Lost}
      BY <2>2, PreviewWindowsAssumption
    <3>4. HoldsLease(job'[v], v, lease')
      BY <3>1, <3>3 DEF Alike, HoldsLease
    <3>5. QED
      BY <3>2, <3>4
  <2>3. QED
    BY <2>1, <2>2
<1>2. QED
  BY <1>1 DEF WindowInvariant

LEMMA OneJob ==
    ASSUME WindowsTypeOK, NEW w \in Workers, NEW new \in Job,
           job' = [job EXCEPT ![w] = new]
    PROVE  /\ job' \in [Workers -> Job]
           /\ Alike(job'[w], new)
           /\ \A v \in Workers \ {w} : Alike(job'[v], job[v])
BY DEF WindowsTypeOK, Alike

\* ... and no window is written.
LEMMA OneMoves ==
    ASSUME WindowInvariant, NEW w \in Workers, NEW new \in Job,
           job' = [job EXCEPT ![w] = new],
           JobSafe(new, published), HoldsLease(new, w, lease'),
           lease' = lease \/ lease \in {w, Free, Lost},
           lease' \in Tokens,
           preview' \in [Gigs -> {"absent", "kept", "expiring"}],
           owned' \in SUBSET Gigs, jobs' \in 0 .. MaxJobs,
           UNCHANGED <<published, window, tailed>>
    PROVE  WindowInvariant'
<1>1. /\ job' \in [Workers -> Job]
      /\ Alike(job'[w], new)
      /\ \A v \in Workers \ {w} : Alike(job'[v], job[v])
  BY OneJob DEF WindowInvariant
<1>2. WindowsTypeOK'
  BY <1>1 DEF WindowInvariant, WindowsTypeOK, Tokens
<1>3. WindowsHoldPublished'
  BY DEF WindowInvariant, WindowsHoldPublished, Listed
<1>4. QED
  BY <1>1, <1>2, <1>3, OneGoesOn

\* ... and nothing is written at all.
LEMMA OneSteps ==
    ASSUME WindowInvariant, NEW w \in Workers, NEW new \in Job,
           job' = [job EXCEPT ![w] = new],
           JobSafe(new, published), HoldsLease(new, w, lease),
           UNCHANGED <<published, redis, jobs, tailed>>
    PROVE  WindowInvariant'
<1>1. /\ UNCHANGED <<published, window, tailed, lease, preview, owned, jobs>>
      /\ preview' \in [Gigs -> {"absent", "kept", "expiring"}]
      /\ owned' \in SUBSET Gigs /\ jobs' \in 0 .. MaxJobs /\ lease' \in Tokens
  BY DEF redis, WindowInvariant, WindowsTypeOK, Tokens
<1>2. QED
  BY <1>1, OneMoves

\* What the invariant says of one goroutine.
LEMMA JobOf ==
    ASSUME WindowInvariant, NEW w \in Workers
    PROVE  job[w] \in Job /\ JobSafe(job[w], published) /\ HoldsLease(job[w], w, lease)
BY DEF WindowInvariant, WindowsTypeOK

\* A job that goes to another stage.
LEMMA OtherStage ==
    ASSUME NEW j \in Job, NEW stage \in Stages
    PROVE  /\ [j EXCEPT !.stage = stage] \in Job
           /\ [j EXCEPT !.stage = stage].stage = stage
           /\ [j EXCEPT !.stage = stage].gig = j.gig
           /\ [j EXCEPT !.stage = stage].live = j.live
           /\ [j EXCEPT !.stage = stage].todo = j.todo
           /\ [j EXCEPT !.stage = stage].content = j.content
           /\ [j EXCEPT !.stage = stage].late = j.late
BY DEF Job

\* An idle goroutine satisfies everything.
LEMMA IdleIsSafe ==
    Idle \in Job /\ JobSafe(Idle, published) /\ \A w, token : HoldsLease(Idle, w, token)
BY PreviewWindowsAssumption
   DEF Idle, Job, Stages, Windows, JobSafe, HoldsLease, LeaseStages, Writing

-----------------------------------------------------------------------------
(***************************************************************************)
(* The actions of the service.                                             *)
(***************************************************************************)

LEMMA PublishKeeps ==
    ASSUME WindowInvariant, NEW g \in Gigs, Publish(g)
    PROVE  WindowInvariant'
<1>1. published' = published \cup {g} /\ UNCHANGED <<preview, window, owned, lease, job, jobs, tailed>>
  BY DEF Publish, redis
<1>2. WindowsTypeOK'
  BY <1>1 DEF WindowInvariant, WindowsTypeOK
<1>3. WindowsHoldPublished'
  BY <1>1 DEF WindowInvariant, WindowsHoldPublished, Listed
<1>4. \A w \in Workers : JobSafe(job'[w], published')
  BY <1>1 DEF WindowInvariant, JobSafe
<1>5. \A w \in Workers : HoldsLease(job'[w], w, lease')
  BY <1>1 DEF WindowInvariant
<1>6. QED
  BY <1>2, <1>3, <1>4, <1>5 DEF WindowInvariant

\* A new job with nothing to write yet.
LEMMA BeginKeeps ==
    ASSUME WindowInvariant, NEW w \in Workers, NEW new \in Job, Begins(w, new),
           UNCHANGED <<published, redis, tailed>>,
           JobSafe(new, published), new.stage \notin LeaseStages
    PROVE  WindowInvariant'
<1>1. job' = [job EXCEPT ![w] = new] /\ jobs < MaxJobs /\ jobs' = jobs + 1
  BY DEF Begins
<1>2. /\ UNCHANGED <<published, window, tailed, lease, preview, owned>>
      /\ preview' \in [Gigs -> {"absent", "kept", "expiring"}]
      /\ owned' \in SUBSET Gigs /\ lease' \in Tokens
  BY DEF redis, WindowInvariant, WindowsTypeOK, Tokens
<1>3. jobs' \in 0 .. MaxJobs
  BY <1>1, PreviewWindowsAssumption DEF WindowInvariant, WindowsTypeOK
<1>4. HoldsLease(new, w, lease')
  BY DEF HoldsLease
<1>5. QED
  BY <1>1, <1>2, <1>3, <1>4, OneMoves

LEMMA BeginAppendKeeps ==
    ASSUME WindowInvariant, NEW w \in Workers, NEW g \in Gigs, BeginAppend(w, g)
    PROVE  WindowInvariant'
<1>1. PICK live \in BOOLEAN :
        /\ live => g \in published
        /\ Begins(w, [Idle EXCEPT !.stage = "seed", !.gig = {g}, !.live = live])
  BY DEF BeginAppend
<1> DEFINE new == [Idle EXCEPT !.stage = "seed", !.gig = {g}, !.live = live]
<1>0. Idle \in Job
  BY IdleIsSafe
<1>2. new \in Job /\ new.stage = "seed" /\ new.gig = {g} /\ new.live = live
  BY <1>0 DEF Job, Stages
<1> HIDE DEF new
<1>3. JobSafe(new, published) /\ new.stage \notin LeaseStages
  BY <1>1, <1>2 DEF JobSafe, Writing, LeaseStages
<1>4. Begins(w, new) /\ UNCHANGED <<published, redis, tailed>>
  BY <1>1 DEF BeginAppend, new
<1>5. QED
  BY <1>2, <1>3, <1>4, BeginKeeps

LEMMA BeginPageKeeps ==
    ASSUME WindowInvariant, NEW w \in Workers, BeginPage(w)
    PROVE  WindowInvariant'
<1> DEFINE new == [Idle EXCEPT !.stage = "list"]
<1>0. Idle \in Job /\ Idle.gig = {}
  BY IdleIsSafe DEF Idle
<1>1. new \in Job /\ new.stage = "list" /\ new.gig = {}
  BY <1>0 DEF Job, Stages
<1>2. Begins(w, new) /\ UNCHANGED <<published, redis, tailed>>
  BY DEF BeginPage
<1> HIDE DEF new
<1>3. JobSafe(new, published) /\ new.stage \notin LeaseStages
  BY <1>1 DEF JobSafe, Writing, LeaseStages
<1>4. QED
  BY <1>1, <1>2, <1>3, BeginKeeps

LEMMA BeginOwnerListKeeps ==
    ASSUME WindowInvariant, NEW w \in Workers, BeginOwnerList(w)
    PROVE  WindowInvariant'
<1> DEFINE new == [Idle EXCEPT !.stage = "own", !.content = Gigs]
<1>0. Idle \in Job /\ Idle.gig = {}
  BY IdleIsSafe DEF Idle
<1>1. new \in Job /\ new.stage = "own" /\ new.gig = {}
  BY <1>0 DEF Job, Stages
<1>2. Begins(w, new) /\ UNCHANGED <<published, redis, tailed>>
  BY DEF BeginOwnerList
<1> HIDE DEF new
<1>3. JobSafe(new, published) /\ new.stage \notin LeaseStages
  BY <1>1 DEF JobSafe, Writing, LeaseStages
<1>4. QED
  BY <1>1, <1>2, <1>3, BeginKeeps

\* Previews are refreshed while a job goes on outside the lease.
LEMMA UpsertKeeps ==
    ASSUME WindowInvariant, NEW w \in Workers, NEW new \in Job,
           job' = [job EXCEPT ![w] = new],
           NEW gigs \in SUBSET Gigs, Upserted(gigs),
           UNCHANGED <<published, window, lease, jobs, tailed>>,
           JobSafe(new, published), new.stage \notin LeaseStages
    PROVE  WindowInvariant'
<1>1. /\ preview' \in [Gigs -> {"absent", "kept", "expiring"}] /\ owned' \in SUBSET Gigs
      /\ jobs' \in 0 .. MaxJobs /\ lease' \in Tokens
  BY DEF Upserted, WindowInvariant, WindowsTypeOK, Tokens
<1>2. HoldsLease(new, w, lease')
  BY DEF HoldsLease
<1>3. QED
  BY <1>1, <1>2, OneMoves

LEMMA PreviewOwnedKeeps ==
    ASSUME WindowInvariant, NEW w \in Workers, PreviewOwned(w)
    PROVE  WindowInvariant'
<1>1. PICK g \in job[w].content :
        Upserted({g}) /\ job' = [job EXCEPT ![w] = Without(job[w], g)]
  BY DEF PreviewOwned
<1>2. job[w] \in Job /\ JobSafe(job[w], published)
  BY JobOf
<1>3. {g} \in SUBSET Gigs
  BY <1>2 DEF Job
<1>4. At(w, "own") /\ UNCHANGED <<published, window, lease, jobs, tailed>>
  BY DEF PreviewOwned
<1> DEFINE new == Without(job[w], g)
<1>5. new \in Job /\ JobSafe(new, published) /\ new.stage \notin LeaseStages
  <2>1. CASE job[w].content = {g}
    <3>1. new = Idle
      BY <2>1 DEF Without
    <3>2. QED
      BY <3>1, IdleIsSafe DEF Idle, LeaseStages
  <2>2. CASE job[w].content # {g}
    <3> DEFINE rest == [job[w] EXCEPT !.content = job[w].content \ {g}]
    <3>1. new = rest
      BY <2>2 DEF Without
    <3>2. rest \in Job /\ rest.stage = job[w].stage /\ rest.gig = job[w].gig
      BY <1>2 DEF Job
    <3> HIDE DEF rest, new
    <3>3. rest.stage = "own" /\ rest.gig \subseteq published
      BY <1>2, <1>4, <3>2 DEF At, JobSafe
    <3>4. JobSafe(rest, published) /\ rest.stage \notin LeaseStages
      BY <3>3 DEF JobSafe, Writing, LeaseStages
    <3>5. QED
      BY <3>1, <3>2, <3>4
  <2>3. QED
    BY <2>1, <2>2
<1> HIDE DEF new
<1>6. job' = [job EXCEPT ![w] = new]
  BY <1>1 DEF new
<1>7. QED
  BY <1>1, <1>3, <1>4, <1>5, <1>6, UpsertKeeps

LEMMA SeedKeeps ==
    ASSUME WindowInvariant, NEW w \in Workers, Seed(w)
    PROVE  WindowInvariant'
<1>1. /\ At(w, "seed") /\ Upserted(job[w].gig)
      /\ UNCHANGED <<published, window, lease, jobs, tailed>>
  BY DEF Seed
<1>2. job[w] \in Job /\ JobSafe(job[w], published) /\ job[w].gig \in SUBSET Gigs
  BY JobOf DEF Job
<1>3. CASE job[w].live
  <2> DEFINE new == [job[w] EXCEPT !.stage = "look"]
  <2>1. job' = [job EXCEPT ![w] = new]
    BY <1>2, <1>3 DEF Seed, CopyIsLive, Goes, WindowInvariant, WindowsTypeOK
  <2>2. new \in Job /\ new.stage = "look" /\ new.gig = job[w].gig
    BY <1>2, OtherStage DEF Stages
  <2> HIDE DEF new
  <2>3. JobSafe(new, published) /\ new.stage \notin LeaseStages
    BY <1>2, <1>3, <2>2 DEF JobSafe, Writing, LeaseStages
  <2>4. QED
    BY <1>1, <1>2, <2>1, <2>2, <2>3, UpsertKeeps
<1>4. CASE ~job[w].live
  <2>1. job' = [job EXCEPT ![w] = Idle]
    BY <1>4 DEF Seed, CopyIsLive, Ends
  <2>2. Idle \in Job /\ JobSafe(Idle, published) /\ Idle.stage \notin LeaseStages
    BY IdleIsSafe DEF Idle, LeaseStages
  <2>3. QED
    BY <1>1, <1>2, <2>1, <2>2, UpsertKeeps
<1>5. QED
  BY <1>3, <1>4

LEMMA LookKeeps ==
    ASSUME WindowInvariant, NEW w \in Workers, Look(w)
    PROVE  WindowInvariant'
<1>1. PICK stage \in {"lease", "list"} : job' = [job EXCEPT ![w].stage = stage]
  BY DEF Look, Goes
<1>2. job[w] \in Job /\ JobSafe(job[w], published) /\ stage \in Stages
  BY JobOf DEF Stages
<1> DEFINE new == [job[w] EXCEPT !.stage = stage]
<1>3. new \in Job /\ new.stage = stage /\ new.gig = job[w].gig
  BY <1>2, OtherStage
<1>4. job' = [job EXCEPT ![w] = new]
  BY <1>1, <1>2 DEF WindowInvariant, WindowsTypeOK
<1> HIDE DEF new
<1>5. job[w].stage = "look" /\ UNCHANGED <<published, redis, jobs, tailed>>
  BY DEF Look, At
<1>6. JobSafe(new, published) /\ HoldsLease(new, w, lease)
  BY <1>2, <1>3, <1>5 DEF JobSafe, HoldsLease, Writing, LeaseStages
<1>7. QED
  BY <1>3, <1>4, <1>5, <1>6, OneSteps

\* What is left of a job once its page is answered.
LEMMA AfterPageIsSafe ==
    ASSUME WindowInvariant, NEW w \in Workers,
           job[w].stage \in {"list", "wipe", "rebuild"}
    PROVE  /\ AfterPage(w) \in Job
           /\ JobSafe(AfterPage(w), published)
           /\ \A token : HoldsLease(AfterPage(w), w, token)
<1>1. CASE job[w].gig = {}
  BY <1>1, IdleIsSafe DEF AfterPage
<1>2. CASE job[w].gig # {}
  <2>1. job[w] \in Job /\ JobSafe(job[w], published)
    BY JobOf
  <2> DEFINE new == [job[w] EXCEPT !.stage = "lease"]
  <2>2. new \in Job /\ new.stage = "lease" /\ new.gig = job[w].gig
    BY <2>1, OtherStage DEF Stages
  <2>3. AfterPage(w) = new
    BY <1>2 DEF AfterPage
  <2> HIDE DEF new
  <2>4. job[w].gig \subseteq published
    BY <2>1 DEF JobSafe
  <2>5. JobSafe(new, published) /\ \A token : HoldsLease(new, w, token)
    BY <2>2, <2>4 DEF JobSafe, HoldsLease, Writing, LeaseStages
  <2>6. QED
    BY <2>2, <2>3, <2>5
<1>3. QED
  BY <1>1, <1>2

LEMMA ListKeeps ==
    ASSUME WindowInvariant, NEW w \in Workers, ListPublished(w)
    PROVE  WindowInvariant'
<1>1. job[w].stage = "list" /\ UNCHANGED <<published, redis, jobs, tailed>>
  BY DEF ListPublished, At
<1>2. job[w] \in Job /\ JobSafe(job[w], published) /\ published \in SUBSET Gigs
  BY JobOf DEF WindowInvariant, WindowsTypeOK
<1>3. CASE published = {}
  <2>1. job' = [job EXCEPT ![w] = AfterPage(w)]
    BY <1>3 DEF ListPublished
  <2>2. QED
    BY <1>1, <2>1, AfterPageIsSafe, OneSteps
<1>4. CASE published # {}
  <2> DEFINE new == [job[w] EXCEPT !.stage = "fill", !.content = published]
  <2>1. job' = [job EXCEPT ![w] = new]
    BY <1>2, <1>4 DEF ListPublished, WindowInvariant, WindowsTypeOK
  <2>2. new \in Job /\ new.stage = "fill" /\ new.gig = job[w].gig /\ new.content = published
    BY <1>2 DEF Job, Stages
  <2> HIDE DEF new
  <2>3. JobSafe(new, published) /\ HoldsLease(new, w, lease)
    BY <1>1, <1>2, <2>2 DEF JobSafe, HoldsLease, LeaseStages
  <2>4. QED
    BY <1>1, <2>1, <2>2, <2>3, OneSteps
<1>5. QED
  BY <1>3, <1>4

LEMMA FillKeeps ==
    ASSUME WindowInvariant, NEW w \in Workers, FillPreviews(w)
    PROVE  WindowInvariant'
<1> DEFINE absent == {g \in job[w].content : preview[g] = "absent"}
<1>1. /\ job[w].stage = "fill" /\ Upserted(absent)
      /\ UNCHANGED <<published, window, lease, jobs, tailed>>
  BY DEF FillPreviews, At
<1>2. job[w] \in Job /\ JobSafe(job[w], published) /\ absent \in SUBSET Gigs
  BY JobOf DEF Job
<1> DEFINE new == [job[w] EXCEPT !.stage = "wipe"]
<1>3. /\ new \in Job /\ new.stage = "wipe" /\ new.gig = job[w].gig
      /\ new.content = job[w].content
  BY <1>2, OtherStage DEF Stages
<1>4. job' = [job EXCEPT ![w] = new]
  BY <1>2 DEF FillPreviews, Goes, WindowInvariant, WindowsTypeOK
<1> HIDE DEF new, absent
<1>5. JobSafe(new, published) /\ new.stage \notin LeaseStages
  BY <1>1, <1>2, <1>3 DEF JobSafe, Writing, LeaseStages
<1>6. QED
  BY <1>1, <1>2, <1>3, <1>4, <1>5, UpsertKeeps

-----------------------------------------------------------------------------
(***************************************************************************)
(* Writing a window.                                                       *)
(***************************************************************************)

LEMMA ClearedHolds ==
    ASSUME WindowInvariant, NEW k, Cleared(k), UNCHANGED published
    PROVE  window' \in [Windows -> SUBSET Gigs] /\ WindowsHoldPublished'
<1>1. window \in [Windows -> SUBSET Gigs]
  BY DEF WindowInvariant, WindowsTypeOK
<1>2. window' \in [Windows -> SUBSET Gigs] /\ \A n \in Windows : window'[n] \subseteq window[n]
  BY <1>1 DEF Cleared
<1>3. QED
  BY <1>2 DEF WindowInvariant, WindowsHoldPublished, Listed

LEMMA WrittenHolds ==
    ASSUME WindowInvariant, NEW k, NEW content \in SUBSET Gigs, content \subseteq published,
           NEW ttl, Written(k, content, ttl), UNCHANGED published
    PROVE  /\ window' \in [Windows -> SUBSET Gigs] /\ WindowsHoldPublished'
           /\ preview' \in [Gigs -> {"absent", "kept", "expiring"}]
<1>1. window \in [Windows -> SUBSET Gigs] /\ preview \in [Gigs -> {"absent", "kept", "expiring"}]
  BY DEF WindowInvariant, WindowsTypeOK
<1>2. window' = [window EXCEPT ![k] = window[k] \cup content]
  BY DEF Written
<1>3. /\ window' \in [Windows -> SUBSET Gigs]
      /\ \A n \in Windows : window'[n] \subseteq window[n] \cup content
  BY <1>1, <1>2
<1>4. WindowsHoldPublished'
  BY <1>3 DEF WindowInvariant, WindowsHoldPublished, Listed
<1>5. preview' \in [Gigs -> {"absent", "kept", "expiring"}]
  BY <1>1 DEF Written
<1>6. QED
  BY <1>3, <1>4, <1>5

LEMMA OvertakenAlike ==
    ASSUME job \in [Workers -> Job], NEW next \in [Workers -> Job]
    PROVE  /\ Overtaken(next) \in [Workers -> Job]
           /\ \A v \in Workers : Alike(Overtaken(next)[v], next[v])
<1> SUFFICES ASSUME NEW v \in Workers
             PROVE  Overtaken(next)[v] \in Job /\ Alike(Overtaken(next)[v], next[v])
  BY DEF Overtaken
<1>1. next[v] \in Job
  OBVIOUS
<1> DEFINE marked == [next[v] EXCEPT !.raced = TRUE]
<1>2. marked \in Job /\ Alike(marked, next[v]) /\ Alike(next[v], next[v])
  BY <1>1 DEF Job, Alike
<1>3. Overtaken(next)[v] = marked \/ Overtaken(next)[v] = next[v]
  BY DEF Overtaken
<1>4. QED
  BY <1>1, <1>2, <1>3

LEMMA WipeKeeps ==
    ASSUME WindowInvariant, NEW w \in Workers, Wipe(w)
    PROVE  WindowInvariant'
<1>1. /\ job[w].stage = "wipe" /\ Cleared(0)
      /\ UNCHANGED <<published, preview, owned, lease, jobs, tailed>>
  BY DEF Wipe, At
<1>2. job[w] \in Job /\ JobSafe(job[w], published) /\ WindowsTypeOK
  BY JobOf DEF WindowInvariant
<1> DEFINE new == [job[w] EXCEPT !.stage = "rebuild"]
<1>3. /\ new \in Job /\ new.stage = "rebuild" /\ new.gig = job[w].gig
      /\ new.content = job[w].content
  BY <1>2, OtherStage DEF Stages
<1>4. job' = [job EXCEPT ![w] = new]
  BY <1>2 DEF Wipe, Goes, WindowsTypeOK
<1> HIDE DEF new
<1>5. JobSafe(new, published) /\ HoldsLease(new, w, lease')
  BY <1>1, <1>2, <1>3 DEF JobSafe, HoldsLease, Writing, LeaseStages
<1>6. /\ job' \in [Workers -> Job] /\ Alike(job'[w], new)
      /\ \A v \in Workers \ {w} : Alike(job'[v], job[v])
  BY <1>2, <1>3, <1>4, OneJob
<1>7. window' \in [Windows -> SUBSET Gigs] /\ WindowsHoldPublished'
  BY <1>1, ClearedHolds
<1>8. WindowsTypeOK'
  BY <1>1, <1>2, <1>6, <1>7 DEF WindowsTypeOK
<1>9. QED
  BY <1>1, <1>5, <1>6, <1>7, <1>8, OneGoesOn

LEMMA RebuildKeeps ==
    ASSUME WindowInvariant, NEW w \in Workers, Rebuild(w)
    PROVE  WindowInvariant'
<1> DEFINE next == [job EXCEPT ![w] = AfterPage(w)]
<1>1. /\ job[w].stage = "rebuild" /\ Written(0, job[w].content, NoTTL)
      /\ job' = Overtaken(next) /\ UNCHANGED <<published, owned, lease, jobs, tailed>>
  BY DEF Rebuild, At
<1>2. job[w] \in Job /\ JobSafe(job[w], published) /\ WindowsTypeOK
  BY JobOf DEF WindowInvariant
<1>3. /\ AfterPage(w) \in Job /\ JobSafe(AfterPage(w), published)
      /\ HoldsLease(AfterPage(w), w, lease')
  BY <1>1, AfterPageIsSafe
<1>4. job \in [Workers -> Job] /\ next \in [Workers -> Job]
  BY <1>2, <1>3 DEF WindowsTypeOK
<1>5. next[w] = AfterPage(w) /\ \A v \in Workers \ {w} : next[v] = job[v]
  BY <1>4
<1> HIDE DEF next
<1>6. job' \in [Workers -> Job] /\ \A v \in Workers : Alike(job'[v], next[v])
  BY <1>1, <1>4, OvertakenAlike
<1>7. Alike(job'[w], AfterPage(w)) /\ \A v \in Workers \ {w} : Alike(job'[v], job[v])
  BY <1>5, <1>6
<1>8. job[w].content \in SUBSET Gigs /\ job[w].content \subseteq published
  BY <1>1, <1>2 DEF Job, JobSafe, Writing
<1>9. /\ window' \in [Windows -> SUBSET Gigs] /\ WindowsHoldPublished'
      /\ preview' \in [Gigs -> {"absent", "kept", "expiring"}]
  BY <1>1, <1>8, WrittenHolds
<1>10. WindowsTypeOK'
  BY <1>1, <1>2, <1>6, <1>9 DEF WindowsTypeOK
<1>11. QED
  BY <1>1, <1>3, <1>7, <1>9, <1>10, OneGoesOn

-----------------------------------------------------------------------------
(***************************************************************************)
(* The append.                                                             *)
(***************************************************************************)

\* From one stage of the append to another that needs no more.
LEMMA StaysInLease ==
    ASSUME WindowInvariant, NEW w \in Workers, NEW stage \in {"scan", "release"},
           job[w].stage # "seed", job' = [job EXCEPT ![w].stage = stage],
           lease' = w \/ (lease' = lease /\ job[w].stage \in LeaseStages),
           lease' = lease \/ lease = Free,
           UNCHANGED <<published, preview, window, owned, jobs, tailed>>
    PROVE  WindowInvariant'
<1>1. job[w] \in Job /\ JobSafe(job[w], published) /\ HoldsLease(job[w], w, lease)
        /\ WindowsTypeOK /\ stage \in Stages
  BY JobOf DEF WindowInvariant, Stages
<1> DEFINE new == [job[w] EXCEPT !.stage = stage]
<1>2. /\ new \in Job /\ new.stage = stage /\ new.gig = job[w].gig
      /\ new.late = job[w].late
  BY <1>1, OtherStage
<1>3. job' = [job EXCEPT ![w] = new]
  BY <1>1 DEF WindowsTypeOK
<1> HIDE DEF new
<1>4. JobSafe(new, published)
  BY <1>1, <1>2 DEF JobSafe, Writing
<1>5. HoldsLease(new, w, lease')
  BY <1>1, <1>2 DEF HoldsLease
<1>6. /\ preview' \in [Gigs -> {"absent", "kept", "expiring"}] /\ owned' \in SUBSET Gigs
      /\ jobs' \in 0 .. MaxJobs /\ lease' \in Tokens
  BY <1>1 DEF WindowsTypeOK, Tokens
<1>7. QED
  BY <1>2, <1>3, <1>4, <1>5, <1>6, OneMoves

LEMMA TakeKeeps ==
    ASSUME WindowInvariant, NEW w \in Workers, TakeLease(w)
    PROVE  WindowInvariant'
<1>1. /\ job[w].stage = "lease" /\ lease = Free /\ lease' = w
      /\ job' = [job EXCEPT ![w].stage = "scan"]
      /\ UNCHANGED <<published, preview, window, owned, jobs, tailed>>
  BY DEF TakeLease, At, LeaseIsFree, Goes
<1>2. QED
  BY <1>1, StaysInLease

\* A job ends; with it its hold of the lease.
LEMMA EndKeeps ==
    ASSUME WindowInvariant, NEW w \in Workers, Ends(w),
           lease' = lease \/ lease \in {w, Free, Lost}, lease' \in Tokens,
           UNCHANGED <<published, preview, window, owned, jobs, tailed>>
    PROVE  WindowInvariant'
<1>1. job' = [job EXCEPT ![w] = Idle]
  BY DEF Ends
<1>2. Idle \in Job /\ JobSafe(Idle, published) /\ HoldsLease(Idle, w, lease')
  BY IdleIsSafe
<1>3. /\ preview' \in [Gigs -> {"absent", "kept", "expiring"}] /\ owned' \in SUBSET Gigs
      /\ jobs' \in 0 .. MaxJobs
  BY DEF WindowInvariant, WindowsTypeOK
<1>4. QED
  BY <1>1, <1>2, <1>3, OneMoves

LEMMA BusyKeeps ==
    ASSUME WindowInvariant, NEW w \in Workers, LeaseIsBusy(w)
    PROVE  WindowInvariant'
<1>1. Ends(w) /\ UNCHANGED <<published, preview, window, owned, lease, jobs, tailed>>
  BY DEF LeaseIsBusy, redis
<1>2. lease' \in Tokens
  BY <1>1 DEF WindowInvariant, WindowsTypeOK, Tokens
<1>3. QED
  BY <1>1, <1>2, EndKeeps

LEMMA ReleaseKeeps ==
    ASSUME WindowInvariant, NEW w \in Workers, Release(w)
    PROVE  WindowInvariant'
<1>1. /\ Ends(w) /\ UNCHANGED <<published, preview, window, owned, jobs, tailed>>
      /\ lease' = IF lease = w THEN Free ELSE lease
  BY DEF Release, ReleasedBy
<1>2. lease' \in Tokens /\ (lease' = lease \/ lease = w)
  BY <1>1 DEF WindowInvariant, WindowsTypeOK, Tokens
<1>3. QED
  BY <1>1, <1>2, EndKeeps

LEMMA StopKeeps ==
    ASSUME WindowInvariant, NEW w \in Workers, Stop(w)
    PROVE  WindowInvariant'
<1>1. /\ Ends(w) /\ UNCHANGED <<published, preview, window, owned, jobs, tailed>>
      /\ lease' = IF lease = w THEN Lost ELSE lease
  BY DEF Stop, LeaseLost
<1>2. lease' \in Tokens /\ (lease' = lease \/ lease = w)
  BY <1>1 DEF WindowInvariant, WindowsTypeOK, Tokens
<1>3. QED
  BY <1>1, <1>2, EndKeeps

LEMMA FailKeeps ==
    ASSUME WindowInvariant, NEW w \in Workers, Fail(w)
    PROVE  WindowInvariant'
<1>1. /\ job[w].stage # "idle"
      /\ UNCHANGED <<published, preview, window, owned, jobs, tailed>>
  BY DEF Fail, At
<1>2. CASE InLease(w) /\ ~At(w, "release")
  <2>1. job' = [job EXCEPT ![w].stage = "release"] /\ lease' = lease
    BY <1>2 DEF Fail, Goes
  <2>2. job[w].stage \in LeaseStages /\ job[w].stage # "seed"
    BY <1>2 DEF InLease, LeaseStages
  <2>3. QED
    BY <1>1, <2>1, <2>2, StaysInLease
<1>3. CASE ~(InLease(w) /\ ~At(w, "release")) /\ job[w].stage \in {"wipe", "rebuild"}
  <2>1. job' = [job EXCEPT ![w] = AfterPage(w)] /\ lease' = lease
    BY <1>3 DEF Fail
  <2>2. UNCHANGED redis
    BY <1>1, <2>1 DEF redis
  <2>3. QED
    BY <1>1, <1>3, <2>1, <2>2, AfterPageIsSafe, OneSteps
<1>4. CASE ~(InLease(w) /\ ~At(w, "release")) /\ job[w].stage \notin {"wipe", "rebuild"}
  <2>1. Ends(w) /\ lease' \in {LeaseLost(w)} \cup
                (IF At(w, "lease") /\ LeaseIsFree THEN {Lost} ELSE {})
    BY <1>4 DEF Fail
  <2>2. lease' = lease \/ (lease' = Lost /\ lease \in {w, Free, Lost})
    BY <2>1 DEF LeaseLost, LeaseIsFree
  <2>3. lease' \in Tokens
    BY <2>2 DEF WindowInvariant, WindowsTypeOK, Tokens
  <2>4. QED
    BY <1>1, <2>1, <2>2, <2>3, EndKeeps
<1>5. QED
  BY <1>2, <1>3, <1>4

LEMMA ExpiryOfLeaseKeeps ==
    ASSUME WindowInvariant, LeaseExpires
    PROVE  WindowInvariant'
<1>1. /\ lease' = Free /\ UNCHANGED <<published, preview, window, owned, jobs, tailed>>
      /\ job' = [v \in Workers |-> IF lease = v THEN [job[v] EXCEPT !.late = TRUE] ELSE job[v]]
  BY DEF LeaseExpires
<1>2. ASSUME NEW v \in Workers
      PROVE  job'[v] \in Job /\ JobSafe(job'[v], published') /\ HoldsLease(job'[v], v, lease')
  <2>1. job[v] \in Job /\ JobSafe(job[v], published) /\ HoldsLease(job[v], v, lease)
    BY JobOf
  <2>2. CASE lease = v
    <3> DEFINE new == [job[v] EXCEPT !.late = TRUE]
    <3>1. job'[v] = new
      BY <1>1, <2>2
    <3>2. /\ new \in Job /\ new.late /\ new.stage = job[v].stage /\ new.gig = job[v].gig
          /\ new.live = job[v].live /\ new.content = job[v].content /\ new.todo = job[v].todo
      BY <2>1 DEF Job
    <3> HIDE DEF new
    <3>3. JobSafe(new, published') /\ HoldsLease(new, v, lease')
      BY <1>1, <2>1, <3>2 DEF JobSafe, HoldsLease
    <3>4. QED
      BY <3>1, <3>2, <3>3
  <2>3. CASE lease # v
    <3>1. job'[v] = job[v] /\ published' = published
      BY <1>1, <2>3
    <3>2. HoldsLease(job[v], v, lease')
      BY <2>1, <2>3 DEF HoldsLease
    <3>3. QED
      BY <2>1, <3>1, <3>2
  <2>4. QED
    BY <2>2, <2>3
<1>3. WindowsTypeOK' /\ WindowsHoldPublished'
  BY <1>1, <1>2 DEF WindowInvariant, WindowsTypeOK, WindowsHoldPublished, Listed
<1>4. QED
  BY <1>2, <1>3 DEF WindowInvariant

\* The decision what to write.
LEMMA WritesKeeps ==
    ASSUME WindowInvariant, NEW w \in Workers, job[w].stage \in {"scan", "read"},
           NEW k \in Windows, NEW content \in SUBSET Gigs, content \subseteq published,
           NEW ttl \in BOOLEAN, NEW unseen \in SUBSET Gigs,
           Writes(w, k, content, ttl, unseen),
           UNCHANGED <<published, redis, jobs, tailed>>
    PROVE  WindowInvariant'
<1>1. job[w] \in Job /\ JobSafe(job[w], published) /\ HoldsLease(job[w], w, lease)
        /\ WindowsTypeOK
  BY JobOf DEF WindowInvariant
<1> DEFINE new == [job[w] EXCEPT !.stage = "clear", !.target = k, !.content = content,
                                 !.ttl = ttl, !.unseen = unseen, !.todo = {}]
<1>2. job' = [job EXCEPT ![w] = new]
  BY <1>1 DEF Writes, WindowsTypeOK
<1>3. /\ new \in Job /\ new.stage = "clear" /\ new.gig = job[w].gig /\ new.late = job[w].late
      /\ new.content = content
  BY <1>1 DEF Job, Stages
<1> HIDE DEF new
<1>4. JobSafe(new, published)
  BY <1>1, <1>3 DEF JobSafe
<1>5. HoldsLease(new, w, lease)
  BY <1>1, <1>3 DEF HoldsLease, LeaseStages
<1>6. QED
  BY <1>2, <1>3, <1>4, <1>5, OneSteps

\* More windows to read.
LEMMA ReadsOnKeeps ==
    ASSUME WindowInvariant, NEW w \in Workers, NEW new \in Job,
           job[w].stage \in {"scan", "read"}, job' = [job EXCEPT ![w] = new],
           new.stage = "read", new.gig = job[w].gig, new.late = job[w].late, new.todo # {},
           UNCHANGED <<published, redis, jobs, tailed>>
    PROVE  WindowInvariant'
<1>1. JobSafe(job[w], published) /\ HoldsLease(job[w], w, lease)
  BY JobOf
<1>2. JobSafe(new, published) /\ HoldsLease(new, w, lease)
  BY <1>1 DEF JobSafe, HoldsLease, Writing, LeaseStages
<1>3. QED
  BY <1>2, OneSteps

LEMMA ScanKeeps ==
    ASSUME WindowInvariant, NEW w \in Workers, Scan(w)
    PROVE  WindowInvariant'
<1> DEFINE open == {k \in Windows : window[k] # {}}
<1>1. job[w].stage = "scan" /\ UNCHANGED <<published, redis, jobs, tailed>>
  BY DEF Scan, At
<1>2. job[w] \in Job /\ JobSafe(job[w], published) /\ WindowsTypeOK
  BY JobOf DEF WindowInvariant
<1>3. job[w].gig \in SUBSET Gigs /\ job[w].gig \subseteq published
  BY <1>1, <1>2 DEF Job, JobSafe
<1>4. CASE open = {}
  <2>1. Writes(w, 0, job[w].gig, FALSE, {})
    BY <1>4 DEF Scan
  <2>2. 0 \in Windows /\ {} \in SUBSET Gigs /\ FALSE \in BOOLEAN
    BY PreviewWindowsAssumption DEF Windows
  <2>3. job[w].stage \in {"scan", "read"}
    BY <1>1
  <2>4. QED
    BY <1>1, <1>3, <2>1, <2>2, <2>3, WritesKeeps
<1>5. CASE open # {}
  <2> DEFINE new == [job[w] EXCEPT !.stage = "read", !.todo = open, !.target = Max(open)]
  <2>1. open \in SUBSET Windows /\ Max(open) \in Windows
    BY <1>5, LastWindow
  <2>2. job' = [job EXCEPT ![w] = new]
    BY <1>2, <1>5 DEF Scan, WindowsTypeOK
  <2> HIDE DEF open
  <2>3. new \in Job /\ new.stage = "read" /\ new.gig = job[w].gig /\ new.late = job[w].late
          /\ new.todo = open
    BY <1>2, <2>1 DEF Job, Stages
  <2>4. QED
    BY <1>1, <1>5, <2>2, <2>3, ReadsOnKeeps
<1>6. QED
  BY <1>4, <1>5

LEMMA ReadWindowKeeps ==
    ASSUME WindowInvariant, NEW w \in Workers, ReadWindow(w)
    PROVE  WindowInvariant'
<1> DEFINE k == Min(job[w].todo)
           tail == job[w].target
           rest == job[w].todo \ {k}
<1>1. job[w].stage = "read" /\ UNCHANGED <<published, redis, jobs, tailed>>
  BY DEF ReadWindow, At
<1>2. job[w] \in Job /\ JobSafe(job[w], published) /\ WindowsTypeOK
  BY JobOf DEF WindowInvariant
<1>3. /\ job[w].gig \in SUBSET Gigs /\ job[w].gig \subseteq published
      /\ job[w].todo \in SUBSET Windows /\ job[w].todo # {} /\ tail \in Windows
  BY <1>1, <1>2 DEF Job, JobSafe
<1>4. k \in Windows
  BY <1>3, FirstWindow
<1>5. /\ window[k] \in SUBSET Gigs /\ window[k] \subseteq published
      /\ Live(k) \subseteq window[k]
  BY <1>2, <1>4 DEF WindowsTypeOK, Live, WindowInvariant, WindowsHoldPublished, Listed
<1>6. \/ Goes(w, "release")
      \/ Writes(w, k, Live(k) \cup job[w].gig, TRUE, window[k] \ Live(k))
      \/ rest # {} /\ job' = [job EXCEPT ![w].todo = rest]
      \/ tail < MaxWindow /\ Writes(w, tail + 1, job[w].gig, TRUE, {})
  BY DEF ReadWindow, Current
<1> HIDE DEF k, tail, rest
<1>7. CASE Goes(w, "release")
  <2>1. job' = [job EXCEPT ![w].stage = "release"]
          /\ UNCHANGED <<published, preview, window, owned, lease, jobs, tailed>>
    BY <1>1, <1>7 DEF Goes, redis
  <2>2. job[w].stage \in LeaseStages /\ job[w].stage # "seed"
    BY <1>1 DEF LeaseStages
  <2>3. QED
    BY <2>1, <2>2, StaysInLease
<1>8. CASE Writes(w, k, Live(k) \cup job[w].gig, TRUE, window[k] \ Live(k))
  <2>1. /\ Live(k) \cup job[w].gig \in SUBSET Gigs /\ Live(k) \cup job[w].gig \subseteq published
        /\ window[k] \ Live(k) \in SUBSET Gigs
    BY <1>3, <1>5
  <2>2. QED
    BY <1>1, <1>4, <1>8, <2>1, WritesKeeps
<1>9. CASE rest # {} /\ job' = [job EXCEPT ![w].todo = rest]
  <2> DEFINE new == [job[w] EXCEPT !.todo = rest]
  <2>1. job' = [job EXCEPT ![w] = new]
    BY <1>2, <1>9 DEF WindowsTypeOK
  <2>2. rest \in SUBSET Windows
    BY <1>3 DEF rest
  <2>3. new \in Job /\ new.stage = job[w].stage /\ new.gig = job[w].gig
          /\ new.late = job[w].late /\ new.todo = rest
    BY <1>2, <2>2 DEF Job
  <2> HIDE DEF new
  <2>4. QED
    BY <1>1, <1>9, <2>1, <2>3, ReadsOnKeeps
<1>10. CASE tail < MaxWindow /\ Writes(w, tail + 1, job[w].gig, TRUE, {})
  <2>1. tail + 1 \in Windows /\ {} \in SUBSET Gigs /\ TRUE \in BOOLEAN
    BY <1>3, <1>10, PreviewWindowsAssumption DEF Windows, tail
  <2>2. job[w].stage \in {"scan", "read"}
    BY <1>1
  <2>3. QED
    BY <1>1, <1>3, <1>10, <2>1, <2>2, WritesKeeps
<1>11. QED
  BY <1>6, <1>7, <1>8, <1>9, <1>10

LEMMA ClearKeeps ==
    ASSUME WindowInvariant, NEW w \in Workers, Clear(w)
    PROVE  WindowInvariant'
<1>1. /\ job[w].stage = "clear" /\ Cleared(job[w].target)
      /\ UNCHANGED <<published, preview, owned, lease, jobs, tailed>>
  BY DEF Clear, At
<1>2. job[w] \in Job /\ JobSafe(job[w], published) /\ HoldsLease(job[w], w, lease)
        /\ WindowsTypeOK
  BY JobOf DEF WindowInvariant
<1> DEFINE new == [job[w] EXCEPT !.stage = "rewrite"]
<1>3. /\ new \in Job /\ new.stage = "rewrite" /\ new.gig = job[w].gig
      /\ new.content = job[w].content /\ new.late = job[w].late
  BY <1>2, OtherStage DEF Stages
<1>4. job' = [job EXCEPT ![w] = new]
  BY <1>2 DEF Clear, Goes, WindowsTypeOK
<1> HIDE DEF new
<1>5. JobSafe(new, published) /\ HoldsLease(new, w, lease')
  BY <1>1, <1>2, <1>3 DEF JobSafe, HoldsLease, Writing, LeaseStages
<1>6. /\ job' \in [Workers -> Job] /\ Alike(job'[w], new)
      /\ \A v \in Workers \ {w} : Alike(job'[v], job[v])
  BY <1>2, <1>3, <1>4, OneJob
<1>7. window' \in [Windows -> SUBSET Gigs] /\ WindowsHoldPublished'
  BY <1>1, ClearedHolds
<1>8. WindowsTypeOK'
  BY <1>1, <1>2, <1>6, <1>7 DEF WindowsTypeOK
<1>9. QED
  BY <1>1, <1>5, <1>6, <1>7, <1>8, OneGoesOn

LEMMA RewriteKeeps ==
    ASSUME WindowInvariant, NEW w \in Workers, Rewrite(w)
    PROVE  WindowInvariant'
<1> DEFINE new == [job[w] EXCEPT !.stage = "release"]
           next == [job EXCEPT ![w] = new]
<1>1. /\ job[w].stage = "rewrite"
      /\ Written(job[w].target, job[w].content, job[w].ttl)
      /\ tailed' = IF job[w].ttl THEN tailed \cup job[w].content ELSE tailed
      /\ UNCHANGED <<published, owned, lease, jobs>>
  BY DEF Rewrite, At
<1>2. job[w] \in Job /\ JobSafe(job[w], published) /\ HoldsLease(job[w], w, lease)
        /\ WindowsTypeOK /\ job \in [Workers -> Job]
  BY JobOf DEF WindowInvariant, WindowsTypeOK
<1>3. /\ new \in Job /\ new.stage = "release" /\ new.gig = job[w].gig
      /\ new.late = job[w].late
  BY <1>2, OtherStage DEF Stages
<1>4. next = [job EXCEPT ![w].stage = "release"]
  BY <1>2
<1>5. job' = Overtaken(next) \/ job' = next
  BY <1>4 DEF Rewrite
<1> HIDE DEF new
<1>6. /\ next \in [Workers -> Job] /\ next[w] = new
      /\ \A v \in Workers \ {w} : next[v] = job[v]
  BY <1>2, <1>3
<1> HIDE DEF next
<1>7. job' \in [Workers -> Job] /\ \A v \in Workers : Alike(job'[v], next[v])
  BY <1>2, <1>5, <1>6, OvertakenAlike DEF Alike
<1>8. Alike(job'[w], new) /\ \A v \in Workers \ {w} : Alike(job'[v], job[v])
  BY <1>6, <1>7
<1>9. JobSafe(new, published) /\ HoldsLease(new, w, lease')
  BY <1>1, <1>2, <1>3 DEF JobSafe, HoldsLease, Writing, LeaseStages
<1>10. job[w].content \in SUBSET Gigs /\ job[w].content \subseteq published
  BY <1>1, <1>2 DEF Job, JobSafe, Writing
<1>11. /\ window' \in [Windows -> SUBSET Gigs] /\ WindowsHoldPublished'
       /\ preview' \in [Gigs -> {"absent", "kept", "expiring"}]
  BY <1>1, <1>10, WrittenHolds
<1>12. WindowsTypeOK'
  BY <1>1, <1>2, <1>7, <1>10, <1>11 DEF WindowsTypeOK
<1>13. QED
  BY <1>1, <1>8, <1>9, <1>11, <1>12, OneGoesOn

-----------------------------------------------------------------------------
(***************************************************************************)
(* Expiry, and every step.                                                 *)
(***************************************************************************)

LEMMA WindowExpiryKeeps ==
    ASSUME WindowInvariant, NEW k \in Windows, WindowExpires(k)
    PROVE  WindowInvariant'
<1>1. Cleared(k) /\ UNCHANGED <<published, preview, owned, lease, job, jobs, tailed>>
  BY DEF WindowExpires, Cleared
<1>2. window' \in [Windows -> SUBSET Gigs] /\ WindowsHoldPublished'
  BY <1>1, ClearedHolds
<1>3. WindowsTypeOK'
  BY <1>1, <1>2 DEF WindowInvariant, WindowsTypeOK
<1>4. QED
  BY <1>1, <1>2, <1>3 DEF WindowInvariant

LEMMA PreviewExpiryKeeps ==
    ASSUME WindowInvariant, NEW g \in Gigs, PreviewExpires(g)
    PROVE  WindowInvariant'
<1>1. /\ UNCHANGED <<published, window, owned, lease, job, jobs, tailed>>
      /\ preview' = [preview EXCEPT ![g] = "absent"]
  BY DEF PreviewExpires
<1>2. WindowsTypeOK'
  BY <1>1 DEF WindowInvariant, WindowsTypeOK
<1>3. WindowsHoldPublished'
  BY <1>1 DEF WindowInvariant, WindowsHoldPublished, Listed
<1>4. QED
  BY <1>1, <1>2, <1>3 DEF WindowInvariant

LEMMA WindowsStutter == WindowInvariant /\ UNCHANGED windowVars => WindowInvariant'
<1> SUFFICES ASSUME WindowInvariant, UNCHANGED windowVars PROVE WindowInvariant'
  OBVIOUS
<1>1. UNCHANGED <<published, preview, window, owned, lease, job, jobs, tailed>>
  BY DEF windowVars, redis
<1>2. WindowsTypeOK'
  BY <1>1 DEF WindowInvariant, WindowsTypeOK
<1>3. WindowsHoldPublished'
  BY <1>1 DEF WindowInvariant, WindowsHoldPublished, Listed
<1>4. QED
  BY <1>1, <1>2, <1>3 DEF WindowInvariant

LEMMA ServiceKeeps ==
    ASSUME WindowInvariant, NEW w \in Workers, ServiceStep(w)
    PROVE  WindowInvariant'
<1>1. CASE BeginPage(w)
  BY <1>1, BeginPageKeeps
<1>2. CASE BeginOwnerList(w)
  BY <1>2, BeginOwnerListKeeps
<1>3. CASE PreviewOwned(w)
  BY <1>3, PreviewOwnedKeeps
<1>4. CASE \E g \in Gigs : BeginAppend(w, g)
  BY <1>4, BeginAppendKeeps
<1>5. CASE Seed(w)
  BY <1>5, SeedKeeps
<1>6. CASE Look(w)
  BY <1>6, LookKeeps
<1>7. CASE ListPublished(w)
  BY <1>7, ListKeeps
<1>8. CASE FillPreviews(w)
  BY <1>8, FillKeeps
<1>9. CASE Wipe(w)
  BY <1>9, WipeKeeps
<1>10. CASE Rebuild(w)
  BY <1>10, RebuildKeeps
<1>11. QED
  BY <1>1, <1>2, <1>3, <1>4, <1>5, <1>6, <1>7, <1>8, <1>9, <1>10 DEF ServiceStep

LEMMA AppendKeeps ==
    ASSUME WindowInvariant, NEW w \in Workers, AppendStep(w)
    PROVE  WindowInvariant'
<1>1. CASE TakeLease(w)
  BY <1>1, TakeKeeps
<1>2. CASE LeaseIsBusy(w)
  BY <1>2, BusyKeeps
<1>3. CASE Scan(w)
  BY <1>3, ScanKeeps
<1>4. CASE ReadWindow(w)
  BY <1>4, ReadWindowKeeps
<1>5. CASE Clear(w)
  BY <1>5, ClearKeeps
<1>6. CASE Rewrite(w)
  BY <1>6, RewriteKeeps
<1>7. CASE Release(w)
  BY <1>7, ReleaseKeeps
<1>8. QED
  BY <1>1, <1>2, <1>3, <1>4, <1>5, <1>6, <1>7 DEF AppendStep

LEMMA WindowsStep == WindowInvariant /\ [WindowsNext]_windowVars => WindowInvariant'
<1> SUFFICES ASSUME WindowInvariant, [WindowsNext]_windowVars PROVE WindowInvariant'
  OBVIOUS
<1>1. CASE LeaseExpires
  BY <1>1, ExpiryOfLeaseKeeps
<1>2. CASE \E g \in Gigs : Publish(g) \/ PreviewExpires(g)
  BY <1>2, PublishKeeps, PreviewExpiryKeeps
<1>3. CASE \E k \in Windows : WindowExpires(k)
  BY <1>3, WindowExpiryKeeps
<1>4. CASE \E w \in Workers : ServiceStep(w)
  BY <1>4, ServiceKeeps
<1>5. CASE \E w \in Workers : AppendStep(w)
  BY <1>5, AppendKeeps
<1>6. CASE \E w \in Workers : Fail(w) \/ Stop(w)
  BY <1>6, FailKeeps, StopKeeps
<1>7. CASE UNCHANGED windowVars
  BY <1>7, WindowsStutter
<1>8. QED
  BY <1>1, <1>2, <1>3, <1>4, <1>5, <1>6, <1>7 DEF WindowsNext

-----------------------------------------------------------------------------
\* The preview windows: what holds in every reachable state.
THEOREM WindowInvariance == WindowsSpec => []WindowInvariant
BY WindowsStart, WindowsStep, PTL DEF WindowsSpec

\* Type correctness; every window that is written is one there is.
THEOREM WindowsTypeCorrect == WindowsSpec => []WindowsTypeOK
<1>1. WindowInvariant => WindowsTypeOK
  BY DEF WindowInvariant
<1>2. QED
  BY <1>1, WindowInvariance, PTL

\* However appends, rebuilds and expiries interleave, no window holds a gig that is not
\* published.
THEOREM HoldPublished == WindowsSpec => []WindowsHoldPublished
<1>1. WindowInvariant => WindowsHoldPublished
  BY DEF WindowInvariant
<1>2. QED
  BY <1>1, WindowInvariance, PTL

\* Of two appends under the lease, one has outlived it.
THEOREM OneHolder == WindowsSpec => []OneLeaseHolder
<1>1. WindowInvariant => OneLeaseHolder
  BY DEF WindowInvariant, HoldsLease, OneLeaseHolder, InLease, LeaseStages
<1>2. QED
  BY <1>1, WindowInvariance, PTL

-----------------------------------------------------------------------------
(***************************************************************************)
(* What a window keeps.  An append decides what to write from what it has  *)
(* read under the lease.  As long as the lease is valid and no one without *)
(* it has written, no other goroutine puts a gig into a window: those that *)
(* were not there at the scan stay away, and the target holds no more than *)
(* what was read.                                                          *)
(***************************************************************************)

KeepOf(j, content) ==
    ~j.late /\ ~j.raced =>
        /\ j.stage = "read" => \A k \in Windows : k > j.target => content[k] = {}
        /\ j.stage = "clear" => content[j.target] \subseteq j.content \cup j.unseen

KeepInvariant == \A w \in Workers : KeepOf(job[w], window)

\* The last window is the last one.
LEMMA NothingAfterLast ==
    ASSUME NEW S \in SUBSET Windows, S # {}, NEW k \in Windows, k > Max(S)
    PROVE  k \notin S
<1>1. Max(S) \in S /\ \A y \in S : Max(S) >= y
  BY LastWindow
<1>2. Max(S) \in Int /\ k \in Int
  <2>1. Windows \subseteq Int
    BY DEF Windows
  <2>2. QED
    BY <1>1, <2>1
<1>3. QED
  BY <1>1, <1>2

\* A job that stays as it is while windows lose gigs, or that is told of a write.
LEMMA KeepShrinks ==
    ASSUME NEW j \in Job, NEW old \in [Windows -> SUBSET Gigs], NEW new,
           \A k \in Windows : new[k] \subseteq old[k], KeepOf(j, old)
    PROVE  KeepOf(j, new)
<1>1. j.target \in Windows
  BY DEF Job
<1>2. \A k \in Windows : old[k] = {} => new[k] = {}
  OBVIOUS
<1>3. QED
  BY <1>1, <1>2 DEF KeepOf

LEMMA KeepNothing ==
    ASSUME NEW j, NEW content, j.stage \notin {"read", "clear"} \/ j.late \/ j.raced
    PROVE  KeepOf(j, content)
BY DEF KeepOf

\* Goroutine w goes on with nothing to keep, the others stay, no window gets a gig.
LEMMA KeepQuiet ==
    ASSUME WindowsTypeOK, KeepInvariant, NEW w \in Workers, NEW new,
           job' = [job EXCEPT ![w] = new], new.stage \notin {"read", "clear"},
           \A k \in Windows : window'[k] \subseteq window[k]
    PROVE  KeepInvariant'
<1> SUFFICES ASSUME NEW v \in Workers PROVE KeepOf(job'[v], window')
  BY DEF KeepInvariant
<1>1. job[v] \in Job /\ KeepOf(job[v], window) /\ window \in [Windows -> SUBSET Gigs]
  BY DEF WindowsTypeOK, KeepInvariant
<1>2. CASE v = w
  <2>1. job'[v] = new
    BY <1>2 DEF WindowsTypeOK
  <2>2. QED
    BY <2>1, KeepNothing
<1>3. CASE v # w
  <2>1. job'[v] = job[v]
    BY <1>3 DEF WindowsTypeOK
  <2>2. QED
    BY <1>1, <2>1, KeepShrinks
<1>4. QED
  BY <1>2, <1>3

\* A stage of w that has nothing to keep.
LEMMA KeepGoes ==
    ASSUME WindowsTypeOK, KeepInvariant, NEW w \in Workers,
           NEW stage \in Stages \ {"read", "clear"}, Goes(w, stage),
           \A k \in Windows : window'[k] \subseteq window[k]
    PROVE  KeepInvariant'
<1> DEFINE new == [job[w] EXCEPT !.stage = stage]
<1>1. job[w] \in Job
  BY DEF WindowsTypeOK
<1>2. new.stage = stage
  BY <1>1, OtherStage
<1>3. job' = [job EXCEPT ![w] = new]
  BY DEF Goes, WindowsTypeOK
<1> HIDE DEF new
<1>4. QED
  BY <1>2, <1>3, KeepQuiet

LEMMA KeepEnds ==
    ASSUME WindowsTypeOK, KeepInvariant, NEW w \in Workers, Ends(w),
           \A k \in Windows : window'[k] \subseteq window[k]
    PROVE  KeepInvariant'
<1>1. job' = [job EXCEPT ![w] = Idle] /\ Idle.stage = "idle"
  BY DEF Ends, Idle
<1>2. QED
  BY <1>1, KeepQuiet

\* The stage of a job once its page is answered.
LEMMA AfterPageStage ==
    ASSUME WindowsTypeOK, NEW w \in Workers
    PROVE  AfterPage(w).stage \in {"idle", "lease"}
<1>1. job[w] \in Job
  BY DEF WindowsTypeOK
<1>2. [job[w] EXCEPT !.stage = "lease"].stage = "lease"
  BY <1>1, OtherStage DEF Stages
<1>3. QED
  BY <1>2 DEF AfterPage, Idle

\* Outside the lease, and without writing a window.
LEMMA ServiceKeepsWindow ==
    ASSUME WindowsTypeOK, KeepInvariant, NEW w \in Workers, ServiceStep(w), ~Rebuild(w)
    PROVE  KeepInvariant'
<1>1. job[w] \in Job /\ job \in [Workers -> Job]
  BY DEF WindowsTypeOK
<1>2. Idle \in Job
  BY IdleIsSafe
<1>3. CASE BeginPage(w)
  <2> DEFINE new == [Idle EXCEPT !.stage = "list"]
  <2>1. new.stage = "list"
    BY <1>2 DEF Job
  <2>2. job' = [job EXCEPT ![w] = new] /\ UNCHANGED window
    BY <1>3 DEF BeginPage, Begins, redis
  <2> HIDE DEF new
  <2>3. QED
    BY <2>1, <2>2, KeepQuiet
<1>4. CASE BeginOwnerList(w)
  <2> DEFINE new == [Idle EXCEPT !.stage = "own", !.content = Gigs]
  <2>1. new.stage = "own"
    BY <1>2 DEF Job
  <2>2. job' = [job EXCEPT ![w] = new] /\ UNCHANGED window
    BY <1>4 DEF BeginOwnerList, Begins, redis
  <2> HIDE DEF new
  <2>3. QED
    BY <2>1, <2>2, KeepQuiet
<1>5. CASE PreviewOwned(w)
  <2>1. PICK g \in job[w].content : job' = [job EXCEPT ![w] = Without(job[w], g)]
    BY <1>5 DEF PreviewOwned
  <2>2. Without(job[w], g).stage \in {"idle", "own"}
    <3>1. job[w].stage = "own"
      BY <1>5 DEF PreviewOwned, At
    <3>2. [job[w] EXCEPT !.content = job[w].content \ {g}].stage = job[w].stage
      BY <1>1 DEF Job
    <3>3. QED
      BY <3>1, <3>2 DEF Without, Idle
  <2>3. UNCHANGED window
    BY <1>5 DEF PreviewOwned
  <2>4. QED
    BY <2>1, <2>2, <2>3, KeepQuiet
<1>6. CASE \E g \in Gigs : BeginAppend(w, g)
  <2>1. PICK g \in Gigs, live \in BOOLEAN :
          job' = [job EXCEPT ![w] = [Idle EXCEPT !.stage = "seed", !.gig = {g}, !.live = live]]
    BY <1>6 DEF BeginAppend, Begins
  <2> DEFINE new == [Idle EXCEPT !.stage = "seed", !.gig = {g}, !.live = live]
  <2>2. new.stage = "seed"
    BY <1>2 DEF Job
  <2>3. job' = [job EXCEPT ![w] = new] /\ UNCHANGED window
    BY <1>6, <2>1 DEF BeginAppend, redis
  <2> HIDE DEF new
  <2>4. QED
    BY <2>2, <2>3, KeepQuiet
<1>7. CASE Seed(w)
  <2>1. UNCHANGED window /\ (Goes(w, "look") \/ Ends(w))
    BY <1>7 DEF Seed
  <2>2. "look" \in Stages \ {"read", "clear"}
    BY DEF Stages
  <2>3. QED
    BY <2>1, <2>2, KeepGoes, KeepEnds
<1>8. CASE Look(w)
  <2>1. UNCHANGED window /\ (Goes(w, "lease") \/ Goes(w, "list"))
    BY <1>8 DEF Look, redis
  <2>2. "lease" \in Stages \ {"read", "clear"} /\ "list" \in Stages \ {"read", "clear"}
    BY DEF Stages
  <2>3. QED
    BY <2>1, <2>2, KeepGoes
<1>9. CASE ListPublished(w)
  <2> DEFINE fill == [job[w] EXCEPT !.stage = "fill", !.content = published]
  <2>1. UNCHANGED window
        /\ (job' = [job EXCEPT ![w] = AfterPage(w)] \/ job' = [job EXCEPT ![w] = fill])
    BY <1>1, <1>9 DEF ListPublished, redis
  <2>2. fill.stage = "fill"
    BY <1>1 DEF Job
  <2> HIDE DEF fill
  <2>3. QED
    BY <2>1, <2>2, AfterPageStage, KeepQuiet
<1>10. CASE FillPreviews(w)
  <2>1. UNCHANGED window /\ Goes(w, "wipe")
    BY <1>10 DEF FillPreviews
  <2>2. "wipe" \in Stages \ {"read", "clear"}
    BY DEF Stages
  <2>3. QED
    BY <2>1, <2>2, KeepGoes
<1>11. CASE Wipe(w)
  <2>1. Goes(w, "rebuild") /\ \A k \in Windows : window'[k] \subseteq window[k]
    BY <1>11 DEF Wipe, Cleared, WindowsTypeOK
  <2>2. "rebuild" \in Stages \ {"read", "clear"}
    BY DEF Stages
  <2>3. QED
    BY <2>1, <2>2, KeepGoes
<1>12. QED
  BY <1>3, <1>4, <1>5, <1>6, <1>7, <1>8, <1>9, <1>10, <1>11 DEF ServiceStep

\* A window is written: whoever reads or decides under the lease is told, or has
\* outlived it.
LEMMA WrittenIsTold ==
    ASSUME WindowsTypeOK, NEW w \in Workers, NEW next \in [Workers -> Job],
           \A v \in Workers \ {w} : next[v] = job[v],
           next[w].stage \notin {"read", "clear"},
           \/ job' = Overtaken(next)
           \/ job' = next /\ \A v \in Workers \ {w} :
                 job[v].stage \in {"read", "clear"} => job[v].late
    PROVE  KeepInvariant'
<1> SUFFICES ASSUME NEW v \in Workers
             PROVE  job'[v].stage \notin {"read", "clear"} \/ job'[v].late \/ job'[v].raced
  BY KeepNothing DEF KeepInvariant
<1>1. next[v] \in Job /\ job[v] \in Job
  BY DEF WindowsTypeOK
<1>2. CASE job' = Overtaken(next) /\ job[v].stage \in {"read", "clear"}
  <2>1. job'[v] = [next[v] EXCEPT !.raced = TRUE]
    BY <1>2 DEF Overtaken
  <2>2. job'[v].raced
    BY <1>1, <2>1 DEF Job
  <2>3. QED
    BY <2>2
<1>3. CASE job' = Overtaken(next) /\ job[v].stage \notin {"read", "clear"}
  <2>1. job'[v] = next[v]
    BY <1>3 DEF Overtaken
  <2>2. QED
    BY <1>3, <2>1
<1>4. CASE job' = next /\ \A u \in Workers \ {w} :
                 job[u].stage \in {"read", "clear"} => job[u].late
  BY <1>4
<1>5. QED
  BY <1>2, <1>3, <1>4

LEMMA RebuildIsTold ==
    ASSUME WindowsTypeOK, NEW w \in Workers, Rebuild(w)
    PROVE  KeepInvariant'
<1> DEFINE next == [job EXCEPT ![w] = AfterPage(w)]
<1>1. job' = Overtaken(next)
  BY DEF Rebuild
<1>2. job \in [Workers -> Job] /\ job[w] \in Job
  BY DEF WindowsTypeOK
<1>3. AfterPage(w) \in Job
  BY <1>2, OtherStage, IdleIsSafe DEF AfterPage, Stages
<1>4. next \in [Workers -> Job] /\ next[w] = AfterPage(w)
      /\ \A v \in Workers \ {w} : next[v] = job[v]
  BY <1>2, <1>3
<1> HIDE DEF next
<1>5. QED
  BY <1>1, <1>4, AfterPageStage, WrittenIsTold

LEMMA RewriteIsTold ==
    ASSUME WindowInvariant, NEW w \in Workers, Rewrite(w)
    PROVE  KeepInvariant'
<1> DEFINE new == [job[w] EXCEPT !.stage = "release"]
           next == [job EXCEPT ![w] = new]
<1>1. WindowsTypeOK /\ job \in [Workers -> Job] /\ job[w] \in Job
  BY DEF WindowInvariant, WindowsTypeOK
<1>2. new \in Job /\ new.stage = "release"
  BY <1>1, OtherStage DEF Stages
<1>3. next = [job EXCEPT ![w].stage = "release"]
  BY <1>1
<1>4. job' = IF job[w].late THEN Overtaken(next) ELSE next
  BY <1>3 DEF Rewrite
<1> HIDE DEF new
<1>5. next \in [Workers -> Job] /\ next[w] = new /\ \A v \in Workers \ {w} : next[v] = job[v]
  BY <1>1, <1>2
<1> HIDE DEF next
<1>6. ASSUME ~job[w].late, NEW v \in Workers \ {w}, job[v].stage \in {"read", "clear"}
      PROVE  job[v].late
  <2>1. HoldsLease(job[w], w, lease) /\ HoldsLease(job[v], v, lease) /\ job[w].stage = "rewrite"
    BY JobOf DEF Rewrite, At
  <2>2. lease = w
    BY <1>6, <2>1 DEF HoldsLease, LeaseStages
  <2>3. QED
    BY <1>6, <2>1, <2>2 DEF HoldsLease, LeaseStages
<1>7. QED
  BY <1>1, <1>2, <1>4, <1>5, <1>6, WrittenIsTold

\* The decision: what the target holds is in what will be written, or was not seen.
LEMMA WritesKept ==
    ASSUME WindowsTypeOK, KeepInvariant, NEW w \in Workers, NEW k \in Windows,
           NEW content, NEW ttl, NEW unseen, Writes(w, k, content, ttl, unseen),
           UNCHANGED window,
           ~job[w].late /\ ~job[w].raced => window[k] \subseteq content \cup unseen
    PROVE  KeepInvariant'
<1>1. job[w] \in Job /\ job \in [Workers -> Job]
  BY DEF WindowsTypeOK
<1> DEFINE new == [job[w] EXCEPT !.stage = "clear", !.target = k, !.content = content,
                                 !.ttl = ttl, !.unseen = unseen, !.todo = {}]
<1>2. job' = [job EXCEPT ![w] = new]
  BY <1>1 DEF Writes
<1>3. /\ new.stage = "clear" /\ new.target = k /\ new.content = content
      /\ new.unseen = unseen /\ new.late = job[w].late /\ new.raced = job[w].raced
  BY <1>1 DEF Job
<1> HIDE DEF new
<1>4. KeepOf(new, window)
  BY <1>3 DEF KeepOf
<1>5. \A v \in Workers : job'[v] = new \/ job'[v] = job[v]
  BY <1>1, <1>2
<1>6. QED
  BY <1>4, <1>5 DEF KeepInvariant

\* More windows to read, none of them behind the target.
LEMMA ReadsKept ==
    ASSUME WindowsTypeOK, KeepInvariant, NEW w \in Workers, NEW new,
           job' = [job EXCEPT ![w] = new], UNCHANGED window, new.stage = "read",
           ~new.late /\ ~new.raced => \A k \in Windows : k > new.target => window[k] = {}
    PROVE  KeepInvariant'
<1>1. KeepOf(new, window)
  BY DEF KeepOf
<1>2. \A v \in Workers : job'[v] = new \/ job'[v] = job[v]
  BY DEF WindowsTypeOK
<1>3. QED
  BY <1>1, <1>2 DEF KeepInvariant

LEMMA ScanKept ==
    ASSUME WindowsTypeOK, KeepInvariant, NEW w \in Workers, Scan(w)
    PROVE  KeepInvariant'
<1> DEFINE open == {k \in Windows : window[k] # {}}
<1>1. job[w] \in Job /\ job \in [Workers -> Job] /\ UNCHANGED window
  BY DEF Scan, redis, WindowsTypeOK
<1>2. CASE open = {}
  <2>1. Writes(w, 0, job[w].gig, FALSE, {})
    BY <1>2 DEF Scan
  <2>2. 0 \in Windows
    BY PreviewWindowsAssumption DEF Windows
  <2>3. window[0] = {}
    BY <1>2, <2>2
  <2>4. QED
    BY <1>1, <2>1, <2>2, <2>3, WritesKept
<1>3. CASE open # {}
  <2> DEFINE new == [job[w] EXCEPT !.stage = "read", !.todo = open, !.target = Max(open)]
  <2>1. job' = [job EXCEPT ![w] = new]
    BY <1>1, <1>3 DEF Scan
  <2>2. new.stage = "read" /\ new.target = Max(open)
    BY <1>1 DEF Job
  <2>3. \A k \in Windows : k > Max(open) => k \notin open
    <3>1. open \in SUBSET Windows
      OBVIOUS
    <3> HIDE DEF open
    <3>2. QED
      BY <1>3, <3>1, NothingAfterLast
  <2>4. \A k \in Windows : k > Max(open) => window[k] = {}
    BY <2>3
  <2> HIDE DEF new, open
  <2>5. QED
    BY <1>1, <2>1, <2>2, <2>4, ReadsKept
<1>4. QED
  BY <1>2, <1>3

LEMMA ReadWindowKept ==
    ASSUME WindowInvariant, KeepInvariant, NEW w \in Workers, ReadWindow(w)
    PROVE  KeepInvariant'
<1> DEFINE k == Min(job[w].todo)
           tail == job[w].target
           rest == job[w].todo \ {k}
<1>1. job[w].stage = "read" /\ UNCHANGED window
  BY DEF ReadWindow, At, redis
<1>2. job[w] \in Job /\ JobSafe(job[w], published) /\ WindowsTypeOK /\ job \in [Workers -> Job]
  BY JobOf DEF WindowInvariant, WindowsTypeOK
<1>3. job[w].todo \in SUBSET Windows /\ job[w].todo # {} /\ tail \in Windows
  BY <1>1, <1>2 DEF Job, JobSafe
<1>4. k \in Windows
  BY <1>3, FirstWindow
<1>5. KeepOf(job[w], window)
  BY DEF KeepInvariant
<1>6. ~job[w].late /\ ~job[w].raced => \A n \in Windows : n > tail => window[n] = {}
  BY <1>1, <1>5 DEF KeepOf
<1>7. \/ Goes(w, "release")
      \/ Writes(w, k, Live(k) \cup job[w].gig, TRUE, window[k] \ Live(k))
      \/ job' = [job EXCEPT ![w].todo = rest]
      \/ tail < MaxWindow /\ Writes(w, tail + 1, job[w].gig, TRUE, {})
  BY DEF ReadWindow, Current
<1> HIDE DEF k, rest
<1>8. CASE Goes(w, "release")
  <2>1. "release" \in Stages \ {"read", "clear"}
    BY DEF Stages
  <2>2. QED
    BY <1>1, <1>2, <1>8, <2>1, KeepGoes
<1>9. CASE Writes(w, k, Live(k) \cup job[w].gig, TRUE, window[k] \ Live(k))
  <2>1. window[k] \subseteq (Live(k) \cup job[w].gig) \cup (window[k] \ Live(k))
    OBVIOUS
  <2>2. QED
    BY <1>1, <1>2, <1>4, <1>9, <2>1, WritesKept
<1>10. CASE job' = [job EXCEPT ![w].todo = rest]
  <2> DEFINE new == [job[w] EXCEPT !.todo = rest]
  <2>1. job' = [job EXCEPT ![w] = new]
    BY <1>2, <1>10
  <2>2. new.stage = "read" /\ new.target = tail /\ new.late = job[w].late
        /\ new.raced = job[w].raced
    BY <1>1, <1>2 DEF Job
  <2> HIDE DEF new
  <2>3. QED
    BY <1>1, <1>2, <1>6, <2>1, <2>2, ReadsKept
<1>11. CASE tail < MaxWindow /\ Writes(w, tail + 1, job[w].gig, TRUE, {})
  <2>1. tail + 1 \in Windows /\ tail + 1 > tail
    BY <1>3, <1>11, PreviewWindowsAssumption DEF Windows
  <2>2. ~job[w].late /\ ~job[w].raced => window[tail + 1] \subseteq job[w].gig \cup {}
    BY <1>6, <2>1
  <2> HIDE DEF tail
  <2>3. QED
    BY <1>1, <1>2, <1>11, <2>1, <2>2, WritesKept
<1>12. QED
  BY <1>7, <1>8, <1>9, <1>10, <1>11

LEMMA AppendKept ==
    ASSUME WindowInvariant, KeepInvariant, NEW w \in Workers, AppendStep(w)
    PROVE  KeepInvariant'
<1>1. WindowsTypeOK
  BY DEF WindowInvariant
<1>2. {"scan", "rewrite"} \subseteq Stages \ {"read", "clear"}
  BY DEF Stages
<1>3. CASE TakeLease(w)
  BY <1>1, <1>2, <1>3, KeepGoes DEF TakeLease
<1>4. CASE LeaseIsBusy(w)
  BY <1>1, <1>4, KeepEnds DEF LeaseIsBusy, redis
<1>5. CASE Scan(w)
  BY <1>1, <1>5, ScanKept
<1>6. CASE ReadWindow(w)
  BY <1>6, ReadWindowKept
<1>7. CASE Clear(w)
  <2>1. Goes(w, "rewrite") /\ \A k \in Windows : window'[k] \subseteq window[k]
    BY <1>1, <1>7 DEF Clear, Cleared, WindowsTypeOK
  <2>2. QED
    BY <1>1, <1>2, <2>1, KeepGoes
<1>8. CASE Rewrite(w)
  BY <1>8, RewriteIsTold
<1>9. CASE Release(w)
  BY <1>1, <1>9, KeepEnds DEF Release
<1>10. QED
  BY <1>3, <1>4, <1>5, <1>6, <1>7, <1>8, <1>9 DEF AppendStep

\* Errors, crashes and expiries put no gig into a window.
LEMMA FailKept ==
    ASSUME WindowsTypeOK, KeepInvariant, NEW w \in Workers, Fail(w) \/ Stop(w)
    PROVE  KeepInvariant'
<1>1. \/ Goes(w, "release")
      \/ job' = [job EXCEPT ![w] = AfterPage(w)]
      \/ Ends(w)
  BY DEF Fail, Stop
<1>2. UNCHANGED window /\ "release" \in Stages \ {"read", "clear"}
  BY DEF Fail, Stop, Stages
<1>3. QED
  BY <1>1, <1>2, AfterPageStage, KeepGoes, KeepEnds, KeepQuiet

LEMMA ExpiryKept ==
    ASSUME WindowsTypeOK, KeepInvariant,
           \/ LeaseExpires
           \/ \E g \in Gigs : Publish(g) \/ PreviewExpires(g)
           \/ \E k \in Windows : WindowExpires(k)
           \/ UNCHANGED windowVars
    PROVE  KeepInvariant'
<1>1. \A k \in Windows : window'[k] \subseteq window[k]
  BY DEF LeaseExpires, Publish, PreviewExpires, WindowExpires, windowVars, redis, WindowsTypeOK
<1>2. \A v \in Workers : job'[v] = job[v] \/ job'[v] = [job[v] EXCEPT !.late = TRUE]
  BY DEF LeaseExpires, Publish, PreviewExpires, WindowExpires, windowVars
<1>3. ASSUME NEW v \in Workers
      PROVE  KeepOf(job'[v], window')
  <2>1. job[v] \in Job /\ KeepOf(job[v], window) /\ window \in [Windows -> SUBSET Gigs]
    BY DEF WindowsTypeOK, KeepInvariant
  <2>2. CASE job'[v] = job[v]
    BY <1>1, <2>1, <2>2, KeepShrinks
  <2>3. CASE job'[v] = [job[v] EXCEPT !.late = TRUE]
    <3>1. job'[v].late
      BY <2>1, <2>3 DEF Job
    <3>2. QED
      BY <3>1, KeepNothing
  <2>4. QED
    BY <1>2, <2>2, <2>3
<1>4. QED
  BY <1>3 DEF KeepInvariant

LEMMA KeepStep ==
    WindowInvariant /\ KeepInvariant /\ [WindowsNext]_windowVars => KeepInvariant'
<1> SUFFICES ASSUME WindowInvariant, KeepInvariant, [WindowsNext]_windowVars
             PROVE  KeepInvariant'
  OBVIOUS
<1>1. WindowsTypeOK
  BY DEF WindowInvariant
<1>2. CASE \E w \in Workers : ServiceStep(w)
  BY <1>1, <1>2, ServiceKeepsWindow, RebuildIsTold
<1>3. CASE \E w \in Workers : AppendStep(w)
  BY <1>3, AppendKept
<1>4. CASE \E w \in Workers : Fail(w) \/ Stop(w)
  BY <1>1, <1>4, FailKept
<1>5. QED
  BY <1>1, <1>2, <1>3, <1>4, ExpiryKept DEF WindowsNext

\* An append whose lease is valid and that nobody overtook overwrites no gig.
THEOREM AppendsKeepWindows == WindowsSpec => []AppendKeepsWindow
<1>1. WindowsInit => KeepInvariant
  BY DEF WindowsInit, KeepInvariant, KeepOf, Idle
<1>2. KeepInvariant => AppendKeepsWindow
  BY DEF KeepInvariant, KeepOf, AppendKeepsWindow, At
<1>3. QED
  BY <1>1, <1>2, KeepStep, WindowInvariance, PTL DEF WindowsSpec

-----------------------------------------------------------------------------
(***************************************************************************)
(* What the owner's list loses.                                            *)
(***************************************************************************)

\* A preview that is set anew has no TTL.
LEMMA UpsertedStays ==
    ASSUME OwnerListLosesOnlyTailed, NEW gigs, Upserted(gigs), UNCHANGED tailed
    PROVE  OwnerListLosesOnlyTailed'
BY DEF OwnerListLosesOnlyTailed, Upserted

\* A window is written: under the TTL its gigs are on record.
LEMMA WrittenStays ==
    ASSUME OwnerListLosesOnlyTailed, NEW k, NEW content, NEW ttl \in BOOLEAN,
           Written(k, content, ttl), UNCHANGED owned,
           tailed' = IF ttl THEN tailed \cup content ELSE tailed
    PROVE  OwnerListLosesOnlyTailed'
BY DEF OwnerListLosesOnlyTailed, Written

LEMMA LossStep ==
    WindowInvariant /\ OwnerListLosesOnlyTailed /\ [WindowsNext]_windowVars =>
        OwnerListLosesOnlyTailed'
<1> SUFFICES ASSUME WindowInvariant, OwnerListLosesOnlyTailed, [WindowsNext]_windowVars
             PROVE  OwnerListLosesOnlyTailed'
  OBVIOUS
<1>1. ASSUME UNCHANGED <<preview, owned, tailed>> PROVE OwnerListLosesOnlyTailed'
  BY <1>1 DEF OwnerListLosesOnlyTailed
<1>2. CASE \E w \in Workers : ServiceStep(w)
  <2>1. PICK w \in Workers : ServiceStep(w)
    BY <1>2
  <2>2. CASE Rebuild(w)
    <3>1. /\ Written(0, job[w].content, FALSE) /\ UNCHANGED <<owned, tailed>>
      BY <2>2 DEF Rebuild, NoTTL
    <3>2. tailed' = IF FALSE THEN tailed \cup job[w].content ELSE tailed
      BY <3>1
    <3>3. QED
      BY <3>1, <3>2, WrittenStays
  <2>3. CASE PreviewOwned(w) \/ Seed(w) \/ FillPreviews(w)
    BY <2>3, UpsertedStays DEF PreviewOwned, Seed, FillPreviews
  <2>4. CASE ~Rebuild(w) /\ ~PreviewOwned(w) /\ ~Seed(w) /\ ~FillPreviews(w)
    BY <1>1, <2>1, <2>4 DEF ServiceStep, BeginPage, BeginOwnerList, BeginAppend, Look,
       ListPublished, Wipe, redis
  <2>5. QED
    BY <2>2, <2>3, <2>4
<1>3. CASE \E w \in Workers : AppendStep(w)
  <2>1. PICK w \in Workers : AppendStep(w)
    BY <1>3
  <2>2. CASE Rewrite(w)
    <3>1. /\ Written(job[w].target, job[w].content, job[w].ttl) /\ UNCHANGED owned
          /\ tailed' = IF job[w].ttl THEN tailed \cup job[w].content ELSE tailed
      BY <2>2 DEF Rewrite
    <3>2. job[w].ttl \in BOOLEAN
      BY DEF WindowInvariant, WindowsTypeOK, Job
    <3>3. QED
      BY <3>1, <3>2, WrittenStays
  <2>3. CASE ~Rewrite(w)
    BY <1>1, <2>1, <2>3 DEF AppendStep, TakeLease, LeaseIsBusy, Scan, ReadWindow, Clear,
       Release, redis
  <2>4. QED
    BY <2>2, <2>3
<1>4. CASE \E g \in Gigs : PreviewExpires(g)
  <2>1. PICK g \in Gigs : preview[g] = "expiring" /\ preview' = [preview EXCEPT ![g] = "absent"]
                          /\ UNCHANGED <<owned, tailed>>
    BY <1>4 DEF PreviewExpires
  <2>2. preview \in [Gigs -> {"absent", "kept", "expiring"}]
    BY DEF WindowInvariant, WindowsTypeOK
  <2>3. QED
    BY <2>1, <2>2 DEF OwnerListLosesOnlyTailed
<1>5. CASE \/ LeaseExpires \/ \E g \in Gigs : Publish(g)
           \/ \E k \in Windows : WindowExpires(k)
           \/ \E w \in Workers : Fail(w) \/ Stop(w)
           \/ UNCHANGED windowVars
  BY <1>1, <1>5 DEF LeaseExpires, Publish, WindowExpires, Fail, Stop, windowVars, redis
<1>6. QED
  BY <1>2, <1>3, <1>4, <1>5 DEF WindowsNext

\* What the owner's list lacks, an append had put under the TTL of the tail.
THEOREM OwnerListLoses == WindowsSpec => []OwnerListLosesOnlyTailed
<1>1. WindowsInit => OwnerListLosesOnlyTailed
  BY DEF WindowsInit, OwnerListLosesOnlyTailed
<1>2. QED
  BY <1>1, LossStep, WindowInvariance, PTL DEF WindowsSpec
=============================================================================
