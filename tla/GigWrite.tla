------------------------------- MODULE GigWrite -------------------------------
(***************************************************************************)
(* The write side of the gig service: the use cases of                     *)
(* internal/application/service.go over the PostgreSQL repository, run by  *)
(* concurrent request goroutines.  A request is a sequence of remote calls *)
(* (SELECT the row, SELECT its children, ask the payment service, commit a *)
(* write, load the written gig, publish events); any call can fail, and    *)
(* calls of different requests interleave.                                 *)
(*                                                                         *)
(* Data kept: what the guards of the use cases read.  A gig row has its    *)
(* owner, its status and the completion flags; its packages are a list of  *)
(* (tier, well formed) pairs; `commits` numbers the committed writes of a  *)
(* gig, so that a loaded copy can be compared with a later one.  Question  *)
(* and media rows are not told apart here (ReplaceTx has them).            *)
(***************************************************************************)
EXTENDS Naturals, Sequences

CONSTANTS Gigs,          \* gig identities (UUIDs)
          Freelancers,   \* callers, and owners of gigs
          Workers,       \* request goroutines of the process
          PackageLists,  \* the package lists a request can carry
          MaxRequests,   \* bound: requests accepted in a behaviour
          NoOne          \* owner of a gig that has no row

Tiers == <<"basic", "standard", "premium">>

\* A package of a request or a row.  wellFormed stands for a description that
\* is not blank, a positive number of delivery days and a positive price.
Package == [tier : {"basic", "standard", "premium"}, wellFormed : BOOLEAN]

ASSUME GigWriteAssumption ==
    /\ MaxRequests \in Nat
    /\ PackageLists \subseteq Seq(Package)
    /\ Gigs # {}
    /\ NoOne \notin Freelancers

VARIABLES gigs,       \* gigs[g]: the row of table gigs
          packages,   \* packages[g]: the rows of gig_packages, in sort order
          commits,    \* commits[g]: how many writes of g have committed
          onboarded,  \* history: freelancers the payment service has reported
                      \* as having completed their onboarding
          allocated,  \* allocated[g]: for whom the UUID g was made, and by whom
          wentLive,   \* history: how g was published: "live", "recovery"
          announced,  \* announced[g]: gig.published events sent for g
          requested,  \* requested[g]: newest copy of g (by version) sent to
                      \* topic gig.projection.requested
          previewed,  \* the same for gig.preview.projection.requested
          req,        \* req[w]: the request worker w serves
          accepted    \* requests accepted so far

vars == <<gigs, packages, commits, onboarded, allocated, wentLive,
          announced, requested, previewed, req, accepted>>

store == <<gigs, packages, commits>>
events == <<announced, requested, previewed>>
history == <<onboarded, allocated, wentLive>>

\* Who owns a gig or asks for something: a freelancer, or nobody.
Anyone == Freelancers \cup {NoOne}

Row == [exists : BOOLEAN, owner : Anyone,
        status : {"draft", "published"}, basicInfo : BOOLEAN,
        packagesDone : BOOLEAN, requirementsDone : BOOLEAN, username : BOOLEAN]

NoRow == [exists |-> FALSE, owner |-> NoOne, status |-> "draft",
          basicInfo |-> FALSE, packagesDone |-> FALSE,
          requirementsDone |-> FALSE, username |-> FALSE]

\* What repository.GetByID returns: the row, and the children loaded after it.
Copy == [row : Row, packages : Seq(Package), version : Nat]

NoCopy == [row |-> NoRow, packages |-> <<>>, version |-> 0]

\* Nobody's request for a gig of his own: an order that starts on a gig, and the
\* warm-up of the process on a gig of its list, store a seller username the row
\* lacks.
Backfills == {"orderStart", "warmup"}

Ops == {"create", "basicInfo", "packages", "questions", "publish"} \cup Backfills

Stages == {"idle", "read", "readChildren", "onboarding", "write", "reload",
           "load", "username", "loadNamed", "announce", "project", "preview",
           "ok"}

Request == [stage : Stages, op : Ops, gig : Gigs,
            caller : Anyone,
            recovery : BOOLEAN, input : Seq(Package), username : BOOLEAN,
            copy : Copy, wrote : Nat]

Allocation == [by : {"nobody", "service", "monolith"},
               freelancer : Anyone]

Idle == [stage |-> "idle", op |-> "create", gig |-> CHOOSE g \in Gigs : TRUE,
         caller |-> NoOne, recovery |-> FALSE, input |-> <<>>,
         username |-> FALSE, copy |-> NoCopy, wrote |-> 0]

-----------------------------------------------------------------------------
(***************************************************************************)
(* The rules of the domain.                                                *)
(***************************************************************************)

\* One to three packages, in the order basic, standard, premium.
ValidPackages(list) ==
    /\ Len(list) \in 1 .. Len(Tiers)
    /\ \A i \in DOMAIN list : list[i].tier = Tiers[i] /\ list[i].wellFormed

PublishReady(copy) ==
    /\ copy.row.status = "draft"
    /\ copy.row.basicInfo
    /\ copy.row.packagesDone
    /\ ValidPackages(copy.packages)

\* Faulty: the conflict clause of the insert overwrites the whole row.
OverwritingDraft(row, f) == [NoRow EXCEPT !.exists = TRUE, !.owner = f]

\* Faulty: the insert stores a status that no reader knows.
MisspelledStatus(row, f) ==
    [row EXCEPT !.exists = TRUE, !.owner = f, !.status = "drafted"]

\* The row createGigDraftQuery leaves: a new draft, or, when the identity
\* already has a row (a replayed recovery command), the old row with the
\* caller as owner and its status and flags kept.
DraftedRow(row, f) ==
    IF row.exists THEN [row EXCEPT !.owner = f]
                  ELSE [NoRow EXCEPT !.exists = TRUE, !.owner = f]

\* The row after the seller username is stored in it.
Named(row) == [row EXCEPT !.username = TRUE]

\* The row after the write of operation op.
WrittenRow(op, row, f) ==
    CASE op = "create"    -> DraftedRow(row, f)
      [] op = "basicInfo" -> [row EXCEPT !.basicInfo = TRUE]
      [] op = "packages"  -> [row EXCEPT !.packagesDone = TRUE]
      [] op = "questions" -> [row EXCEPT !.requirementsDone = TRUE]
      [] op = "publish"   -> [row EXCEPT !.status = "published"]
      [] op \in Backfills -> Named(row)

\* Faulty: every use case asks for the preview alone, as create does.
OnlyPreviewAfterLoad(r) == "preview"

\* Where a request goes once the written gig is loaded.
AfterLoad(r) ==
    CASE r.op = "create" -> "preview"
      [] r.op = "publish" /\ r.username /\ ~r.copy.row.username -> "username"
      [] r.op = "publish" /\ ~(r.username /\ ~r.copy.row.username) -> "announce"
      [] OTHER -> "project"

-----------------------------------------------------------------------------
(***************************************************************************)
(* Steps of a request.                                                     *)
(***************************************************************************)

Free(w) == req[w].stage \in {"idle", "ok"}

At(w, stage) == req[w].stage = stage

\* The request goes on to another stage, having read a row or the children.
Moved(r, stage) == [r EXCEPT !.stage = stage]

Saw(r, stage, row, version) ==
    [r EXCEPT !.stage = stage, !.copy.row = row, !.copy.version = version]

Loaded(r, stage, list) ==
    [r EXCEPT !.stage = stage, !.copy.packages = list]

\* The request's own write became version `version` of its gig.
Wrote(r, version) == [r EXCEPT !.wrote = version]

\* A UUID a create can use: a live create makes a fresh one; a recovered one
\* carries the UUID the monolith made for one freelancer, and can be replayed.
Creatable(g, f, recovery) ==
    \/ allocated[g].by = "nobody"
    \/ recovery /\ allocated[g] = [by |-> "monolith", freelancer |-> f]

AllocatedAfter(op, g, f, recovery) ==
    IF op = "create"
    THEN [allocated EXCEPT ![g] =
            [by |-> IF recovery THEN "monolith" ELSE "service", freelancer |-> f]]
    ELSE allocated

\* A create writes at once; every other use case reads the gig first.
NewRequest(op, g, f, recovery, input, username) ==
    [stage |-> IF op = "create" THEN "write" ELSE "read", op |-> op, gig |-> g,
     caller |-> f, recovery |-> recovery, input |-> input,
     username |-> username, copy |-> NoCopy, wrote |-> 0]

\* A gRPC call, a command of the recovery consumer or a gig of the warm-up's
\* list reaches the service.  A backfill has no freelancer behind it.
Accept(w) ==
    /\ Free(w)
    /\ accepted < MaxRequests
    /\ \E op \in Ops, g \in Gigs, f \in Anyone,
          recovery \in BOOLEAN, input \in PackageLists \cup {<<>>},
          username \in BOOLEAN :
        /\ op \in Backfills <=> f = NoOne
        /\ op \in Backfills => ~recovery
        /\ op = "create" => Creatable(g, f, recovery)
        /\ op # "packages" => input = <<>>
        /\ op # "publish" => ~username
        /\ allocated' = AllocatedAfter(op, g, f, recovery)
        /\ req' = [req EXCEPT ![w] = NewRequest(op, g, f, recovery, input, username)]
    /\ accepted' = accepted + 1
    /\ UNCHANGED <<store, onboarded, wentLive, events>>

\* repository.GetByID of getOwnedGig: the row is read first.
ReadRow(w) ==
    /\ At(w, "read")
    /\ gigs[req[w].gig].exists
    /\ req' = [req EXCEPT ![w] = Saw(req[w], "readChildren", gigs[req[w].gig],
                                     commits[req[w].gig])]
    /\ UNCHANGED <<store, history, events, accepted>>

\* Faulty: the use case trusts the caller.
AnyCallerOwns(r) == TRUE

\* getOwnedGig compares the owner of the copy with the caller.
Owned(r) == r.copy.row.owner = r.caller

\* Faulty: ReplacePackages stores what it is given.
UncheckedPackages(r, loaded) ==
    r.op = "publish" => PublishReady([r.copy EXCEPT !.packages = loaded])

\* The checks of each use case on its copy and its input, before any write.  An
\* order starts on a package of a published gig.  A backfill that the row does
\* not need, or that finds no username in the read model (the order) or at the
\* user service (the warm-up), writes nothing: it ends as Fail does.
InputAccepted(r, loaded) ==
    CASE r.op = "packages"   -> ValidPackages(r.input)
      [] r.op = "publish"    -> PublishReady([r.copy EXCEPT !.packages = loaded])
      [] r.op = "orderStart" -> /\ r.copy.row.status = "published"
                                /\ loaded # <<>>
                                /\ ~r.copy.row.username
      [] r.op = "warmup"     -> ~r.copy.row.username
      [] OTHER               -> TRUE

\* The children are read by a later SELECT; then the owner, of whom a backfill
\* does not ask, and the input are checked.  Only a live publish asks the
\* payment service before its write.
ReadChildren(w) ==
    LET r == req[w] IN
    /\ At(w, "readChildren")
    /\ r.op \in Backfills \/ Owned(r)
    /\ InputAccepted(r, packages[r.gig])
    /\ req' = [req EXCEPT ![w] =
                 Loaded(r, IF r.op = "publish" /\ ~r.recovery
                           THEN "onboarding" ELSE "write", packages[r.gig])]
    /\ UNCHANGED <<store, history, events, accepted>>

\* Faulty: any answer of the payment service will do.
AnyStatusPasses(status) == TRUE

\* The payment service answers GetConnectStatus with a status of its own, and
\* only "completed" lets the request go on to its write.
OnboardingPasses(status) == status = "completed"

CheckOnboarding(w) ==
    /\ At(w, "onboarding")
    /\ \E status \in {"pending", "completed"} :
        /\ OnboardingPasses(status)
        /\ onboarded' = IF status = "completed"
                        THEN onboarded \cup {req[w].copy.row.owner}
                        ELSE onboarded
    /\ req' = [req EXCEPT ![w] = Moved(req[w], "write")]
    /\ UNCHANGED <<store, allocated, wentLive, events, accepted>>

\* What is left of a request that was answered without error.
Answered(r) == [Idle EXCEPT !.stage = "ok", !.op = r.op, !.gig = r.gig,
                            !.wrote = r.wrote]

\* A replace transaction reads its gig again; the other writes have the row they
\* return.  A backfill is done: it asks for no projection of the name.
AfterWrite(r, row, version) ==
    CASE r.op \in {"packages", "questions"} -> Moved(r, "reload")
      [] r.op \in Backfills                -> Answered(r)
      [] OTHER                             -> Saw(r, "load", row, version)

\* The write commits.  The UPDATE or INSERT of create, basic info and publish
\* returns the written row; the replace transactions read it again later.
\* A write needs its row (rows are never deleted); the UPDATE of publish has
\* no condition on the status it replaces, that of a backfill none on the name.
CommitWrite(w) ==
    LET r == req[w]
        row == WrittenRow(r.op, gigs[r.gig], r.caller)
        version == commits[r.gig] + 1
    IN
    /\ At(w, "write")
    /\ r.op # "create" => gigs[r.gig].exists
    /\ gigs' = [gigs EXCEPT ![r.gig] = row]
    /\ packages' = IF r.op = "packages"
                   THEN [packages EXCEPT ![r.gig] = r.input] ELSE packages
    /\ commits' = [commits EXCEPT ![r.gig] = version]
    /\ wentLive' = IF r.op = "publish"
                   THEN [wentLive EXCEPT ![r.gig] =
                           @ \cup {IF r.recovery THEN "recovery" ELSE "live"}]
                   ELSE wentLive
    /\ req' = [req EXCEPT ![w] = AfterWrite(Wrote(r, version), row, version)]
    /\ UNCHANGED <<onboarded, allocated, events, accepted>>

\* A replace transaction ends with repository.GetByID, after its commit.
ReloadRow(w) ==
    /\ At(w, "reload")
    /\ req' = [req EXCEPT ![w] = Saw(req[w], "load", gigs[req[w].gig],
                                     commits[req[w].gig])]
    /\ UNCHANGED <<store, history, events, accepted>>

\* Faulty: the children of the ownership check are kept for the event.
ChildrenOfOwnershipCheck(r) == r.copy.packages

\* The children loadGig puts beside the row.
ChildrenOf(r) == packages[r.gig]

LoadChildren(w) ==
    /\ At(w, "load")
    /\ req' = [req EXCEPT ![w] =
                 Loaded(req[w], AfterLoad(req[w]), ChildrenOf(req[w]))]
    /\ UNCHANGED <<store, history, events, accepted>>

\* Publish fills an empty seller username with a second UPDATE, which returns
\* the row; the children are loaded again after it.
WriteUsername(w) ==
    LET g == req[w].gig
        row == Named(gigs[g])
    IN
    /\ At(w, "username")
    /\ gigs[g].exists
    /\ gigs' = [gigs EXCEPT ![g] = row]
    /\ commits' = [commits EXCEPT ![g] = @ + 1]
    /\ req' = [req EXCEPT ![w] =
                 Saw(Wrote(req[w], commits[g] + 1), "loadNamed", row, commits[g] + 1)]
    /\ UNCHANGED <<packages, history, events, accepted>>

LoadNamedChildren(w) ==
    /\ At(w, "loadNamed")
    /\ req' = [req EXCEPT ![w] =
                 Loaded(req[w], "announce", ChildrenOf(req[w]))]
    /\ UNCHANGED <<store, history, events, accepted>>

\* broker.Publish of gig.published.
Announce(w) ==
    /\ At(w, "announce")
    /\ announced' = [announced EXCEPT ![req[w].gig] = @ + 1]
    /\ req' = [req EXCEPT ![w] = Moved(req[w], "project")]
    /\ UNCHANGED <<store, history, requested, previewed, accepted>>

Newest(known, version) == IF version > known THEN version ELSE known

\* A projection request carries the gig as it was loaded after the last write.
RequestProjection(w) ==
    /\ At(w, "project")
    /\ requested' = [requested EXCEPT
                       ![req[w].gig] = Newest(@, req[w].copy.version)]
    /\ req' = [req EXCEPT ![w] = Moved(req[w], "preview")]
    /\ UNCHANGED <<store, history, announced, previewed, accepted>>

\* The last event; the caller then gets its answer.  The realtime
\* notification that follows is best effort and its errors are only logged.
RequestPreview(w) ==
    /\ At(w, "preview")
    /\ previewed' = [previewed EXCEPT
                       ![req[w].gig] = Newest(@, req[w].copy.version)]
    /\ req' = [req EXCEPT ![w] = Answered(req[w])]
    /\ UNCHANGED <<store, history, announced, requested, accepted>>

\* A request ends with an error at any call: a missing row, another owner, an
\* input that is refused, a rolled-back write, an answer that is lost after
\* the commit, a broker that is down.  What was committed or sent stays.
Fail(w) ==
    /\ ~Free(w)
    /\ req' = [req EXCEPT ![w] = Idle]
    /\ UNCHANGED <<store, history, events, accepted>>

\* The process stops with every request in flight.  A deployment does this,
\* and so does the nil dereference of Publish when the UPDATE returns an error
\* (service.go:487 logs gig.ID of a nil gig).
Crash ==
    /\ \E w \in Workers : ~Free(w)
    /\ req' = [w \in Workers |-> Idle]
    /\ UNCHANGED <<store, history, events, accepted>>

-----------------------------------------------------------------------------
\* A gig starts without a row, or as a draft that earlier requests left.
Draft(f, basicInfo) ==
    [NoRow EXCEPT !.exists = TRUE, !.owner = f, !.basicInfo = basicInfo]

Init ==
    /\ gigs \in [Gigs -> {NoRow} \cup {Draft(f, b) : f \in Freelancers,
                                                  b \in BOOLEAN}]
    /\ packages = [g \in Gigs |-> <<>>]
    /\ commits = [g \in Gigs |-> 0]
    /\ onboarded = {}
    /\ allocated \in [Gigs -> Allocation]
    /\ \A g \in Gigs : /\ allocated[g].freelancer = gigs[g].owner
                       /\ allocated[g].by = "nobody" <=> ~gigs[g].exists
    /\ wentLive = [g \in Gigs |-> {}]
    /\ announced = [g \in Gigs |-> 0]
    /\ requested = [g \in Gigs |-> 0]
    /\ previewed = [g \in Gigs |-> 0]
    /\ req = [w \in Workers |-> Idle]
    /\ accepted = 0

Step(w) ==
    \/ Accept(w)
    \/ ReadRow(w)
    \/ ReadChildren(w)
    \/ CheckOnboarding(w)
    \/ CommitWrite(w)
    \/ ReloadRow(w)
    \/ LoadChildren(w)
    \/ WriteUsername(w)
    \/ LoadNamedChildren(w)
    \/ Announce(w)
    \/ RequestProjection(w)
    \/ RequestPreview(w)
    \/ Fail(w)

Next ==
    \/ \E w \in Workers : Step(w)
    \/ Crash

Spec == Init /\ [][Next]_vars
-----------------------------------------------------------------------------
(***************************************************************************)
(* What the write side promises.                                           *)
(***************************************************************************)

\* Every variable stays in its type.
TypeOK ==
    /\ gigs \in [Gigs -> Row]
    /\ packages \in [Gigs -> Seq(Package)]
    /\ commits \in [Gigs -> Nat]
    /\ onboarded \in SUBSET Anyone
    /\ allocated \in [Gigs -> Allocation]
    /\ wentLive \in [Gigs -> SUBSET {"live", "recovery"}]
    /\ announced \in [Gigs -> Nat]
    /\ requested \in [Gigs -> Nat]
    /\ previewed \in [Gigs -> Nat]
    /\ req \in [Workers -> Request]
    /\ accepted \in 0 .. MaxRequests

\* A published gig has basic information and a valid package list, although
\* publish checks a copy and other requests replace packages in between.
PublishedIsComplete ==
    \A g \in Gigs : gigs[g].status = "published" =>
        /\ gigs[g].basicInfo
        /\ gigs[g].packagesDone
        /\ ValidPackages(packages[g])

Complete(sent) ==
    sent.row.status = "published" =>
        sent.row.basicInfo /\ ValidPackages(sent.packages)

\* A projection request that says "published" carries a complete gig, although
\* its row and its packages were read by separate SELECTs outside a
\* transaction and belong to different moments.
PublishedMessageIsComplete ==
    \A w \in Workers :
        req[w].stage \in {"announce", "project", "preview"} => Complete(req[w].copy)

\* A gig that any live request published belongs to a freelancer the payment
\* service has reported as onboarded (recovery alone does not ask it).
LiveOnlyOnboarded ==
    \A g \in Gigs : "live" \in wentLive[g] => gigs[g].owner \in onboarded

\* A request answered without error has put on the projection topics a copy
\* of its gig at least as new as its own last write; create only asks for the
\* preview, and a backfilled username waits for the next request of the gig.
AnswerMeansRequested ==
    \A w \in Workers : req[w].stage = "ok" /\ req[w].op \notin Backfills =>
        /\ previewed[req[w].gig] >= req[w].wrote
        /\ req[w].op # "create" => requested[req[w].gig] >= req[w].wrote

Forward(old, new) ==
    /\ old.exists => new.exists
    /\ old.status = "published" => new.status = "published"
    /\ old.basicInfo => new.basicInfo
    /\ old.packagesDone => new.packagesDone
    /\ old.requirementsDone => new.requirementsDone
    /\ old.username => new.username

\* No step takes a gig back: a row stays, a published gig stays published
\* and a completed part stays completed, whatever is replayed or concurrent.
ProgressIsKept ==
    [][\A g \in Gigs : Forward(gigs[g], gigs'[g])]_gigs

\* The step stores a username in the row of g and changes nothing else of g.
OnlyNames(g) == gigs'[g] = Named(gigs[g]) /\ UNCHANGED packages[g]

\* A gig only changes by a request of its owner, checked calls earlier: what
\* others run on it, an order that starts or the warm-up, stores the seller
\* username and touches nothing the owner writes meanwhile.
OnlyOwnerWrites ==
    [][\A g \in Gigs : gigs[g].exists /\ commits'[g] # commits[g] =>
         \E w \in Workers :
            /\ req[w].gig = g /\ req'[w].wrote = commits'[g]
            /\ \/ req[w].caller = gigs[g].owner
               \/ req[w].op \in Backfills /\ OnlyNames(g)]_commits

\* service_test.go:514 "rejects already published gigs": a gig is announced
\* as published at most once.
AnnouncedOnce == \A g \in Gigs : announced[g] <= 1

-----------------------------------------------------------------------------
(***************************************************************************)
(* Why the promises hold: the inductive invariant of GigWriteProofs.       *)
(***************************************************************************)

\* A row, its packages, who passed onboarding, for whom its UUID was made and
\* how it was published.  The flags summarise the children; published implies
\* them; the UUID serves the one freelancer it was made for.
RowSound(row, list, passed, allocation, how) ==
    /\ row.packagesDone => ValidPackages(list)
    /\ row.status = "published" => row.basicInfo /\ row.packagesDone
    /\ row.exists => /\ allocation.by # "nobody"
                     /\ row.owner = allocation.freelancer
    /\ ~row.exists => row = NoRow /\ how = {}
    /\ "live" \in how => row.owner \in passed

\* A copy is never ahead of its row, and it is as consistent as a row.
Behind(copied, row) ==
    /\ copied.basicInfo => row.basicInfo
    /\ copied.packagesDone => row.packagesDone
    /\ copied.exists => row.exists /\ copied.owner = row.owner
    /\ copied.status = "published" => copied.basicInfo /\ copied.packagesDone

\* The copy is of a row of the caller.
HoldsOwn(r) == r.copy.row.exists /\ r.copy.row.owner = r.caller

\* What a request has established when it reaches a stage.
StageEarned(r, passed) ==
    /\ r.stage = "readChildren" => r.copy.row.exists
    /\ r.stage = "onboarding" => r.op = "publish"
    /\ r.stage \in {"onboarding", "write"} /\ r.op # "create" =>
         IF r.op \in Backfills THEN r.copy.row.exists ELSE HoldsOwn(r)
    /\ r.stage \in {"reload", "load", "username"} => HoldsOwn(r)
    /\ r.stage \in {"onboarding", "write"} /\ r.op = "publish" =>
         r.copy.row.basicInfo /\ r.copy.row.packagesDone
    /\ r.stage = "write" /\ r.op = "publish" /\ ~r.recovery => r.caller \in passed
    /\ r.stage = "write" /\ r.op = "packages" => ValidPackages(r.input)
    /\ r.stage \in {"announce", "project", "preview"} => Complete(r.copy)

\* A create in flight holds a UUID made for its caller.
CreateAllocated(r, allocation) ==
    r.op = "create" /\ r.stage \notin {"idle", "ok"} =>
        /\ allocation.by # "nobody"
        /\ r.caller = allocation.freelancer

RequestSound(r, row, passed, allocation) ==
    /\ Behind(r.copy.row, row)
    /\ StageEarned(r, passed)
    /\ CreateAllocated(r, allocation)

WriteInvariant ==
    /\ TypeOK
    /\ \A g \in Gigs : RowSound(gigs[g], packages[g], onboarded, allocated[g],
                                wentLive[g])
    /\ \A w \in Workers : RequestSound(req[w], gigs[req[w].gig], onboarded,
                                       allocated[req[w].gig])
=============================================================================
