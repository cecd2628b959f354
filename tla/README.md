# TLA+ specifications of the gig service

These modules model the gig service of this repository: the write side (drafts,
packages, questions, media, publication), the PostgreSQL transactions under it,
the consumers that build its Redis read model, and the reads that are answered
from there. TLC checks small
instances; TLAPS proves the main safety properties for every value of the
constants. `PROJECT.json` lists the runs, the faulty variants ("mutants") that
each property is known to catch, the theorems, and for every definition the
source lines it stands for.

To check an instance: `tlc -config MCGigWrite.cfg MCGigWrite.tla`. To check
proofs: `tlapm GigWriteProofs.tla`.

## 1. The system

| Component | Where (under `src/`) | State | Operations |
|---|---|---|---|
| Write use cases | `internal/application/service.go` | none of its own; a request holds a copy of the gig between its remote calls | CreateDraft(WithID), UpdateBasicInfo, ReplacePackages, ReplaceQuestions, ReplaceMedia, Publish |
| Repository | `internal/infra/write/postgres` | tables `gigs`, `gig_packages`, `gig_questions`, `gig_media`, unique indexes on (gig, tier) and (gig, sort order) | single-statement writes (draft, basic info, username, publish), three replace transactions, loads by separate SELECTs |
| Outbox | `migration/postgres/000004*` | `outbox_events`, filled by triggers | read by CDC, outside this repository |
| Event broker (Kafka) | `internal/presentation/event_broker/kafka/broker.go` | topics, committed offsets, `processed_events`, dead letter topic | Publish; projection batch consumer; single message consumer; recovery consumer group |
| Subscribers | `.../kafka/subscribers.go`, `recovery_subscriber.go` | none | project a gig to Redis, refresh previews, replay a command of the monolith |
| Read model | `internal/infra/read/redis` | gig by id, preview windows per seller, owner preview index, payload per preview, popularity snapshots, user lookups, leases | Upsert, AppendPreviewGig, window rewrite, lists |
| Preview and listing use cases | `internal/application/preview.go`, `owner_preview.go`, `my_gigs.go` | none | preview pages, owner previews, counts, filter/sort/paginate |
| Other services | `internal/infra/{file,user,review,order,payment,analytics}` | remote | files, user previews, ratings, order counts, onboarding status, popularity rows |
| gRPC server, wiring | `internal/presentation/grpc`, `internal/fx` | subscription loops | one goroutine per call; start and stop |
| NATS transport | `internal/presentation/event_broker/nats` | jobs channel | compatibility consumer, not wired in `internal/fx` |

How they interact. A gRPC call, or a command of the recovery consumer, becomes
one request: read the gig (row first, children later), check the copy, perhaps
ask the payment service, write, load the written gig, publish
`gig.projection.requested` and `gig.preview.projection.requested` (a publish
sends `gig.published` before them), answer. There is no transaction around this
sequence and no version column, so two requests for one gig interleave at every
call. The projection consumers of all processes share one group per topic; each
message is claimed in `processed_events` before its handler runs.

What is hard: checks on copies (stale when the write happens), loads that are
not a snapshot, transactions whose ordering lock comes last, claims that outlive
the process that took them, redelivery, concurrent workers over ordered
messages, several effects per request of which one can fail, and consumers that
must come back. `PROJECT.json` lists these hazards at their lines.

What makes each part correct:

* write use cases: only the owner writes, apart from the seller username that an
  order start or the warm-up fills in; a published gig is complete and stays
  published; what is published live has passed onboarding; a successful answer
  means that the projections were asked for a copy new enough;
* replace transactions: the children of a gig are those of one request; no
  circular waiting;
* consumers: no event processed twice, nothing committed without an outcome,
  the log is consumed to its end, the read model moves forward;
* media: a row refers to a deleted file only after an error that followed a
  commit; compensation forgets no file; a gallery is that of a whole upload;
* recovery: a gig's commands keep their order, a completion event is true, every
  command gets its turn;
* previews: one append at a time has the lease of a seller's windows; a window
  holds published gigs only and keeps those it holds; an order is counted once and
  is not lost again; every order is settled while a process is subscribed;
* public reads: a draft is never shown, a newer copy is not replaced by an older
  one, a copy shows all of the gig (the first two with exceptions that the
  properties name);
* listing: the pages together are the filtered, ordered list, and a walk misses no
  more of what stays as it is than previews went back or vanished meanwhile.

## 2. The modules

| Module | Models | Status |
|---|---|---|
| `GigWrite` | the write use cases over the repository, concurrent requests | checked, proved (`GigWriteProofs`) |
| `ClaimLedger` | abstract: what `processed_events` promises | refined by `Projection`, `RecoveryBatch` and `OrderCounts` (proved) |
| `Projection` | `runProjectionBatchConsumer` with the projection handler, in a group of processes | checked, proved (`ProjectionProofs`) |
| `WholeReplace` | abstract: "replaces all" | refined by `ReplaceTx` (proved) |
| `ReplaceTx` | the three replace transactions, statement by statement | checked, proved (`ReplaceTxProofs`) |
| `MediaSaga` | ReplaceMedia over the file service and the database | checked, proved (`MediaSagaProofs`) |
| `RecoveryBatch` | the consumer group of the recovery topic with its handler | checked, proved (`RecoveryBatchProofs`) |
| `OrderCounts` | the single message consumer with the handler of `order.funded`, and everybody who writes the preview it updates | checked, proved (`OrderCountsProofs`) |
| `PreviewWindows` | appends to the windows of a seller, rebuilds by page reads, the owner's list, TTLs and the lease | checked, proved (`PreviewWindowsProofs`) |
| `PublicRead` | GetPublicByID beside the projections, by versions | checked, proved (`ReadProofs`) |
| `GigCopies` | what the event, the payload in Redis and the public answer contain | checked, proved (`ReadProofs`) |
| `Listing`, `Paging` | GetMyGigs and a client that walks its pages | checked, proved (`ReadProofs`) |
| `MCReads` | the last four rows beside each other | checked, each part proved to behave as specified (`ReadProofs`) |
| `MC*` | instances for TLC | |

### GigWrite

State: `gigs[g]` is the row (owner, status, completion flags, whether a seller
username is stored), `packages[g]` the package rows as (tier, well formed)
pairs, `commits[g]` a count of the committed writes of g, by which a copy's age is known.
`req[w]` is the request that goroutine w serves: the stage it has reached, its
input and the copy it holds. `announced`, `requested` and `previewed` are what
was sent to the three topics. `onboarded`, `allocated` and `wentLive` are
history variables for the properties (who passed onboarding, for whom a UUID was
made, how a gig was published).

Every remote call is an action: `ReadRow` and `ReadChildren` (GetByID, with the
checks of getOwnedGig and of the use case that follow it in the same goroutine),
`CheckOnboarding`, `CommitWrite`, `ReloadRow`/`LoadChildren` (loadGig),
`WriteUsername`/`LoadNamedChildren`, `Announce`, `RequestProjection`,
`RequestPreview`. `Fail` ends a request at any call with an error (also after a
commit whose answer is lost) and `Crash` ends all of them. A create writes at
once and its INSERT may meet an existing row: a live create uses a fresh UUID, a
recovered one carries the UUID that the monolith made for one freelancer and may
be replayed. That a replay carries the same freelancer is assumed of the
monolith (`Creatable`).

Two operations have no freelancer behind them (`Backfills`): GetOrderStartSnapshot, which
serves a buyer, and the warm-up at the start of the process both look at a
row and store the seller username when it has none. They read like any other request,
ask for no owner, write with an UPDATE that has no condition (`Named`), and
end there: they request no projection. What is left of them after their read is a race of
their UPDATE with the writes of the owner, which OnlyOwnerWrites and ProgressIsKept
are about.

Abstractions: titles, prices and the like are reduced to whether the checks
accept them; UpdateBasicInfo's input checks are a choice between going on and
`Fail`; question rows are not kept (no guard reads them); the replace of the
packages is one step, which `ReplaceTx` justifies: at READ COMMITTED its
transactions take effect whole when they commit. Realtime notifications are best effort in the code
(errors are logged) and left out.

### Projection and ClaimLedger

One partition of the topic, its log fixed in advance, and two processes of a
group. `task[c][i]` is how far process c is with the message at offset i:
fetched, taken by a worker of the pool, claimed, failed, doomed (to be
dead-lettered), done, broken (its dead letter could not be written). Claim,
handler, release, dead letter and commit are separate actions and each has a
failing variant; the failing variants of ClaimDB and of the Redis write may or may
not have had their effect. `Stop` loses a process, `Assign` moves the
partition, also away from a process that is still working; such a process goes on
with its batch and its commit is refused (Kafka fences a commit by generation).

`ClaimLedger` says only that an event is held by at most one consumer, and that
once its handler has returned without error the claim is neither given back nor
the event processed again. `LedgerRespected` maps `held` to the rows of
`processed_events` and `runs` to the handler runs.

Not modelled here: several partitions, and a clean-up of `processed_events`
(there is none in this repository).

### ReplaceTx and WholeReplace

DELETE, INSERTs, UPDATE, COMMIT as separate steps at READ COMMITTED, the
PostgreSQL default, which the code does not change (`BeginTxx(ctx, nil)`). A
DELETE sees the children committed when it starts, waits for those that another
transaction is deleting, and skips those that are gone. The waiting rows are
locked together rather than one by one in scan order. An INSERT waits for an uncommitted
row or deletion at its position and fails on a committed row. The foreign key
from children to gig needs no step: its share lock is compatible with an UPDATE
that leaves the key alone. A position stands for the tier of a package, which
the use case has checked to be determined by the position, or for the sort order
of a question or a media row; identifiers of rows are fresh and never collide.

`WholeReplace` says that the row of the gig and its children belong to one
request and change together. With at least one child per request (packages) the
transactions implement it: of two that overlap, both insert position 1, and the
index makes the later one wait and then fail, or wait for the deletion it
depends on. With possibly empty requests (a cover without gallery) they do not:
see finding 4.

### MediaSaga

State: the files of the file service (file i of request r is `<<r, i>>`), cover
and gallery of the gig, and the request of each goroutine. `Upload` may
return fewer ids than files, `UploadFails` may have uploaded some. The
transaction is reduced to what `ReplaceTx` shows of it: what its DELETE saw, and
a commit that conflicts with rows committed after that, unless the gallery is
empty. The repository can return an error before the commit (`WriteFails`), for
it (`CommitUnanswered`) and after it (`ReloadFails`); all three start the
compensation, which deletes the files from the last to the first, dropping
errors. When the projections cannot be requested the files stay. Three history
variables (`refused`, `stored`, `abandoned`) say why a file or a reference is
left over.

What the runs make visible besides the properties: rows can refer to deleted
files when the repository had committed before it returned its error;
files of an earlier upload are never deleted when they are replaced; an
upload that fails half way leaves its files.

### RecoveryBatch

State: `owner` and `stable` are the coordinator's view of the group,
`reader[c][p]` is the goroutine of process c for partition p (none, reading, working, ended),
`task[c][m]` is how far c is with a message, and `gigs[g]` is the set of operations that gig
g has seen (create, basic info, packages, publish). The acceptance of a command
depends on nothing else (`Needs`, `Passes`): every command but a create loads the gig, and
validatePublishReady wants a draft with the flags of basic info and of
packages. A gig of `Live` was created before the monolith took over.
That a gig already published counts as success is the handler's part (`Accepted`).
`NextGeneration` shares out the partitions; a process that still works on its
last generation is left out only when the coordinator stops waiting, a fault.
The context of a generation reaches ClaimDB and Release, not the use case, the
completion event or the dead letter; so after a rebalance the first two may fail
(`Interrupted`) and the others go on. `Fetch` takes any number of available
messages up to the batch size. Lanes are their keys: that two keys may hash to
one of the 16 lanes only orders more. `BatchFails` ends the goroutine of the
partition; `EndGeneration` needs all goroutines of the process to have ended,
as `workers.Wait()` does.

Both consumers refine `ClaimLedger`; the two differ in who retries (the subscription
loop there, the next generation here), in the order of messages, and in the
completion event.

Not modelled here: the unreachable single-message loop in the same function, and
the `UPDATE processed_events` after a create, whose only effect is an aggregate
id nobody reads in this repository.

### OrderCounts

State: one partition (`topic`, `offset`, `owner`), the retry topic, the dead
letters, and `con[c]`, the subscription of process c: how many messages it has
fetched, its stage, and the count it holds. `preview` is the payload under the
key of the gig's preview; its count is a bag of orders, so that a lost or a
doubled order has a name. `Look`, `Build` and `Store` are
RefreshPreviewOrderCount call by call; `Reads` is the part of UpsertPreviewGig
that decides on the count (the preview in Redis, else the order service, else
zero; an error of Redis counts as no preview). The same preview is
written by projections, the owner's list and the rating handler (`OtherReads`,
`OtherWrites`), by an append (`AppendsAgain`, with counts of zero and perhaps a
TTL), and it expires.

The consumer: a claimed message and one put on the retry topic are passed over
without a commit (`Claim`, `Enqueue`); any error of ClaimDB, of a commit or of
the enqueueing, and *every* dead letter, ends the subscription (`off`).
`internal/fx/presentation.go:281` calls Subscribe once, so only `Restart` brings
it back. The rating events have the same consumer.

`orphans` are the orders whose claim outlives whoever took it (a process
stopped, a release failed), and one more kind: a process that has lost the
partition holds a claim, its handler fails, and so does the enqueueing or the
dead letter. To the owner of the partition the message would come again; after a move
the new owner may have passed it over already, because of the claim (`Drops`).
It takes three faults to get there.

What the runs make visible besides the properties: one unreadable message per
process silences the topic until a restart; an order that was counted can vanish
when its gig is appended to a window again; a count taken from the order service
while the event is on its way counts that order twice.

### PreviewWindows

State: `window[k]` are the ids in window k, `preview[g]` whether the shared
payload of g is there and under a TTL, `owned` the owner index, `lease` whose
token is stored. `job[w]` is a goroutine: an append (`seed` to `release`), a page
read (`list` to `rebuild`) or an owner's list (`own`). UpsertPreviewWindow is a
pipeline without MULTI, hence the two actions `Clear`/`Rewrite` and
`Wipe`/`Rebuild`. `LeaseExpires` may come at any time; `Stop` leaves the lease
behind (`Lost`). UpsertPreviewGig is one step here; `OrderCounts` has its calls.

A page read does not answer from the windows (only the two AppendPreviewGig call
ListPreviewWindow): it lists published gigs in the database and writes window 0
as a side effect, without the lease, although the comment at
`repository.go:707` says that the lease serializes window mutations.
`AppendKeepsWindow` therefore names this writer as an exception. The lookup of a
user before an append is left out: its result is not used.

### PublicRead and GigCopies

`PublicRead` has versions only: `version` counts the committed writes of one
gig, `publishedAt` is the one that published it, `cache` the version stored
under `gig:<id>`, and `task[w]` a read or a projection between its load and its
write. `early` remembers who had its copy before the one in Redis was stored. A
projection is begun with the copy of the moment its event was built and may be
handled at any later time, which covers delays and reordering. There is no TTL on
`gig:<id>` and nothing deletes it.

What it makes visible: a projection stores drafts under the same key, and
GetPublicByID looks at the status only when the key is absent; so the page of a
draft is public to whoever has its link. `DraftsComeFromProjections` says that
there is no other way.

`GigCopies` has the contents: the value of each field is the name of the field
(and the position of the child), so a conversion that drops one is seen. `UrlAnswers` is the file service: it gives URLs for some of the files, and
Project ignores its error. Times lose precision on the wire; that is formatting
and left out.

### Listing and Paging

State: the previews of one owner, which of them Redis still has (`listed`), and a
client with its `query`, the next `page`, what it has `seen`, and the number of pages
of the last answer (HasMore is computed but not part of the answer). Between two
pages gigs are edited and published in the database (`Edit`, `Publication`), which
moves the `clock` only, and previews are stored and expire. `Store` puts *any* copy of a gig
in place of its preview, one older than the last too: UpsertOwnerPreview compares
nothing, the projections store what they loaded, and RefreshPreviewRating and
RefreshPreviewOrderCount write back the preview they read some calls before.
`slips` counts the previews that went back in time or vanished, `changed` the gigs whose preview
was touched. `Paging` has the arithmetic of paginateOwnerGigs and
paginatePreviewItems; page and limit come from int32 fields and are multiplied as
64-bit numbers, so the product does not overflow and no width is modelled.
The errors of an unknown status, sort or order are left out: they change no
state. A list that shows nothing is made from the database before it is answered;
here each gig has its `Store` then. A gig is published once: the second of two racing
publishes (finding 1), which moves its publication time, is left out.

## 3. The runs

| Run | Instance | Shows |
|---|---|---|
| `gig_write` | 1 gig, 2 freelancers, 2 goroutines, 3 requests, order starts and the warm-up among them, 4 package lists | TypeOK, PublishedIsComplete, PublishedMessageIsComplete, LiveOnlyOnboarded, AnswerMeansRequested, ProgressIsKept, OnlyOwnerWrites hold |
| `gig_write_once` | same | AnnouncedOnce is violated (finding 1) |
| `projection` | 2 processes, logs of 3 messages with a duplicate or an unreadable one, batch 3, pool 2, 2 faults | TypeOK, OnlyOrphansAreLost, LedgerRespected, EverythingIsCommitted hold |
| `projection_ack` | batch 2 | AcknowledgedAfterSuccess is violated (finding 2) |
| `projection_order` | three versions of one gig, in order | ReadModelNeverRegresses is violated (finding 3) |
| `replace_packages` | 3 transactions, 1 or 2 children each | TypeOK, ReplacesWhole, EveryTransactionEnds hold |
| `replace_media` | 2 goroutines, 0 or 1 gallery entries | ReplacesWhole is violated (finding 4) |
| `media_saga` | 2 goroutines, 3 requests of 1 to 3 files | TypeOK, DanglingOnlyAfterError, LeftoversExplained, WholeGalleries hold |
| `recovery` | 2 processes, 1 partition, 3 logs of up to 4 commands for two gigs, batch 2, 3 faults | TypeOK, LedgerRespected, OnlyOrphansAreLost, CompletionMeansApplied, OrderIsKept, EverythingIsCommitted hold |
| `recovery_starved` | 1 process, 2 partitions, one of them empty, 1 fault | EverythingIsCommitted is violated (finding 5) |
| `reads` | `PreviewWindows`: 2 goroutines, 3 gigs, windows 0 and 1 of size 2, 3 jobs; `PublicRead`: 3 goroutines, 3 versions, 4 tasks; `GigCopies`: up to 2 children of each kind; `Listing`: 3 gigs, pages of 1 or 2, 1 edit or publication, 2 slips, any number of stores | TypeOK, WindowsHoldPublished, OneLeaseHolder, AppendKeepsWindow, OwnerListLosesOnlyTailed, DraftsComeFromProjections, RegressionNeedsOverlap, CopiesShowTheRow, WalkIsTheList, OneMissedPerSlip hold |
| `order_counts` | 2 processes, 2 orders, or one behind an unreadable message, or an irrelevant message, 2 attempts, 3 faults or 2 and 1 other write | TypeOK, LedgerRespected, OnlyOrphansAreLost, OnlyOverlapsLoseOrders, CountedTwiceOnlyWith, SettledUnlessAllEnd hold |

`MCReads` is a sum, not a composition: the four parts share no variable, so in
each behaviour one of them moves and the others wait. It saves TLC three starts
and none of the behaviours of a part is lost.

Why the bounds are enough. Gigs do not interact in the write side (every
statement names one gig), so one gig with two goroutines shows the races; three
requests give two that overlap and one before or after them that replaces
packages or publishes. Two freelancers are an owner and another. The package
lists are one the service accepts and two it refuses for different reasons,
besides the empty one. In `Projection` two faults allow a crash in the
middle of the recovery from another failure; batch 3 with pool 2 makes a message
wait for a worker; a batch of 2 makes two batches of a log of 3. For `ReplaceTx`
three transactions allow one to commit between the snapshot and the inserts of
another while the third holds locks; positions 1 and 2 tell the first conflict
from the rest. For `MediaSaga` three files are a cover and two gallery rows, so
that an upload, a gallery and a compensation can each be cut short in the
middle, and three requests let one commit while another compensates after a
third. For `RecoveryBatch` the logs are a new gig that lacks the basic info when it is
published, a gig of before that gets all and is published twice, and commands for
a gig nobody created or that nobody supports; a batch of 2 makes neighbours share a batch, in
either pairing, and the others come in another; three faults allow a rebalance during the recovery
from a failed dead letter. For `PreviewWindows` two goroutines are an append and
whoever comes between its steps, and a third job lets a page read follow both.
Windows of size 2, the default of the configuration, make an append write a window
anew that shows a gig; a third gig is appended to the last window, then with a TTL, or opens
another one. Goroutines and gigs are interchangeable (`Symmetry`), as no definition
names one of them. An instance with 4 jobs and windows of size 1 (3.8 million states)
holds as well. For `PublicRead` the third
goroutine lets two older copies wait while a newer one is stored. For `Listing`
three gigs on pages of one or two give a first, an inner and a last page, full or
not; a preview that is older than the last change can be stored at any time, and with two
slips there are walks that miss a gig and walks that miss none. For `OrderCounts`
two attempts are the first and the last. Faults and the writes of others share a bound
of three (`MaxTrouble`). Three faults are a move of the partition, a failed handler and
a failed enqueueing, which an orphan of the second kind takes; two faults are a failure
in the recovery from another, and the one other write beside them can read
before and write after a handler. With two other writes and one fault the
properties hold too.

The runs set CHECK_DEADLOCK FALSE because each instance ends: all requests
accepted and answered, the log committed with every consumer waiting for a
message, the transactions begun.

Fairness. `GigWrite` states none: a request may be abandoned at any call, and
nothing retries it. `Projection` assumes weak fairness of `Progress(c)` for each
process: it is scheduled, remote calls return, and its subscription loop calls
Subscribe again after any error (`internal/fx/presentation.go:155-177`); no
fault is ever forced. `ReplaceTx` assumes weak fairness of `Advance(w)`: a
statement whose locks are free gets executed; `Rollback` is not fair, so
`EveryTransactionEnds` cannot rest on a timeout breaking a circle. `MediaSaga` states none: nothing
there is retried. `RecoveryBatch` assumes weak fairness of each partition goroutine, of
the lanes of each process, of `EndGeneration` (`cg.Next` is called again, and the loop
of `internal/fx/presentation.go:93-128` subscribes again after an error) and of
`NextGeneration`, the coordinator's part. `OrderCounts` assumes weak fairness of each
subscription that has not ended, of the retry queue, and of the coordinator
giving an unattended partition to a process that reads; *not* of `Restart`,
because nothing in the code starts an ended subscription again. So
`SettledUnlessAllEnd` has to allow that all have ended. The parts of `MCReads` state
no fairness: a read, an append or a page may be given up at any call.

## 4. Findings

1. `AnnouncedOnce`. A test says publish "rejects already published gigs"
   (`internal/application/service_test.go:514`). The check is on a copy and the UPDATE
   (`query.go:47`) has no condition on the status; two overlapping publishes both
   succeed and both send `gig.published`.
2. `AcknowledgedAfterSuccess`. README.md:11 says projection events "are
   acknowledged only after the destination transaction succeeds". The claim is
   committed before the handler runs, so an event whose process stops in between
   is skipped and committed when it is delivered again. `OnlyOrphansAreLost`
   says that this is the only way to lose one.
3. `ReadModelNeverRegresses`. The comment at `broker.go:195-198` speaks of
   *independent* aggregates being processed concurrently; the workers of a batch
   take messages of one gig concurrently as well and the write to Redis
   compares no version.
4. `ReplacesWhole` with an empty gallery. The comment on ReplaceMediaParams
   (`internal/domain/gig.go:172-173`) says that cover and gallery are replaced
   in one update. Two overlapping requests, one with an empty gallery, leave the
   cover of one and the gallery of the other, because the row of the gig is
   locked after the gallery was deleted.

5. `EverythingIsCommitted` with fewer processes than partitions. The comment on
   GigRecoverySubscriber (`recovery_subscriber.go:25-27`) says it consumes the
   durable commands and dispatches them. After a batch error the goroutine of a
   partition leaves its loop (`broker.go:333`) and waits for the other
   partitions of the generation (`:421`); an idle one waits in FetchMessage, so
   the failed batch is not read again until something else causes a rebalance.
   With a process for each partition (`recovery`) the property holds.

## 5. The proofs

`GigWriteProofs` proves `Spec => []WriteInvariant` for all values of the
constants under `GigWriteAssumption`, and from it TypeOK, PublishedIsComplete,
PublishedMessageIsComplete, LiveOnlyOnboarded, ProgressIsKept and
OnlyOwnerWrites.

Why these are not inductive alone: publish writes the status of a gig because of
a copy. That the row is complete at that moment follows from three facts which
`WriteInvariant` states. `Behind`: a copy is never ahead of its row, and flags
only ever rise, so what the copy had the row has. `RowSound`: the flag
`packagesDone` implies that the *current* packages are valid, because
ReplacePackages validates its input and nothing else writes packages; so the
packages that the copy showed do not matter. `StageEarned`: what a request has
established when it reaches a stage. Ownership needs `allocated`: a row's owner
is the freelancer its UUID was made for, so that a replayed create writes the
owner that is there already. A backfill has no owner to be compared with; what makes OnlyOwnerWrites hold of it
is that it is never in the stages after its own write, so that its one write is `Named`.

AnswerMeansRequested has an invariant of its own, `AnswerInvariant`. `commits` counts
the writes of a gig, and a request that has written remembers which write was its
own: from that write until its answer it either holds a copy that is at
least that new, or has still to load one, and loading gives the newest; versions
only grow, so what was sent to the topics stays new enough. The requests that failed
or were stopped have no answer, and the invariant says nothing of them.

The proof has one lemma per constant-level predicate (what a helper such as `Saw` or
`WrittenRow` gives, when a frame keeps `RequestSound`) and one step per action.

`ProjectionProofs` proves TypeOK, LedgerRespected and OnlyOrphansAreLost under
`ProjectionAssumption`, for any number of processes and faults, any log and any
batch and pool size. For the refinement `HolderInvariant` says that at most one
task of all the processes is past the claim of an event and before its
outcome, that its event is claimed and has not been processed, and that a processed
event stays claimed. For the losses `AccountInvariant` accounts for every claim
(its event has an outcome, is held by somebody, or is an orphan), for every task
that is done, and for every offset below the committed one. OnlyOrphansAreLost
speaks of the last only, but a commit rests on the tasks, and a task that was
done because of somebody else's claim rests on the claims.

`RecoveryBatchProofs` proves five properties under `RecoveryAssumption`. `Batches` says what
the group protocol gives: a goroutine that works has a contiguous batch of its
partition, and that of the owner begins at the committed offset; a process that was
left out may have any. TypeOK, LedgerRespected and OnlyOrphansAreLost follow the
pattern of `ProjectionProofs`, with the tasks of the lanes for those of the pool.
CompletionMeansApplied needs `EffectInvariant` (what a command has done to
its gig stays done, and a gig of `Live` stays created), and the hypothesis `OneCommandPerEvent`: two places in the log with
one event id have the same command. A completion event and the ledger know a
command by its id only, and the ids are the producer's (UUIDs of the monolith); a redelivered
command is the same command. OrderIsKept needs `OrderInvariant` and also
`OnePartitionPerEvent`: a repeated command is in the partition of the first, as the
producer's key, the gig, gives it. What a command needs is what the use case looks at, the
basic info of a publish included: a publish with no basic info before it is refused and does not count. Without these two the properties are false
of the code too; the logs of the runs satisfy both.

`OrderCountsProofs` proves five properties under `OrderCountsAssumption`, for any
number of processes, orders, attempts, faults and other writers. `HolderInvariant` is
the one of the ledger. `FateInvariant` says that a claim is settled (it has an outcome, is
in the retry topic, or is an orphan) or held, and that every message below
the committed offset, and below what the owner has fetched, is tracked in that way; the
second half is what a commit by the owner rests on. `CountInvariant` says what
the bag of orders may contain, by how far the holder of an event is.
The proof found two mistakes of the model that a run with two faults had not: the
orphans described under *OrderCounts* above (with three faults
OnlyOrphansAreLost was false without `Drops`), and that `Other`, the writer of the
preview that is no consumer, must differ from `NoConsumer`.

`ReplaceTxProofs` proves TypeOK and ChildrenWhole for any number of workers and
children, lists without any included, and ReplacesWhole, the refinement of `WholeReplace`,
when every request brings a child (`0 \notin Sizes`). That is the case of packages: `validatePackages` of
`service.go` wants one to three, in the order of the tiers; galleries and questions may be empty, see
finding 4. TypeOK also bounds what a transaction has inserted by the size of its own request. ChildrenWhole (two lists are never
mixed) is the part of ReplacesWhole that empty lists leave true; for other lists
it follows from it, so no run has it. `WholeInvariant` has five parts. A transaction in flight has an id that is nowhere committed or
in a snapshot (`FreshIds`); children are there from the first position on
(`NoGap`); a snapshot in which one child is still committed is the table
(`SnapshotWhole`); a DELETE has got all committed children or none, and no two
have deleted the same (`DeletesAll`); who has inserted is the only one, and has
deleted whatever is committed (`InsertsAlone`). The last two are why position 1
orders the transactions.

`MediaSagaProofs` proves TypeOK, DanglingOnlyAfterError, LeftoversExplained and
WholeGalleries under `MediaAssumption`, for any number of goroutines, requests and
files. WholeGalleries is about the gallery alone: the cover of a row may be of another
request (finding 4). TypeOK says of a compensation that it deletes at most the files of its request. `SagaInvariant` says what a request keeps at each stage: the files it has
uploaded are there until it compensates (`Keeps`), every goroutine has a
request of its own (`OwnRequests`), and no row, file or history variable speaks of a
request that has not begun (`NothingFromTheFuture`). Hence a
compensation deletes only files of its own request, and those are in a row only if
its commit came before the error.

`ReadProofs` proves `PublicSpec => []ReadInvariant` under
`PublicReadAssumption`, and from it DraftsComeFromProjections and
RegressionNeedsOverlap. Both speak of the stored copy, which is not inductive: a
goroutine may store anything it holds. `CarriesWell` says what it holds: a copy no
newer than the row, one that may be shown, and, unless the read model was
written since the load, no older than the stored one. The last part is where `early`
comes in: storing makes all other holders early, loading makes one late
again. The same module proves CopiesShowTheRow of `GigCopies` for any number of
children: whatever is stored or answered `Agrees` with the row, through each of the conversions.

Its first section is `Listing` under `ListingAssumption`, for any finite set of gigs, any
limits and any number of changes. That Matching can be sorted is proved without
induction over the list: the place of an element is one more than the number of
elements before it (`CanBeSorted`, `SortedPlaces`), and `Sorted` is the only such
sequence. `PagesTile`, `MoreMeansMore` and `PageIsSlice` are the facts about `Paging`: page k + 1 has
elements exactly when k * limit is less than the length, HasMore says the same as
TotalPages, and a page is a slice of the list. WalkIsTheList follows from
`WalkInvariant`: what has been seen is the list up to the next page.
OneMissedPerSlip follows from `MissInvariant`: the gigs left alone that no page has shown
and that have fewer gigs before them than were on the pages already read are no more
than the slips. In the order newest first a gig that gets a newer preview goes to the front,
so nobody has fewer gigs before it than it had (`NewerMovesToFront`). One that
goes back or vanishes takes one place from those behind it (`SlipLetsUpByOne`), and
only the gig that had exactly as many before it as were read falls behind the walk: one
gig, since no two have the same place (`OneAtAPlace`). In another order an edit alone
lets others move up, which is why the property speaks of the default one.

`PreviewWindowsProofs` proves `WindowsSpec => []WindowInvariant` under
`PreviewWindowsAssumption`, and from it type correctness, WindowsHoldPublished and
OneLeaseHolder. `JobSafe` says what makes a window hold published gigs only: from the
check of the copy on, the gig of a job is published, and so is all that it has
listed or read from a window in order to write it. `HoldsLease` ties the stage of a job
to the token: a job between taking and releasing the lease has its token stored, or
is late; that a release compares tokens is what keeps this true for the
others. That the last of the open windows exists is a fact about finite sets
of numbers, from the well-foundedness of `<`. AppendKeepsWindow needs
`KeepInvariant`, which says of an append what it has read of the last window:
unless it is late or a page read came in between, that is what the window
holds, so the rewrite loses nothing. OwnerListLosesOnlyTailed is inductive with the types.

`PartsBehave` proves that a behaviour of `MCReads` is a behaviour of each of its parts, so
the theorems are about the same properties that the run checks; `ReadTypeCorrect` is
the TypeOK of the composition. Each inductive invariant was checked
with TLC on the instance of its module before it was proved.

Only model-checked: liveness (EverythingIsCommitted, EveryTransactionEnds,
SettledUnlessAllEnd), which the proof system does not cover.

## 6. Not modelled, and why

* The NATS pull consumer (`internal/presentation/event_broker/nats`): nothing in
  `internal/fx` constructs it, only tests do. The program never consumes from NATS.
* A composition of `GigWrite` with `Projection`. What passes between them is a copy
  of the gig at some version, handled at some later time; `PublicRead` has
  exactly that. The product would be larger than either and show no more.
* Popularity snapshots: a periodic job overwrites derived scores with what
  ClickHouse returns; no guard reads a score.
* The answer of GetOrderStartSnapshot (the username it stores is in `GigWrite`), GetByID and
  slugs: reads and conversions that keep no state. Realtime notifications: errors are
  logged and nothing waits for them, also not for "accepted" before "completed"
  (`service.go:620`).
* An append that finds the lease busy is dead-lettered and never retried
  (`repository.go:251`), so the gig is in no window until its next write. The windows
  answer no request at present, so no property is stated about it.
* The lookups by username that the start-up warm-up fills in Redis: no modelled step uses
  their value. The usernames it stores in the rows are in `GigWrite`.
* Outbox triggers: a row per change in the same transaction; the reader (CDC) is
  not in this repository.
* Field-by-field conversions other than those of `GigCopies`, configuration,
  logging, metrics, tracing, dependency injection, connections and migrations:
  no state of the domain.
* The `ofm-common` library is not in this repository; ClaimDB, Release and the retry
  queue are modelled from their use.
