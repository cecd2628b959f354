------------------------------- MODULE Listing -------------------------------
(***************************************************************************)
(* GetMyGigs of internal/application/my_gigs.go: a freelancer's gigs,      *)
(* filtered by status, sorted and cut into pages, and a client that reads  *)
(* the pages one after the other while gigs are edited and published and   *)
(* their previews stored, by whoever has a copy, old or new, and expire.   *)
(* Every page is computed from the previews as they are at that moment.    *)
(*                                                                         *)
(* Times are numbers; 0 stands for the nil PublishedAt, which sorts first. *)
(***************************************************************************)
EXTENDS Integers, Sequences, FiniteSets, Paging

CONSTANTS Ids,         \* gig ids, compared like the strings of the code
          Statuses,    \* the status filters a client asks for; "" is none
          Sorts,
          Limits,      \* page sizes asked for; 0 is none
          PageSize,    \* the configured page size
          MaxTime,     \* bound: times of the previews at the start
          MaxChanges,  \* bound: edits and publications during the walk
          MaxSlips     \* bound: previews that go back or vanish meanwhile

ASSUME ListingAssumption ==
    /\ Ids \subseteq Int /\ IsFiniteSet(Ids)
    /\ Statuses \subseteq {"", "draft", "published"}
    /\ Sorts \subseteq {"", "updated_at", "published_at"}
    /\ Limits \subseteq Int
    /\ PageSize \in Nat \ {0}
    /\ MaxTime \in Nat \ {0} /\ MaxChanges \in Nat /\ MaxSlips \in Nat

VARIABLES launched, \* when gig i was published, or 0
          clock,
          previews,  \* previews[i]: the cached preview of gig i
          listed,    \* gigs that have one, as far as Redis has not dropped it
          query,
          page,      \* the page to read next
          seen,      \* ids on the pages read
          total,     \* TotalPages of the last page read
          more,      \* FALSE when that was the last page
          changed,   \* history: gigs whose preview changed since the walk began
          slips      \* history: previews that went back in time, or vanished

walk == <<query, page, seen, total, more>>
listingVars == <<launched, clock, previews, listed, walk, changed, slips>>

Status(p) == IF p.published = 0 THEN "draft" ELSE "published"

Preview == [id : Ids, updated : Nat, published : Nat]

Query == [status : Statuses, sort : {"updated_at", "published_at"},
          order : {"asc", "desc"}, limit : Nat \ {0}]

-----------------------------------------------------------------------------
\* The sort of an unnamed key is by update, the order of an unnamed one descending.
NormalSort(raw) == IF raw = "" THEN "updated_at" ELSE raw

NormalOrder(raw) == IF raw = "" THEN "desc" ELSE raw

Filtered(all, status) == {p \in all : status \in {"", Status(p)}}

Compare(left, right) == IF left < right THEN -1 ELSE IF right < left THEN 1 ELSE 0

SortKey(p, sort) == IF sort = "published_at" THEN p.published ELSE p.updated

\* Faulty: the order of the query is not looked at.
AlwaysAscending(p, q, sort, order) ==
    LET cmp == Compare(SortKey(p, sort), SortKey(q, sort)) IN
    IF cmp = 0 THEN p.id > q.id ELSE cmp < 0

\* p comes before q: equal keys go by id, the greater one first in either order.
Before(p, q, sort, order) ==
    LET cmp == Compare(SortKey(p, sort), SortKey(q, sort)) IN
    IF cmp = 0 THEN p.id > q.id ELSE IF order = "asc" THEN cmp < 0 ELSE cmp > 0

\* ListOwnerPreviewGigs skips the ids without a preview.
OwnerPreviews == {previews[i] : i \in listed}

Matching == Filtered(OwnerPreviews, query.status)

\* Ids differ, so Before leaves one order only.
Sorted ==
    CHOOSE items \in [1 .. Cardinality(Matching) -> Matching] :
        \A k, n \in DOMAIN items :
            k < n => Before(items[k], items[n], query.sort, query.order)

-----------------------------------------------------------------------------
\* The answer on the wire: HasMore is not passed on.
Response(result) ==
    [ids        |-> [i \in DOMAIN result.items |-> result.items[i].id],
     totalPages |-> result.totalPages]

\* The client goes on as long as there are more pages.  A list without any preview
\* is first made from the database: each gig has its Store then.
ReadPage ==
    LET answer == Response(Page(Sorted, page, query.limit)) IN
    /\ more
    /\ listed # {}
    /\ seen' = seen \o answer.ids
    /\ total' = answer.totalPages
    /\ more' = (page < answer.totalPages)
    /\ page' = IF page < answer.totalPages THEN page + 1 ELSE page
    /\ UNCHANGED <<launched, clock, previews, listed, query, changed, slips>>

Tick ==
    /\ more
    /\ clock < MaxTime + MaxChanges
    /\ clock' = clock + 1
    /\ UNCHANGED <<previews, listed, walk, changed, slips>>

\* An edit in the database.
Edit == Tick /\ UNCHANGED launched

Publication(i) ==
    /\ launched[i] = 0
    /\ Tick
    /\ launched' = [launched EXCEPT ![i] = clock']

\* A copy of gig i that shows its last change at time t.
Copy(i, t) ==
    [id |-> i, updated |-> t,
     published |-> IF launched[i] <= t THEN launched[i] ELSE 0]

Slips(back) ==
    /\ slips' = IF back THEN slips + 1 ELSE slips
    /\ slips' <= MaxSlips

\* UpsertOwnerPreview compares nothing: the projections store the copy they loaded,
\* RefreshPreviewRating and RefreshPreviewOrderCount the preview they read.  (Storing
\* the same again changes nothing.)
Store(i) ==
    \E t \in 1 .. clock :
        /\ more
        /\ i \in listed => t # previews[i].updated
        /\ previews' = [previews EXCEPT ![i] = Copy(i, t)]
        /\ listed' = listed \cup {i}
        /\ changed' = changed \cup {i}
        /\ Slips(i \in listed /\ t < previews[i].updated)
        /\ UNCHANGED <<launched, clock, walk>>

\* A preview that a window has put under its TTL.
Expire(i) ==
    /\ more
    /\ i \in listed
    /\ listed' = listed \ {i}
    /\ changed' = changed \cup {i}
    /\ Slips(TRUE)
    /\ UNCHANGED <<launched, clock, previews, walk>>

ListingInit ==
    /\ launched \in [Ids -> 0 .. MaxTime]
    /\ clock = MaxTime
    /\ \E times \in [Ids -> 1 .. MaxTime] : previews = [i \in Ids |-> Copy(i, times[i])]
    /\ listed \in SUBSET Ids
    /\ \E status \in Statuses, sort \in Sorts, order \in {"", "asc", "desc"}, limit \in Limits :
        query = [status |-> status, sort |-> NormalSort(sort),
                 order |-> NormalOrder(order), limit |-> OrDefault(limit, PageSize)]
    /\ page = 1
    /\ seen = <<>>
    /\ total = 0
    /\ more = TRUE
    /\ changed = {}
    /\ slips = 0

ListingNext ==
    \/ ReadPage
    \/ Edit
    \/ \E i \in Ids : Publication(i) \/ Store(i) \/ Expire(i)

ListingSpec == ListingInit /\ [][ListingNext]_listingVars

-----------------------------------------------------------------------------
\* Every variable stays in its type.
ListingTypeOK ==
    /\ launched \in [Ids -> Nat]
    /\ clock \in Nat
    /\ previews \in [Ids -> Preview]
    /\ listed \in SUBSET Ids
    /\ query \in Query
    /\ page \in Nat \ {0}
    /\ seen \in Seq(Ids)
    /\ total \in Nat
    /\ more \in BOOLEAN
    /\ changed \in SUBSET Ids
    /\ slips \in 0 .. MaxSlips

\* The pages of an unchanged list are the whole list: each matching gig once, in the
\* order asked for, on as many pages as the answers said, and the last page is the one
\* without HasMore.  HasMore, TotalPages and the slices are computed apart.
WalkIsTheList ==
    ~more /\ changed = {} =>
        /\ {seen[k] : k \in DOMAIN seen} = {p.id : p \in Matching}
        /\ Len(seen) = Cardinality(Matching)
        /\ \A k, n \in DOMAIN seen :
            k < n => Before(previews[seen[k]], previews[seen[n]], query.sort, query.order)
        /\ total = IF Matching = {} THEN 0 ELSE page
        /\ \A k \in 1 .. page : Page(Sorted, k, query.limit).hasMore <=> k < page

\* Gigs on the list, left alone during the walk, that no page has shown.
Skipped ==
    {i \in listed \ changed : previews[i] \in Matching /\ \A k \in DOMAIN seen : seen[k] # i}

\* In the default order, by last update, edits and publications skip nobody: a gig
\* that gets a newer preview moves to the front and pushes the others towards the
\* pages to come.  Only an older copy stored over a newer one, or a preview that
\* expires, lets the others move up, and each lets one gig slip onto a page already
\* read.  (A filter for drafts loses the published.)
OneMissedPerSlip ==
    ~more /\ query.sort = "updated_at" /\ query.order = "desc" /\ query.status # "draft"
        => Cardinality(Skipped) <= slips
=============================================================================
