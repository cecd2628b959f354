-------------------------------- MODULE Paging --------------------------------
(***************************************************************************)
(* Pages of a list: paginateOwnerGigs of internal/application/my_gigs.go   *)
(* and paginatePreviewItems of preview.go, which do the same.  Sequences   *)
(* start at 1 here and at 0 in the code, so the slice [start:end] is       *)
(* SubSeq(start + 1, end).                                                 *)
(***************************************************************************)
EXTENDS Integers, Sequences

\* Faulty: a missing size is not defaulted.
AsGiven(n, default) == n

OrDefault(n, default) == IF n <= 0 THEN default ELSE n

PageStart(page, limit) == (page - 1) * limit

PageEnd(len, page, limit) ==
    IF PageStart(page, limit) + limit > len THEN len ELSE PageStart(page, limit) + limit

\* Faulty: the last page, when it is not full, is not counted.
FullPages(len, limit) == len \div limit

TotalPages(len, limit) == IF len > 0 THEN (len + limit - 1) \div limit ELSE 0

BeyondLast(len, page, limit) == PageStart(page, limit) >= len

HasMore(len, page, limit) == ~BeyondLast(len, page, limit) /\ PageEnd(len, page, limit) < len

Slice(items, page, limit) ==
    IF BeyondLast(Len(items), page, limit) THEN <<>>
    ELSE SubSeq(items, PageStart(page, limit) + 1, PageEnd(Len(items), page, limit))

Page(items, page, limit) ==
    [items      |-> Slice(items, page, limit),
     totalPages |-> TotalPages(Len(items), limit),
     hasMore    |-> HasMore(Len(items), page, limit)]
=============================================================================
