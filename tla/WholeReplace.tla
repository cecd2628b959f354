----------------------------- MODULE WholeReplace -----------------------------
(***************************************************************************)
(* What "replaces all" promises of the children of a gig: the row of the   *)
(* gig (position 0) and its children (positions 1, 2, ...) are those of    *)
(* one request, and change together.                                       *)
(***************************************************************************)
EXTENDS Naturals

CONSTANTS Sizes,    \* numbers of children a request can bring
          Last,     \* the last position
          Requests,
          Nobody    \* writer of a position that has no row

VARIABLE rows  \* rows[p]: the request that wrote position p

Whole(r, n) == [p \in 0 .. Last |-> IF p <= n THEN r ELSE Nobody]

WholeInit == rows = [p \in 0 .. Last |-> Nobody]

WholeNext == \E r \in Requests, n \in Sizes : rows' = Whole(r, n)

WholeSpec == WholeInit /\ [][WholeNext]_rows
=============================================================================
