------------------------------ MODULE MCGigWrite ------------------------------
(***************************************************************************)
(* Instance of GigWrite for TLC.                                           *)
(***************************************************************************)
EXTENDS GigWrite, TLC

Good(tier) == [tier |-> tier, wellFormed |-> TRUE]
Bad(tier)  == [tier |-> tier, wellFormed |-> FALSE]

\* A list the service takes, and two it refuses: a tier out of order, a package
\* without price, days or description.  (The empty list is always an input.)
MCPackageLists == {<<Good("basic"), Good("standard")>>, <<Good("standard")>>,
                   <<Bad("basic")>>}

MCSymmetry == Permutations(Workers) \cup Permutations(Freelancers)
=============================================================================
