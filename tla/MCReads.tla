------------------------------- MODULE MCReads -------------------------------
(***************************************************************************)
(* Instance of the four parts of the read side for TLC.  They share no     *)
(* variable: the part chosen at the start moves and the others wait.       *)
(***************************************************************************)
EXTENDS PreviewWindows, PublicRead, GigCopies, Listing, TLC

VARIABLE part

TypeOK == WindowsTypeOK /\ PublicTypeOK /\ CopyTypeOK /\ ListingTypeOK

\* Where a part waits that has a choice at the start.
ListingWaits ==
    /\ \A i \in Ids : launched[i] = 0 /\ previews[i].updated = 1
    /\ listed = {}
    /\ query = [status |-> "", sort |-> NormalSort(""), order |-> NormalOrder(""),
                limit |-> PageSize]

CopyWaits == row = CHOOSE r \in Rows : TRUE

Init ==
    /\ part \in {"windows", "public", "copies", "listing"}
    /\ WindowsInit
    /\ PublicInit
    /\ CopyInit
    /\ part # "copies" => CopyWaits
    /\ ListingInit
    /\ part # "listing" => ListingWaits

WindowsMove ==
    part = "windows" /\ WindowsNext /\ UNCHANGED <<part, publicVars, copyVars, listingVars>>

PublicMoves ==
    part = "public" /\ PublicNext /\ UNCHANGED <<part, windowVars, copyVars, listingVars>>

CopiesMove ==
    part = "copies" /\ CopyNext /\ UNCHANGED <<part, windowVars, publicVars, listingVars>>

ListingMoves ==
    part = "listing" /\ ListingNext /\ UNCHANGED <<part, windowVars, publicVars, copyVars>>

Next == WindowsMove \/ PublicMoves \/ CopiesMove \/ ListingMoves

\* Goroutines and gigs of the windows are alike.
Symmetry == Permutations(Workers) \cup Permutations(Gigs)

Spec == Init /\ [][Next]_<<part, windowVars, publicVars, copyVars, listingVars>>
=============================================================================
