----------------------------- MODULE MCReplaceTx -----------------------------
(***************************************************************************)
(* Instance of ReplaceTx for TLC.                                          *)
(***************************************************************************)
EXTENDS ReplaceTx

\* Package lists have one to three entries; two are enough for a conflict at
\* the first position and a difference at the last.
MCPackageSizes == {1, 2}

\* A gallery can be empty: the request has a cover only.
MCGallerySizes == {0, 1}
=============================================================================
