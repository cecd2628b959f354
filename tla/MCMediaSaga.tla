------------------------------ MODULE MCMediaSaga ------------------------------
(***************************************************************************)
(* Instance of MediaSaga for TLC.                                          *)
(***************************************************************************)
EXTENDS MediaSaga, TLC

MCSymmetry == Permutations(Workers)
=============================================================================
