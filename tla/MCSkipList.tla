----------------------------- MODULE MCSkipList -----------------------------
(***************************************************************************)
(* A small instance of the skip list for TLC.                              *)
(***************************************************************************)
EXTENDS SkipList, TLC

\* Members are only stored and read.
Symmetry == Permutations(Member)
=============================================================================
