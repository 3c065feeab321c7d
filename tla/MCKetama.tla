------------------------------ MODULE MCKetama ------------------------------
(***************************************************************************)
(* A small circle for TLC: six virtual nodes on three positions.            *)
(***************************************************************************)
EXTENDS Ketama
=============================================================================
