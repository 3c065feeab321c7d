----------------------------- MODULE MCLocking -----------------------------
(***************************************************************************)
(* A small instance of the mutexes of the push service for TLC.            *)
(***************************************************************************)
EXTENDS Locking, TLC

CONSTANTS k1, k2, b1, b2, stranger

\* Each of two keys has a bucket of its own.
Apart == k1 :> b1 @@ k2 :> b2

\* All but one work with the first key.
OneApart == [g \in Goroutine |-> IF g = stranger THEN k2 ELSE k1]
=============================================================================
