------------------------------ MODULE MCRedis ------------------------------
(***************************************************************************)
(* Small instances of the push service with the redis channel for TLC.     *)
(***************************************************************************)
EXTENDS RedisProperties, TLC

\* Redis returns ids up to -1 (see InRange), publishers choose any.
SmallIDs == {-1, 1}
BelowAll == {-2}

\* Bound on what one behaviour combines: subscribers, publications, faults
\* and authentication.
MaxLoad == 3
Load ==
  Cardinality({c \in Conn : subPC[c] # "init"})
    + Cardinality({p \in Pub : pubArg[p] # Nil}) + faults + auth <= MaxLoad

Symmetry ==
  Permutations(Conn) \cup Permutations(Pub) \cup Permutations(Chan)
    \cup Permutations(Admin)
=============================================================================
