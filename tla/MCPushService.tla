--------------------------- MODULE MCPushService ---------------------------
(***************************************************************************)
(* Small instances of the push service for TLC.                            *)
(***************************************************************************)
EXTENDS PushProperties, TLC

\* Connections, publications, /ch requests and channel objects are only
\* compared with each other; used by the runs without liveness properties.
Symmetry ==
  Permutations(Conn) \cup Permutations(Pub) \cup Permutations(Admin)
    \cup Permutations(Chan)

\* Bound on what one behaviour combines: subscribers, publications, and
\* messages that outlive the first tick of the clock.
MaxLoad == 4
Load ==
  Cardinality({c \in Conn : subPC[c] # "init"})
    + Cardinality({p \in Pub : pubPC[p] # "init"})
    + Cardinality({p \in Pub : pubArg[p] # Nil /\ pubArg[p].msg.Expire > 0}) <= MaxLoad
=============================================================================
