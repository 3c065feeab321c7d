------------------------------- MODULE Ketama -------------------------------
(***************************************************************************)
(* The consistent hashing that picks the redis node of a key               *)
(* (hash/ketama.go): how the circle is built, and the search in it.        *)
(*                                                                         *)
(* The hash of a virtual node or a key is any number of Space: two may be  *)
(* equal.  The node "node<j>" is j, and 0 is the empty string, what the    *)
(* map gives for a position it does not hold.                              *)
(***************************************************************************)
EXTENDS Integers, Sequences

CONSTANTS
  node,    \* the number of nodes
  vnode,   \* the number of virtual nodes of each
  MaxHash  \* the greatest hash value

ASSUME KetamaAssumption ==
  /\ node \in Nat \ {0}
  /\ vnode \in Nat \ {0}
  /\ MaxHash \in Nat

Space == 0..MaxHash

VARIABLES
  hash,          \* hash[j][i]: the hash of the text "node<j>#<i>"
  pc,
  idx, i,        \* the loops of initCircle
  nodes,         \* k.nodes
  nodesMapping,  \* k.nodesMapping
  x, lo, hi,     \* the locals of searchLeft
  ret            \* what Node returned

circleVars == <<hash, nodes, nodesMapping>>
vars == <<pc, idx, i, circleVars, x, lo, hi, ret>>

Names == 1..node
Virtual == 0..(vnode - 1)

-----------------------------------------------------------------------------
\* NewKetama(node, vnode)
Init ==
  /\ hash \in [Names -> [Virtual -> Space]]
  /\ pc = "circle"
  /\ idx = 1 /\ i = 0
  /\ nodes = <<>>
  /\ nodesMapping = [v \in Space |-> 0]
  /\ x = 0 /\ lo = 0 /\ hi = 0 /\ ret = 0

\* The body of the loops of initCircle: the position goes to the latest.
AddPoint ==
  /\ pc = "circle" /\ idx < node + 1 /\ i < vnode
  /\ nodes' = Append(nodes, hash[idx][i])
  /\ nodesMapping' = [nodesMapping EXCEPT ![hash[idx][i]] = idx]
  /\ i' = i + 1
  /\ UNCHANGED <<hash, pc, idx, x, lo, hi, ret>>

NextNode ==
  /\ pc = "circle" /\ idx < node + 1 /\ ~(i < vnode)
  /\ idx' = idx + 1
  /\ i' = 0
  /\ UNCHANGED <<pc, circleVars, x, lo, hi, ret>>

Increasing(s) == \A j, k \in DOMAIN s : j <= k => s[j] <= s[k]

\* Faulty: the circle stays in the order of the insertions.
SortNothing ==
  /\ pc = "circle" /\ ~(idx < node + 1)
  /\ pc' = "ready"
  /\ UNCHANGED <<idx, i, circleVars, x, lo, hi, ret>>

\* The reorderings of k.nodes, which has a point of each virtual node.
Points == 1..(node * vnode)
Orders == {f \in [Points -> Points] : \A w \in Points : \E v \in Points : f[v] = w}

\* sort.Sort(UIntSlice(k.nodes))
Sort ==
  /\ pc = "circle" /\ ~(idx < node + 1)
  /\ \E f \in Orders :
       LET s == [k \in Points |-> nodes[f[k]]]
       IN  Increasing(s) /\ nodes' = s
  /\ pc' = "ready"
  /\ UNCHANGED <<hash, idx, i, nodesMapping, x, lo, hi, ret>>

-----------------------------------------------------------------------------
\* Node(key) up to the loop of searchLeft(k.nodes, x).
Lookup ==
  /\ pc = "ready"
  /\ x' \in Space
  /\ lo' = 0
  /\ hi' = Len(nodes)
  /\ pc' = "search"
  /\ UNCHANGED <<idx, i, circleVars, ret>>

mid == (lo + hi) \div 2

\* Faulty: the middle is looked at again.
SearchStays ==
  /\ pc = "search" /\ lo < hi
  /\ IF nodes[mid + 1] < x THEN lo' = mid /\ UNCHANGED hi ELSE hi' = mid /\ UNCHANGED lo
  /\ UNCHANGED <<pc, idx, i, circleVars, x, ret>>

\* The body of the loop; a[mid] is nodes[mid + 1].
Search ==
  /\ pc = "search" /\ lo < hi
  /\ \/ nodes[mid + 1] < x /\ lo' = mid + 1 /\ UNCHANGED hi
     \/ nodes[mid + 1] >= x /\ hi' = mid /\ UNCHANGED lo
  /\ UNCHANGED <<pc, idx, i, circleVars, x, ret>>

\* Faulty: behind the last point comes no point.
FoundNoWrap ==
  /\ pc = "search" /\ ~(lo < hi)
  /\ ret' = IF lo # Len(nodes) THEN nodesMapping[nodes[lo + 1]]
                               ELSE nodesMapping[nodes[lo]]
  /\ pc' = "ready"
  /\ UNCHANGED <<idx, i, circleVars, x, lo, hi>>

\* The return of searchLeft and the rest of Node.
Found ==
  /\ pc = "search" /\ ~(lo < hi)
  /\ ret' = nodesMapping[nodes[IF lo # Len(nodes) THEN lo + 1 ELSE 1]]
  /\ pc' = "ready"
  /\ UNCHANGED <<idx, i, circleVars, x, lo, hi>>

Next == AddPoint \/ NextNode \/ Sort \/ Lookup \/ Search \/ Found

Spec == Init /\ [][Next]_vars

\* A goroutine in the loop goes on.
FairSpec == Spec /\ WF_vars(Search \/ Found)

-----------------------------------------------------------------------------
(***************************************************************************)
(* What consistent hashing is, for the circle of the first n nodes: p is   *)
(* the first point at or after v, around the circle, and j its owner.      *)
(***************************************************************************)
At(n, p) == {j \in 1..n : \E k \in Virtual : hash[j][k] = p}

IsSuccessor(n, v, p) ==
  /\ At(n, p) # {}
  /\ \A q \in Space :
       At(n, q) # {} => \/ v <= p /\ (p <= q \/ q < v)
                        \/ p < v /\ p <= q /\ q < v

IsOwner(n, v, j) ==
  \E p \in Space : /\ IsSuccessor(n, v, p)
                   /\ j \in At(n, p)
                   /\ \A k \in At(n, p) : k <= j

(***************************************************************************)
(* Node, with its binary search, the wrap and the map that equal hash      *)
(* values overwrite, returns the owner of the key's place on the circle.   *)
(***************************************************************************)
LookupCorrect == pc = "ready" /\ ret # 0 => IsOwner(node, x, ret)

(***************************************************************************)
(* A node that is added only takes keys for itself: the node of a key is   *)
(* the last one, or the one it had with one node less.                     *)
(***************************************************************************)
OnlyNewNodeTakes ==
  pc = "ready" /\ ret # 0 =>
    \A j \in 1..(node - 1) : IsOwner(node - 1, x, j) => ret \in {j, node}

(***************************************************************************)
(* The loop of searchLeft ends for every circle and key.                   *)
(***************************************************************************)
LookupReturns == pc = "search" ~> pc = "ready"

(***************************************************************************)
(* Each round of the loop leaves less to search, and what Node returns is  *)
(* the name of a node.                                                     *)
(***************************************************************************)
SearchShrinks ==
  [][pc = "search" =>
       \/ pc' = "search" /\ 0 <= hi' - lo' /\ hi' - lo' < hi - lo
       \/ pc' = "ready" /\ ret' \in Names]_vars
=============================================================================
