---------------------------- MODULE KetamaProofs ----------------------------
(***************************************************************************)
(* Proofs about the consistent hashing, for every number of nodes and      *)
(* virtual nodes and every hash function.                                  *)
(***************************************************************************)
EXTENDS Ketama, TLAPS

TypeOK ==
  /\ hash \in [Names -> [Virtual -> Space]]
  /\ pc \in {"circle", "ready", "search"}
  /\ idx \in 1..(node + 1) /\ i \in 0..vnode
  /\ nodes \in Seq(Space) /\ Len(nodes) = IF idx <= node THEN (idx - 1) * vnode + i
                                                        ELSE node * vnode
  /\ nodesMapping \in [Space -> 0..node]
  /\ x \in Space /\ lo \in Nat /\ hi \in Nat /\ ret \in 0..node

\* The virtual nodes that are on the circle so far.
Added(j, k) == pc # "circle" \/ j < idx \/ (j = idx /\ k < i)

\* The slice holds the points added so far, the map their latest owners.
CircleOK ==
  /\ \A k \in DOMAIN nodes : nodesMapping[nodes[k]] # 0
  /\ \A p \in Space, j \in Names :
       nodesMapping[p] = j => /\ \E k \in DOMAIN nodes : nodes[k] = p
                              /\ \E k \in Virtual : Added(j, k) /\ hash[j][k] = p
  /\ \A j \in Names, k \in Virtual :
       Added(j, k) => nodesMapping[hash[j][k]] >= j
  /\ pc # "circle" => Increasing(nodes) /\ Len(nodes) > 0
  /\ pc = "circle" => ret = 0

\* The loop of searchLeft.
SearchOK ==
  pc = "search" =>
    /\ lo <= hi /\ hi <= Len(nodes)
    /\ \A k \in DOMAIN nodes : k <= lo => nodes[k] < x
    /\ \A k \in DOMAIN nodes : k > hi => nodes[k] >= x

IndInv == TypeOK /\ CircleOK /\ SearchOK /\ LookupCorrect

LEMMA AppendEffect ==
  ASSUME NEW S, NEW s \in Seq(S), NEW e \in S, NEW r, r = Append(s, e)
  PROVE  /\ s \in Seq(S) /\ Len(s) \in Nat
         /\ DOMAIN r = 1..(Len(s) + 1)
         /\ r[Len(s) + 1] = e
         /\ \A k \in DOMAIN s : k \in DOMAIN r /\ r[k] = s[k]
         /\ \A k \in DOMAIN r : k = Len(s) + 1 \/ k \in DOMAIN s
  OBVIOUS

LEMMA SortEffect ==
  ASSUME TypeOK, Sort
  PROVE  /\ nodes' \in Seq(Space)
         /\ Increasing(nodes')
         /\ Len(nodes') = Len(nodes)
         /\ \A k \in DOMAIN nodes : \E j \in DOMAIN nodes' : nodes'[j] = nodes[k]
         /\ \A k \in DOMAIN nodes' : \E j \in DOMAIN nodes : nodes'[k] = nodes[j]
<1>1. PICK f \in Orders :
        /\ nodes' = [k \in Points |-> nodes[f[k]]]
        /\ Increasing(nodes')
  BY DEF Sort
<1>2. /\ f \in [Points -> Points]
      /\ \A w \in Points : \E v \in Points : f[v] = w
  BY DEF Orders
<1>3. /\ nodes \in Seq(Space) /\ Len(nodes) \in Nat
      /\ Points = 1..Len(nodes) /\ DOMAIN nodes = Points
  <2>1. nodes \in Seq(Space) /\ Len(nodes) \in Nat /\ DOMAIN nodes = 1..Len(nodes)
    BY DEF TypeOK
  <2>2. ~(idx <= node)
    BY KetamaAssumption DEF TypeOK, Sort
  <2>3. Len(nodes) = node * vnode
    BY <2>2 DEF TypeOK
  <2>. QED
    BY <2>1, <2>3 DEF Points
<1>4. \A k \in Points : nodes[f[k]] \in Space
  BY <1>2, <1>3
<1>5. nodes' \in [1..Len(nodes) -> Space]
  BY <1>1, <1>3, <1>4
<1>6. nodes' \in Seq(Space) /\ Len(nodes') = Len(nodes) /\ DOMAIN nodes' = Points
  BY <1>3, <1>5
<1>. QED
  BY <1>1, <1>2, <1>3, <1>6

LEMMA TypeInit == Init => TypeOK
  BY KetamaAssumption DEF Init, TypeOK, Names, Virtual, Space

LEMMA TypeStep == TypeOK /\ CircleOK /\ SearchOK /\ [Next]_vars => TypeOK'
<1>. SUFFICES ASSUME TypeOK, CircleOK, SearchOK, [Next]_vars PROVE TypeOK'
  OBVIOUS
<1>. USE DEF TypeOK
<1>1. CASE AddPoint
  <2>1. hash[idx][i] \in Space /\ idx \in 1..node /\ i + 1 \in 0..vnode
    BY <1>1, KetamaAssumption DEF AddPoint, Names, Virtual
  <2>2. nodes' \in Seq(Space) /\ Len(nodes') = Len(nodes) + 1
    BY <1>1, <2>1 DEF AddPoint
  <2>3. Len(nodes) = (idx - 1) * vnode + i /\ (idx - 1) * vnode \in Int
    BY <2>1, KetamaAssumption
  <2>4. Len(nodes') = (idx' - 1) * vnode + i'
    BY <1>1, <2>2, <2>3 DEF AddPoint
  <2>5. nodesMapping' \in [Space -> 0..node]
    BY <1>1, <2>1 DEF AddPoint
  <2>. QED
    BY <1>1, <2>1, <2>2, <2>4, <2>5, KetamaAssumption DEF AddPoint
<1>2. CASE NextNode
  <2>1. idx \in 1..node /\ i = vnode
    BY <1>2, KetamaAssumption DEF NextNode
  <2>2. (idx - 1) * vnode + vnode = idx * vnode
    BY <2>1, KetamaAssumption
  <2>3. idx' = idx + 1 /\ i' = 0 /\ UNCHANGED <<pc, hash, nodes, nodesMapping, x, lo, hi, ret>>
    BY <1>2 DEF NextNode, circleVars
  <2>4. Len(nodes') = idx * vnode /\ idx * vnode \in Int
    BY <2>1, <2>2, <2>3, KetamaAssumption
  <2>5. CASE idx = node
    BY <2>1, <2>3, <2>4, <2>5, KetamaAssumption
  <2>6. CASE idx # node
    <3>1. idx' - 1 = idx /\ idx' \in 1..node
      BY <2>1, <2>3, <2>6, KetamaAssumption
    <3>2. (idx' - 1) * vnode + i' = idx * vnode
      BY <2>3, <2>4, <3>1
    <3>. QED
      BY <2>3, <2>4, <3>1, <3>2, KetamaAssumption
  <2>. QED
    BY <2>5, <2>6
<1>3. CASE Sort
  BY <1>3, SortEffect DEF Sort
<1>4. CASE Lookup
  BY <1>4 DEF Lookup, circleVars
<1>5. CASE Search
  <2>1. mid \in Nat /\ mid + 1 \in Nat
    BY DEF mid
  <2>. QED
    BY <1>5, <2>1 DEF Search, circleVars
<1>6. CASE Found
  <2>1. ret' \in 0..node
    <3>1. (IF lo # Len(nodes) THEN lo + 1 ELSE 1) \in DOMAIN nodes
      BY <1>6 DEF Found, SearchOK, CircleOK
    <3>. QED
      BY <1>6, <3>1 DEF Found
  <2>. QED
    BY <1>6, <2>1 DEF Found, circleVars
<1>7. CASE UNCHANGED vars
  BY <1>7 DEF vars, circleVars
<1>. QED
  BY <1>1, <1>2, <1>3, <1>4, <1>5, <1>6, <1>7 DEF Next

LEMMA CircleStep == TypeOK /\ CircleOK /\ [Next]_vars => CircleOK'
<1>. SUFFICES ASSUME TypeOK, CircleOK, [Next]_vars PROVE CircleOK'
  OBVIOUS
<1>0. \A j \in Names, k \in Virtual : hash[j][k] \in Space
  BY DEF TypeOK
<1>1. CASE AddPoint
  <2>1. /\ idx \in Names /\ i \in Virtual /\ hash[idx][i] \in Space
        /\ nodes' = Append(nodes, hash[idx][i])
        /\ nodesMapping' = [nodesMapping EXCEPT ![hash[idx][i]] = idx]
        /\ i' = i + 1 /\ pc = "circle"
        /\ UNCHANGED <<hash, pc, idx, ret>>
    BY <1>1, KetamaAssumption DEF AddPoint, TypeOK, Names, Virtual
  <2>2. \A j \in Names, k \in Virtual : Added(j, k)' <=> Added(j, k) \/ (j = idx /\ k = i)
    BY <2>1, KetamaAssumption DEF Added, Names, Virtual
  <2>3. /\ nodes \in Seq(Space) /\ Len(nodes) \in Nat
        /\ DOMAIN nodes' = 1..(Len(nodes) + 1)
        /\ nodes'[Len(nodes) + 1] = hash[idx][i]
        /\ \A k \in DOMAIN nodes : k \in DOMAIN nodes' /\ nodes'[k] = nodes[k]
        /\ \A k \in DOMAIN nodes' : k = Len(nodes) + 1 \/ k \in DOMAIN nodes
    <3>1. nodes \in Seq(Space)
      BY DEF TypeOK
    <3>. QED
      BY <2>1, <3>1, AppendEffect
  <2>4. \A p \in Space : nodesMapping'[p] = IF p = hash[idx][i] THEN idx ELSE nodesMapping[p]
    BY <2>1 DEF TypeOK
  <2>5. \A k \in DOMAIN nodes' : nodes'[k] \in Space /\ nodesMapping'[nodes'[k]] # 0
    <3>1. \A k \in DOMAIN nodes : nodes[k] \in Space /\ nodesMapping[nodes[k]] # 0
      BY <2>3 DEF CircleOK, TypeOK
    <3>2. idx # 0
      BY <2>1 DEF Names
    <3>. QED
      BY <2>1, <2>3, <2>4, <3>1, <3>2
  <2>6. ASSUME NEW p \in Space, NEW j \in Names, nodesMapping'[p] = j
        PROVE  /\ \E k \in DOMAIN nodes' : nodes'[k] = p
               /\ \E k \in Virtual : Added(j, k)' /\ hash'[j][k] = p
    <3>1. CASE p = hash[idx][i]
      <4>1. j = idx
        BY <2>4, <2>6, <3>1
      <4>3. PICK k \in Virtual : k = i
        BY <2>1
      <4>4. Added(j, k)' /\ hash'[j][k] = p
        BY <2>1, <2>2, <3>1, <4>1, <4>3
      <4>2. Len(nodes) + 1 \in DOMAIN nodes'
        BY <2>3
      <4>. QED
        BY <2>3, <3>1, <4>2, <4>4
    <3>2. CASE p # hash[idx][i]
      <4>1. nodesMapping[p] = j
        BY <2>4, <2>6, <3>2
      <4>. QED
        BY <2>1, <2>2, <2>3, <4>1 DEF CircleOK
    <3>. QED
      BY <3>1, <3>2
  <2>7. ASSUME NEW j \in Names, NEW k \in Virtual, Added(j, k)'
        PROVE  nodesMapping'[hash'[j][k]] >= j
    <3>1. hash'[j][k] = hash[j][k] /\ hash[j][k] \in Space
      BY <1>0, <2>1
    <3>2. CASE hash[j][k] = hash[idx][i]
      <4>1. j <= idx
        BY <2>1, <2>7, KetamaAssumption DEF Added, TypeOK, Names, Virtual
      <4>. QED
        BY <2>1, <2>4, <3>1, <3>2, <4>1 DEF Names
    <3>3. CASE hash[j][k] # hash[idx][i]
      <4>1. Added(j, k)
        BY <2>2, <2>7, <3>3
      <4>. QED
        BY <2>4, <3>1, <3>3, <4>1 DEF CircleOK
    <3>. QED
      BY <3>2, <3>3
  <2>. QED
    BY <2>1, <2>5, <2>6, <2>7 DEF CircleOK
<1>2. CASE NextNode
  <2>1. /\ idx \in Names /\ i = vnode /\ idx' = idx + 1 /\ i' = 0 /\ pc = "circle"
        /\ UNCHANGED <<pc, hash, nodes, nodesMapping, ret>>
    BY <1>2, KetamaAssumption DEF NextNode, TypeOK, Names, circleVars
  <2>2. \A j \in Names, k \in Virtual : Added(j, k)' <=> Added(j, k)
    BY <2>1, KetamaAssumption DEF Added, Names, Virtual
  <2>3. \A p \in Space, j \in Names :
          nodesMapping[p] = j => \E k \in Virtual : Added(j, k)' /\ hash[j][k] = p
    BY <2>2 DEF CircleOK
  <2>4. \A j \in Names, k \in Virtual : Added(j, k)' => nodesMapping[hash[j][k]] >= j
    BY <2>2 DEF CircleOK
  <2>. QED
    BY <2>1, <2>3, <2>4 DEF CircleOK
<1>3. CASE Sort
  <2>1. /\ nodes' \in Seq(Space) /\ Increasing(nodes') /\ Len(nodes') = Len(nodes)
        /\ \A k \in DOMAIN nodes : \E j \in DOMAIN nodes' : nodes'[j] = nodes[k]
        /\ \A k \in DOMAIN nodes' : \E j \in DOMAIN nodes : nodes'[k] = nodes[j]
    BY <1>3, SortEffect
  <2>2. /\ pc = "circle" /\ pc' = "ready" /\ UNCHANGED <<hash, nodesMapping>>
        /\ idx = node + 1
    BY <1>3, KetamaAssumption DEF Sort, TypeOK
  <2>3. \A j \in Names, k \in Virtual : Added(j, k)
    BY <2>2, KetamaAssumption DEF Added, Names
  <2>4. Len(nodes') > 0
    <3>1. Len(nodes) = node * vnode
      BY <2>2, KetamaAssumption DEF TypeOK
    <3>2. node * vnode > 0
      BY KetamaAssumption
    <3>. QED
      BY <2>1, <3>1, <3>2
  <2>5. Increasing(nodes)'
    BY <2>1 DEF Increasing
  <2>6. \A p \in Space, j \in Names :
          nodesMapping[p] = j => /\ \E k \in DOMAIN nodes' : nodes'[k] = p
                                 /\ \E k \in Virtual : hash[j][k] = p
    <3>1. \A p \in Space, j \in Names :
            nodesMapping[p] = j => /\ \E k \in DOMAIN nodes : nodes[k] = p
                                   /\ \E k \in Virtual : hash[j][k] = p
      BY DEF CircleOK
    <3>2. ASSUME NEW p, NEW k \in DOMAIN nodes, nodes[k] = p
          PROVE  \E l \in DOMAIN nodes' : nodes'[l] = p
      BY <2>1, <3>2
    <3>. QED
      BY <3>1, <3>2
  <2>7. \A j \in Names, k \in Virtual : nodesMapping[hash[j][k]] >= j
    BY <2>3 DEF CircleOK
  <2>8. \A k \in DOMAIN nodes' : nodesMapping[nodes'[k]] # 0
    BY <2>1 DEF CircleOK
  <2>9. \A j, k : Added(j, k)'
    BY <2>2 DEF Added
  <2>. QED
    BY <2>2, <2>4, <2>5, <2>6, <2>7, <2>8, <2>9 DEF CircleOK
<1>4. CASE Lookup \/ Search \/ Found \/ UNCHANGED vars
  <2>1. /\ UNCHANGED circleVars /\ (pc = "circle" <=> pc' = "circle")
        /\ pc = "circle" => UNCHANGED <<idx, i, ret>>
    BY <1>4 DEF Lookup, Search, Found, vars
  <2>2. UNCHANGED <<hash, nodes, nodesMapping>>
    BY <2>1 DEF circleVars
  <2>3. \A j, k : Added(j, k)' <=> Added(j, k)
    BY <2>1 DEF Added
  <2>4. CASE pc = "circle"
    <3>1. UNCHANGED <<idx, i, ret, pc>>
      BY <2>1, <2>4, <1>4 DEF Lookup, Search, Found, vars
    <3>. QED
      BY <2>2, <3>1 DEF CircleOK, Added, Increasing
  <2>5. CASE pc # "circle"
    <3>1. pc' # "circle"
      BY <2>1, <2>5
    <3>. QED
      BY <2>2, <2>5, <3>1 DEF CircleOK, Added, Increasing
  <2>. QED
    BY <2>4, <2>5
<1>. QED
  BY <1>1, <1>2, <1>3, <1>4 DEF Next

LEMMA SearchStep == TypeOK /\ CircleOK /\ SearchOK /\ [Next]_vars => SearchOK'
<1>. SUFFICES ASSUME TypeOK, CircleOK, SearchOK, [Next]_vars, pc' = "search"
              PROVE  SearchOK'
  BY DEF SearchOK
<1>. USE DEF TypeOK, SearchOK
<1>1. CASE Lookup
  BY <1>1 DEF Lookup, circleVars
<1>2. CASE Search
  <2>1. /\ mid \in Nat /\ lo <= mid /\ mid < hi /\ mid + 1 \in DOMAIN nodes
    <3>1. lo \in Nat /\ hi \in Nat /\ lo < hi /\ hi <= Len(nodes)
      BY <1>2 DEF Search
    <3>2. mid \in Nat /\ lo <= mid /\ mid < hi
      BY <3>1 DEF mid
    <3>3. DOMAIN nodes = 1..Len(nodes) /\ Len(nodes) \in Nat
      OBVIOUS
    <3>. QED
      BY <3>1, <3>2, <3>3
  <2>2. Increasing(nodes) /\ \A k \in DOMAIN nodes : nodes[k] \in Int /\ k \in Int
    <3>1. \A k \in DOMAIN nodes : nodes[k] \in Space /\ k \in Int
      OBVIOUS
    <3>2. \A v \in Space : v \in Int
      BY DEF Space
    <3>. QED
      BY <1>2, <3>1, <3>2 DEF Search, CircleOK
  <2>3. CASE nodes[mid + 1] < x /\ lo' = mid + 1 /\ UNCHANGED hi
    <3>1. \A k \in DOMAIN nodes : k <= lo' => nodes[k] < x
      BY <2>1, <2>2, <2>3 DEF Increasing, Space
    <3>. QED
      BY <1>2, <2>1, <2>3, <3>1 DEF Search, circleVars
  <2>4. CASE nodes[mid + 1] >= x /\ hi' = mid /\ UNCHANGED lo
    <3>1. \A k \in DOMAIN nodes : k > hi' => nodes[k] >= x
      BY <2>1, <2>2, <2>4 DEF Increasing, Space
    <3>. QED
      BY <1>2, <2>1, <2>4, <3>1 DEF Search, circleVars
  <2>. QED
    BY <1>2, <2>3, <2>4 DEF Search
<1>3. CASE UNCHANGED vars
  BY <1>3 DEF vars, circleVars
<1>. QED
  BY <1>1, <1>2, <1>3 DEF Next, AddPoint, NextNode, Sort, Found

LEMMA FoundStep == TypeOK /\ CircleOK /\ SearchOK /\ Found => IsOwner(node, x, ret') /\ ret' \in Names
<1>. SUFFICES ASSUME TypeOK, CircleOK, SearchOK, Found
              PROVE  IsOwner(node, x, ret') /\ ret' \in Names
  OBVIOUS
<1>1. /\ nodes \in Seq(Space) /\ Len(nodes) \in Nat /\ Len(nodes) > 0
      /\ DOMAIN nodes = 1..Len(nodes)
      /\ Increasing(nodes)
      /\ lo \in Nat /\ lo = hi /\ lo <= Len(nodes)
  <2>1. pc = "search" /\ ~(lo < hi) /\ pc # "circle"
    BY DEF Found
  <2>2. lo <= hi /\ hi <= Len(nodes)
    BY <2>1 DEF SearchOK
  <2>3. lo = hi
    BY <2>1, <2>2 DEF TypeOK
  <2>. QED
    BY <2>1, <2>2, <2>3 DEF TypeOK, CircleOK
<1>0. /\ \A k \in DOMAIN nodes : k <= lo => nodes[k] < x
      /\ \A k \in DOMAIN nodes : k > lo => nodes[k] >= x
  BY <1>1 DEF SearchOK, Found
<1>01. \A k \in DOMAIN nodes : k \in Int /\ nodes[k] \in Int /\ nodes[k] \in Space
  <2>1. \A k \in DOMAIN nodes : k \in Int /\ nodes[k] \in Space
    BY <1>1
  <2>2. \A v \in Space : v \in Int
    BY DEF Space
  <2>. QED
    BY <2>1, <2>2
<1>2. PICK at \in DOMAIN nodes : at = IF lo # Len(nodes) THEN lo + 1 ELSE 1
  <2>1. CASE lo # Len(nodes)
    <3>1. PICK n \in Nat : n = Len(nodes)
      BY <1>1
    <3>0. lo \in Nat /\ lo <= n /\ lo # n
      BY <1>1, <2>1, <3>1
    <3>2. lo + 1 \in 1..n
      BY <3>0
    <3>3. lo + 1 \in DOMAIN nodes
      BY <1>1, <3>1, <3>2
    <3>. QED
      BY <2>1, <3>3
  <2>2. CASE lo = Len(nodes)
    <3>1. 1 \in DOMAIN nodes
      BY <1>1
    <3>. QED
      BY <2>2, <3>1
  <2>. QED
    BY <2>1, <2>2
<1>. DEFINE p == nodes[at]
<1>21. p \in Space /\ p \in Int
  BY <1>01, <1>2
<1>3. ret' = nodesMapping[p]
  BY <1>2 DEF Found
<1>. HIDE DEF p
<1>4. ret' \in Names
  BY <1>2, <1>21, <1>3, KetamaAssumption DEF p, CircleOK, TypeOK, Names
<1>5. \A q \in Space, j \in 1..node :
        j \in At(node, q) => j <= nodesMapping[q] /\ \E m \in DOMAIN nodes : nodes[m] = q
  <2>. SUFFICES ASSUME NEW q \in Space, NEW j \in 1..node, j \in At(node, q)
                PROVE  j <= nodesMapping[q] /\ \E m \in DOMAIN nodes : nodes[m] = q
    OBVIOUS
  <2>1. PICK k \in Virtual : hash[j][k] = q
    BY DEF At
  <2>2. nodesMapping[q] >= j /\ nodesMapping[q] \in 0..node
    BY <2>1 DEF Found, CircleOK, Added, TypeOK, Names
  <2>3. nodesMapping[q] \in Names
    BY <2>2, KetamaAssumption DEF Names
  <2>. QED
    BY <2>2, <2>3 DEF CircleOK
<1>6. ret' \in At(node, p) /\ \A k \in At(node, p) : k <= ret'
  <2>1. \E k \in Virtual : hash[ret'][k] = p
    BY <1>21, <1>3, <1>4 DEF CircleOK
  <2>2. ret' \in At(node, p)
    BY <1>4, <2>1 DEF At, Names
  <2>3. At(node, p) \subseteq 1..node
    BY DEF At
  <2>. QED
    BY <1>21, <1>3, <1>5, <2>2, <2>3
<1>7. ASSUME NEW q \in Space, At(node, q) # {}
      PROVE  \/ x <= p /\ (p <= q \/ q < x)
             \/ p < x /\ p <= q /\ q < x
  <2>1. PICK j \in At(node, q) : TRUE
    BY <1>7
  <2>2. j \in 1..node
    BY DEF At
  <2>3. PICK m \in DOMAIN nodes : nodes[m] = q
    BY <1>5, <2>1, <2>2
  <2>4. x \in Int /\ q \in Int /\ q = nodes[m] /\ p = nodes[at] /\ m \in Int /\ at \in Int
    BY <1>01, <1>2, <2>3 DEF TypeOK, Space, p
  <2>5. at <= m => p <= q
    BY <1>1, <1>2, <2>3, <2>4 DEF Increasing
  <2>6. CASE lo # Len(nodes)
    <3>1. at = lo + 1 /\ lo + 1 > lo
      <4>1. at = lo + 1
        BY <1>2, <2>6
      <4>. QED
        BY <1>1, <4>1
    <3>2. x <= p
      BY <1>0, <1>2, <1>21, <2>4, <3>1
    <3>3. CASE m <= lo
      BY <1>0, <2>3, <2>4, <3>2, <3>3
    <3>4. CASE m > lo
      BY <1>1, <2>4, <2>5, <3>1, <3>2, <3>4
    <3>. QED
      BY <1>1, <2>4, <3>3, <3>4
  <2>7. CASE lo = Len(nodes)
    <3>1. at = 1 /\ at <= m /\ at <= lo /\ m <= lo
      BY <1>1, <1>2, <2>4, <2>7
    <3>2. p < x /\ q < x
      BY <1>0, <1>2, <2>3, <2>4, <3>1
    <3>. QED
      BY <2>5, <3>1, <3>2
  <2>. QED
    BY <2>6, <2>7
<1>8. IsSuccessor(node, x, p)
  BY <1>6, <1>7 DEF IsSuccessor
<1>9. IsOwner(node, x, ret')
  BY <1>21, <1>6, <1>8 DEF IsOwner
<1>. QED
  BY <1>4, <1>9

\* The inductive invariant holds of every behaviour.
THEOREM KetamaInvariance == Spec => []IndInv
<1>1. Init => IndInv
  <2>. SUFFICES ASSUME Init PROVE IndInv
    OBVIOUS
  <2>1. CircleOK
    BY KetamaAssumption DEF Init, CircleOK, Added, Names, Virtual
  <2>. QED
    BY <2>1, TypeInit DEF Init, IndInv, SearchOK, LookupCorrect
<1>2. IndInv /\ [Next]_vars => IndInv'
  <2>. SUFFICES ASSUME IndInv, [Next]_vars PROVE IndInv'
    OBVIOUS
  <2>1. TypeOK' /\ CircleOK' /\ SearchOK'
    BY TypeStep, CircleStep, SearchStep DEF IndInv
  <2>2. LookupCorrect'
    <3>1. CASE Found
      <4>1. IsOwner(node, x, ret') /\ UNCHANGED <<hash, x>>
        BY <3>1, FoundStep DEF IndInv, Found, circleVars
      <4>2. IsOwner(node, x, ret)'
        BY <4>1 DEF IsOwner, IsSuccessor, At
      <4>. QED
        BY <4>1, <4>2 DEF LookupCorrect
    <3>2. CASE UNCHANGED vars
      BY <3>2 DEF vars, circleVars, LookupCorrect, IsOwner, IsSuccessor, At, IndInv
    <3>3. CASE Sort
      BY <3>3 DEF Sort, LookupCorrect, IndInv, CircleOK
    <3>4. CASE AddPoint \/ NextNode \/ Lookup \/ Search
      BY <3>4 DEF AddPoint, NextNode, Lookup, Search, LookupCorrect
    <3>. QED
      BY <3>1, <3>2, <3>3, <3>4 DEF Next
  <2>. QED
    BY <2>1, <2>2 DEF IndInv
<1>. QED
  BY <1>1, <1>2, PTL DEF Spec

\* Node returns the owner of the key's place on the circle, whatever the
\* hash function.
THEOREM KetamaLookup == Spec => []LookupCorrect
<1>1. IndInv => LookupCorrect
  BY DEF IndInv
<1>. QED
  BY <1>1, KetamaInvariance, PTL

\* The first point at or after a key stays the first one when a node is
\* added, or the new node's point takes its place.
LEMMA OwnerOrNew ==
  ASSUME TypeOK, NEW v \in Space, NEW r \in Names, NEW j \in 1..(node - 1),
         IsOwner(node, v, r), IsOwner(node - 1, v, j)
  PROVE  r \in {j, node}
<1>1. PICK p \in Space : /\ IsSuccessor(node, v, p) /\ r \in At(node, p)
                         /\ \A k \in At(node, p) : k <= r
  BY DEF IsOwner
<1>2. PICK q \in Space : /\ IsSuccessor(node - 1, v, q) /\ j \in At(node - 1, q)
                         /\ \A k \in At(node - 1, q) : k <= j
  BY DEF IsOwner
<1>3. /\ \A s \in Space : \A k \in At(node - 1, s) : k \in At(node, s)
      /\ \A s \in Space : \A k \in At(node, s) : k \in Nat /\ (k = node \/ k \in At(node - 1, s))
  BY KetamaAssumption DEF At
<1>4. CASE r # node
  <2>1. r \in At(node - 1, p)
    BY <1>1, <1>3, <1>4
  <2>2. At(node - 1, p) # {} /\ At(node, q) # {}
    BY <1>2, <1>3, <2>1
  <2>3. p = q
    <3>1. \/ v <= p /\ (p <= q \/ q < v)
          \/ p < v /\ p <= q /\ q < v
      BY <1>1, <2>2 DEF IsSuccessor
    <3>2. \/ v <= q /\ (q <= p \/ p < v)
          \/ q < v /\ q <= p /\ p < v
      BY <1>2, <2>2 DEF IsSuccessor
    <3>. QED
      BY <3>1, <3>2, KetamaAssumption DEF Space
  <2>4. r <= j /\ j <= r
    BY <1>1, <1>2, <1>3, <2>1, <2>3
  <2>. QED
    BY <1>1, <1>2, <1>3, <2>1, <2>4
<1>. QED
  BY <1>4

\* Adding a node moves keys to that node only.
THEOREM KetamaOnlyNew == Spec => []OnlyNewNodeTakes
<1>1. IndInv => OnlyNewNodeTakes
  <2>. SUFFICES ASSUME IndInv, pc = "ready", ret # 0, NEW j \in 1..(node - 1),
                       IsOwner(node - 1, x, j)
                PROVE  ret \in {j, node}
    BY DEF OnlyNewNodeTakes
  <2>1. ret \in Names /\ x \in Space /\ IsOwner(node, x, ret) /\ TypeOK
    BY KetamaAssumption DEF IndInv, TypeOK, LookupCorrect, Names
  <2>. QED
    BY <2>1, OwnerOrNew
<1>. QED
  BY <1>1, KetamaInvariance, PTL

\* Each round of searchLeft leaves less to search, inside the slice, and
\* Node always finds a node.
THEOREM KetamaSearch == Spec => SearchShrinks
<1>1. IndInv /\ [Next]_vars =>
        [pc = "search" =>
           \/ pc' = "search" /\ 0 <= hi' - lo' /\ hi' - lo' < hi - lo
           \/ pc' = "ready" /\ ret' \in Names]_vars
  <2>. SUFFICES ASSUME IndInv, Next, pc = "search"
                PROVE  \/ pc' = "search" /\ 0 <= hi' - lo' /\ hi' - lo' < hi - lo
                       \/ pc' = "ready" /\ ret' \in Names
    OBVIOUS
  <2>1. CASE Found
    BY <2>1, FoundStep DEF IndInv, Found
  <2>2. CASE Search
    <3>1. lo \in Nat /\ hi \in Nat /\ lo < hi /\ mid \in Nat /\ lo <= mid /\ mid < hi
      BY <2>2 DEF Search, IndInv, TypeOK, mid
    <3>. QED
      BY <2>2, <3>1 DEF Search
  <2>. QED
    BY <2>1, <2>2 DEF Next, AddPoint, NextNode, Sort, Lookup
<1>. QED
  BY <1>1, KetamaInvariance, PTL DEF Spec, SearchShrinks
=============================================================================
