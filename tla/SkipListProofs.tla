--------------------------- MODULE SkipListProofs ---------------------------
(***************************************************************************)
(* Proofs about the skip list, for every set of scores and every number of *)
(* levels: the levels stay consistent, the counters are exact, and the     *)
(* list implements the ordered map.                                        *)
(*                                                                         *)
(* The provers have no induction over data.  Where a search or a chain     *)
(* needs one, the proof takes the greatest (or least) node at which the    *)
(* claim would fail.                                                       *)
(***************************************************************************)
EXTENDS SkipList, FiniteSetTheorems, WellFoundedInduction, TLAPS

(***************************************************************************)
(* The invariant.  N is the set of nodes in the list.                      *)
(***************************************************************************)

\* The nodes of N made for at least i levels.
On(N, i) == {n \in N : level[n] >= i}

\* m comes after n; everything comes after the head.
Behind(n, m) == n = Head \/ n < m

\* q is the first node of O after n.
IsNext(O, n, q) ==
  \/ q = Nil /\ \A m \in O : ~Behind(n, m)
  \/ /\ q \in O /\ Behind(n, q)
     /\ \A m \in O : Behind(n, m) => q <= m

\* n is the last node of O before b.
IsPred(O, b, n) ==
  /\ n = Head \/ (n \in O /\ n < b)
  /\ \A m \in O : Behind(n, m) => b <= m

TypeOK ==
  /\ member \in [Score -> Member \cup {Nil}]
  /\ level \in [Score -> Levels]
  /\ forward \in [Nodes -> [Levels -> Score \cup {Nil}]]
  /\ Level \in Levels

\* Every node points to its successor on each of its levels.
Linked(N) ==
  /\ \A i \in Levels : IsNext(On(N, i), Head, forward[Head][i])
  /\ \A i \in Levels : \A n \in On(N, i) : IsNext(On(N, i), n, forward[n][i])

\* The fields of the list and of its nodes agree with its nodes.
Counted(N) ==
  /\ Length = Cardinality(N)
  /\ \A n \in N : member[n] # Nil /\ level[n] <= Level
  /\ Level = 0 \/ On(N, Level) # {}

ListOf(N) == TypeOK /\ Linked(N) /\ Counted(N)

\* The list has some set of nodes, and a walk stands on one of them.
IndInv == \E N \in SUBSET Score : ListOf(N) /\ at \in N \cup {Nil}

-----------------------------------------------------------------------------
(***************************************************************************)
(* Finite sets of integers have a greatest and a least element.            *)
(***************************************************************************)

LEMMA HasMax ==
  ASSUME NEW S, S # {}, S \subseteq Int, IsFiniteSet(S)
  PROVE  \E x \in S : \A y \in S : y <= x
<1>. DEFINE Above(x) == {y \in S : y > x}
            T == {Above(x) : x \in S}
<1>1. T # {} /\ T \subseteq FiniteSubsetsOf(S)
  <2>1. \A x \in S : Above(x) \in SUBSET S /\ IsFiniteSet(Above(x))
    BY FS_Subset
  <2>. QED
    BY <2>1 DEF FiniteSubsetsOf
<1>2. PICK A \in T : \A B \in T : <<B, A>> \notin StrictSubsetOrdering(S)
  <2>. HIDE DEF T
  <2>. QED
    BY <1>1, FS_StrictSubsetOrderingWellFounded, WFMin
<1>3. PICK x \in S : A = Above(x)
  OBVIOUS
<1>4. ASSUME NEW y \in S, y > x PROVE FALSE
  <2>1. Above(y) \subseteq Above(x) /\ y \in Above(x) /\ y \notin Above(y)
    <3>1. x \in Int /\ y \in Int
      OBVIOUS
    <3>2. y > x /\ ~(y > y) /\ \A z \in S : z > y => z > x
      BY <1>4, <3>1
    <3>. QED
      BY <3>2, Zenon
  <2>2. Above(y) \in T
    OBVIOUS
  <2>3. <<Above(y), Above(x)>> \in StrictSubsetOrdering(S)
    <3>1. Above(y) \in SUBSET S /\ Above(x) \in SUBSET S
      OBVIOUS
    <3>. QED
      BY <2>1, <3>1 DEF StrictSubsetOrdering
  <2>. QED
    BY <1>2, <1>3, <2>2, <2>3
<1>5. \A y \in S : y \in Int /\ ~(y > x)
  BY <1>4
<1>. QED
  BY <1>5

LEMMA HasMin ==
  ASSUME NEW S, S # {}, S \subseteq Int, IsFiniteSet(S)
  PROVE  \E x \in S : \A y \in S : x <= y
<1>. DEFINE Below(x) == {y \in S : y < x}
            T == {Below(x) : x \in S}
<1>1. T # {} /\ T \subseteq FiniteSubsetsOf(S)
  <2>1. \A x \in S : Below(x) \in SUBSET S /\ IsFiniteSet(Below(x))
    BY FS_Subset
  <2>. QED
    BY <2>1 DEF FiniteSubsetsOf
<1>2. PICK A \in T : \A B \in T : <<B, A>> \notin StrictSubsetOrdering(S)
  <2>. HIDE DEF T
  <2>. QED
    BY <1>1, FS_StrictSubsetOrderingWellFounded, WFMin
<1>3. PICK x \in S : A = Below(x)
  OBVIOUS
<1>4. ASSUME NEW y \in S, y < x PROVE FALSE
  <2>1. Below(y) \subseteq Below(x) /\ y \in Below(x) /\ y \notin Below(y)
    <3>1. x \in Int /\ y \in Int
      OBVIOUS
    <3>2. y < x /\ ~(y < y) /\ \A z \in S : z < y => z < x
      BY <1>4, <3>1
    <3>. QED
      BY <3>2, Zenon
  <2>2. Below(y) \in T
    OBVIOUS
  <2>3. <<Below(y), Below(x)>> \in StrictSubsetOrdering(S)
    <3>1. Below(y) \in SUBSET S /\ Below(x) \in SUBSET S
      OBVIOUS
    <3>. QED
      BY <2>1, <3>1 DEF StrictSubsetOrdering
  <2>. QED
    BY <1>2, <1>3, <2>2, <2>3
<1>5. \A y \in S : y \in Int /\ ~(y < x)
  BY <1>4
<1>. QED
  BY <1>5

\* The same for the scores that satisfy a condition.
LEMMA GreatestScore ==
  ASSUME NEW S \in SUBSET Score, S # {}
  PROVE  \E x \in S : \A y \in S : y <= x
BY SkipListAssumption, FS_Subset, HasMax

LEMMA LeastScore ==
  ASSUME NEW S \in SUBSET Score, S # {}
  PROVE  \E x \in S : \A y \in S : x <= y
BY SkipListAssumption, FS_Subset, HasMin

\* Level 0 has every node.
LEMMA AllOnBottom ==
  ASSUME TypeOK, NEW N \in SUBSET Score
  PROVE  On(N, 0) = N
BY DEF On, TypeOK, Levels

-----------------------------------------------------------------------------
(***************************************************************************)
(* Predecessors on a level.                                                *)
(***************************************************************************)

LEMMA PredExists ==
  ASSUME NEW N \in SUBSET Score, NEW i \in Levels, NEW b \in Int
  PROVE  \E n \in Nodes : IsPred(On(N, i), b, n)
<1>. DEFINE S == {n \in On(N, i) : n < b}
<1>0. On(N, i) \subseteq Score /\ \A n \in Score : n \in Int /\ n # Head
  BY SkipListAssumption DEF On
<1>1. CASE S = {}
  <2>1. IsPred(On(N, i), b, Head)
    BY <1>0, <1>1 DEF IsPred
  <2>. QED
    BY <2>1 DEF Nodes
<1>2. CASE S # {}
  <2>1. PICK n \in S : \A m \in S : m <= n
    BY <1>0, <1>2, GreatestScore
  <2>2. IsPred(On(N, i), b, n)
    BY <1>0, <2>1 DEF IsPred, Behind
  <2>. QED
    BY <1>0, <2>1, <2>2 DEF Nodes
<1>. QED
  BY <1>1, <1>2

LEMMA PredUnique ==
  ASSUME NEW N \in SUBSET Score, NEW i \in Levels, NEW b \in Int,
         NEW n, NEW p, IsPred(On(N, i), b, n), IsPred(On(N, i), b, p)
  PROVE  n = p
<1>1. \A m \in On(N, i) : m \in Int /\ m # Head
  BY SkipListAssumption DEF On
<1>. QED
  BY <1>1 DEF IsPred, Behind

\* The predecessor of a node points to it.
LEMMA PredPoints ==
  ASSUME NEW N \in SUBSET Score, Linked(N), NEW i \in Levels,
         NEW b \in On(N, i), NEW n, IsPred(On(N, i), b, n)
  PROVE  forward[n][i] = b
<1>1. \A m \in On(N, i) : m \in Int /\ m # Head
  BY SkipListAssumption DEF On
<1>2. IsNext(On(N, i), n, forward[n][i]) /\ Behind(n, b)
  BY <1>1 DEF Linked, IsPred, Behind
<1>. QED
  BY <1>1, <1>2 DEF IsNext, IsPred

-----------------------------------------------------------------------------
(***************************************************************************)
(* The recursive functions have values: a function that satisfies the      *)
(* equation is given by the sets that are closed under the pointers.       *)
(***************************************************************************)

IsLast(f, D, B, nxt) ==
  /\ f = [p \in D |-> f[p]]
  /\ \A p \in D : f[p] = IF nxt[p] \in B THEN f[nxt[p]] ELSE p

IsReach(f, D, z, nxt) ==
  /\ f = [p \in D |-> f[p]]
  /\ \A p \in D : f[p] = IF nxt[p] = z THEN {} ELSE {nxt[p]} \cup f[nxt[p]]

LEMMA LastExists ==
  ASSUME NEW D, NEW B \in SUBSET D, NEW nxt
  PROVE  \E f : IsLast(f, D, B, nxt)
<1>. DEFINE Closed(S) == \A m \in S : nxt[m] \in B => nxt[m] \in S
            R(p) == {n \in D : \A S \in SUBSET D : p \in S /\ Closed(S) => n \in S}
            E(p) == {n \in R(p) : nxt[n] \notin B}
            g == [p \in D |-> CHOOSE n : n \in E(p)]
<1>1. ASSUME NEW p \in D, nxt[p] \in B
      PROVE  E(p) = E(nxt[p])
  <2>. DEFINE q == nxt[p]
  <2>1. ASSUME NEW n \in R(q)
        PROVE  n \in R(p)
    <3>. SUFFICES ASSUME NEW S \in SUBSET D, p \in S, Closed(S)
                  PROVE  n \in S
      OBVIOUS
    <3>1. q \in S
      BY <1>1
    <3>. QED
      BY <2>1, <3>1
  <2>2. ASSUME NEW n \in R(p), n # p
        PROVE  n \in R(q)
    <3>. SUFFICES ASSUME NEW S \in SUBSET D, q \in S, Closed(S)
                  PROVE  n \in S
      OBVIOUS
    <3>1. S \cup {p} \in SUBSET D /\ p \in S \cup {p} /\ Closed(S \cup {p})
      OBVIOUS
    <3>. QED
      BY <2>2, <3>1
  <2>. QED
    BY <1>1, <2>1, <2>2
<1>2. ASSUME NEW p \in D, nxt[p] \notin B
      PROVE  E(p) = {p}
  <2>1. {p} \in SUBSET D /\ Closed({p})
    BY <1>2
  <2>. QED
    BY <1>2, <2>1
<1>3. ASSUME NEW p \in D
      PROVE  g[p] = IF nxt[p] \in B THEN g[nxt[p]] ELSE p
  <2>. HIDE DEF E
  <2>1. CASE nxt[p] \in B
    BY <1>1, <2>1
  <2>2. CASE nxt[p] \notin B
    BY <1>2, <2>2
  <2>. QED
    BY <2>1, <2>2
<1>4. g = [p \in D |-> g[p]]
  OBVIOUS
<1>. QED
  <2>. HIDE DEF g
  <2>. QED
    BY <1>3, <1>4 DEF IsLast

LEMMA ReachExists ==
  ASSUME NEW D, NEW B \in SUBSET D, NEW z, z \notin D, NEW nxt \in [D -> B \cup {z}]
  PROVE  \E f : IsReach(f, D, z, nxt)
<1>. DEFINE Closed(S) == \A m \in S : nxt[m] \in S \cup {z}
            R(p) == {n \in D : \A S \in SUBSET D : nxt[p] \in S \cup {z} /\ Closed(S) => n \in S}
            g == [p \in D |-> R(p)]
<1>1. ASSUME NEW p \in D, nxt[p] = z
      PROVE  R(p) = {}
  <2>1. {} \in SUBSET D /\ Closed({})
    OBVIOUS
  <2>. QED
    BY <1>1, <2>1
<1>2. ASSUME NEW p \in D, nxt[p] # z
      PROVE  R(p) = {nxt[p]} \cup R(nxt[p])
  <2>. DEFINE q == nxt[p]
  <2>1. q \in D
    BY <1>2
  <2>2. q \in R(p)
    BY <1>2, <2>1
  <2>3. R(q) \subseteq R(p)
    BY <1>2
  <2>4. ASSUME NEW n \in R(p), n # q
        PROVE  n \in R(q)
    <3>. SUFFICES ASSUME NEW S \in SUBSET D, nxt[q] \in S \cup {z}, Closed(S)
                  PROVE  n \in S
      OBVIOUS
    <3>1. S \cup {q} \in SUBSET D /\ q \in S \cup {q} /\ Closed(S \cup {q})
      BY <2>1
    <3>. QED
      BY <2>4, <3>1
  <2>. QED
    BY <2>2, <2>3, <2>4
<1>3. ASSUME NEW p \in D
      PROVE  g[p] = IF nxt[p] = z THEN {} ELSE {nxt[p]} \cup g[nxt[p]]
  <2>1. nxt[p] # z => nxt[p] \in D
    OBVIOUS
  <2>. HIDE DEF R
  <2>. QED
    BY <1>1, <1>2, <2>1
<1>4. g = [p \in D |-> g[p]]
  OBVIOUS
<1>. QED
  <2>. HIDE DEF g
  <2>. QED
    BY <1>3, <1>4 DEF IsReach

-----------------------------------------------------------------------------
(***************************************************************************)
(* What a search finds.                                                    *)
(***************************************************************************)

LEMMA AdvanceStep ==
  ASSUME NEW i, NEW B \in SUBSET Score, NEW p \in Nodes
  PROVE  Advance(i, B)[p] = IF forward[p][i] \in B THEN Advance(i, B)[forward[p][i]] ELSE p
<1>. DEFINE nxt == [q \in Nodes |-> forward[q][i]]
            F(f) == [q \in Nodes |-> IF forward[q][i] \in B THEN f[forward[q][i]] ELSE q]
<1>1. PICK f : IsLast(f, Nodes, B, nxt)
  <2>1. B \in SUBSET Nodes
    BY DEF Nodes
  <2>. HIDE DEF nxt
  <2>. QED
    BY <2>1, LastExists
<1>2. \E h : h = F(h)
  <2>1. F(f) = [q \in Nodes |-> f[q]] /\ f = [q \in Nodes |-> f[q]]
    BY <1>1 DEF IsLast
  <2>. HIDE DEF F
  <2>. QED
    BY <2>1
<1>3. Advance(i, B) = CHOOSE h : h = F(h)
  BY DEF Advance
<1>4. Advance(i, B) = F(Advance(i, B))
  <2>. HIDE DEF F
  <2>. QED
    BY <1>2, <1>3
<1>. QED
  BY <1>4

\* From a node before b, Advance leads to the last one before b.
LEMMA AdvanceFinds ==
  ASSUME TypeOK, NEW N \in SUBSET Score, Linked(N), NEW i \in Levels, NEW b \in Int,
         NEW p, p = Head \/ (p \in On(N, i) /\ p < b)
  PROVE  IsPred(On(N, i), b, Advance(i, {q \in Score : q < b})[p])
<1>. DEFINE B == {q \in Score : q < b}
            A == Advance(i, B)
            Bad == {n \in On(N, i) : n < b /\ ~IsPred(On(N, i), b, A[n])}
<1>0. /\ On(N, i) \subseteq Score /\ B \in SUBSET Score
      /\ Head \in Nodes /\ \A n \in On(N, i) : n \in Nodes /\ n \in Int /\ n # Head
      /\ Nil \notin On(N, i) /\ Nil \notin B
  BY SkipListAssumption DEF On, Nodes
<1>1. ASSUME NEW n, n = Head \/ (n \in On(N, i) /\ n < b)
      PROVE  /\ IsNext(On(N, i), n, forward[n][i])
             /\ forward[n][i] \in B => /\ A[n] = A[forward[n][i]]
                                       /\ forward[n][i] \in On(N, i) /\ forward[n][i] < b
                                       /\ Behind(n, forward[n][i])
             /\ forward[n][i] \notin B => A[n] = n /\ IsPred(On(N, i), b, n)
  <2>1. n \in Nodes /\ IsNext(On(N, i), n, forward[n][i])
    BY <1>0, <1>1 DEF Linked
  <2>2. A[n] = IF forward[n][i] \in B THEN A[forward[n][i]] ELSE n
    BY <1>0, <2>1, AdvanceStep
  <2>3. forward[n][i] \in B => /\ forward[n][i] \in On(N, i) /\ forward[n][i] < b
                               /\ Behind(n, forward[n][i])
    BY <1>0, <2>1 DEF IsNext
  <2>4. ASSUME forward[n][i] \notin B, NEW m \in On(N, i), Behind(n, m)
        PROVE  b <= m
    <3>1. forward[n][i] \in On(N, i) /\ forward[n][i] <= m
      BY <2>1, <2>4 DEF IsNext
    <3>. QED
      BY <1>0, <2>4, <3>1
  <2>. HIDE DEF A, B
  <2>. QED
    BY <1>1, <2>1, <2>2, <2>3, <2>4 DEF IsPred
<1>. HIDE DEF A, B
<1>2. Bad = {}
  <2>. SUFFICES ASSUME Bad # {} PROVE FALSE
    OBVIOUS
  <2>1. PICK n \in Bad : \A m \in Bad : m <= n
    <3>1. Bad \in SUBSET Score
      BY <1>0
    <3>. HIDE DEF Bad
    <3>. QED
      BY <3>1, GreatestScore
  <2>2. forward[n][i] \in B
    BY <1>1, <2>1
  <2>3. /\ forward[n][i] \in On(N, i) /\ forward[n][i] < b /\ n < forward[n][i]
        /\ A[n] = A[forward[n][i]]
    BY <1>0, <1>1, <2>1, <2>2 DEF Behind
  <2>4. forward[n][i] \in Bad
    BY <2>1, <2>3
  <2>. QED
    BY <1>0, <2>1, <2>3, <2>4
<1>3. CASE p = Head
  BY <1>1, <1>2, <1>3 DEF A, B
<1>4. CASE p # Head
  BY <1>2, <1>4 DEF A, B
<1>. QED
  BY <1>3, <1>4

LEMMA SearchStep ==
  ASSUME TypeOK, NEW N \in SUBSET Score, Linked(N), NEW b \in Int
  PROVE  \A i \in 0 .. Level :
           Search({q \in Score : q < b})[i] =
             Advance(i, {q \in Score : q < b})
               [IF i = Level THEN Head ELSE Search({q \in Score : q < b})[i + 1]]
<1>. DEFINE B == {q \in Score : q < b}
            F(f) == [i \in 0 .. Level |-> Advance(i, B)[IF i = Level THEN Head ELSE f[i + 1]]]
            g == [i \in 0 .. Level |-> CHOOSE n : IsPred(On(N, i), b, n)]
<1>1. ASSUME NEW i \in 0 .. Level
      PROVE  g[i] = Advance(i, B)[IF i = Level THEN Head ELSE g[i + 1]]
  <2>1. Level \in Nat /\ i \in Levels /\ \A j \in 0 .. Level : j \in Levels
    BY SkipListAssumption DEF TypeOK, Levels
  <2>2. \A j \in 0 .. Level : IsPred(On(N, j), b, g[j])
    BY <2>1, PredExists
  <2>3. ASSUME NEW p, p = Head \/ (p \in On(N, i) /\ p < b)
        PROVE  g[i] = Advance(i, B)[p]
    <3>1. IsPred(On(N, i), b, Advance(i, B)[p])
      BY <2>1, <2>3, AdvanceFinds
    <3>2. IsPred(On(N, i), b, g[i])
      BY <2>2
    <3>. HIDE DEF g, B
    <3>. QED
      BY <2>1, <3>1, <3>2, PredUnique
  <2>4. CASE i = Level
    BY <2>3, <2>4
  <2>5. CASE i # Level
    <3>1. i + 1 \in 0 .. Level /\ i + 1 \in Levels
      BY <2>1, <2>5
    <3>2. IsPred(On(N, i + 1), b, g[i + 1])
      BY <2>2, <3>1
    <3>3. On(N, i + 1) \subseteq On(N, i)
      BY <2>1, <3>1 DEF On, TypeOK, Levels
    <3>4. g[i + 1] = Head \/ (g[i + 1] \in On(N, i) /\ g[i + 1] < b)
      BY <3>2, <3>3 DEF IsPred
    <3>. HIDE DEF g, B
    <3>. QED
      BY <2>3, <2>5, <3>4
  <2>. QED
    BY <2>4, <2>5
<1>2. \E f : f = F(f)
  <2>1. g = [i \in 0 .. Level |-> g[i]]
    OBVIOUS
  <2>2. g = F(g)
    <3>. HIDE DEF g, B
    <3>. QED
      BY <1>1, <2>1
  <2>. QED
    BY <2>2
<1>3. Search(B) = CHOOSE f : f = F(f)
  BY DEF Search
<1>4. Search(B) = F(Search(B))
  <2>. HIDE DEF F
  <2>. QED
    BY <1>2, <1>3
<1>5. \A i \in 0 .. Level :
        Search(B)[i] = Advance(i, B)[IF i = Level THEN Head ELSE Search(B)[i + 1]]
  <2>. HIDE DEF B
  <2>. QED
    BY <1>4
<1>. QED
  BY <1>5

\* A search ends on every level at the last node before b.
LEMMA SearchFinds ==
  ASSUME TypeOK, NEW N \in SUBSET Score, Linked(N), NEW b \in Int
  PROVE  \A i \in 0 .. Level : IsPred(On(N, i), b, Search({q \in Score : q < b})[i])
<1>. DEFINE s == Search({q \in Score : q < b})
            Bad == {i \in 0 .. Level : ~IsPred(On(N, i), b, s[i])}
<1>1. Level \in Nat /\ \A j \in 0 .. Level : j \in Levels
  BY SkipListAssumption DEF TypeOK, Levels
<1>2. ASSUME NEW i \in 0 .. Level, i # Level => IsPred(On(N, i + 1), b, s[i + 1])
      PROVE  IsPred(On(N, i), b, s[i])
  <2>. DEFINE p == IF i = Level THEN Head ELSE s[i + 1]
  <2>1. s[i] = Advance(i, {q \in Score : q < b})[p]
    BY SearchStep
  <2>2. p = Head \/ (p \in On(N, i) /\ p < b)
    <3>1. CASE i = Level
      BY <3>1
    <3>2. CASE i # Level
      <4>1. i + 1 \in Levels /\ On(N, i + 1) \subseteq On(N, i)
        BY <1>1, <3>2 DEF On, TypeOK, Levels
      <4>. QED
        BY <1>2, <3>2, <4>1 DEF IsPred
    <3>. QED
      BY <3>1, <3>2
  <2>. HIDE DEF p, s
  <2>. QED
    BY <1>1, <2>1, <2>2, AdvanceFinds
<1>3. Bad = {}
  <2>. HIDE DEF s
  <2>. SUFFICES ASSUME Bad # {} PROVE FALSE
    OBVIOUS
  <2>1. IsFiniteSet(Bad) /\ Bad \subseteq Int
    <3>1. IsFiniteSet(0 .. Level) /\ Bad \in SUBSET (0 .. Level) /\ Bad \subseteq Int
      BY <1>1, FS_Interval
    <3>. HIDE DEF Bad
    <3>. QED
      BY <3>1, FS_Subset
  <2>2. PICK i \in Bad : \A j \in Bad : j <= i
    <3>. HIDE DEF Bad
    <3>. QED
      BY <2>1, HasMax
  <2>3. i # Level => i + 1 \in 0 .. Level /\ i + 1 \notin Bad
    BY <1>1, <2>2
  <2>. QED
    BY <1>2, <2>2, <2>3
<1>. QED
  BY <1>3

\* Chain collects the nodes made for the level.
LEMMA ChainFinds ==
  ASSUME TypeOK, NEW N \in SUBSET Score, Linked(N), NEW i \in Levels
  PROVE  Chain(i) = On(N, i)
<1>. DEFINE nxt == [n \in Nodes |-> forward[n][i]]
            F(f) == [n \in Nodes |->
                       IF forward[n][i] = Nil THEN {} ELSE {forward[n][i]} \cup f[forward[n][i]]]
            c == CHOOSE f : f = F(f)
            Rest(n) == {m \in On(N, i) : Behind(n, m)}
            Bad == {n \in On(N, i) : c[n] # Rest(n)}
<1>0. /\ On(N, i) \subseteq Score /\ Nil \notin On(N, i)
      /\ Head \in Nodes /\ \A n \in On(N, i) : n \in Nodes /\ n \in Int /\ n # Head
  BY SkipListAssumption DEF On, Nodes
<1>1. PICK f : IsReach(f, Nodes, Nil, nxt)
  <2>1. Score \in SUBSET Nodes /\ nxt \in [Nodes -> Score \cup {Nil}]
    BY DEF Nodes, TypeOK
  <2>2. CASE Nil \notin Nodes
    <3>. HIDE DEF nxt
    <3>. QED
      BY <2>1, <2>2, ReachExists
  <2>. QED
    BY <2>2, SkipListAssumption DEF Nodes
<1>2. \E h : h = F(h)
  <2>1. F(f) = [n \in Nodes |-> f[n]] /\ f = [n \in Nodes |-> f[n]]
    BY <1>1 DEF IsReach
  <2>. HIDE DEF F
  <2>. QED
    BY <2>1
<1>3. c = F(c)
  <2>. HIDE DEF F
  <2>. QED
    BY <1>2
<1>4. Chain(i) = c[Head]
  BY DEF Chain
<1>5. \A n \in Nodes :
        c[n] = IF forward[n][i] = Nil THEN {} ELSE {forward[n][i]} \cup c[forward[n][i]]
  <2>. HIDE DEF c
  <2>. QED
    BY <1>3
<1>. HIDE DEF c
<1>6. ASSUME NEW n, n = Head \/ n \in On(N, i)
      PROVE  \/ forward[n][i] = Nil /\ c[n] = Rest(n)
             \/ /\ forward[n][i] \in On(N, i) /\ Behind(n, forward[n][i])
                /\ c[n] = {forward[n][i]} \cup c[forward[n][i]]
                /\ Rest(n) = {forward[n][i]} \cup Rest(forward[n][i])
  <2>1. n \in Nodes /\ IsNext(On(N, i), n, forward[n][i])
    BY <1>0, <1>6 DEF Linked
  <2>2. CASE forward[n][i] = Nil
    <3>1. Rest(n) = {}
      BY <1>0, <2>1, <2>2 DEF IsNext
    <3>. QED
      BY <1>5, <2>1, <2>2, <3>1
  <2>3. CASE forward[n][i] # Nil
    <3>. DEFINE q == forward[n][i]
    <3>1. /\ q \in On(N, i) /\ Behind(n, q)
          /\ \A m \in On(N, i) : Behind(n, m) => q <= m
      BY <2>1, <2>3 DEF IsNext
    <3>2. \A m \in On(N, i) : Behind(n, m) <=> m = q \/ Behind(q, m)
      <4>. HIDE DEF q
      <4>. QED
        BY <1>0, <1>6, <3>1 DEF Behind
    <3>3. Rest(n) = {q} \cup Rest(q)
      BY <3>1, <3>2
    <3>. QED
      BY <1>5, <2>1, <2>3, <3>1, <3>3
  <2>. QED
    BY <2>2, <2>3
<1>. HIDE DEF Rest
<1>7. Bad = {}
  <2>. SUFFICES ASSUME Bad # {} PROVE FALSE
    OBVIOUS
  <2>1. PICK n \in Bad : \A m \in Bad : m <= n
    <3>1. Bad \in SUBSET Score
      BY <1>0
    <3>. HIDE DEF Bad
    <3>. QED
      BY <3>1, GreatestScore
  <2>2. forward[n][i] \in On(N, i) /\ n < forward[n][i] /\ forward[n][i] \in Bad
    BY <1>0, <1>6, <2>1 DEF Behind
  <2>. QED
    BY <1>0, <2>1, <2>2
<1>8. c[Head] = Rest(Head)
  BY <1>6, <1>7
<1>. QED
  BY <1>4, <1>8 DEF Rest, Behind

\* The successor of the last node before s is s if s is in the list.
LEMMA CandidateFinds ==
  ASSUME TypeOK, NEW N \in SUBSET Score, Linked(N), NEW s \in Score
  PROVE  Candidate(s) = s <=> s \in N
<1>0. 0 \in Levels /\ 0 \in 0 .. Level
  BY SkipListAssumption DEF TypeOK, Levels
<1>1. s \in Int /\ Nil # s
  BY SkipListAssumption
<1>2. On(N, 0) = N
  BY AllOnBottom
<1>3. IsPred(On(N, 0), s, update(s)[0])
  BY <1>0, <1>1, SearchFinds DEF update
<1>4. CASE s \in N
  BY <1>0, <1>1, <1>2, <1>3, <1>4, PredPoints DEF Candidate
<1>5. CASE Candidate(s) = s
  <2>1. update(s)[0] = Head \/ update(s)[0] \in On(N, 0)
    BY <1>3 DEF IsPred
  <2>2. IsNext(On(N, 0), update(s)[0], s)
    BY <1>0, <1>1, <1>5, <2>1 DEF Linked, Candidate
  <2>3. s \in On(N, 0)
    BY <1>1, <2>2 DEF IsNext
  <2>. QED
    BY <1>2, <1>5, <2>3
<1>. QED
  BY <1>4, <1>5

\* q is the first node of N above s.
FirstAbove(N, s, q) ==
  \/ q = Nil /\ \A m \in N : ~(m > s)
  \/ q \in N /\ q > s /\ \A m \in N : m > s => q <= m

\* The search of Greate stops before the first node above s.
LEMMA GreateFinds ==
  ASSUME TypeOK, NEW N \in SUBSET Score, Linked(N), NEW s \in Int
  PROVE  FirstAbove(N, s, forward[Search({q \in Score : q <= s})[0]][0])
<1>. DEFINE n == Search({q \in Score : q <= s})[0]
<1>0. 0 \in Levels /\ 0 \in 0 .. Level
  BY SkipListAssumption DEF TypeOK, Levels
<1>1. s + 1 \in Int /\ Head \notin N /\ \A m \in N : m \in Int
  <2>1. Head \notin N
    BY SkipListAssumption
  <2>2. \A m \in N : m \in Int
    BY SkipListAssumption
  <2>. QED
    BY <2>1, <2>2
<1>2. On(N, 0) = N
  BY AllOnBottom
<1>3. IsPred(On(N, 0), s + 1, n)
  <2>1. {q \in Score : q <= s} = {q \in Score : q < s + 1}
    <3>1. \A q \in Score : q <= s <=> q < s + 1
      BY SkipListAssumption
    <3>. QED
      BY <3>1
  <2>2. IsPred(On(N, 0), s + 1, Search({q \in Score : q < s + 1})[0])
    BY <1>0, <1>1, SearchFinds
  <2>. QED
    BY <2>1, <2>2
<1>4. IsNext(On(N, 0), n, forward[n][0])
  BY <1>0, <1>1, <1>3 DEF Linked, IsPred
<1>5. \A m \in N : Behind(n, m) <=> m > s
  <2>. HIDE DEF n
  <2>. QED
    BY <1>0, <1>1, <1>2, <1>3 DEF IsPred, Behind
<1>. HIDE DEF n
<1>. QED
  BY <1>2, <1>4, <1>5 DEF IsNext, FirstAbove, n

-----------------------------------------------------------------------------
(***************************************************************************)
(* What linking and unlinking a node do to one level, as a set of nodes.   *)
(***************************************************************************)

LEMMA NextOfMore ==
  ASSUME NEW O \in SUBSET Score, NEW s \in Score, s \notin O,
         NEW p, IsPred(O, s, p),
         NEW n, n = Head \/ n \in O \cup {s},
         NEW q, IsNext(O, IF n = s THEN p ELSE n, q)
  PROVE  IsNext(O \cup {s}, n, IF n = p THEN s ELSE q)
<1>1. /\ s \in Int /\ s # Head /\ Nil \notin O
      /\ \A m \in O : m \in Int /\ m # Head /\ m # s
  BY SkipListAssumption
<1>0. /\ p = Head \/ (p \in O /\ p \in Int /\ p < s /\ p # Head)
      /\ \A m \in O : Behind(p, m) => s <= m
  BY <1>1 DEF IsPred
<1>2. CASE n = s
  <2>1. n # p
    BY <1>0, <1>1, <1>2
  <2>2. \A m \in O : Behind(p, m) <=> Behind(s, m)
    BY <1>0, <1>1 DEF Behind
  <2>3. IsNext(O, p, q) /\ ~Behind(s, s)
    BY <1>1, <1>2 DEF Behind
  <2>4. CASE q = Nil
    BY <1>1, <1>2, <2>1, <2>2, <2>3, <2>4 DEF IsNext
  <2>5. CASE q # Nil
    BY <1>1, <1>2, <2>1, <2>2, <2>3, <2>5 DEF IsNext
  <2>. QED
    BY <2>4, <2>5
<1>3. CASE n = p
  <2>1. Behind(p, s) /\ s <= s /\ \A m \in O : Behind(p, m) => s <= m
    BY <1>0, <1>1 DEF Behind
  <2>. QED
    BY <1>3, <2>1 DEF IsNext
<1>4. CASE n # s /\ n # p
  <2>1. IsNext(O, n, q) /\ (n = Head \/ n \in O)
    BY <1>4
  <2>2. Behind(n, s) => p # Head /\ Behind(n, p)
    <3>1. CASE n = Head
      BY <1>0, <1>4, <3>1 DEF Behind
    <3>2. CASE n # Head
      <4>1. n \in O /\ n \in Int /\ (Behind(n, s) <=> n < s)
        BY <1>1, <2>1, <3>2 DEF Behind
      <4>2. n < s => ~Behind(p, n)
        BY <1>0, <1>1, <4>1
      <4>. QED
        BY <1>0, <1>1, <1>4, <4>1, <4>2 DEF Behind
    <3>. QED
      BY <3>1, <3>2
  <2>3. CASE ~Behind(n, s)
    <3>1. \A m \in O \cup {s} : Behind(n, m) => m \in O
      BY <2>3
    <3>. QED
      BY <1>4, <2>1, <3>1 DEF IsNext
  <2>4. CASE Behind(n, s)
    <3>1. p \in O /\ p < s /\ Behind(n, p)
      BY <1>0, <2>2, <2>4
    <3>2. q \in O /\ Behind(n, q) /\ q <= p /\ \A m \in O : Behind(n, m) => q <= m
      BY <2>1, <3>1 DEF IsNext
    <3>3. q <= s
      BY <1>1, <3>1, <3>2
    <3>. QED
      BY <1>4, <3>2, <3>3 DEF IsNext
  <2>. QED
    BY <2>3, <2>4
<1>. QED
  BY <1>2, <1>3, <1>4

LEMMA NextOfLess ==
  ASSUME NEW O \in SUBSET Score, NEW s \in O,
         NEW p, IsPred(O, s, p),
         NEW n, n = Head \/ n \in O \ {s},
         NEW q, IsNext(O, IF n = p THEN s ELSE n, q)
  PROVE  IsNext(O \ {s}, n, q)
<1>1. /\ s \in Int /\ s # Head /\ Nil \notin O
      /\ \A m \in O : m \in Int /\ m # Head
  BY SkipListAssumption
<1>0. /\ p = Head \/ (p \in O /\ p \in Int /\ p < s /\ p # Head)
      /\ \A m \in O : Behind(p, m) => s <= m
  BY <1>1 DEF IsPred
<1>2. CASE n = p
  <2>1. \A m \in O \ {s} : Behind(p, m) <=> Behind(s, m)
    BY <1>0, <1>1 DEF Behind
  <2>2. IsNext(O, s, q) /\ ~Behind(s, s)
    BY <1>1, <1>2 DEF Behind
  <2>. QED
    BY <1>2, <2>1, <2>2 DEF IsNext
<1>3. CASE n # p
  <2>1. IsNext(O, n, q)
    BY <1>3
  <2>2. ASSUME q = s PROVE FALSE
    <3>1. Behind(n, s) /\ \A m \in O : Behind(n, m) => s <= m
      BY <1>1, <2>1, <2>2 DEF IsNext
    <3>2. n = Head \/ (n \in O /\ n \in Int /\ n < s /\ n # Head)
      BY <1>1, <3>1 DEF Behind
    <3>3. p = Head => n = Head
      BY <1>1, <1>0, <3>2 DEF Behind
    <3>4. n = Head => p = Head
      BY <1>1, <1>0, <3>1 DEF Behind
    <3>5. n # Head /\ p # Head => n = p
      BY <1>1, <3>1, <1>0, <3>2 DEF Behind
    <3>. QED
      BY <1>3, <3>3, <3>4, <3>5
  <2>. QED
    BY <2>1, <2>2 DEF IsNext
<1>. QED
  BY <1>2, <1>3

-----------------------------------------------------------------------------
(***************************************************************************)
(* The steps that change the list.                                         *)
(***************************************************************************)

\* The fields have their types after Link, Unlink and Lower too.
LEMMA LevelsFacts ==
  ASSUME TypeOK
  PROVE  /\ MaxLevel \in Nat /\ Level \in Nat /\ Level <= MaxLevel
         /\ 0 \in Levels /\ 0 .. Level \subseteq Levels
         /\ \A i \in Levels : i \in Nat /\ i <= MaxLevel
BY SkipListAssumption DEF TypeOK, Levels

\* Linking a new node keeps the list, its levels and its counters in order.
LEMMA LinkStep ==
  ASSUME TypeOK, NEW N \in SUBSET Score, Linked(N), Counted(N),
         NEW s \in Score, s \notin N, NEW m \in Member, Link(s, m)
  PROVE  TypeOK' /\ Linked(N \cup {s})' /\ Counted(N \cup {s})'
<1>. DEFINE M == N \cup {s}
<1>1. PICK r \in Levels :
        LET top == IF r > Level THEN Level + 1 ELSE r
            prev(i) == IF i > Level THEN Head ELSE update(s)[i]
        IN  /\ Level' = IF r > Level THEN Level + 1 ELSE Level
            /\ member' = [member EXCEPT ![s] = m]
            /\ level' = [level EXCEPT ![s] = top]
            /\ forward' = [n \in Nodes |-> [i \in Levels |->
                 CASE n = s /\ i <= top -> forward[prev(i)][i]
                   [] n = s /\ i > top -> Nil
                   [] n # s /\ i <= top /\ n = prev(i) -> s
                   [] OTHER -> forward[n][i]]]
            /\ Length' = Length + 1
  BY DEF Link, randomLevel
<1>. DEFINE top == IF r > Level THEN Level + 1 ELSE r
            prev(i) == IF i > Level THEN Head ELSE update(s)[i]
<1>2. /\ top \in Levels /\ top <= Level' /\ Level' \in Levels /\ Level <= Level'
      /\ Level' = Level \/ Level' = top
      /\ \A i \in 0 .. top : i \in Levels /\ (i <= Level \/ i = Level + 1)
  <2>1. Level' = IF r > Level THEN Level + 1 ELSE Level
    BY <1>1
  <2>2. r \in Nat /\ r <= MaxLevel /\ MaxLevel \in Nat /\ Level \in Nat /\ Level <= MaxLevel
    BY LevelsFacts
  <2>. QED
    BY <2>1, <2>2 DEF Levels
<1>3. s \in Int /\ s # Head /\ Nil # s /\ Nil # Head /\ Head \in Nodes /\ Score \subseteq Nodes
  BY SkipListAssumption DEF Nodes
<1>4. ASSUME NEW i \in Levels, i <= top
      PROVE  IsPred(On(N, i), s, prev(i))
  <2>1. CASE i <= Level
    <3>1. i \in 0 .. Level /\ ~(i > Level)
      BY <2>1, LevelsFacts
    <3>2. IsPred(On(N, i), s, update(s)[i])
      BY <1>3, <3>1, SearchFinds DEF update
    <3>. QED
      BY <3>1, <3>2
  <2>2. CASE ~(i <= Level)
    <3>1. On(N, i) = {}
      BY <2>2, LevelsFacts DEF On, Counted, TypeOK
    <3>2. i > Level
      BY <2>2, LevelsFacts
    <3>. QED
      BY <3>1, <3>2 DEF IsPred
  <2>. QED
    BY <2>1, <2>2
<1>5. ASSUME NEW i \in Levels
      PROVE  On(M, i)' = IF i <= top THEN On(N, i) \cup {s} ELSE On(N, i)
  <2>1. level'[s] = top /\ \A n \in N : level'[n] = level[n]
    BY <1>1 DEF TypeOK
  <2>2. top \in Int /\ i \in Int
    BY <1>2 DEF Levels
  <2>. HIDE DEF top
  <2>3. On(M, i)' = {n \in M : level'[n] >= i}
    BY DEF On
  <2>4. level'[s] >= i <=> i <= top
    BY <2>1, <2>2
  <2>. QED
    BY <2>1, <2>3, <2>4 DEF On
<1>6. ASSUME NEW i \in Levels, NEW n \in Nodes
      PROVE  /\ i <= top => forward'[n][i] = IF n = prev(i) /\ n # s THEN s
                                             ELSE forward[IF n = s THEN prev(i) ELSE n][i]
             /\ ~(i <= top) => forward'[n][i] = IF n = s THEN Nil ELSE forward[n][i]
  <2>1. forward'[n][i] =
          CASE n = s /\ i <= top -> forward[prev(i)][i]
            [] n = s /\ i > top -> Nil
            [] n # s /\ i <= top /\ n = prev(i) -> s
            [] OTHER -> forward[n][i]
    <3>. HIDE DEF top, prev
    <3>. QED
      BY <1>1 DEF top, prev
  <2>2. ~(i <= top) <=> i > top
    BY <1>2 DEF Levels
  <2>. HIDE DEF top, prev
  <2>. QED
    BY <2>1, <2>2
<1>. HIDE DEF top, prev
<1>7. ASSUME NEW i \in Levels, i <= top
      PROVE  prev(i) = Head \/ prev(i) \in On(N, i)
  BY <1>4, <1>7 DEF IsPred
<1>8. ASSUME NEW i \in Levels, NEW n, n = Head \/ n \in On(M, i)'
      PROVE  IsNext(On(M, i)', n, forward'[n][i])
  <2>0. On(N, i) \in SUBSET Score /\ s \notin On(N, i) /\ s # Head
    BY <1>3 DEF On
  <2>1. CASE i <= top
    <3>1. On(M, i)' = On(N, i) \cup {s}
      BY <1>5, <2>1
    <3>2. n \in Nodes
      BY <1>3, <1>8, <2>0, <3>1
    <3>. DEFINE k == IF n = s THEN prev(i) ELSE n
    <3>3. k = Head \/ k \in On(N, i)
      BY <1>7, <1>8, <2>1, <3>1
    <3>4. IsNext(On(N, i), k, forward[k][i])
      BY <3>3 DEF Linked
    <3>5. prev(i) # s
      BY <1>7, <2>0, <2>1
    <3>6. forward'[n][i] = IF n = prev(i) THEN s ELSE forward[k][i]
      BY <1>6, <2>1, <3>2, <3>5
    <3>7. IsNext(On(N, i) \cup {s}, n, IF n = prev(i) THEN s ELSE forward[k][i])
      BY <1>4, <1>8, <2>0, <2>1, <3>1, <3>4, NextOfMore
    <3>. QED
      BY <3>1, <3>6, <3>7
  <2>2. CASE ~(i <= top)
    <3>1. On(M, i)' = On(N, i)
      BY <1>5, <2>2
    <3>2. n \in Nodes /\ n # s
      BY <1>3, <1>8, <2>0, <3>1
    <3>3. forward'[n][i] = forward[n][i]
      BY <1>6, <2>2, <3>2
    <3>. QED
      BY <1>8, <3>1, <3>3 DEF Linked
  <2>. QED
    BY <2>1, <2>2
<1>9. Linked(M)'
  <2>. HIDE DEF M
  <2>. QED
    BY <1>8 DEF Linked
<1>10. Counted(M)'
  <2>1. Length' = Cardinality(M)
    <3>1. IsFiniteSet(N)
      BY SkipListAssumption, FS_Subset
    <3>2. Cardinality(M) = Cardinality(N) + 1
      BY <3>1, FS_AddElement
    <3>. QED
      BY <1>1, <3>2 DEF Counted
  <2>2. ASSUME NEW n \in M
        PROVE  member'[n] # Nil /\ level'[n] <= Level'
    <3>1. CASE n = s
      <4>1. member'[s] = m /\ level'[s] = top /\ m # Nil
        BY <1>1, SkipListAssumption DEF TypeOK, top
      <4>. QED
        BY <1>2, <3>1, <4>1
    <3>2. CASE n # s
      <4>1. member'[n] = member[n] /\ level'[n] = level[n] /\ n \in N
        BY <1>1, <3>2 DEF TypeOK
      <4>2. level[n] \in Int /\ Level \in Int /\ Level' \in Int
        BY <1>2, <4>1 DEF TypeOK, Levels
      <4>. QED
        BY <1>2, <4>1, <4>2 DEF Counted
    <3>. QED
      BY <3>1, <3>2
  <2>3. Level' = 0 \/ {n \in M : level'[n] >= Level'} # {}
    <3>1. CASE Level' = top
      <4>1. level'[s] = top /\ top >= top /\ s \in M
        BY <1>1, <1>2 DEF TypeOK, top, Levels
      <4>. QED
        BY <3>1, <4>1
    <3>2. CASE Level' = Level /\ Level # 0
      <4>1. PICK n \in N : level[n] >= Level
        BY <3>2 DEF Counted, On
      <4>2. level'[n] = level[n] /\ n \in M
        BY <1>1, <4>1 DEF TypeOK
      <4>. QED
        BY <3>2, <4>1, <4>2
    <3>. QED
      BY <1>2, <3>1, <3>2
  <2>. HIDE DEF M
  <2>. QED
    BY <2>1, <2>2, <2>3 DEF Counted, On
<1>11. TypeOK'
  <2>1. ASSUME NEW n \in Nodes, NEW i \in Levels
        PROVE  forward'[n][i] \in Score \cup {Nil}
    <3>1. i <= top => prev(i) \in Nodes
      BY <1>3, <1>7 DEF On
    <3>. QED
      BY <1>3, <1>6, <3>1 DEF TypeOK
  <2>2. forward' = [n \in Nodes |-> [i \in Levels |-> forward'[n][i]]]
    <3>. DEFINE g(n, i) ==
           CASE n = s /\ i <= top -> forward[prev(i)][i]
             [] n = s /\ i > top -> Nil
             [] n # s /\ i <= top /\ n = prev(i) -> s
             [] OTHER -> forward[n][i]
    <3>1. forward' = [n \in Nodes |-> [i \in Levels |-> g(n, i)]]
      BY <1>1 DEF top, prev
    <3>. HIDE DEF g
    <3>. QED
      BY <3>1
  <2>3. forward' \in [Nodes -> [Levels -> Score \cup {Nil}]]
    BY <2>1, <2>2
  <2>4. member' \in [Score -> Member \cup {Nil}] /\ level' \in [Score -> Levels]
    BY <1>1, <1>2 DEF TypeOK, top
  <2>. QED
    BY <1>2, <2>3, <2>4 DEF TypeOK
<1>. QED
  BY <1>9, <1>10, <1>11

\* Lower finds the highest level on which the head points to a node.
LEMMA LowerFinds ==
  ASSUME TypeOK, NEW fwd
  PROVE  /\ Lower(fwd) \in 0 .. Level
         /\ Lower(fwd) = 0 \/ fwd[Head][Lower(fwd)] # Nil
         /\ \A i \in Lower(fwd) + 1 .. Level : fwd[Head][i] = Nil
<1>. DEFINE S == {j \in 0 .. Level : fwd[Head][j] # Nil \/ j = 0}
            P(j) == /\ fwd[Head][j] # Nil \/ j = 0
                    /\ \A i \in j + 1 .. Level : fwd[Head][i] = Nil
<1>1. Level \in Nat
  BY LevelsFacts
<1>2. PICK j \in S : \A k \in S : k <= j
  <2>1. 0 \in S /\ S \subseteq Int /\ S \in SUBSET (0 .. Level)
    BY <1>1
  <2>2. IsFiniteSet(0 .. Level)
    BY <1>1, FS_Interval
  <2>. HIDE DEF S
  <2>. QED
    BY <2>1, <2>2, FS_Subset, HasMax
<1>3. j \in 0 .. Level /\ P(j)
  <2>1. ASSUME NEW i \in j + 1 .. Level PROVE fwd[Head][i] = Nil
    <3>1. i \in 0 .. Level /\ ~(i <= j)
      BY <1>1, <1>2, <2>1
    <3>. QED
      BY <1>2, <3>1
  <2>. QED
    BY <1>2, <2>1
<1>4. Lower(fwd) = CHOOSE k \in 0 .. Level : P(k)
  BY DEF Lower
<1>5. Lower(fwd) \in 0 .. Level /\ P(Lower(fwd))
  <2>. HIDE DEF P
  <2>. QED
    BY <1>3, <1>4
<1>. QED
  BY <1>5

\* Unlinking a node keeps the list, its levels and its counters in order,
\* and leaves the node the pointers it has.
LEMMA UnlinkStep ==
  ASSUME TypeOK, NEW N \in SUBSET Score, Linked(N), Counted(N),
         NEW s \in N, forward' = Unlink(s), Level' = Lower(forward'),
         Length' = Length - 1, UNCHANGED <<member, level>>
  PROVE  /\ TypeOK' /\ Linked(N \ {s})' /\ Counted(N \ {s})'
         /\ forward'[s] = forward[s]
<1>. DEFINE M == N \ {s}
<1>1. /\ s \in Score /\ s \in Int /\ s # Head /\ Nil # s
      /\ Head \in Nodes /\ Score \subseteq Nodes
  BY SkipListAssumption DEF Nodes
<1>2. ASSUME NEW i \in Levels, i <= Level
      PROVE  IsPred(On(N, i), s, update(s)[i])
  <2>1. i \in 0 .. Level
    BY <1>2, LevelsFacts
  <2>. QED
    BY <1>1, <2>1, SearchFinds DEF update
<1>3. ASSUME NEW n \in Nodes, NEW i \in Levels
      PROVE  forward'[n][i] = IF i <= Level /\ n = update(s)[i] /\ forward[n][i] = s
                                THEN forward[s][i] ELSE forward[n][i]
  <2>1. forward' = [k \in Nodes |-> [j \in Levels |->
                      IF j <= Level /\ k = update(s)[j] /\ forward[k][j] = s
                        THEN forward[s][j] ELSE forward[k][j]]]
    BY DEF Unlink
  <2>. QED
    BY <2>1
<1>4. ASSUME NEW i \in Levels
      PROVE  On(M, i)' = On(N, i) \ {s}
  BY DEF On
<1>5. ASSUME NEW i \in Levels, NEW n, n = Head \/ n \in On(M, i)'
      PROVE  IsNext(On(M, i)', n, forward'[n][i])
  <2>0. On(N, i) \in SUBSET Score /\ n \in Nodes /\ (n = Head \/ n \in On(N, i))
    BY <1>1, <1>4, <1>5 DEF On
  <2>1. CASE s \in On(N, i)
    <3>. DEFINE p == update(s)[i]
                k == IF n = p THEN s ELSE n
    <3>1. i <= Level
      <4>1. level[s] >= i /\ level[s] <= Level /\ level[s] \in Int /\ Level \in Int /\ i \in Int
        BY <1>1, <2>1 DEF On, Counted, TypeOK, Levels
      <4>. QED
        BY <4>1
    <3>2. IsPred(On(N, i), s, p)
      BY <1>2, <3>1
    <3>3. forward[p][i] = s
      BY <1>1, <2>1, <3>2, PredPoints
    <3>4. forward'[n][i] = forward[k][i]
      BY <1>3, <2>0, <3>1, <3>3
    <3>5. IsNext(On(N, i), k, forward[k][i])
      BY <2>0, <2>1 DEF Linked
    <3>6. n = Head \/ n \in On(N, i) \ {s}
      BY <1>4, <1>5
    <3>. HIDE DEF p
    <3>7. IsNext(On(N, i) \ {s}, n, forward[k][i])
      BY <2>0, <2>1, <3>2, <3>5, <3>6, NextOfLess
    <3>. QED
      BY <1>4, <3>4, <3>7
  <2>2. CASE s \notin On(N, i)
    <3>1. IsNext(On(N, i), n, forward[n][i])
      BY <2>0 DEF Linked
    <3>2. forward[n][i] # s
      BY <1>1, <2>2, <3>1 DEF IsNext
    <3>3. On(N, i) \ {s} = On(N, i)
      BY <2>2
    <3>. QED
      BY <1>3, <1>4, <2>0, <3>1, <3>2, <3>3
  <2>. QED
    BY <2>1, <2>2
<1>6. Linked(M)'
  <2>. HIDE DEF M
  <2>. QED
    BY <1>5 DEF Linked
<1>7. /\ Level' \in 0 .. Level /\ Level' \in Levels
      /\ Level' = 0 \/ forward'[Head][Level'] # Nil
      /\ \A i \in Level' + 1 .. Level : forward'[Head][i] = Nil
  BY LevelsFacts, LowerFinds
<1>8. ASSUME NEW i \in Levels
      PROVE  IsNext({n \in M : level[n] >= i}, Head, forward'[Head][i])
  <2>1. On(M, i)' = {n \in M : level[n] >= i}
    BY DEF On
  <2>. QED
    BY <1>5, <2>1
<1>9. Counted(M)'
  <2>1. Length' = Cardinality(M)
    <3>1. IsFiniteSet(N)
      BY SkipListAssumption, FS_Subset
    <3>2. Cardinality(M) = Cardinality(N) - 1
      BY <3>1, FS_RemoveElement
    <3>. QED
      BY <3>2 DEF Counted
  <2>2. ASSUME NEW n \in M
        PROVE  member'[n] # Nil /\ level'[n] <= Level'
    <3>1. member'[n] # Nil /\ level'[n] = level[n] /\ level[n] <= Level
      BY DEF Counted
    <3>2. level[n] \in Levels /\ level[n] \in Nat /\ Level \in Nat /\ Level' \in Nat
      BY <1>7, LevelsFacts DEF TypeOK
    <3>3. ASSUME ~(level[n] <= Level') PROVE FALSE
      <4>1. level[n] \in Level' + 1 .. Level /\ level[n] >= level[n]
        BY <3>1, <3>2, <3>3
      <4>2. forward'[Head][level[n]] = Nil
        BY <1>7, <4>1
      <4>3. IsNext({k \in M : level[k] >= level[n]}, Head, Nil)
        BY <1>8, <3>2, <4>2
      <4>4. n \in {k \in M : level[k] >= level[n]}
        BY <4>1
      <4>5. Nil \notin Score
        BY SkipListAssumption
      <4>. QED
        BY <4>3, <4>4, <4>5 DEF IsNext, Behind
    <3>. QED
      BY <3>1, <3>3
  <2>3. Level' = 0 \/ {n \in M : level'[n] >= Level'} # {}
    <3>1. CASE Level' # 0
      <4>1. forward'[Head][Level'] # Nil
        BY <1>7, <3>1
      <4>2. forward'[Head][Level'] \in {n \in M : level[n] >= Level'}
        BY <1>7, <1>8, <4>1 DEF IsNext
      <4>. QED
        BY <4>2
    <3>. QED
      BY <3>1
  <2>. HIDE DEF M
  <2>. QED
    BY <2>1, <2>2, <2>3 DEF Counted, On
<1>10. forward' \in [Nodes -> [Levels -> Score \cup {Nil}]]
  <2>. DEFINE g(n, i) == IF i <= Level /\ n = update(s)[i] /\ forward[n][i] = s
                           THEN forward[s][i] ELSE forward[n][i]
  <2>1. forward' = [n \in Nodes |-> [i \in Levels |-> g(n, i)]]
    BY DEF Unlink
  <2>2. \A n \in Nodes, i \in Levels : g(n, i) \in Score \cup {Nil}
    BY <1>1 DEF TypeOK
  <2>. HIDE DEF g
  <2>. QED
    BY <2>1, <2>2
<1>11. TypeOK'
  BY <1>7, <1>10 DEF TypeOK
<1>12. forward'[s] = forward[s]
  <2>1. forward[s] \in [Levels -> Score \cup {Nil}] /\ forward'[s] \in [Levels -> Score \cup {Nil}]
    BY <1>1, <1>10 DEF TypeOK
  <2>2. ASSUME NEW i \in Levels PROVE forward'[s][i] = forward[s][i]
    <3>1. i <= Level => s # update(s)[i]
      BY <1>1, <1>2 DEF IsPred
    <3>. QED
      BY <1>1, <1>3, <3>1
  <2>. QED
    BY <2>1, <2>2
<1>. QED
  BY <1>6, <1>9, <1>11, <1>12

-----------------------------------------------------------------------------
(***************************************************************************)
(* The ordered map the list stands for.                                    *)
(***************************************************************************)

MapOf(N) == [s \in Score |-> IF s \in N THEN member[s] ELSE Nil]

\* The entries of the map are those of the nodes.
LEMMA EntryOf ==
  ASSUME NEW CONSTANT N \in SUBSET Score
  PROVE  ListOf(N) => Entry = MapOf(N) /\ Map!Present = N
<1>. SUFFICES ASSUME ListOf(N)
              PROVE  Entry = MapOf(N) /\ Map!Present = N
  OBVIOUS
<1>1. Chain(0) = N
  <2>1. 0 \in Levels
    BY LevelsFacts DEF ListOf
  <2>2. Chain(0) = On(N, 0)
    BY <2>1, ChainFinds DEF ListOf
  <2>. QED
    BY <2>2, AllOnBottom DEF ListOf
<1>2. Entry = MapOf(N)
  BY <1>1 DEF Entry, MapOf
<1>3. \A n \in N : member[n] # Nil
  BY DEF ListOf, Counted
<1>4. Map!Present = {n \in Score : MapOf(N)[n] # Nil}
  BY <1>2 DEF Map!Present
<1>5. \A n \in Score : MapOf(N)[n] # Nil <=> n \in N
  BY <1>3 DEF MapOf
<1>. QED
  BY <1>2, <1>4, <1>5

LEMMA EntryOfNext ==
  \A N \in SUBSET Score : ListOf(N)' => Entry' = MapOf(N)'
<1>1. \A N \in SUBSET Score : ListOf(N) => Entry = MapOf(N)
  BY EntryOf
<1>2. (\A N \in SUBSET Score : ListOf(N) => Entry = MapOf(N))'
  BY <1>1, PTL
<1>. QED
  BY <1>2

\* The least score of a set is its first one.
LEMMA LeastIs ==
  ASSUME NEW S \in SUBSET Score, NEW q,
         (q = Nil /\ S = {}) \/ (q \in S /\ \A m \in S : q <= m)
  PROVE  Map!Least(S) = q
<1>1. CASE S = {}
  BY <1>1 DEF Map!Least
<1>2. CASE S # {}
  <2>1. q \in S /\ \A m \in S : q <= m
    BY <1>2
  <2>2. \A p \in S : p \in Int
    BY SkipListAssumption
  <2>3. \A p \in S : (\A m \in S : p <= m) => p = q
    BY <2>1, <2>2
  <2>. QED
    BY <1>2, <2>1, <2>3 DEF Map!Least
<1>. QED
  BY <1>1, <1>2

-----------------------------------------------------------------------------
(***************************************************************************)
(* Every method keeps the list in order and does what the map does.        *)
(***************************************************************************)

LEMMA SameList ==
  ASSUME NEW N \in SUBSET Score, ListOf(N), UNCHANGED listVars
  PROVE  ListOf(N)' /\ UNCHANGED Entry
<1>1. ListOf(N)'
  BY DEF ListOf, TypeOK, Linked, Counted, On, listVars
<1>2. Entry' = MapOf(N)' /\ Entry = MapOf(N)
  BY <1>1, EntryOf, EntryOfNext
<1>. QED
  BY <1>1, <1>2 DEF MapOf, listVars

LEMMA LinkPuts ==
  ASSUME NEW N \in SUBSET Score, ListOf(N),
         NEW s \in Score, s \notin N, NEW m \in Member, Link(s, m)
  PROVE  ListOf(N \cup {s})' /\ Entry' = [Entry EXCEPT ![s] = m]
<1>1. ListOf(N \cup {s})'
  BY LinkStep DEF ListOf
<1>2. Entry' = MapOf(N \cup {s})' /\ Entry = MapOf(N)
  BY <1>1, EntryOf, EntryOfNext
<1>3. member' = [member EXCEPT ![s] = m] /\ member \in [Score -> Member \cup {Nil}]
  BY DEF Link, ListOf, TypeOK
<1>. QED
  BY <1>1, <1>2, <1>3 DEF MapOf

LEMMA InsertStep ==
  ASSUME NEW N \in SUBSET Score, ListOf(N),
         NEW s \in Score, NEW m \in Member, Insert(s, m)
  PROVE  /\ ListOf(N \cup {s})'
         /\ Map!OmInsert(s, m)
<1>1. Candidate(s) = s <=> s \in N
  BY CandidateFinds DEF ListOf
<1>2. CASE s \in N
  <2>1. ret' = ErrNodeExists /\ UNCHANGED listVars /\ N \cup {s} = N
    BY <1>1, <1>2 DEF Insert
  <2>2. ListOf(N)' /\ UNCHANGED Entry
    BY <2>1, SameList
  <2>. QED
    BY <1>2, <2>1, <2>2, EntryOf DEF Map!OmInsert
<1>3. CASE s \notin N
  <2>1. ret' = Nil /\ Link(s, m)
    BY <1>1, <1>3 DEF Insert
  <2>. QED
    BY <1>3, <2>1, EntryOf, LinkPuts DEF Map!OmInsert
<1>. QED
  BY <1>2, <1>3

LEMMA UpdateStep ==
  ASSUME NEW N \in SUBSET Score, ListOf(N),
         NEW s \in Score, NEW m \in Member, Update(s, m)
  PROVE  /\ ListOf(N \cup {s})'
         /\ Map!OmUpdate(s, m)
<1>1. Candidate(s) = s <=> s \in N
  BY CandidateFinds DEF ListOf
<1>2. CASE s \in N
  <2>1. /\ member' = [member EXCEPT ![s] = m]
        /\ UNCHANGED <<level, forward, Level, Length>> /\ N \cup {s} = N
    BY <1>1, <1>2 DEF Update
  <2>2. ListOf(N)'
    <3>1. TypeOK'
      BY <2>1 DEF ListOf, TypeOK
    <3>2. Linked(N)'
      BY <2>1 DEF ListOf, Linked, On
    <3>3. \A n \in N : member'[n] # Nil
      BY <2>1, SkipListAssumption DEF ListOf, TypeOK, Counted
    <3>4. Counted(N)'
      BY <2>1, <3>3 DEF ListOf, Counted, On
    <3>. QED
      BY <3>1, <3>2, <3>4 DEF ListOf
  <2>3. Entry' = MapOf(N)' /\ Entry = MapOf(N) /\ member \in [Score -> Member \cup {Nil}]
    BY <2>2, EntryOf, EntryOfNext DEF ListOf, TypeOK
  <2>4. Entry' = [Entry EXCEPT ![s] = m]
    BY <1>2, <2>1, <2>3 DEF MapOf
  <2>. QED
    BY <2>1, <2>2, <2>4 DEF Map!OmUpdate, Update
<1>3. CASE s \notin N
  <2>1. ret' = Nil /\ Link(s, m)
    BY <1>1, <1>3 DEF Update
  <2>. QED
    BY <1>3, <2>1, LinkPuts DEF Map!OmUpdate
<1>. QED
  BY <1>2, <1>3

\* The deleted node keeps the pointer a walk goes on from.
LEMMA DeleteStep ==
  ASSUME NEW N \in SUBSET Score, ListOf(N), NEW s \in Score, Delete(s)
  PROVE  /\ ListOf(N \ {s})'
         /\ Map!OmDelete(s)
         /\ forward'[s] = forward[s]
<1>1. Candidate(s) = s <=> s \in N
  BY CandidateFinds DEF ListOf
<1>2. CASE s \in N
  <2>1. /\ ret' = s /\ forward' = Unlink(s) /\ Level' = Lower(forward')
        /\ Length' = Length - 1 /\ UNCHANGED <<member, level>>
    BY <1>1, <1>2 DEF Delete
  <2>2. ListOf(N \ {s})' /\ forward'[s] = forward[s]
    BY <1>2, <2>1, UnlinkStep DEF ListOf
  <2>3. Entry' = MapOf(N \ {s})' /\ Entry = MapOf(N)
    BY <2>2, EntryOf, EntryOfNext
  <2>4. Entry' = [Entry EXCEPT ![s] = Nil]
    BY <2>1, <2>3 DEF MapOf
  <2>. QED
    BY <1>2, <2>1, <2>2, <2>4, EntryOf DEF Map!OmDelete
<1>3. CASE s \notin N
  <2>1. ret' = Nil /\ UNCHANGED listVars /\ N \ {s} = N
    BY <1>1, <1>3 DEF Delete
  <2>2. ListOf(N)' /\ UNCHANGED Entry
    BY <2>1, SameList
  <2>3. Entry = [Entry EXCEPT ![s] = Nil]
    <3>1. Entry = MapOf(N)
      BY EntryOf
    <3>. QED
      BY <1>3, <3>1 DEF MapOf
  <2>. QED
    BY <1>3, <2>1, <2>2, <2>3, EntryOf DEF Map!OmDelete, listVars
<1>. QED
  BY <1>2, <1>3

LEMMA EqualStep ==
  ASSUME NEW N \in SUBSET Score, ListOf(N), NEW s \in Score, Equal(s)
  PROVE  /\ ListOf(N)'
         /\ Map!OmEqual(s)
<1>1. Candidate(s) = s <=> s \in N
  BY CandidateFinds DEF ListOf
<1>2. ListOf(N)' /\ UNCHANGED Entry /\ ret' = IF s \in N THEN s ELSE Nil
  BY <1>1, SameList DEF Equal
<1>3. Map!Least({t \in N : t = s}) = IF s \in N THEN s ELSE Nil
  <2>1. CASE s \in N
    <3>1. s <= s
      BY SkipListAssumption
    <3>. QED
      BY <2>1, <3>1, LeastIs
  <2>2. CASE s \notin N
    BY <2>2, LeastIs
  <2>. QED
    BY <2>1, <2>2
<1>. QED
  BY <1>2, <1>3, EntryOf DEF Map!OmEqual

LEMMA FirstStep ==
  ASSUME NEW N \in SUBSET Score, ListOf(N), First
  PROVE  /\ ListOf(N)'
         /\ Map!OmFirst
<1>1. ListOf(N)' /\ UNCHANGED Entry /\ ret' = forward[Head][0]
  BY SameList DEF First, NextOf
<1>2. IsNext(On(N, 0), Head, forward[Head][0]) /\ On(N, 0) = N
  BY LevelsFacts, AllOnBottom DEF ListOf, Linked
<1>3. Map!Least(N) = forward[Head][0]
  BY <1>2, LeastIs DEF IsNext, Behind
<1>. QED
  BY <1>1, <1>3, EntryOf DEF Map!OmFirst

LEMMA GreateStep ==
  ASSUME NEW N \in SUBSET Score, ListOf(N), NEW s \in Mids, Greate(s)
  PROVE  /\ ListOf(N)' /\ ret' \in N \cup {Nil}
         /\ Map!OmGreate(s)
<1>1. ListOf(N)' /\ UNCHANGED Entry
  BY SameList DEF Greate
<1>2. s \in Int
  BY SkipListAssumption
<1>3. FirstAbove(N, s, ret')
  BY <1>2, GreateFinds DEF Greate, ListOf
<1>4. Map!Least({t \in N : t > s}) = ret'
  <2>. DEFINE S == {t \in N : t > s}
  <2>1. (ret' = Nil /\ S = {}) \/ (ret' \in S /\ \A m \in S : ret' <= m)
    BY <1>3 DEF FirstAbove
  <2>2. S \in SUBSET Score
    OBVIOUS
  <2>. HIDE DEF S
  <2>3. Map!Least(S) = ret'
    BY <2>1, <2>2, LeastIs
  <2>. QED
    BY <2>3 DEF S
<1>. QED
  BY <1>1, <1>3, <1>4, EntryOf DEF Map!OmGreate, FirstAbove

\* The node after n is the first above it.
LEMMA NextStep ==
  ASSUME NEW N \in SUBSET Score, ListOf(N), NEW n \in N
  PROVE  /\ forward[n][0] \in (N \ {n}) \cup {Nil}
         /\ Map!Least({t \in N : t > n}) = forward[n][0]
<1>1. On(N, 0) = N /\ 0 \in Levels
  BY LevelsFacts, AllOnBottom DEF ListOf
<1>2. IsNext(N, n, forward[n][0])
  BY <1>1 DEF ListOf, Linked
<1>3. /\ n \in Int /\ n # Head /\ ~(n < n)
      /\ \A m \in N : m \in Int /\ (m > n <=> Behind(n, m))
  <2>1. n \in Int /\ n # Head /\ \A m \in N : m \in Int
    BY SkipListAssumption
  <2>. QED
    BY <2>1 DEF Behind
<1>4. FirstAbove(N, n, forward[n][0])
  BY <1>2, <1>3 DEF IsNext, FirstAbove
<1>5. Map!Least({t \in N : t > n}) = forward[n][0]
  <2>. DEFINE S == {t \in N : t > n}
              q == forward[n][0]
  <2>1. (q = Nil /\ S = {}) \/ (q \in S /\ \A m \in S : q <= m)
    BY <1>4 DEF FirstAbove
  <2>2. S \in SUBSET Score
    OBVIOUS
  <2>. HIDE DEF S, q
  <2>3. Map!Least(S) = q
    BY <2>1, <2>2, LeastIs
  <2>. QED
    BY <2>3 DEF S, q
<1>6. forward[n][0] # n
  BY <1>3, <1>4, SkipListAssumption DEF FirstAbove
<1>. QED
  BY <1>4, <1>5, <1>6 DEF FirstAbove

-----------------------------------------------------------------------------
(***************************************************************************)
(* The theorems.                                                           *)
(***************************************************************************)

MapStep == [Map!OmCall \/ Map!OmWalk]_(Map!omVars)

LEMMA InitHolds == Init => IndInv /\ Map!OmInit
<1>. SUFFICES ASSUME Init PROVE IndInv /\ Map!OmInit
  OBVIOUS
<1>1. {} \in SUBSET Score /\ MaxLevel \in Nat
  BY SkipListAssumption
<1>2. TypeOK
  BY <1>1 DEF Init, TypeOK, Levels
<1>3. Linked({})
  <2>1. Head \in Nodes /\ \A i \in Levels : On({}, i) = {}
    BY DEF Nodes, On
  <2>. QED
    BY <2>1 DEF Init, Linked, IsNext
<1>4. Counted({})
  BY FS_EmptySet DEF Init, Counted
<1>5. ListOf({}) /\ at = Nil /\ ret = Nil
  BY <1>2, <1>3, <1>4 DEF ListOf, Init
<1>6. Entry = [s \in Score |-> Nil]
  BY <1>1, <1>5, EntryOf DEF MapOf
<1>. QED
  BY <1>1, <1>5, <1>6 DEF IndInv, Map!OmInit

LEMMA CallStep ==
  ASSUME NEW N \in SUBSET Score, ListOf(N), Call
  PROVE  IndInv' /\ Map!OmCall
<1>1. at = Nil /\ UNCHANGED at
  BY DEF Call
<1>2. ASSUME NEW s \in Score, NEW m \in Member, Insert(s, m)
      PROVE  IndInv' /\ Map!OmCall
  <2>1. ListOf(N \cup {s})' /\ Map!OmInsert(s, m)
    BY <1>2, InsertStep
  <2>. QED
    BY <1>1, <2>1 DEF IndInv, Map!OmCall
<1>3. ASSUME NEW s \in Score, NEW m \in Member, Update(s, m)
      PROVE  IndInv' /\ Map!OmCall
  <2>1. ListOf(N \cup {s})' /\ Map!OmUpdate(s, m)
    BY <1>3, UpdateStep
  <2>. QED
    BY <1>1, <2>1 DEF IndInv, Map!OmCall
<1>4. ASSUME NEW s \in Score, Delete(s)
      PROVE  IndInv' /\ Map!OmCall
  <2>1. ListOf(N \ {s})' /\ Map!OmDelete(s)
    BY <1>4, DeleteStep
  <2>. QED
    BY <1>1, <2>1 DEF IndInv, Map!OmCall
<1>5. ASSUME NEW s \in Score, Equal(s)
      PROVE  IndInv' /\ Map!OmCall
  <2>1. ListOf(N)' /\ Map!OmEqual(s)
    BY <1>5, EqualStep
  <2>. QED
    BY <1>1, <2>1 DEF IndInv, Map!OmCall
<1>6. CASE First
  <2>1. ListOf(N)' /\ Map!OmFirst
    BY <1>6, FirstStep
  <2>. QED
    BY <1>1, <2>1 DEF IndInv, Map!OmCall
<1>. QED
  BY <1>2, <1>3, <1>4, <1>5, <1>6 DEF Call

LEMMA WalkStartStep ==
  ASSUME NEW N \in SUBSET Score, ListOf(N), WalkStart
  PROVE  IndInv' /\ Map!OmWalk
<1>1. PICK s \in Mids : Greate(s)
  BY DEF WalkStart
<1>2. at = Nil /\ at' = ret'
  BY DEF WalkStart
<1>3. ListOf(N)' /\ ret' \in N \cup {Nil} /\ Map!OmGreate(s)
  BY <1>1, GreateStep
<1>. QED
  BY <1>2, <1>3 DEF IndInv, Map!OmWalk

LEMMA WalkNextStep ==
  ASSUME NEW N \in SUBSET Score, ListOf(N), at \in N \cup {Nil}, WalkNext
  PROVE  IndInv' /\ Map!OmWalk
<1>1. at \in N /\ at # Nil
  BY DEF WalkNext
<1>2. /\ forward[at][0] \in (N \ {at}) \cup {Nil}
      /\ Map!Least({t \in Map!Present : t > at}) = forward[at][0]
  BY <1>1, NextStep, EntryOf
<1>3. at' = forward'[at][0]
  BY DEF WalkNext
<1>4. CASE Delete(at)
  <2>1. PICK s \in Score : s = at /\ Delete(s)
    BY <1>1, <1>4 DEF Delete
  <2>2. /\ ListOf(N \ {s})' /\ Map!OmDelete(s)
        /\ forward'[s] = forward[s]
    BY <2>1, DeleteStep
  <2>3. at' = forward[at][0] /\ at' \in (N \ {s}) \cup {Nil}
    BY <1>2, <1>3, <2>1, <2>2
  <2>4. Map!OmDelete(at)
    BY <2>1, <2>2 DEF Map!OmDelete
  <2>5. IndInv'
    BY <2>2, <2>3 DEF IndInv
  <2>. QED
    BY <1>1, <1>2, <2>3, <2>4, <2>5 DEF Map!OmWalk
<1>5. CASE UNCHANGED <<listVars, ret>>
  <2>1. ListOf(N)' /\ UNCHANGED Entry /\ UNCHANGED <<forward, ret>>
    BY <1>5, SameList DEF listVars
  <2>. QED
    BY <1>1, <1>2, <1>3, <2>1 DEF IndInv, Map!OmWalk
<1>. QED
  BY <1>4, <1>5 DEF WalkNext

LEMMA WalkBreakStep ==
  ASSUME NEW N \in SUBSET Score, ListOf(N), at \in N \cup {Nil}, WalkBreak
  PROVE  IndInv' /\ Map!OmWalk
<1>1. at # Nil /\ at' = Nil /\ ret' = WriteErr /\ UNCHANGED listVars
  BY DEF WalkBreak
<1>2. ListOf(N)' /\ UNCHANGED Entry
  BY <1>1, SameList
<1>. QED
  BY <1>1, <1>2 DEF IndInv, Map!OmWalk

LEMMA NextHolds == IndInv /\ [Next]_vars => IndInv' /\ MapStep
<1>. SUFFICES ASSUME IndInv, [Next]_vars
              PROVE  IndInv' /\ MapStep
  OBVIOUS
<1>1. PICK N \in SUBSET Score : ListOf(N) /\ at \in N \cup {Nil}
  BY DEF IndInv
<1>2. CASE Call
  BY <1>1, <1>2, CallStep DEF MapStep
<1>3. CASE WalkStart
  BY <1>1, <1>3, WalkStartStep DEF MapStep
<1>4. CASE WalkNext
  BY <1>1, <1>4, WalkNextStep DEF MapStep
<1>5. CASE UNCHANGED vars
  <2>1. UNCHANGED listVars /\ UNCHANGED <<at, ret>>
    BY <1>5 DEF vars, listVars
  <2>2. ListOf(N)' /\ UNCHANGED Entry
    BY <1>1, <2>1, SameList
  <2>. QED
    BY <1>1, <2>1, <2>2 DEF IndInv, MapStep, Map!omVars
<1>6. CASE WalkBreak
  BY <1>1, <1>6, WalkBreakStep DEF MapStep
<1>. QED
  BY <1>2, <1>3, <1>4, <1>5, <1>6 DEF Next

\* In every state some set of nodes is linked in increasing order on the
\* levels each was made for, and a walk stands on one of them: what every
\* method of the list expects to find.
THEOREM SkipListInvariance == Spec => []IndInv
BY InitHolds, NextHolds, PTL DEF Spec

\* Whatever was inserted and deleted, level i links the nodes made for it
\* in order, so no search reads past a node's forward slice.
THEOREM LevelsStayConsistent == Spec => []LevelsConsistent
<1>1. IndInv => LevelsConsistent
  <2>. SUFFICES ASSUME NEW N \in SUBSET Score, ListOf(N), NEW i \in Levels
                PROVE  /\ Chain(i) = {n \in Chain(0) : level[n] >= i}
                       /\ \A n \in Chain(i) : forward[n][i] # Nil => n < forward[n][i]
    BY DEF IndInv, LevelsConsistent
  <2>1. Chain(i) = On(N, i) /\ Chain(0) = N
    BY LevelsFacts, ChainFinds, AllOnBottom DEF ListOf
  <2>2. ASSUME NEW n \in On(N, i), forward[n][i] # Nil
        PROVE  n < forward[n][i]
    <3>1. IsNext(On(N, i), n, forward[n][i])
      BY DEF ListOf, Linked
    <3>2. n # Head
      BY SkipListAssumption DEF On
    <3>. QED
      BY <2>2, <3>1, <3>2 DEF IsNext, Behind
  <2>. QED
    BY <2>1, <2>2 DEF On
<1>. QED
  BY <1>1, SkipListInvariance, PTL

\* Length is the number of nodes and Level the highest level in use, after
\* every mix of insertions and deletions.
THEOREM CountersStayExact == Spec => []CountersExact
<1>1. IndInv => CountersExact
  <2>. SUFFICES ASSUME NEW N \in SUBSET Score, ListOf(N)
                PROVE  CountersExact
    BY DEF IndInv
  <2>1. \A i \in Levels : Chain(i) = On(N, i)
    BY ChainFinds DEF ListOf
  <2>2. Chain(0) = N /\ Level \in Levels
    BY <2>1, LevelsFacts, AllOnBottom DEF ListOf, TypeOK
  <2>3. ASSUME NEW i \in Level + 1 .. MaxLevel
        PROVE  Chain(i) = {}
    <3>1. i \in Levels /\ i \in Int /\ i > Level /\ Level \in Int
      BY LevelsFacts DEF ListOf, Levels
    <3>2. ASSUME NEW n \in N, level[n] >= i
          PROVE  FALSE
      <4>1. level[n] <= Level /\ level[n] \in Int
        BY DEF ListOf, Counted, TypeOK, Levels
      <4>. QED
        BY <3>1, <3>2, <4>1
    <3>. QED
      BY <2>1, <3>1, <3>2 DEF On
  <2>. QED
    BY <2>1, <2>2, <2>3 DEF CountersExact, ListOf, Counted
<1>. QED
  BY <1>1, SkipListInvariance, PTL

\* Every method returns what the ordered map returns, and a walk that
\* deletes the node it stands on still visits the rest in order.
THEOREM SkipListIsAMap == Spec => ImplementsMap
<1>1. Init => Map!OmInit
  BY InitHolds
<1>2. IndInv /\ [Next]_vars => [Map!OmCall \/ Map!OmWalk]_(Map!omVars)
  BY NextHolds DEF MapStep
<1>. QED
  BY <1>1, <1>2, SkipListInvariance, PTL DEF Spec, ImplementsMap, Map!OmSpec
=============================================================================
