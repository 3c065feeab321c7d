------------------------------ MODULE SkipList ------------------------------
(***************************************************************************)
(* The skip list (skiplist/skiplist.go) as the inner channel uses it: one  *)
(* action per method, and the walk of SendMsg, which deletes the node it   *)
(* stands on and goes on from there ("though the node deleted, can access  *)
(* the next node").  The channel's mutex serialises the methods, and keeps *)
(* them out of a walk.                                                     *)
(*                                                                         *)
(* A node is named by its score.  The node a walk has deleted stays        *)
(* readable, with the pointers it had, until the score is inserted again.  *)
(*                                                                         *)
(* Definitions marked "Faulty" are slips one could make in the code; they  *)
(* belong to no specification and show that the properties notice them.    *)
(***************************************************************************)
EXTENDS Integers, FiniteSets

CONSTANTS
  Score,     \* the scores
  Mids,      \* the scores a walk may start behind
  Member,    \* the members
  Nil,       \* the nil pointer, the nil error
  ErrNodeExists,  \* the error of an Insert
  WriteErr,  \* an error of Bytes or Write
  Head,      \* the head node
  MaxLevel   \* the constant MaxLevel of the source

VARIABLES
  member,   \* member[n]: the field Member of node n
  level,    \* level[n]: the field level of node n
  forward,  \* forward[n][i]: the next node on level i
  Level,    \* the field Level of the list
  Length,   \* the field Length of the list
  at,       \* the node a walk stands on, or Nil
  ret       \* the node, or the error, that was last returned

\* Scores are of type int64.
ASSUME SkipListAssumption ==
  /\ Score \subseteq Int /\ IsFiniteSet(Score)
  /\ Mids \subseteq Int
  /\ MaxLevel \in Nat
  /\ Head \notin Score
  /\ Nil \notin Score \cup {Head} \cup Member

vars == <<member, level, forward, Level, Length, at, ret>>
listVars == <<member, level, forward, Level, Length>>

Nodes == Score \cup {Head}

Levels == 0 .. MaxLevel

\* Any level up to MaxLevel.
randomLevel == Levels

\* The inner loop of a search: from p on to the last node of level i whose
\* successor is not among Before.
Advance(i, Before) ==
  LET Last[p \in Nodes] ==
        IF forward[p][i] \in Before THEN Last[forward[p][i]] ELSE p
  IN  Last

\* A search goes on from the node found on the level above; Search(Before)[i]
\* is the node found on level i.
Search(Before) ==
  LET Found[i \in 0 .. Level] ==
        Advance(i, Before)[IF i = Level THEN Head ELSE Found[i + 1]]
  IN  Found

\* Faulty: the search passes over an equal score.
updateLessOrEqual(s) == Search({q \in Score : q <= s})

\* The array update of Insert, Update and Delete.
update(s) == Search({q \in Score : q < s})

\* q when the search for s is over.
Candidate(s) == forward[update(s)[0]][0]

(***************************************************************************)
(* A new node of score s on the levels up to l, behind the nodes update    *)
(* names.  The list grows by one level at most.                            *)
(***************************************************************************)
Link(s, m) ==
  \E r \in randomLevel :
    LET top == IF r > Level THEN Level + 1 ELSE r
        prev(i) == IF i > Level THEN Head ELSE update(s)[i]
    IN  /\ Level' = IF r > Level THEN Level + 1 ELSE Level
        /\ member' = [member EXCEPT ![s] = m]
        /\ level' = [level EXCEPT ![s] = top]
        /\ forward' = [n \in Nodes |-> [i \in Levels |->
             CASE n = s /\ i <= top -> forward[prev(i)][i]
               [] n = s /\ i > top -> Nil
               [] n # s /\ i <= top /\ n = prev(i) -> s
               [] OTHER -> forward[n][i]]]
        /\ Length' = Length + 1

Insert(s, m) ==
  \/ Candidate(s) = s /\ ret' = ErrNodeExists /\ UNCHANGED listVars
  \/ Candidate(s) # s /\ ret' = Nil /\ Link(s, m)

Update(s, m) ==
  /\ ret' = Nil
  /\ \/ /\ Candidate(s) = s
        /\ member' = [member EXCEPT ![s] = m]
        /\ UNCHANGED <<level, forward, Level, Length>>
     \/ Candidate(s) # s /\ Link(s, m)

\* Faulty: the level of the list is not recalculated.
LowerKeeps(fwd) == Level

\* The highest level with a node, or 0.
Lower(fwd) ==
  CHOOSE j \in 0 .. Level :
    /\ fwd[Head][j] # Nil \/ j = 0
    /\ \A i \in j + 1 .. Level : fwd[Head][i] = Nil

\* Faulty: the node stays linked on the upper levels.
UnlinkBottom(s) ==
  [n \in Nodes |-> [i \in Levels |->
     IF i = 0 /\ n = update(s)[i] /\ forward[n][i] = s
       THEN forward[s][i] ELSE forward[n][i]]]

\* forward after node s is unlinked from every level it is on.
Unlink(s) ==
  [n \in Nodes |-> [i \in Levels |->
     IF i <= Level /\ n = update(s)[i] /\ forward[n][i] = s
       THEN forward[s][i] ELSE forward[n][i]]]

Delete(s) ==
  \/ Candidate(s) # s /\ ret' = Nil /\ UNCHANGED listVars
  \/ /\ Candidate(s) = s /\ ret' = s
     /\ forward' = Unlink(s)
     /\ Level' = Lower(forward')
     /\ Length' = Length - 1
     /\ UNCHANGED <<member, level>>

Equal(s) ==
  /\ ret' = IF Candidate(s) = s THEN s ELSE Nil
  /\ UNCHANGED listVars

\* The search of Greate stops behind the last score up to s.
Greate(s) ==
  /\ ret' = forward[Search({q \in Score : q <= s})[0]][0]
  /\ UNCHANGED listVars

\* n.Next()
NextOf(n) == forward[n][0]

First == ret' = NextOf(Head) /\ UNCHANGED listVars

-----------------------------------------------------------------------------
\* func New() *SkipList
Init ==
  /\ member = [n \in Score |-> Nil]
  /\ level = [n \in Score |-> 0]
  /\ forward = [n \in Nodes |-> [i \in Levels |-> Nil]]
  /\ Level = 0
  /\ Length = 0
  /\ at = Nil
  /\ ret = Nil

Call ==
  /\ at = Nil /\ UNCHANGED at
  /\ \/ \E s \in Score, m \in Member : Insert(s, m)
     \/ \E s \in Score, m \in Member : Update(s, m)
     \/ \E s \in Score : Delete(s)
     \/ \E s \in Score : Equal(s)
     \/ First

\* for n := Greate(s)
WalkStart == at = Nil /\ (\E s \in Mids : Greate(s)) /\ at' = ret'

(***************************************************************************)
(* One round of the loop: the message of an expired node is deleted, then  *)
(* n = n.Next() reads the pointer the node still has.                      *)
(***************************************************************************)
WalkNext ==
  /\ at # Nil
  /\ Delete(at) \/ UNCHANGED <<listVars, ret>>
  /\ at' = forward'[at][0]

\* SendMsg returns out of the loop with the error of Bytes or Write.
WalkBreak == at # Nil /\ at' = Nil /\ ret' = WriteErr /\ UNCHANGED listVars

Next == Call \/ WalkStart \/ WalkNext \/ WalkBreak

Spec == Init /\ [][Next]_vars

-----------------------------------------------------------------------------
\* The nodes on level i.
Chain(i) ==
  LET Reach[n \in Nodes] ==
        IF forward[n][i] = Nil THEN {} ELSE {forward[n][i]} \cup Reach[forward[n][i]]
  IN  Reach[Head]

(***************************************************************************)
(* The levels stay consistent whatever was inserted and deleted: level i   *)
(* links, in increasing order, exactly the nodes of the list made for at   *)
(* least i levels; so no search ever indexes past the end of a node's      *)
(* forward slice.                                                          *)
(***************************************************************************)
LevelsConsistent ==
  \A i \in Levels :
    /\ Chain(i) = {n \in Chain(0) : level[n] >= i}
    /\ \A n \in Chain(i) : forward[n][i] # Nil => n < forward[n][i]

(***************************************************************************)
(* Level is the highest level in use and Length the number of nodes, which *)
(* PushMsg compares with MaxMessage, after every mix of insertions and     *)
(* deletions.                                                              *)
(***************************************************************************)
CountersExact ==
  /\ Length = Cardinality(Chain(0))
  /\ Level = 0 \/ Chain(Level) # {}
  /\ \A i \in Level + 1 .. MaxLevel : Chain(i) = {}

(***************************************************************************)
(* The list is an ordered map: every method returns what the map returns,  *)
(* and a walk visits what is above its start in order, also across the     *)
(* deletion of the node it stands on.                                      *)
(***************************************************************************)
Entry == [s \in Score |-> IF s \in Chain(0) THEN member[s] ELSE Nil]

Map == INSTANCE OrderedMap WITH entry <- Entry

ImplementsMap == Map!OmSpec
=============================================================================
