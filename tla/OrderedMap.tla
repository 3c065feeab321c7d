----------------------------- MODULE OrderedMap -----------------------------
(***************************************************************************)
(* What the channel expects of its store of messages: a finite map from    *)
(* scores to members that is read in increasing order of the scores, and   *)
(* that can be walked while the member under the cursor is deleted.        *)
(***************************************************************************)
EXTENDS Integers

CONSTANTS
  Score,   \* the scores (message ids)
  Mids,    \* the scores a walk may start behind
  Member,  \* the members
  Nil,     \* no node, no error
  ErrNodeExists, \* the error of an Insert
  WriteErr       \* the error that breaks a walk off

VARIABLES
  entry,  \* entry[s]: the member with score s, or Nil
  at,     \* the score under the cursor of a walk, or Nil
  ret     \* the score, or the error, that was last returned

omVars == <<entry, at, ret>>

Present == {s \in Score : entry[s] # Nil}

\* The smallest score of S, or Nil.
Least(S) ==
  IF S = {} THEN Nil ELSE CHOOSE s \in S : \A t \in S : s <= t

OmInsert(s, m) ==
  \/ /\ s \in Present /\ ret' = ErrNodeExists
     /\ UNCHANGED entry
  \/ /\ s \notin Present /\ ret' = Nil
     /\ entry' = [entry EXCEPT ![s] = m]

OmUpdate(s, m) == entry' = [entry EXCEPT ![s] = m] /\ ret' = Nil

OmDelete(s) ==
  /\ ret' = IF s \in Present THEN s ELSE Nil
  /\ entry' = [entry EXCEPT ![s] = Nil]

OmEqual(s) == ret' = Least({t \in Present : t = s}) /\ UNCHANGED entry

OmGreate(s) == ret' = Least({t \in Present : t > s}) /\ UNCHANGED entry

OmFirst == ret' = Least(Present) /\ UNCHANGED entry

OmInit == entry = [s \in Score |-> Nil] /\ at = Nil /\ ret = Nil

\* Calls of handlers that do not walk, which the channel's mutex keeps out
\* of a walk.
OmCall ==
  /\ at = Nil /\ UNCHANGED at
  /\ \/ \E s \in Score, m \in Member : OmInsert(s, m) \/ OmUpdate(s, m)
     \/ \E s \in Score : OmDelete(s) \/ OmEqual(s)
     \/ OmFirst

\* A walk visits the scores above its start in order, all of them unless an
\* error breaks it off.
OmWalk ==
  \/ /\ at = Nil
     /\ \E s \in Mids : OmGreate(s)
     /\ at' = ret'
  \/ /\ at # Nil
     /\ OmDelete(at) \/ UNCHANGED <<entry, ret>>
     /\ at' = Least({t \in Present : t > at})
  \/ /\ at # Nil
     /\ at' = Nil /\ ret' = WriteErr /\ UNCHANGED entry

OmSpec == OmInit /\ [][OmCall \/ OmWalk]_omVars
=============================================================================
