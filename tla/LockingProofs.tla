--------------------------- MODULE LockingProofs ---------------------------
(***************************************************************************)
(* Proofs about the mutexes of the push service.  The inductive invariant  *)
(* relates each mutex to the goroutine inside the call that took it, both  *)
(* ways: a held mutex has such a goroutine, and a goroutine at such a      *)
(* place holds it.                                                         *)
(***************************************************************************)
EXTENDS Locking, TLAPS

\* The places at which a goroutine has the object it works with.
Working == {"closing", "auth", "hello", "send", "sending", "add", "loop", "beat",
            "remove", "push", "pushing", "token"}

ObjectsHeld ==
  /\ \A o \in Chan : mutex[o] # Nil => Writing(mutex[o]) /\ ref[mutex[o]] = o
  /\ \A g \in Goroutine : Writing(g) => mutex[ref[g]] = g

BucketsHeld ==
  /\ \A b \in Bucket : lock[b] # Nil => pc[lock[b]] = "closing" /\ BucketOf(lock[b]) = b
  /\ \A g \in Goroutine : pc[g] = "closing" => lock[BucketOf(g)] = g

HandlesOK == \A g \in Goroutine : pc[g] \in Working => ref[g] \in Chan

IndInv == TypeOK /\ HandlesOK /\ ObjectsHeld /\ BucketsHeld

-----------------------------------------------------------------------------
LEMMA Roles == Conn \subseteq Goroutine /\ Pub \subseteq Goroutine /\ Admin \subseteq Goroutine
  BY DEF Goroutine

LEMMA BucketType == \A g \in Goroutine : BucketOf(g) \in Bucket
  BY LockingAssumption DEF BucketOf

(***************************************************************************)
(* The steps at which g takes or gives back no mutex: it moves from one    *)
(* place outside the calls taken apart to another.                         *)
(***************************************************************************)
Outside == PCState \ {"closing", "sending", "pushing"}

Moves(g) ==
  /\ g \in Goroutine
  /\ pc[g] \in Outside
  /\ \E s \in Outside : pc' = [pc EXCEPT ![g] = s]
  /\ \A h \in Goroutine \ {g} : ref'[h] = ref[h]
  /\ UNCHANGED lockVars

\* g keeps the mutexes' invariant, whatever else it does meanwhile.
LEMMA MovesHeld ==
  TypeOK /\ ObjectsHeld /\ BucketsHeld /\ (\E g \in Goroutine : Moves(g))
    => ObjectsHeld' /\ BucketsHeld'
<1>. SUFFICES ASSUME TypeOK, ObjectsHeld, BucketsHeld, NEW g \in Goroutine, Moves(g)
              PROVE  ObjectsHeld' /\ BucketsHeld'
  OBVIOUS
<1>0. PICK s \in Outside : pc' = [pc EXCEPT ![g] = s]
  BY DEF Moves
<1>1. /\ mutex' = mutex /\ lock' = lock
      /\ pc[g] \in Outside /\ pc'[g] \in Outside
      /\ \A h \in Goroutine : h # g => pc'[h] = pc[h] /\ ref'[h] = ref[h]
  BY <1>0 DEF Moves, lockVars, TypeOK
<1>2. \A h \in Goroutine : pc[h] \notin Outside => pc'[h] = pc[h] /\ ref'[h] = ref[h]
  BY <1>1
<1>3. \A h \in Goroutine : pc'[h] \notin Outside => pc'[h] = pc[h] /\ ref'[h] = ref[h]
  BY <1>1
<1>4. ObjectsHeld'
  <2>1. ASSUME NEW o \in Chan, mutex'[o] # Nil
        PROVE  pc'[mutex'[o]] \in {"sending", "pushing"} /\ ref'[mutex'[o]] = o
    <3>1. mutex[o] \in Goroutine /\ pc[mutex[o]] \in {"sending", "pushing"} /\ ref[mutex[o]] = o
      BY <1>1, <2>1 DEF ObjectsHeld, TypeOK, Writing
    <3>. QED
      BY <1>1, <1>2, <3>1 DEF Outside
  <2>2. ASSUME NEW h \in Goroutine, pc'[h] \in {"sending", "pushing"}
        PROVE  mutex'[ref'[h]] = h
    <3>1. pc'[h] = pc[h] /\ ref'[h] = ref[h]
      BY <1>3, <2>2 DEF Outside
    <3>. QED
      BY <1>1, <2>2, <3>1 DEF ObjectsHeld, Writing
  <2>. QED
    BY <2>1, <2>2 DEF ObjectsHeld, Writing
<1>5. BucketsHeld'
  <2>1. ASSUME NEW b \in Bucket, lock'[b] # Nil
        PROVE  pc'[lock'[b]] = "closing" /\ BucketOf(lock'[b]) = b
    <3>1. lock[b] \in Goroutine /\ pc[lock[b]] = "closing" /\ BucketOf(lock[b]) = b
      BY <1>1, <2>1 DEF BucketsHeld, TypeOK
    <3>. QED
      BY <1>1, <1>2, <3>1 DEF Outside
  <2>2. ASSUME NEW h \in Goroutine, pc'[h] = "closing"
        PROVE  lock'[BucketOf(h)] = h
    <3>1. pc[h] = "closing"
      BY <1>3, <2>2 DEF Outside
    <3>. QED
      BY <1>1, <3>1 DEF BucketsHeld
  <2>. QED
    BY <2>1, <2>2 DEF BucketsHeld, BucketOf
<1>. QED
  BY <1>4, <1>5

(***************************************************************************)
(* A call that writes to clients takes the mutex of its object and gives   *)
(* it back; nobody else is inside such a call on the same object.          *)
(***************************************************************************)
Takes(g) ==
  /\ pc[g] \in Outside /\ ref[g] \in Chan /\ mutex[ref[g]] = Nil
  /\ \E s \in {"sending", "pushing"} : pc' = [pc EXCEPT ![g] = s]
  /\ mutex' = [mutex EXCEPT ![ref[g]] = g]
  /\ UNCHANGED <<lock, ref>>

Gives(g) ==
  /\ Writing(g) /\ ref[g] \in Chan
  /\ \E s \in Outside : pc' = [pc EXCEPT ![g] = s]
  /\ mutex' = [mutex EXCEPT ![ref[g]] = Nil]
  /\ UNCHANGED <<lock, ref>>

LEMMA MutexHeld ==
  ASSUME TypeOK, HandlesOK, ObjectsHeld, BucketsHeld, NEW g \in Goroutine,
         Takes(g) \/ Gives(g)
  PROVE  ObjectsHeld' /\ BucketsHeld'
<1>1. /\ ref' = ref /\ lock' = lock /\ ref[g] \in Chan
      /\ pc[g] # "closing" /\ pc'[g] # "closing"
      /\ \A h \in Goroutine : h # g => pc'[h] = pc[h]
  BY DEF Takes, Gives, TypeOK, Outside, Writing
<1>2. BucketsHeld'
  <2>1. ASSUME NEW b \in Bucket, lock'[b] # Nil
        PROVE  pc'[lock'[b]] = "closing" /\ BucketOf(lock'[b]) = b
    <3>1. lock[b] \in Goroutine /\ pc[lock[b]] = "closing" /\ BucketOf(lock[b]) = b
      BY <1>1, <2>1 DEF BucketsHeld, TypeOK
    <3>. QED
      BY <1>1, <3>1
  <2>2. ASSUME NEW h \in Goroutine, pc'[h] = "closing"
        PROVE  lock'[BucketOf(h)] = h
    BY <1>1, <2>2 DEF BucketsHeld
  <2>. QED
    BY <2>1, <2>2 DEF BucketsHeld, BucketOf
<1>3. ObjectsHeld'
  <2>1. \A o \in Chan : o # ref[g] => mutex'[o] = mutex[o]
    BY DEF Takes, Gives, TypeOK
  <2>2. ASSUME NEW o \in Chan, mutex'[o] # Nil
        PROVE  pc'[mutex'[o]] \in {"sending", "pushing"} /\ ref'[mutex'[o]] = o
    <3>1. CASE o = ref[g]
      BY <1>1, <2>2, <3>1 DEF Takes, Gives, TypeOK
    <3>2. CASE o # ref[g]
      <4>1. /\ mutex'[o] = mutex[o] /\ mutex[o] \in Goroutine
            /\ pc[mutex[o]] \in {"sending", "pushing"} /\ ref[mutex[o]] = o
        BY <2>1, <2>2, <3>2 DEF ObjectsHeld, TypeOK, Writing
      <4>. QED
        BY <1>1, <3>2, <4>1
    <3>. QED
      BY <3>1, <3>2
  <2>3. ASSUME NEW h \in Goroutine, pc'[h] \in {"sending", "pushing"}
        PROVE  mutex'[ref'[h]] = h
    <3>1. CASE h = g
      BY <1>1, <2>3, <3>1 DEF Takes, Gives, TypeOK, Outside
    <3>2. CASE h # g
      <4>1. mutex[ref[h]] = h
        BY <1>1, <2>3, <3>2 DEF ObjectsHeld, Writing
      <4>2. mutex[ref[g]] = Nil \/ mutex[ref[g]] = g
        BY DEF Takes, Gives, ObjectsHeld
      <4>3. ref[h] # ref[g]
        BY <3>2, <4>1, <4>2, LockingAssumption
      <4>4. mutex' = [mutex EXCEPT ![ref[g]] = g] \/ mutex' = [mutex EXCEPT ![ref[g]] = Nil]
        BY DEF Takes, Gives
      <4>5. ref[h] \in Chan
        BY <1>1, <2>3, <3>2 DEF HandlesOK, Working
      <4>6. mutex'[ref[h]] = mutex[ref[h]]
        BY <4>3, <4>4, <4>5 DEF TypeOK
      <4>. QED
        BY <1>1, <4>1, <4>6
    <3>. QED
      BY <3>1, <3>2
  <2>. QED
    BY <2>2, <2>3 DEF ObjectsHeld, Writing
<1>. QED
  BY <1>2, <1>3

-----------------------------------------------------------------------------
(***************************************************************************)
(* What each action does to the places and the mutexes.                    *)
(***************************************************************************)

\* The actions that leave the mutexes alone.
Free(g) ==
  \/ GetFound(g) \/ New(g) \/ Request(g) \/ AddToken(g)
  \/ g \in Conn /\ \/ Accept(g) \/ AuthToken(g) \/ Hello(g) \/ AddConn(g) \/ LoopBeat(g)
                     \/ BeatReturn(g) \/ LoopExit(g) \/ RemoveConn(g) \/ CloseConn(g)

LEMMA FreeMoves == \A g \in Goroutine : TypeOK /\ Free(g) => Moves(g)
<1>. SUFFICES ASSUME NEW g \in Goroutine, TypeOK, Free(g)
              PROVE  Moves(g)
  OBVIOUS
<1>1. CASE GetFound(g)
  BY <1>1 DEF GetFound, Goto, Moves, OnMissing, OnFound, TypeOK, Outside, PCState, lockVars
<1>2. CASE New(g)
  BY <1>2 DEF New, Goto, Moves, TypeOK, Outside, PCState, lockVars
<1>3. CASE Request(g)
  BY <1>3 DEF Request, Goto, Moves, TypeOK, Outside, PCState, lockVars
<1>4. CASE AddToken(g)
  BY <1>4 DEF AddToken, Goto, Moves, TypeOK, Outside, PCState, lockVars
<1>5. CASE Accept(g) \/ AuthToken(g)
  BY <1>5 DEF Accept, AuthToken, Goto, Moves, TypeOK, Outside, PCState, lockVars
<1>6. CASE Hello(g) \/ BeatReturn(g)
  BY <1>6 DEF Hello, BeatReturn, Goto, Moves, TypeOK, Outside, PCState, lockVars
<1>7. CASE AddConn(g)
  BY <1>7 DEF AddConn, Goto, Moves, TypeOK, Outside, PCState, lockVars
<1>8. CASE LoopBeat(g) \/ LoopExit(g)
  BY <1>8 DEF LoopBeat, LoopExit, Goto, Moves, TypeOK, Outside, PCState, lockVars
<1>9. CASE RemoveConn(g) \/ CloseConn(g)
  BY <1>9 DEF RemoveConn, CloseConn, Goto, Moves, TypeOK, Outside, PCState, lockVars
<1>. QED
  BY <1>1, <1>2, <1>3, <1>4, <1>5, <1>6, <1>7, <1>8, <1>9 DEF Free

\* The actions that take or give back an object's mutex.
Locks(g) ==
  \/ g \in Conn /\ (SendMsg(g) \/ SendReturn(g))
  \/ g \in Pub /\ (PushMsg(g) \/ PushReturn(g))

LEMMA LocksMutex ==
  \A g \in Goroutine : TypeOK /\ HandlesOK /\ Locks(g) => Takes(g) \/ Gives(g)
<1>. SUFFICES ASSUME NEW g \in Goroutine, TypeOK, HandlesOK, Locks(g)
              PROVE  Takes(g) \/ Gives(g)
  OBVIOUS
<1>1. pc[g] \in {"send", "sending", "push", "pushing"} /\ ref[g] \in Chan
  BY DEF Locks, SendMsg, SendReturn, PushMsg, PushReturn, HandlesOK, Working
<1>2. CASE SendMsg(g) \/ PushMsg(g)
  BY <1>1, <1>2 DEF SendMsg, PushMsg, Goto, Takes, Outside, PCState
<1>3. CASE SendReturn(g) \/ PushReturn(g)
  BY <1>1, <1>3 DEF SendReturn, PushReturn, Goto, Gives, Outside, PCState, Writing
<1>. QED
  BY <1>2, <1>3 DEF Locks

\* The actions that concern neither places nor mutexes.
Still == UNCHANGED <<pc, ref, lock, mutex>>

LEMMA StillHeld ==
  HandlesOK /\ ObjectsHeld /\ BucketsHeld /\ Still
    => HandlesOK' /\ ObjectsHeld' /\ BucketsHeld'
  BY DEF Still, HandlesOK, ObjectsHeld, BucketsHeld, Writing, BucketOf

(***************************************************************************)
(* The parts of Next, sorted by what they do to the mutexes.               *)
(***************************************************************************)
LEMMA NextKinds ==
  [Next]_vars =>
    \/ Still
    \/ \E g \in Goroutine : Free(g) \/ Locks(g) \/ GetExpired(g) \/ GetClose(g)
<1>. SUFFICES ASSUME [Next]_vars
              PROVE  \/ Still
                     \/ \E g \in Goroutine :
                          Free(g) \/ Locks(g) \/ GetExpired(g) \/ GetClose(g)
  OBVIOUS
<1>1. CASE UNCHANGED vars \/ Terminated
  BY <1>1 DEF vars, lockVars, Terminated, Still
<1>2. ASSUME NEW c \in Conn, Accept(c) \/ SubStep(c) \/ LoopBeat(c) \/ LoopExit(c)
                              \/ Stall(c) \/ Leave(c) \/ Recover(c)
      PROVE  Still \/ Free(c) \/ Locks(c) \/ GetExpired(c) \/ GetClose(c)
  BY <1>2 DEF SubStep, Call, Write, Stall, Leave, Recover, Peer, Free, Locks, Still, lockVars
<1>3. ASSUME NEW p \in Pub, Request(p) \/ PubStep(p)
      PROVE  Still \/ Free(p) \/ Locks(p) \/ GetExpired(p) \/ GetClose(p)
  BY <1>3 DEF PubStep, Call, Write, Free, Locks, Still, lockVars
<1>4. ASSUME NEW a \in Admin, Request(a) \/ AdmStep(a)
      PROVE  Free(a) \/ GetExpired(a) \/ GetClose(a)
  BY <1>4 DEF AdmStep, Call, Free
<1>. QED
  BY <1>1, <1>2, <1>3, <1>4, Roles DEF Next

(***************************************************************************)
(* Get of an expired channel holds the bucket until the object is closed.  *)
(***************************************************************************)
LEMMA BucketStep ==
  ASSUME TypeOK, ObjectsHeld, BucketsHeld, NEW g \in Goroutine,
         GetExpired(g) \/ GetClose(g)
  PROVE  ObjectsHeld' /\ BucketsHeld'
<1>0. BucketOf(g) \in Bucket
  BY BucketType
<1>1. /\ mutex' = mutex
      /\ \A h \in Goroutine : h # g => pc'[h] = pc[h] /\ ref'[h] = ref[h]
      /\ pc[g] \notin {"sending", "pushing"} /\ pc'[g] \notin {"sending", "pushing"}
      /\ \A b \in Bucket : b # BucketOf(g) => lock'[b] = lock[b]
  BY DEF GetExpired, GetClose, Goto, OnMissing, TypeOK
<1>2. ObjectsHeld'
  <2>1. ASSUME NEW o \in Chan, mutex'[o] # Nil
        PROVE  pc'[mutex'[o]] \in {"sending", "pushing"} /\ ref'[mutex'[o]] = o
    <3>1. /\ mutex[o] \in Goroutine /\ pc[mutex[o]] \in {"sending", "pushing"}
          /\ ref[mutex[o]] = o
      BY <1>1, <2>1 DEF ObjectsHeld, TypeOK, Writing
    <3>. QED
      BY <1>1, <3>1
  <2>2. ASSUME NEW h \in Goroutine, pc'[h] \in {"sending", "pushing"}
        PROVE  mutex'[ref'[h]] = h
    BY <1>1, <2>2 DEF ObjectsHeld, Writing
  <2>. QED
    BY <2>1, <2>2 DEF ObjectsHeld, Writing
<1>3. \A h \in Goroutine : h # g /\ pc[h] = "closing" => BucketOf(h) # BucketOf(g)
  <2>1. lock[BucketOf(g)] = Nil \/ lock[BucketOf(g)] = g
    BY DEF GetExpired, GetClose, BucketsHeld
  <2>. QED
    BY <2>1, LockingAssumption DEF BucketsHeld
<1>4. BucketsHeld'
  <2>1. ASSUME NEW b \in Bucket, lock'[b] # Nil
        PROVE  pc'[lock'[b]] = "closing" /\ BucketOf(lock'[b]) = b
    <3>1. CASE b = BucketOf(g)
      BY <1>0, <2>1, <3>1 DEF GetExpired, GetClose, Goto, TypeOK
    <3>2. CASE b # BucketOf(g)
      <4>1. /\ lock'[b] = lock[b] /\ lock[b] \in Goroutine /\ pc[lock[b]] = "closing"
            /\ BucketOf(lock[b]) = b
        BY <1>1, <2>1, <3>2 DEF BucketsHeld, TypeOK
      <4>. QED
        BY <1>1, <3>2, <4>1
    <3>. QED
      BY <3>1, <3>2
  <2>2. ASSUME NEW h \in Goroutine, pc'[h] = "closing"
        PROVE  lock'[BucketOf(h)] = h
    <3>1. CASE h = g
      <4>1. GetExpired(g)
        BY <2>2, <3>1 DEF GetClose, Goto, OnMissing, TypeOK
      <4>. QED
        BY <1>0, <3>1, <4>1 DEF GetExpired, TypeOK
    <3>2. CASE h # g
      BY <1>1, <1>3, <2>2, <3>2, BucketType DEF BucketsHeld
    <3>. QED
      BY <3>1, <3>2
  <2>. QED
    BY <2>1, <2>2 DEF BucketsHeld, BucketOf
<1>. QED
  BY <1>2, <1>4

-----------------------------------------------------------------------------
\* g has an object wherever it needs one, and no other goroutine changes its.
LEMMA HandlesStep == TypeOK /\ HandlesOK /\ [Next]_vars => HandlesOK'
<1>. SUFFICES ASSUME TypeOK, HandlesOK, [Next]_vars
              PROVE  HandlesOK'
  OBVIOUS
<1>1. CASE Still
  BY <1>1 DEF Still, HandlesOK
<1>2. ASSUME NEW g \in Goroutine,
             Free(g) \/ Locks(g) \/ GetExpired(g) \/ GetClose(g)
      PROVE  HandlesOK'
  <2>1. SUFFICES /\ \A h \in Goroutine : h # g => pc'[h] = pc[h] /\ ref'[h] = ref[h]
                 /\ pc'[g] \in Working => ref'[g] \in Chan
    BY DEF HandlesOK
  <2>0. data[key[g]] \in Chan \cup {Nil}
    BY LockingAssumption DEF TypeOK
  <2>21. CASE GetFound(g)
    BY <2>0, <2>21 DEF GetFound, Goto, OnMissing, TypeOK, Working
  <2>22. CASE GetExpired(g)
    BY <2>0, <2>22 DEF GetExpired, Goto, TypeOK
  <2>23. CASE GetClose(g)
    BY <2>23 DEF GetClose, Goto, OnMissing, TypeOK, HandlesOK, Working
  <2>24. CASE New(g)
    BY <2>24 DEF New, Goto, TypeOK
  <2>25. CASE Request(g)
    BY <2>25 DEF Request, Goto, TypeOK, Working
  <2>3. CASE AddToken(g)
    BY <2>3 DEF AddToken, Goto, TypeOK, Working
  <2>4. CASE Locks(g)
    BY <2>4 DEF Locks, SendMsg, SendReturn, PushMsg, PushReturn, Goto, TypeOK, HandlesOK,
                Working
  <2>5. CASE Accept(g) \/ AuthToken(g) \/ Hello(g) \/ AddConn(g) \/ LoopBeat(g)
    BY <2>5 DEF Accept, AuthToken, Hello, AddConn, LoopBeat, Goto, TypeOK, HandlesOK, Working
  <2>6. CASE BeatReturn(g) \/ LoopExit(g) \/ RemoveConn(g) \/ CloseConn(g)
    BY <2>6 DEF BeatReturn, LoopExit, RemoveConn, CloseConn, Goto, TypeOK, HandlesOK, Working
  <2>. QED
    BY <1>2, <2>21, <2>22, <2>23, <2>24, <2>25, <2>3, <2>4, <2>5, <2>6 DEF Free
<1>. QED
  BY <1>1, <1>2, NextKinds

LEMMA TypeStep == TypeOK /\ HandlesOK /\ [Next]_vars => TypeOK'
<1>. SUFFICES ASSUME TypeOK, HandlesOK, [Next]_vars
              PROVE  TypeOK'
  OBVIOUS
<1>. USE DEF Goto, PCState
<1>1. ASSUME NEW g \in Goroutine, Call(g) \/ Request(g)
      PROVE  TypeOK'
  <2>0. key[g] \in Key /\ BucketOf(g) \in Bucket /\ data[key[g]] \in Chan \cup {Nil}
    BY BucketType, LockingAssumption DEF TypeOK
  <2>1. CASE GetFound(g)
    BY <2>0, <2>1 DEF GetFound, OnMissing, OnFound, TypeOK, lockVars, listVars, peerVars
  <2>2. CASE GetExpired(g)
    BY <2>0, <2>2 DEF GetExpired, TypeOK, peerVars
  <2>3. CASE GetClose(g)
    <3>1. ref[g] \in Chan
      BY <2>3 DEF GetClose, HandlesOK, Working
    <3>. QED
      BY <2>0, <2>3, <3>1 DEF GetClose, OnMissing, TypeOK, listVars
  <2>4. CASE New(g)
    BY <2>0, <2>4 DEF New, TypeOK, lockVars, listVars, peerVars
  <2>5. CASE Request(g)
    BY <2>5 DEF Request, TypeOK, lockVars, listVars, peerVars
  <2>. QED
    BY <1>1, <2>1, <2>2, <2>3, <2>4, <2>5 DEF Call
<1>2. ASSUME NEW g \in Goroutine, Write(g)
      PROVE  TypeOK'
  BY <1>2 DEF Write, TypeOK, lockVars, listVars, peerVars
<1>3. ASSUME NEW g \in Goroutine, ref[g] \in Chan,
             PushMsg(g) \/ PushReturn(g) \/ AddToken(g)
      PROVE  TypeOK'
  BY <1>3 DEF PushMsg, PushReturn, AddToken, TypeOK, lockVars, listVars, peerVars
<1>4. ASSUME NEW c \in Conn, Accept(c) \/ Stall(c) \/ Leave(c) \/ Recover(c)
      PROVE  TypeOK'
  BY <1>4, Roles DEF Accept, Stall, Leave, Recover, Peer, ClientState, TypeOK, lockVars,
                     listVars, peerVars
<1>5. ASSUME NEW c \in Conn, AuthToken(c) \/ Hello(c) \/ LoopBeat(c) \/ BeatReturn(c)
                              \/ LoopExit(c) \/ CloseConn(c)
      PROVE  TypeOK'
  BY <1>5, Roles DEF AuthToken, Hello, LoopBeat, BeatReturn, LoopExit, CloseConn, TypeOK,
                     lockVars, listVars, peerVars
<1>6. ASSUME NEW c \in Conn, ref[c] \in Chan,
             SendMsg(c) \/ SendReturn(c) \/ AddConn(c) \/ RemoveConn(c)
      PROVE  TypeOK'
  BY <1>6, Roles DEF SendMsg, SendReturn, AddConn, RemoveConn, TypeOK, lockVars, listVars,
                     peerVars
<1>7. CASE UNCHANGED vars \/ Terminated
  BY <1>7 DEF Terminated, vars, lockVars, listVars, peerVars, TypeOK
<1>8. \A g \in Goroutine :
        PushMsg(g) \/ PushReturn(g) \/ AddToken(g) \/ SendMsg(g) \/ SendReturn(g)
          \/ AddConn(g) \/ RemoveConn(g) => ref[g] \in Chan
  BY DEF PushMsg, PushReturn, AddToken, SendMsg, SendReturn, AddConn, RemoveConn,
         HandlesOK, Working
<1>. QED
  BY <1>1, <1>2, <1>3, <1>4, <1>5, <1>6, <1>7, <1>8, Roles
     DEF Next, SubStep, PubStep, AdmStep

-----------------------------------------------------------------------------
(***************************************************************************)
(* The mutexes and the goroutines inside the calls that take them agree in *)
(* every reachable state.                                                  *)
(***************************************************************************)
THEOREM LockingInvariance == Spec => []IndInv
<1>1. Init => IndInv
  <2>. SUFFICES ASSUME Init
                PROVE  IndInv
    OBVIOUS
  <2>1. TypeOK
    BY DEF Init, TypeOK, PCState, ClientState
  <2>2. HandlesOK
    BY DEF Init, HandlesOK, Working
  <2>3. ObjectsHeld /\ BucketsHeld
    BY DEF Init, ObjectsHeld, BucketsHeld, Writing
  <2>. QED
    BY <2>1, <2>2, <2>3 DEF IndInv
<1>2. IndInv /\ [Next]_vars => IndInv'
  <2>. SUFFICES ASSUME IndInv, [Next]_vars
                PROVE  IndInv'
    OBVIOUS
  <2>0. TypeOK /\ HandlesOK /\ ObjectsHeld /\ BucketsHeld
    BY DEF IndInv
  <2>1. TypeOK' /\ HandlesOK'
    BY <2>0, TypeStep, HandlesStep
  <2>2. ObjectsHeld' /\ BucketsHeld'
    <3>1. CASE Still
      BY <2>0, <3>1, StillHeld
    <3>2. ASSUME NEW g \in Goroutine, Free(g)
          PROVE  ObjectsHeld' /\ BucketsHeld'
      BY <2>0, <3>2, FreeMoves, MovesHeld
    <3>3. ASSUME NEW g \in Goroutine, Locks(g)
          PROVE  ObjectsHeld' /\ BucketsHeld'
      BY <2>0, <3>3, LocksMutex, MutexHeld
    <3>4. ASSUME NEW g \in Goroutine, GetExpired(g) \/ GetClose(g)
          PROVE  ObjectsHeld' /\ BucketsHeld'
      BY <2>0, <3>4, BucketStep
    <3>. QED
      BY <3>1, <3>2, <3>3, <3>4, NextKinds
  <2>. QED
    BY <2>1, <2>2 DEF IndInv
<1>. QED
  BY <1>1, <1>2, PTL DEF Spec

(***************************************************************************)
(* No circular wait among any number of goroutines, keys and objects: who  *)
(* holds an object's mutex waits for no mutex, and who holds a bucket's    *)
(* waits for one object at most.                                           *)
(***************************************************************************)
THEOREM NoDeadlock == Spec => []WaitsEndAtAClient
<1>1. IndInv => WaitsEndAtAClient
  <2>. SUFFICES ASSUME IndInv, NEW g \in Goroutine, WaitsFor(g) # Nil
                PROVE  \/ Writing(WaitsFor(g))
                       \/ /\ pc[WaitsFor(g)] = "closing"
                          /\ WaitsFor(WaitsFor(g)) = Nil \/ Writing(WaitsFor(WaitsFor(g)))
    BY DEF WaitsEndAtAClient
  <2>0. TypeOK /\ HandlesOK /\ ObjectsHeld /\ BucketsHeld
    BY DEF IndInv
  <2>1. ASSUME NEW h \in Goroutine, WaitsFor(h) # Nil,
               pc[h] \in {"closing", "auth", "send", "add", "remove", "push", "token"}
        PROVE  Writing(WaitsFor(h))
    <3>1. ref[h] \in Chan
      BY <2>0, <2>1 DEF HandlesOK, Working
    <3>2. WaitsFor(h) = mutex[ref[h]]
      BY <2>1 DEF WaitsFor
    <3>. QED
      BY <2>0, <2>1, <3>1, <3>2 DEF ObjectsHeld
  <2>2. CASE pc[g] \in {"get", "new"}
    <3>1. WaitsFor(g) = lock[BucketOf(g)] /\ BucketOf(g) \in Bucket
      BY <2>2, BucketType DEF WaitsFor
    <3>2. WaitsFor(g) \in Goroutine /\ pc[WaitsFor(g)] = "closing"
      BY <2>0, <3>1 DEF BucketsHeld, TypeOK
    <3>. QED
      BY <2>1, <3>2
  <2>3. CASE pc[g] \in {"closing", "auth", "send", "add", "remove", "push", "token"}
    BY <2>1, <2>3
  <2>. QED
    BY <2>2, <2>3 DEF WaitsFor
<1>. QED
  BY <1>1, LockingInvariance, PTL

(***************************************************************************)
(* Nothing changes the connections of a channel while a PushMsg ranges     *)
(* over them: AddConn and RemoveConn need the mutex that PushMsg holds.    *)
(***************************************************************************)
THEOREM RangeSafe == Spec => MapHeldStill
<1>1. IndInv /\ [Next]_vars => \A p \in Pub : pc[p] = "pushing" => conn'[ref[p]] = conn[ref[p]]
  <2>. SUFFICES ASSUME IndInv, [Next]_vars, NEW p \in Pub, pc[p] = "pushing"
                PROVE  conn'[ref[p]] = conn[ref[p]]
    OBVIOUS
  <2>0. TypeOK /\ p \in Goroutine /\ ref[p] \in Chan /\ mutex[ref[p]] = p /\ p # Nil
    BY Roles, LockingAssumption DEF IndInv, HandlesOK, ObjectsHeld, Working, Writing
  <2>1. CASE conn' = conn
    BY <2>1
  <2>2. ASSUME NEW c \in Conn, AddConn(c) \/ RemoveConn(c)
        PROVE  conn'[ref[p]] = conn[ref[p]]
    <3>1. ref[c] # ref[p]
      BY <2>0, <2>2 DEF AddConn, RemoveConn
    <3>. QED
      BY <2>0, <2>2, <3>1 DEF AddConn, RemoveConn, TypeOK
  <2>3. conn' = conn \/ \E c \in Conn : AddConn(c) \/ RemoveConn(c)
    <3>1. CASE UNCHANGED vars \/ Terminated
      BY <3>1 DEF vars, Terminated
    <3>2. ASSUME NEW c \in Conn, Accept(c) \/ SubStep(c) \/ LoopBeat(c) \/ LoopExit(c)
                                  \/ Stall(c) \/ Leave(c) \/ Recover(c)
          PROVE  conn' = conn \/ AddConn(c) \/ RemoveConn(c)
      BY <3>2 DEF SubStep, Call, GetFound, GetExpired, GetClose, New, Accept, AuthToken,
                  Hello, SendMsg, Write, SendReturn, BeatReturn, CloseConn, LoopBeat,
                  LoopExit, Stall, Leave, Recover, Peer
    <3>3. ASSUME NEW q \in Pub, Request(q) \/ PubStep(q)
          PROVE  conn' = conn
      BY <3>3 DEF Request, PubStep, Call, GetFound, GetExpired, GetClose, New, PushMsg,
                  Write, PushReturn
    <3>4. ASSUME NEW a \in Admin, Request(a) \/ AdmStep(a)
          PROVE  conn' = conn
      BY <3>4 DEF Request, AdmStep, Call, GetFound, GetExpired, GetClose, New, AddToken
    <3>. QED
      BY <3>1, <3>2, <3>3, <3>4 DEF Next
  <2>. QED
    BY <2>1, <2>2, <2>3
<1>. QED
  BY <1>1, LockingInvariance, PTL DEF Spec, MapHeldStill
=============================================================================
