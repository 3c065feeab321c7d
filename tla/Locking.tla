------------------------------ MODULE Locking ------------------------------
(***************************************************************************)
(* The mutexes of the push service: one per bucket of the channel list     *)
(* (channel.go) and one per channel object (inner_channel.go), under the   *)
(* websocket protocol: under TCP the inner channel's Bytes(nil) fails      *)
(* before anything is written.  The redis channel is not modelled here: it *)
(* writes to clients under its object's mutex too, under both protocols,   *)
(* but SendMsg also holds that mutex during its redis calls, and its token *)
(* methods take none.                                                      *)
(*                                                                         *)
(* PushService takes a call as one step.  Here a call that waits for       *)
(* something while it holds a mutex is taken apart: Get closes an expired  *)
(* channel, and so waits for the object's mutex, under the bucket's;       *)
(* SendMsg and PushMsg write to clients under the object's, and a write    *)
(* returns only once the client reads, is gone, or the connection is       *)
(* closed by this side (no write deadline is ever set).  The calls that    *)
(* wait for nothing else are one step that needs the mutex to be free.     *)
(*                                                                         *)
(* Time, ids, tokens and capacities are left out: where one decides, both  *)
(* outcomes are possible.                                                  *)
(***************************************************************************)
EXTENDS FiniteSets

CONSTANTS
  Conn, Pub, Admin,  \* the goroutines: subscribers, publications, /ch
  Key, Chan, Bucket,
  bucket,            \* bucket[k]: the bucket of the channel list k falls into
  key,               \* key[g]: the key of g's request
  Stuck,             \* the connections whose clients may stall for ever
  Nil                \* no object, no goroutine

Goroutine == Conn \cup Pub \cup Admin

ASSUME LockingAssumption ==
  /\ bucket \in [Key -> Bucket]
  /\ key \in [Goroutine -> Key]
  /\ Stuck \subseteq Conn
  /\ Nil \notin Chan
  /\ Nil \notin Goroutine
  /\ Conn \cap Pub = {} /\ Conn \cap Admin = {} /\ Pub \cap Admin = {}

VARIABLES
  auth,         \* Conf.Auth = 1
  lock, mutex,  \* the goroutine that holds the mutex of a bucket, an object
  data, made,   \* the channel list; the objects made
  conn,         \* conn[o]: the connections registered in o
  pc, ref,      \* where g is, and the object it works with
  todo,         \* todo[g]: the connections g's call still writes to
  client,       \* what the peer of a connection does
  closed        \* the connections this side has closed

lockVars == <<lock, mutex>>
listVars == <<data, made>>
peerVars == <<client, closed>>
vars == <<auth, lockVars, listVars, conn, pc, ref, todo, peerVars>>

\* "stalled": neither reads nor sends, and its host keeps the connection up.
ClientState == {"none", "reading", "stalled", "gone"}

PCState == {"init", "get", "closing", "new", "auth", "hello", "send", "sending",
            "add", "loop", "beat", "remove", "push", "pushing", "token",
            "close", "done"}

BucketOf(g) == bucket[key[g]]

\* A write to c returns, with or without an error.
Returns(c) == client[c] # "stalled" \/ c \in closed

\* It may return an error.
MayFail(c) == client[c] # "reading" \/ c \in closed

Goto(g, S) == \E s \in S : pc' = [pc EXCEPT ![g] = s]

-----------------------------------------------------------------------------
(***************************************************************************)
(* channel.Get(key) and channel.New(key), with what their callers do with  *)
(* the result.                                                             *)
(***************************************************************************)
OnMissing(g) == IF g \in Pub THEN "done" ELSE IF auth THEN "close" ELSE "new"

OnFound(g) == IF g \in Pub THEN "push" ELSE IF auth THEN "auth" ELSE "hello"

\* There is no channel, or one before its deadline.
GetFound(g) ==
  /\ pc[g] = "get" /\ lock[BucketOf(g)] = Nil
  /\ LET o == data[key[g]]
     IN  /\ ref' = [ref EXCEPT ![g] = o]
         /\ Goto(g, {IF o = Nil THEN OnMissing(g) ELSE OnFound(g)})
  /\ UNCHANGED <<auth, lockVars, listVars, conn, todo, peerVars>>

\* The channel has expired: off the list with it, and on to Close().
GetExpired(g) ==
  /\ pc[g] = "get" /\ lock[BucketOf(g)] = Nil
  /\ data[key[g]] # Nil
  /\ lock' = [lock EXCEPT ![BucketOf(g)] = g]
  /\ ref' = [ref EXCEPT ![g] = data[key[g]]]
  /\ data' = [data EXCEPT ![key[g]] = Nil]
  /\ Goto(g, {"closing"})
  /\ UNCHANGED <<auth, mutex, made, conn, todo, peerVars>>

\* Faulty: the early return leaves the bucket locked.
GetCloseKeeps(g) ==
  /\ pc[g] = "closing" /\ mutex[ref[g]] = Nil
  /\ closed' = closed \cup conn[ref[g]]
  /\ Goto(g, {OnMissing(g)})
  /\ UNCHANGED <<auth, lockVars, listVars, conn, ref, todo, client>>

\* Close() of the object, and the end of Get.
GetClose(g) ==
  /\ pc[g] = "closing" /\ mutex[ref[g]] = Nil
  /\ closed' = closed \cup conn[ref[g]]
  /\ lock' = [lock EXCEPT ![BucketOf(g)] = Nil]
  /\ Goto(g, {OnMissing(g)})
  /\ UNCHANGED <<auth, mutex, listVars, conn, ref, todo, client>>

New(g) ==
  /\ pc[g] = "new" /\ lock[BucketOf(g)] = Nil
  /\ \E o \in Chan :
       /\ \/ o = data[key[g]] /\ UNCHANGED listVars
          \/ /\ data[key[g]] = Nil /\ o \notin made
             /\ data' = [data EXCEPT ![key[g]] = o]
             /\ made' = made \cup {o}
       /\ ref' = [ref EXCEPT ![g] = o]
  /\ Goto(g, {IF g \in Admin THEN "token" ELSE "hello"})
  /\ UNCHANGED <<auth, lockVars, conn, todo, peerVars>>

-----------------------------------------------------------------------------
(***************************************************************************)
(* The goroutine of a connection.                                          *)
(***************************************************************************)
Accept(c) ==
  /\ pc[c] = "init"
  /\ client' = [client EXCEPT ![c] = "reading"]
  /\ Goto(c, {"get"})
  /\ UNCHANGED <<auth, lockVars, listVars, conn, ref, todo, closed>>

AuthToken(c) ==
  /\ pc[c] = "auth" /\ mutex[ref[c]] = Nil
  /\ Goto(c, {"hello", "close"})
  /\ UNCHANGED <<auth, lockVars, listVars, conn, ref, todo, peerVars>>

\* The first heartbeat, outside every mutex.
Hello(c) ==
  /\ pc[c] = "hello" /\ Returns(c)
  /\ Goto(c, {"send"} \cup (IF MayFail(c) THEN {"close"} ELSE {}))
  /\ UNCHANGED <<auth, lockVars, listVars, conn, ref, todo, peerVars>>

\* SendMsg: the messages of the store, if any, go to the one connection.
SendMsg(c) ==
  /\ pc[c] = "send" /\ mutex[ref[c]] = Nil
  /\ mutex' = [mutex EXCEPT ![ref[c]] = c]
  /\ \E W \in {{}, {c}} : todo' = [todo EXCEPT ![c] = W]
  /\ Goto(c, {"sending"})
  /\ UNCHANGED <<auth, lock, listVars, conn, ref, peerVars>>

\* Faulty: a failing SendMsg is called again.
SendReturnRetries(c) ==
  /\ pc[c] = "sending" /\ todo[c] = {}
  /\ mutex' = [mutex EXCEPT ![ref[c]] = Nil]
  /\ Goto(c, {"add", "send"})
  /\ UNCHANGED <<auth, lock, listVars, conn, ref, todo, peerVars>>

SendReturn(c) ==
  /\ pc[c] = "sending" /\ todo[c] = {}
  /\ mutex' = [mutex EXCEPT ![ref[c]] = Nil]
  /\ Goto(c, {"add", "close"})
  /\ UNCHANGED <<auth, lock, listVars, conn, ref, todo, peerVars>>

AddConn(c) ==
  /\ pc[c] = "add" /\ mutex[ref[c]] = Nil
  /\ \/ conn' = [conn EXCEPT ![ref[c]] = @ \cup {c}] /\ Goto(c, {"loop"})
     \/ UNCHANGED conn /\ Goto(c, {"close"})
  /\ UNCHANGED <<auth, lockVars, listVars, ref, todo, peerVars>>

\* The client has sent a heartbeat, which is answered outside every mutex.
LoopBeat(c) ==
  /\ pc[c] = "loop" /\ client[c] = "reading" /\ c \notin closed
  /\ Goto(c, {"beat"})
  /\ UNCHANGED <<auth, lockVars, listVars, conn, ref, todo, peerVars>>

BeatReturn(c) ==
  /\ pc[c] = "beat" /\ Returns(c)
  /\ Goto(c, {"loop"} \cup (IF MayFail(c) THEN {"remove"} ELSE {}))
  /\ UNCHANGED <<auth, lockVars, listVars, conn, ref, todo, peerVars>>

\* The read fails or times out, or is no heartbeat.
LoopExit(c) ==
  /\ pc[c] = "loop"
  /\ Goto(c, {"remove"})
  /\ UNCHANGED <<auth, lockVars, listVars, conn, ref, todo, peerVars>>

\* Faulty: the mutex is not taken.
RemoveConnUnlocked(c) ==
  /\ pc[c] = "remove"
  /\ conn' = [conn EXCEPT ![ref[c]] = @ \ {c}]
  /\ Goto(c, {"close"})
  /\ UNCHANGED <<auth, lockVars, listVars, ref, todo, peerVars>>

RemoveConn(c) ==
  /\ pc[c] = "remove" /\ mutex[ref[c]] = Nil
  /\ conn' = [conn EXCEPT ![ref[c]] = @ \ {c}]
  /\ Goto(c, {"close"})
  /\ UNCHANGED <<auth, lockVars, listVars, ref, todo, peerVars>>

\* The handler has returned, and the websocket library closes the connection.
CloseConn(c) ==
  /\ pc[c] = "close"
  /\ closed' = closed \cup {c}
  /\ Goto(c, {"done"})
  /\ UNCHANGED <<auth, lockVars, listVars, conn, ref, todo, client>>

-----------------------------------------------------------------------------
(***************************************************************************)
(* The goroutines of a publication and of a /ch request.                   *)
(***************************************************************************)
Request(g) ==
  /\ pc[g] = "init"
  /\ g \in Admin => auth
  /\ Goto(g, {IF g \in Pub THEN "get" ELSE "new"})
  /\ UNCHANGED <<auth, lockVars, listVars, conn, ref, todo, peerVars>>

\* PushMsg: refused, or on to every connection of the map.
PushMsg(p) ==
  /\ pc[p] = "push" /\ mutex[ref[p]] = Nil
  /\ mutex' = [mutex EXCEPT ![ref[p]] = p]
  /\ \E W \in {{}, conn[ref[p]]} : todo' = [todo EXCEPT ![p] = W]
  /\ Goto(p, {"pushing"})
  /\ UNCHANGED <<auth, lock, listVars, conn, ref, peerVars>>

PushReturn(p) ==
  /\ pc[p] = "pushing" /\ todo[p] = {}
  /\ mutex' = [mutex EXCEPT ![ref[p]] = Nil]
  /\ Goto(p, {"done"})
  /\ UNCHANGED <<auth, lock, listVars, conn, ref, todo, peerVars>>

AddToken(a) ==
  /\ pc[a] = "token" /\ mutex[ref[a]] = Nil
  /\ Goto(a, {"done"})
  /\ UNCHANGED <<auth, lockVars, listVars, conn, ref, todo, peerVars>>

\* A write of SendMsg or PushMsg returns.
Write(g) ==
  /\ \E c \in todo[g] : Returns(c) /\ todo' = [todo EXCEPT ![g] = @ \ {c}]
  /\ UNCHANGED <<auth, lockVars, listVars, conn, pc, ref, peerVars>>

-----------------------------------------------------------------------------
\* The peer of an open connection.
Peer(c, S) ==
  /\ c \notin closed
  /\ \E s \in S : client' = [client EXCEPT ![c] = s]
  /\ UNCHANGED <<auth, lockVars, listVars, conn, pc, ref, todo, closed>>

Stall(c) == client[c] = "reading" /\ Peer(c, {"stalled"})

Leave(c) == client[c] = "reading" /\ Peer(c, {"gone"})

Recover(c) == client[c] = "stalled" /\ Peer(c, {"reading", "gone"})

\* Every request has been served.
Terminated ==
  /\ \A g \in Goroutine : pc[g] = "done" \/ (g \in Admin /\ ~auth)
  /\ UNCHANGED vars

Init ==
  /\ auth \in BOOLEAN
  /\ lock = [b \in Bucket |-> Nil]
  /\ mutex = [o \in Chan |-> Nil]
  /\ data = [k \in Key |-> Nil]
  /\ made = {}
  /\ conn = [o \in Chan |-> {}]
  /\ pc = [g \in Goroutine |-> "init"]
  /\ ref = [g \in Goroutine |-> Nil]
  /\ todo = [g \in Goroutine |-> {}]
  /\ client = [c \in Conn |-> "none"]
  /\ closed = {}

\* The steps that a goroutine takes by itself.
Call(g) == GetFound(g) \/ GetExpired(g) \/ GetClose(g) \/ New(g)

SubStep(c) ==
  \/ Call(c) \/ AuthToken(c) \/ Hello(c) \/ SendMsg(c) \/ Write(c) \/ SendReturn(c)
  \/ AddConn(c) \/ BeatReturn(c) \/ RemoveConn(c) \/ CloseConn(c)

PubStep(p) == Call(p) \/ PushMsg(p) \/ Write(p) \/ PushReturn(p)

AdmStep(a) == Call(a) \/ AddToken(a)

Next ==
  \/ \E c \in Conn : Accept(c) \/ SubStep(c) \/ LoopBeat(c) \/ LoopExit(c)
                  \/ Stall(c) \/ Leave(c) \/ Recover(c)
  \/ \E p \in Pub : Request(p) \/ PubStep(p)
  \/ \E a \in Admin : Request(a) \/ AdmStep(a)
  \/ Terminated

Spec == Init /\ [][Next]_vars

(***************************************************************************)
(* Goroutines are scheduled fairly and a mutex is handed on.  The read of  *)
(* the heartbeat loop has a deadline: it ends unless the client sends.     *)
(* All clients but the stuck ones recover, or the network gives them up,   *)
(* and what is written to them is taken in the end (strong fairness, as    *)
(* they may stall again).                                                  *)
(***************************************************************************)
Fairness ==
  /\ \A c \in Conn : WF_vars(SubStep(c))
  /\ \A c \in Conn : WF_vars(MayFail(c) /\ LoopExit(c))
  /\ \A p \in Pub : WF_vars(PubStep(p))
  /\ \A a \in Admin : WF_vars(AdmStep(a))
  /\ \A c \in Conn \ Stuck : WF_vars(Recover(c))
  /\ \A c \in Conn : SF_vars(Hello(c) \/ BeatReturn(c))
  /\ \A g \in Conn \cup Pub : SF_vars(Write(g))

FairSpec == Spec /\ Fairness

-----------------------------------------------------------------------------
(***************************************************************************)
(* Every variable holds a value of its type: the mutexes of channel.go and *)
(* inner_channel.go, the list, and the goroutines that use them.           *)
(***************************************************************************)
TypeOK ==
  /\ auth \in BOOLEAN
  /\ lock \in [Bucket -> Goroutine \cup {Nil}]
  /\ mutex \in [Chan -> Goroutine \cup {Nil}]
  /\ data \in [Key -> Chan \cup {Nil}]
  /\ made \in SUBSET Chan
  /\ conn \in [Chan -> SUBSET Conn]
  /\ pc \in [Goroutine -> PCState]
  /\ ref \in [Goroutine -> Chan \cup {Nil}]
  /\ todo \in [Goroutine -> SUBSET Conn]
  /\ client \in [Conn -> ClientState]
  /\ closed \in SUBSET Conn

\* The goroutine that g waits for, if any.
WaitsFor(g) ==
  CASE pc[g] \in {"get", "new"} -> lock[BucketOf(g)]
    [] pc[g] \in {"closing", "auth", "send", "add", "remove", "push", "token"} ->
         mutex[ref[g]]
    [] OTHER -> Nil

\* g is inside SendMsg or PushMsg, where only a client can hold it up.
Writing(g) == pc[g] \in {"sending", "pushing"}

(***************************************************************************)
(* No goroutines wait for each other in a circle: a bucket is taken before *)
(* an object and never the other way round, so a chain of waits has two    *)
(* links at most and ends at a goroutine that writes to a client.          *)
(***************************************************************************)
WaitsEndAtAClient ==
  \A g \in Goroutine :
    LET h == WaitsFor(g)
    IN  \/ h = Nil \/ Writing(h)
        \/ pc[h] = "closing" /\ (WaitsFor(h) = Nil \/ Writing(WaitsFor(h)))

(***************************************************************************)
(* The map of connections does not change while a PushMsg ranges over it:  *)
(* Go ends a program that writes to a map another goroutine ranges over.   *)
(***************************************************************************)
MapHeldStill ==
  [][\A p \in Pub : pc[p] = "pushing" => conn'[ref[p]] = conn[ref[p]]]_vars

\* g has work to do that is not waiting for its client's next heartbeat.
InCall(g) == pc[g] \notin {"init", "loop", "done"}

(***************************************************************************)
(* A client that stops reading holds up its own bucket at most: every call *)
(* of a goroutine whose bucket has no stuck client returns, although       *)
(* SendMsg and PushMsg write under a mutex and Get waits under another.    *)
(***************************************************************************)
StallIsLocal ==
  \A g \in Goroutine :
    ((\A c \in Stuck : BucketOf(c) # BucketOf(g)) /\ InCall(g)) ~> ~InCall(g)

(***************************************************************************)
(* pubsub_http.go:174, "remove exists conn": a subscriber in the heartbeat *)
(* loop whose client falls silent is found by the read deadline            *)
(* (pubsub_http.go:146) and removed from its channel.                      *)
(***************************************************************************)
SilentRemoved ==
  \A c \in Conn :
    (pc[c] = "loop" /\ client[c] = "stalled") ~>
      (client[c] # "stalled" \/ \A o \in Chan : c \notin conn[o])
=============================================================================
