-------------------------- MODULE RedisProperties --------------------------
(***************************************************************************)
(* What the push service with the redis channel promises, and what the     *)
(* repository's comments say of it.                                        *)
(***************************************************************************)
EXTENDS RedisService

(***************************************************************************)
(* Every variable holds a value of its type: the map, the cursors and the  *)
(* buffers of redis_channel.go, redis's data, and the handlers' locals.    *)
(***************************************************************************)
TypeOK ==
  /\ now \in Nat
  /\ auth \in {0, 1}
  /\ RedisTypeOK
  /\ data \in Chan \cup {Nil}
  /\ made \in SUBSET Chan
  /\ subPC \in [Conn -> SubState]
  /\ subRef \in [Conn -> Chan \cup {Nil}]
  /\ subArg \in [Conn -> SubArg \cup {Nil}]
  /\ pubPC \in [Pub -> {"init", "buf", "push", "done"}]
  /\ pubRef \in [Pub -> Chan \cup {Nil}]
  /\ pubArg \in [Pub -> MessageType \cup {Nil}]
  /\ pubRet \in [Pub -> {"none", "retOK", "retGetChannel"}]
  /\ admPC \in [Admin -> {"init", "token", "done"}]
  /\ admRef \in [Admin -> Chan \cup {Nil}]
  /\ admArg \in [Admin -> Token \cup {Nil}]
  /\ admRet \in [Admin -> Error \cup {Nil}]
  /\ owed \in [Conn -> SUBSET Pub]
  /\ pushed \in [Conn -> SUBSET Pub]
  /\ authed \in SUBSET Conn

-----------------------------------------------------------------------------
(***************************************************************************)
(* A connection is written messages in the order of their ids, each one at *)
(* most once, however publications overtake each other and whether they    *)
(* come out of redis (SendMsg) or from a publisher (PushMsg): the two ways *)
(* share the cursor.  A panicked handler's connection is about to close.   *)
(***************************************************************************)
InOrder ==
  [][\A c \in Conn, p, q \in Pub :
       subPC[c] # "panic" /\ sent'[c][p] > sent[c][p] /\ sent[c][q] > 0
         => pubArg[q].MsgID < pubArg[p].MsgID]_vars

\* The connections AddConn has counted and RemoveConn has not discounted.
Counted == {c \in Conn : subPC[c] \in {"loop", "remove", "decr"}}

(***************************************************************************)
(* The online counter in redis is never below the number of connections    *)
(* between AddConn and the end of RemoveConn, whatever calls fail, however *)
(* often the process crashes; without any fault it is that number.         *)
(***************************************************************************)
OnlineCount ==
  /\ online >= Cardinality(Counted)
  /\ faults = 0 => online = Cardinality(Counted)

(***************************************************************************)
(* A connection is in the map of a channel object from SendMsg, which puts *)
(* it there, to RemoveConn or the deletion after a failed AddConn, and in  *)
(* no other object's; the only ones left behind are those of handlers that *)
(* panicked.                                                               *)
(***************************************************************************)
RegisteredExactly ==
  \A c \in Conn, o \in Chan :
    c \in conn[o] <=>
      subPC[c] \in {"add", "drop", "loop", "remove", "panic", "dead"} /\ subRef[c] = o

(***************************************************************************)
(* The map of a channel object never holds more than MaxSubscriberPerKey   *)
(* connections, although the place is taken in SendMsg and given back in   *)
(* three different ways.                                                   *)
(***************************************************************************)
SubscribersBounded ==
  \A o \in Chan :
    Cardinality(conn[o]) <= IF MaxSubscriberPerKey > 0 THEN MaxSubscriberPerKey ELSE 0

(***************************************************************************)
(* No window between SendMsg and AddConn: a publication pushed to the      *)
(* channel since a subscriber's SendMsg returned is written to it, unless  *)
(* it is not newer than the subscriber's mid or a message it already has.  *)
(***************************************************************************)
NoWindow ==
  \A c \in Conn :
    subPC[c] \in {"add", "loop"} /\ sock[c] = "open" =>
      \A p \in pushed[c] :
        \/ pubArg[p].MsgID <= subArg[c].mid
        \/ \E q \in Pub : sent[c][q] > 0 /\ pubArg[p].MsgID <= pubArg[q].MsgID

(***************************************************************************)
(* "token only used once", with the tokens in redis: no more connections   *)
(* pass AuthToken with a token than AddToken calls may have stored it,     *)
(* also when the answer of SADD or SREM is lost.                           *)
(***************************************************************************)
TokenUsedOnce ==
  \A t \in Token :
    Cardinality({c \in authed : subArg[c].token = t})
      <= Cardinality({a \in Admin : admRet[a] \in {OK, RedisErr} /\ admArg[a] = t})

-----------------------------------------------------------------------------
\* How far a handler has taken its connection, in the words of the contract.
Phase ==
  [c \in Conn |->
     CASE subPC[c] \in {"add", "drop", "loop", "remove"} -> "in"
       [] subPC[c] \in {"panic", "dead"} -> "broken"
       [] subPC[c] \in {"decr", "close", "done"} -> "out"
       [] OTHER -> "new"]

\* How PushMsg was answered for each publication.
Answer ==
  [p \in Pub |-> CASE pubPC[p] # "done" -> "none"
                   [] pubPC[p] = "done" /\ pubRet[p] = "retOK" -> "ok"
                   [] pubPC[p] = "done" /\ pubRet[p] # "retOK" -> "refused"]

\* The id each connection asked for, and the one each publication carries.
AskedID == [c \in Conn |-> IF subArg[c] \in SubArg THEN subArg[c].mid ELSE 0]
CarriedID == [p \in Pub |-> IF pubArg[p] \in MessageType THEN pubArg[p].MsgID ELSE 0]

Contract == INSTANCE ChannelContract WITH
  phase <- Phase, answer <- Answer, mid <- AskedID, id <- CarriedID

(***************************************************************************)
(* The handlers with the redis channel keep the contract of the Channel    *)
(* interface (channel.go), the one the in-memory channel keeps: it does    *)
(* not matter that here SendMsg registers the connection, that the store   *)
(* is shared, that commands fail or that the process crashes.              *)
(***************************************************************************)
KeepsContract == Contract!ChSpec

-----------------------------------------------------------------------------
(***************************************************************************)
(* redis_channel.go:136, "get offline message from redis which greate      *)
(* mid", and :126, "the message won't loss till next connect to sub": a    *)
(* subscriber whose SendMsg succeeded has been written what redis held for *)
(* it.                                                                     *)
(***************************************************************************)
StoredDelivered ==
  \A c \in Conn :
    subPC[c] \in {"add", "loop"} => \A p \in owed[c] : sent[c][p] > 0

=============================================================================
