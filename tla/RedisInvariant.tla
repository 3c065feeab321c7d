--------------------------- MODULE RedisInvariant ---------------------------
(***************************************************************************)
(* The inductive invariant of the push service with the redis channel.     *)
(***************************************************************************)
EXTENDS RedisProperties

\* Before SendMsg, from SendMsg to the deletion from the map, after SendMsg.
Early == {"init", "request", "new", "auth", "hello", "buf", "send"}
Mapped == {"add", "drop", "loop", "remove"}
Served == Mapped \cup {"decr", "panic", "dead"}

\* A handler about to call a method holds an object that was made, and its
\* arguments; an object that was not made has no connection.
HandlesOK ==
  /\ data # Nil => data \in made
  /\ \A o \in Chan \ made : conn[o] = {}
  /\ \A c \in Conn :
       /\ subPC[c] \in {"auth", "hello", "buf", "send"} \cup Served => subRef[c] \in made
       /\ subPC[c] \in {"new", "auth", "hello", "buf", "send"} \cup Served => subArg[c] \in SubArg
       /\ subPC[c] \in Served => getRedisConn
       /\ subPC[c] = "dead" => sock[c] = "closed"
  /\ \A p \in Pub : pubPC[p] \in {"buf", "push"} => pubRef[p] \in made /\ pubArg[p] # Nil
  /\ \A a \in Admin : admPC[a] = "token" => admArg[a] \in Token

\* A publication has one message, in redis and in the handler.
MessagesOK ==
  /\ \A p \in Pub : pubArg[p] # Nil => pubArg[p] \in MessageType /\ pubArg[p].Msg = p
  /\ \A e \in stored : e.m = pubArg[e.m.Msg]

\* Nothing is written before SendMsg; afterwards the cursor is the greatest
\* id written, or the mid of the request.
CursorOK ==
  \A c \in Conn :
    /\ \A q \in Pub : sent[c][q] > 0 => pubArg[q] # Nil
    /\ subPC[c] \in Early => /\ pushed[c] = {}
                             /\ \A q \in Pub : sent[c][q] = 0
    /\ subPC[c] \in Mapped =>
         /\ \A q \in Pub : sent[c][q] > 0 => pubArg[q].MsgID <= last[c]
         /\ \/ last[c] = subArg[c].mid
            \/ \E q \in Pub : sent[c][q] > 0 /\ last[c] = pubArg[q].MsgID

\* What the cardinalities are about is finite.
CountsOK ==
  /\ IsFiniteSet(Counted)
  /\ OnlineCount
  /\ \A o \in Chan : IsFiniteSet(conn[o])
  /\ SubscribersBounded

PushedOK == \A c \in Conn, p \in Pub : p \in pushed[c] => pubArg[p] # Nil

IndInv ==
  /\ TypeOK
  /\ HandlesOK
  /\ MessagesOK
  /\ RegisteredExactly
  /\ CursorOK
  /\ PushedOK
  /\ CountsOK
  /\ NoWindow

\* The connections that passed AuthToken with t, and the requests whose
\* AddToken may have stored it.
Passed(t) == {c \in authed : subArg[c].token = t}
Accepted(t) == {a \in Admin : admRet[a] \in {OK, RedisErr} /\ admArg[a] = t}

\* Nobody has passed AuthToken before its call or been answered before the
\* call of AddToken; an unused token is backed by one request more.
Unauthed == {"init", "request", "new", "auth"}

TokenInv ==
  /\ \A c \in Conn : subPC[c] \in Unauthed => c \notin authed
  /\ \A a \in Admin : admPC[a] # "done" => admRet[a] = Nil
  /\ \A t \in Token :
       /\ IsFiniteSet(Passed(t))
       /\ IsFiniteSet(Accepted(t))
       /\ Cardinality(Passed(t)) + (IF t \in token THEN 1 ELSE 0)
            <= Cardinality(Accepted(t))
=============================================================================
