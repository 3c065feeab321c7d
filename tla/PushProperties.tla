--------------------------- MODULE PushProperties ---------------------------
(***************************************************************************)
(* What the push service with the in-memory channel promises, and what the *)
(* repository's comments say of it.                                        *)
(***************************************************************************)
EXTENDS PushService

\* The size a configured limit allows; limits below zero allow nothing.
Limit(n) == IF n > 0 THEN n ELSE 0

(***************************************************************************)
(* Every variable holds a value of its type: the object references of the  *)
(* handlers of pubsub.go, pubsub_tcp.go and pubsub_http.go, the maps of    *)
(* channel.go and inner_channel.go, and the arguments once read.           *)
(***************************************************************************)
TypeOK ==
  /\ now \in Nat
  /\ InnerTypeOK
  /\ ListTypeOK
  /\ subPC \in [Conn -> SubState]
  /\ subRef \in [Conn -> Chan \cup {Nil}]
  /\ subArg \in [Conn -> SubArg \cup {Nil}]
  /\ subErr \in [Conn -> Error]
  /\ pubPC \in [Pub -> {"init", "push", "done"}]
  /\ pubRef \in [Pub -> Chan \cup {Nil}]
  /\ pubArg \in [Pub -> PubArg \cup {Nil}]
  /\ pubRet \in [Pub -> RetCode \cup {"none", "panic"}]
  /\ admPC \in [Admin -> {"init", "token", "done"}]
  /\ admRef \in [Admin -> Chan \cup {Nil}]
  /\ admArg \in [Admin -> AdmArg \cup {Nil}]
  /\ admRet \in [Admin -> Seq(RetCode)]
  /\ gap \in [Conn -> SUBSET Pub]
  /\ authed \in SUBSET Conn

-----------------------------------------------------------------------------
(***************************************************************************)
(* A connection is registered in a channel exactly while its handler is    *)
(* between AddConn and RemoveConn, and only in the channel the handler     *)
(* holds: whatever way a subscription ends (inner_channel.go AddConn,      *)
(* RemoveConn, Close and the return paths of SubscribeTCPHandle), no dead  *)
(* connection stays behind in a map and no live one is lost from it.       *)
(***************************************************************************)
RegisteredExactly ==
  \A c \in Conn, o \in Chan :
    c \in conn[o] <=> (subPC[c] \in {"loop", "remove"} /\ subRef[c] = o)

(***************************************************************************)
(* No publication is written twice to the same connection, although the    *)
(* stored messages (SendMsg) and the pushed ones (PushMsg) reach it on two *)
(* ways that share no cursor.                                              *)
(***************************************************************************)
NoDuplicate == \A c \in Conn, p \in Pub : sent[c][p] <= 1

(***************************************************************************)
(* A registered subscriber with a working connection has been written      *)
(* every message above its mid that its channel stores, except those       *)
(* pushed between its SendMsg and its AddConn.  This holds outside TCP     *)
(* only: under TCP the inner channel stores a message and then fails to    *)
(* convert it (inner_channel.go:92-105), so that nobody is written it.     *)
(***************************************************************************)
CaughtUp ==
  \A c \in Conn :
    subPC[c] = "loop" /\ sock[c] = "open" =>
      \A m \in message[subRef[c]] :
        m.MsgID > subArg[c].mid => sent[c][m.Msg] > 0 \/ m.Msg \in gap[c]

(***************************************************************************)
(* A channel object leaves the list (channel.go Get) only once its         *)
(* deadline has passed, and nothing gives it a later deadline afterwards:  *)
(* of two handlers that find no channel and both call New, the second gets *)
(* the first one's object.                                                 *)
(***************************************************************************)
DroppedOnlyAfterDeadline == \A o \in made : ~Listed(o) => Timeout(o)

(***************************************************************************)
(* A channel never stores more than MaxStoredMessage messages, and never   *)
(* two with the same id (inner_channel.go PushMsg).                        *)
(***************************************************************************)
StoreBounded ==
  \A o \in Chan :
    /\ Cardinality(message[o]) <= Limit(MaxStoredMessage)
    /\ \A m, n \in message[o] : m.MsgID = n.MsgID => m = n

(***************************************************************************)
(* A channel never has more than MaxSubscriberPerKey connections           *)
(* (inner_channel.go AddConn), however many subscribers pass the earlier   *)
(* steps at the same time.                                                 *)
(***************************************************************************)
SubscribersBounded ==
  \A o \in Chan : Cardinality(conn[o]) <= Limit(MaxSubscriberPerKey)

(***************************************************************************)
(* "token only used once": at most as many connections pass AuthToken with *)
(* a token of a key as /ch requests had it accepted by AddToken.           *)
(***************************************************************************)
TokenUsedOnce ==
  \A k \in Key, t \in Token :
    Cardinality({c \in authed : subArg[c].key = k /\ subArg[c].token = t})
      <= Cardinality({a \in Admin : /\ admRet[a] = <<"retOK">>
                                    /\ admArg[a] = [key |-> k, token |-> t]})

\* A publisher's PushMsg on o returns in this step.
PushReturns(o) ==
  \E p \in Pub : pubPC[p] = "push" /\ pubRef[p] = o /\ pubPC'[p] = "done"

(***************************************************************************)
(* A stored message goes away only when it has expired, or when it is the  *)
(* oldest one of a full store and a publisher needs its place              *)
(* (inner_channel.go SendMsg and PushMsg): subscribers consume nothing.    *)
(***************************************************************************)
OnlyExpiredOrOldestLeave ==
  [][\A o \in Chan : \A m \in message[o] \ message'[o] :
       Expired(m) \/ (Full(o) /\ IsFirst(message[o], m) /\ PushReturns(o))]_vars

(***************************************************************************)
(* A subscriber registered in a channel when Get drops the channel is      *)
(* disconnected: Close closes its connection, the heartbeat loop fails,    *)
(* and the handler ends.                                                   *)
(***************************************************************************)
DroppedSubscribersEnd ==
  \A c \in Conn, o \in Chan :
    [](c \in conn[o] /\ Listed(o) =>
         [](~Listed(o) => <>(subPC[c] = "done" /\ c \notin conn[o])))

(***************************************************************************)
(* Every subscription request ends up in the heartbeat loop or closed, and *)
(* a connection whose peer is gone ends up closed: no handler is left      *)
(* behind holding a socket.                                                *)
(***************************************************************************)
SubscriptionSettles ==
  \A c \in Conn :
    /\ (subPC[c] \notin {"init", "request"}) ~> (subPC[c] \in {"loop", "done"})
    /\ (sock[c] = "reset") ~> (sock[c] = "closed" /\ subPC[c] = "done")

-----------------------------------------------------------------------------
\* How far a handler has taken its connection, in the words of the contract.
Phase ==
  [c \in Conn |->
     CASE subPC[c] = "add" -> "caught"
       [] subPC[c] \in {"loop", "remove"} -> "in"
       [] subPC[c] \in {"close", "done"} -> "out"
       [] OTHER -> "new"]

\* How PushMsg was answered for each publication.
Answer ==
  [p \in Pub |-> CASE pubPC[p] # "done" -> "none"
                   [] pubPC[p] = "done" /\ pubRet[p] = "retOK" -> "ok"
                   [] pubPC[p] = "done" /\ pubRet[p] # "retOK" -> "refused"]

\* The id each connection asked for, and the one each publication carries.
AskedID == [c \in Conn |-> IF subArg[c] \in SubArg THEN subArg[c].mid ELSE 0]
CarriedID == [p \in Pub |-> IF pubArg[p] \in PubArg THEN pubArg[p].msg.MsgID ELSE 0]

Contract == INSTANCE ChannelContract WITH
  phase <- Phase, answer <- Answer, mid <- AskedID, id <- CarriedID

(***************************************************************************)
(* The handlers of pubsub.go with the in-memory channel keep the contract  *)
(* of the Channel interface (channel.go): whatever calls interleave, a     *)
(* connection comes into one channel once, is written each publication at  *)
(* most once, and misses none of those accepted while it is registered.    *)
(***************************************************************************)
KeepsContract == Contract!ChSpec

-----------------------------------------------------------------------------
(***************************************************************************)
(* Statements of the repository that the code does not keep.               *)
(***************************************************************************)

(***************************************************************************)
(* channel.go:30, "SendMsg send messages which id greate than the request  *)
(* id to the subscriber", and channel.go:28, "PushMsg push a message to    *)
(* the subscriber": between the two, a connected subscriber misses no      *)
(* stored message above its mid.                                           *)
(***************************************************************************)
NothingMissed ==
  \A c \in Conn :
    subPC[c] = "loop" /\ sock[c] = "open" =>
      \A m \in message[subRef[c]] : m.MsgID > subArg[c].mid => sent[c][m.Msg] > 0

(***************************************************************************)
(* channel.go:48, Close will "expire the channle and clean data": no       *)
(* subscriber stays connected to a channel that is off the list.           *)
(***************************************************************************)
NoOrphanSubscriber ==
  \A c \in Conn : subPC[c] = "loop" /\ sock[c] = "open" => Listed(subRef[c])

=============================================================================
