---------------------------- MODULE PushService ----------------------------
(***************************************************************************)
(* The push service with the in-memory channel: the goroutines that run    *)
(* the handlers of pubsub.go, pubsub_tcp.go and pubsub_http.go, and the    *)
(* channel list they share.                                                *)
(*                                                                         *)
(*   - one goroutine per client connection c (handleTCPConn and            *)
(*     SubscribeTCPHandle, or SubscribeHandle under websocket);            *)
(*   - one goroutine per publication p (PublishHandle);                    *)
(*   - one goroutine per channel request a (ChannelHandle).                *)
(*                                                                         *)
(* Between two calls into the channel list or a channel object a goroutine *)
(* holds no lock, so every such call is a step of its own and the steps of *)
(* all goroutines interleave.  A goroutine keeps the object it was given   *)
(* in a local variable ("ref"); the list may move on meanwhile.            *)
(***************************************************************************)
EXTENDS ChannelList, Sequences

CONSTANTS
  Admin,      \* the requests to /ch
  Auth,       \* Conf.Auth
  MsgIDs,     \* the message ids a publisher may choose
  Mids,       \* the last message ids a subscriber may present
  ExpireSec,  \* how far behind Get the expiry of line 141 of pubsub.go may lie
  MaxTime     \* bound on the clock

ASSUME ServiceAssumption ==
  /\ Auth \in {0, 1}
  /\ MsgIDs \subseteq Int
  /\ Mids \subseteq Int
  /\ ExpireSec \subseteq Int
  /\ MaxTime \in Nat

VARIABLES
  subPC, subRef, subArg, subErr,  \* the goroutine of each connection
  pubPC, pubRef, pubArg, pubRet,  \* the goroutine of each publication
  admPC, admRef, admArg, admRet,  \* the goroutine of each /ch request
  gap,                            \* history: see PubPush
  authed                          \* history: see SubAuth

subVars == <<subPC, subRef, subArg, subErr>>
pubVars == <<pubPC, pubRef, pubArg, pubRet>>
admVars == <<admPC, admRef, admArg, admRet>>
histVars == <<gap, authed>>
vars == <<now, innerVars, netVars, listVars, subVars, pubVars, admVars, histVars>>

SubArg == [key : Key, mid : Mids, token : Token]
PubArg == [key : Key, msg : MessageType]
AdmArg == [key : Key, token : Token]

BadRequest == "BadRequest"
Error == {OK, MsgExpiredErr, MsgBufErr, MaxConnErr, AuthTokenErr, TokenExistErr,
          ErrNodeExists, WriteErr, Panic, ChannelNotExistErr, ChannelExpiredErr,
          ChannelTypeErr, BadRequest}

\* The result codes of retWrite; "none" while there is no answer.
RetCode == {"retOK", "retGetChannel", "retAddToken", "retCreateChannel",
            "retPushMsg", "retParamErr", "retInternalErr"}

SubState == {"init", "request", "new", "auth", "hello", "send", "add", "loop",
             "remove", "close", "done"}

-----------------------------------------------------------------------------
(***************************************************************************)
(* The goroutine of a connection.                                          *)
(***************************************************************************)

\* It goes on at pc, or returns with err on its way to conn.Close().
SubGoto(c, pc) ==
  /\ subPC' = [subPC EXCEPT ![c] = pc]
  /\ UNCHANGED subErr

SubReturn(c, err) ==
  /\ subPC' = [subPC EXCEPT ![c] = "close"]
  /\ subErr' = [subErr EXCEPT ![c] = err]

(***************************************************************************)
(* The accept loop starts a goroutine for the connection; under TCP it     *)
(* closes the connection when one of its socket options cannot be set.     *)
(***************************************************************************)
Accept(c) ==
  /\ subPC[c] = "init"
  /\ \/ /\ subPC' = [subPC EXCEPT ![c] = "request"]
        /\ sock' = [sock EXCEPT ![c] = "open"]
     \/ /\ Protocol = TCPProtocol
        /\ subPC' = [subPC EXCEPT ![c] = "done"]
        /\ sock' = [sock EXCEPT ![c] = "closed"]
  /\ UNCHANGED <<now, innerVars, sent, listVars, subRef, subArg, subErr,
                 pubVars, admVars, histVars>>

(***************************************************************************)
(* The request is well formed: look the channel up.  Without               *)
(* authentication a missing channel is then created, with authentication   *)
(* the subscriber is turned away.                                          *)
(***************************************************************************)
SubGet(c, arg) ==
  /\ subArg' = [subArg EXCEPT ![c] = arg]
  /\ \E o \in Chan \cup {Nil}, err \in Error :
       /\ Get(arg.key, o, err)
       /\ subRef' = [subRef EXCEPT ![c] = o]
       /\ IF err = OK
            THEN SubGoto(c, IF Auth = 1 THEN "auth" ELSE "hello")
            ELSE IF Auth = 0 THEN SubGoto(c, "new") ELSE SubReturn(c, err)
  /\ UNCHANGED <<now, pubVars, admVars, histVars>>

\* The request is malformed, or does not arrive in time.  A request on which
\* parseCmd panics ends the process instead (Server!ParsePanics), and what
\* is stated here is about a process that lives.
SubReject(c) ==
  /\ SubReturn(c, BadRequest)
  /\ UNCHANGED <<now, innerVars, netVars, listVars, subRef, subArg,
                 pubVars, admVars, histVars>>

\* parseCmd and the argument checks of SubscribeTCPHandle.
SubscribeTCPHandle(c) ==
  /\ Protocol = TCPProtocol
  /\ subPC[c] = "request"
  /\ SubReject(c) \/ \E arg \in SubArg : SubGet(c, arg)

\* The query parameters of SubscribeHandle.
SubscribeHandle(c) ==
  /\ Protocol = WebsocketProtocol
  /\ subPC[c] = "request"
  /\ SubReject(c) \/ \E arg \in SubArg : SubGet(c, arg)

\* channel.New(key), after Get failed without authentication.
SubNew(c) ==
  /\ subPC[c] = "new"
  /\ \E o \in Chan \cup {Nil}, err \in Error :
       /\ New(subArg[c].key, o, err)
       /\ subRef' = [subRef EXCEPT ![c] = o]
       /\ IF err = OK THEN SubGoto(c, "hello") ELSE SubReturn(c, err)
  /\ UNCHANGED <<now, subArg, pubVars, admVars, histVars>>

\* c.AuthToken(token, key); authed records the connections that passed.
SubAuth(c) ==
  /\ subPC[c] = "auth"
  /\ \E err \in Error :
       /\ AuthToken(subRef[c], subArg[c].token, err)
       /\ IF err = OK
            THEN SubGoto(c, "hello") /\ authed' = authed \cup {c}
            ELSE SubReturn(c, err) /\ UNCHANGED authed
  /\ UNCHANGED <<now, listVars, subRef, subArg, pubVars, admVars, gap>>

\* Faulty: the connection is registered before its stored messages are sent.
SubHelloRegisters(c) ==
  /\ subPC[c] = "hello"
  /\ AddConn(subRef[c], c, OK)
  /\ SubGoto(c, "send")
  /\ UNCHANGED <<now, listVars, subRef, subArg, pubVars, admVars, histVars>>

\* The first heartbeat tells the client that the service is ready.
SubHello(c) ==
  /\ subPC[c] = "hello"
  /\ \E W \in Written({c}) :
       IF c \in W THEN SubGoto(c, "send") ELSE SubReturn(c, WriteErr)
  /\ UNCHANGED <<now, innerVars, netVars, listVars, subRef, subArg,
                 pubVars, admVars, histVars>>

\* c.SendMsg(conn, mid, key)
SubSend(c) ==
  /\ subPC[c] = "send"
  /\ \E err \in Error :
       /\ SendMsg(subRef[c], c, subArg[c].mid, err)
       /\ IF err = OK THEN SubGoto(c, "add") ELSE SubReturn(c, err)
  /\ UNCHANGED <<now, listVars, subRef, subArg, pubVars, admVars, histVars>>

\* c.AddConn(conn, mid, key)
SubAdd(c) ==
  /\ subPC[c] = "add"
  /\ \E err \in Error :
       /\ AddConn(subRef[c], c, err)
       /\ IF err = OK THEN SubGoto(c, "loop") ELSE SubReturn(c, err)
  /\ UNCHANGED <<now, listVars, subRef, subArg, pubVars, admVars, histVars>>

\* Faulty: the handler returns without RemoveConn.
LoopExitForgets(c) ==
  /\ subPC[c] = "loop"
  /\ SubGoto(c, "close")
  /\ UNCHANGED <<now, innerVars, netVars, listVars, subRef, subArg,
                 pubVars, admVars, histVars>>

\* Faulty: a failed read is tried again.
LoopExitContinues(c) == subPC[c] = "loop" /\ UNCHANGED vars

(***************************************************************************)
(* The heartbeat loop ends when a read or a write fails because the peer   *)
(* or this side closed the connection (LoopBroken), or when the client     *)
(* stays silent or sends anything but a heartbeat (LoopTimeout).  An       *)
(* answered heartbeat leaves the state as it is.                           *)
(***************************************************************************)
LoopExit(c) ==
  /\ subPC[c] = "loop"
  /\ SubGoto(c, "remove")
  /\ UNCHANGED <<now, innerVars, netVars, listVars, subRef, subArg,
                 pubVars, admVars, histVars>>

LoopBroken(c) == sock[c] # "open" /\ LoopExit(c)

LoopTimeout(c) == sock[c] = "open" /\ LoopExit(c)

\* c.RemoveConn(conn, mid, key)
SubRemove(c) ==
  /\ subPC[c] = "remove"
  /\ RemoveConn(subRef[c], c)
  /\ SubGoto(c, "close")
  /\ UNCHANGED <<now, listVars, subRef, subArg, pubVars, admVars, histVars>>

\* conn.Close() when the handler has returned.
SubClose(c) ==
  /\ subPC[c] = "close"
  /\ SubGoto(c, "done")
  /\ sock' = [sock EXCEPT ![c] = "closed"]
  /\ UNCHANGED <<now, innerVars, sent, listVars, subRef, subArg,
                 pubVars, admVars, histVars>>

-----------------------------------------------------------------------------
(***************************************************************************)
(* The goroutine of a publication: PublishHandle.                          *)
(***************************************************************************)
PubReturn(p, ret) ==
  /\ pubPC' = [pubPC EXCEPT ![p] = "done"]
  /\ pubRet' = [pubRet EXCEPT ![p] = ret]

(***************************************************************************)
(* The method and the parameters, and channel.Get(key).  The clock is read *)
(* at line 141 and Get called at line 163, when the body has been read: of *)
(* what line 141 adds, sec is what is left by then, and may be negative.   *)
(***************************************************************************)
PubGet(p) ==
  /\ pubPC[p] = "init"
  /\ \/ /\ \E ret \in {"none", "retParamErr", "retInternalErr"} : PubReturn(p, ret)
        /\ UNCHANGED <<innerVars, netVars, listVars, pubRef, pubArg>>
     \/ \E k \in Key, id \in MsgIDs, sec \in ExpireSec :
          /\ pubArg' = [pubArg EXCEPT ![p] =
               [key |-> k, msg |-> [Msg |-> p, Expire |-> now + sec, MsgID |-> id]]]
          /\ \E o \in Chan \cup {Nil}, err \in Error :
               /\ Get(k, o, err)
               /\ pubRef' = [pubRef EXCEPT ![p] = o]
               /\ IF err = OK
                    THEN pubPC' = [pubPC EXCEPT ![p] = "push"] /\ UNCHANGED pubRet
                    ELSE PubReturn(p, "retGetChannel")
  /\ UNCHANGED <<now, subVars, admVars, histVars>>

(***************************************************************************)
(* c.PushMsg(&Message{...}, key).  A connection that has its stored        *)
(* messages but is not registered yet is passed over; gap[c] records the   *)
(* publications stored in c's channel at that moment.                      *)
(***************************************************************************)
PubPush(p) ==
  /\ pubPC[p] = "push"
  /\ \E err \in Error :
       /\ PushMsg(pubRef[p], pubArg[p].msg, err)
       /\ PubReturn(p, CASE err = OK -> "retOK"
                         [] err = Panic -> "panic"
                         [] OTHER -> "retPushMsg")
  /\ gap' = [c \in Conn |->
       IF /\ subPC[c] = "add" /\ subRef[c] = pubRef[p]
          /\ pubArg[p].msg \in message'[pubRef[p]]
         THEN gap[c] \cup {p} ELSE gap[c]]
  /\ UNCHANGED <<now, listVars, subVars, pubRef, pubArg, admVars, authed>>

-----------------------------------------------------------------------------
(***************************************************************************)
(* The goroutine of a /ch request: ChannelHandle, registered only with     *)
(* authentication.  admRet is the sequence of answers passed to retWrite.  *)
(***************************************************************************)
AdmReturn(a, rets) ==
  /\ admPC' = [admPC EXCEPT ![a] = "done"]
  /\ admRet' = [admRet EXCEPT ![a] = rets]

\* The method and the parameters, and channel.New(key).
AdmNew(a) ==
  /\ Auth = 1
  /\ admPC[a] = "init"
  /\ \/ /\ \E rets \in {<<>>, <<"retParamErr">>} : AdmReturn(a, rets)
        /\ UNCHANGED <<innerVars, netVars, listVars, admRef, admArg>>
     \/ \E arg \in AdmArg :
          /\ admArg' = [admArg EXCEPT ![a] = arg]
          /\ \E o \in Chan \cup {Nil}, err \in Error :
               /\ New(arg.key, o, err)
               /\ admRef' = [admRef EXCEPT ![a] = o]
               /\ IF err = OK
                    THEN admPC' = [admPC EXCEPT ![a] = "token"] /\ UNCHANGED admRet
                    ELSE AdmReturn(a, <<"retCreateChannel">>)
  /\ UNCHANGED <<now, subVars, pubVars, histVars>>

\* Faulty: the two string arguments of AddToken are swapped.
AdmTokenSwapped(a) ==
  /\ admPC[a] = "token"
  /\ \E err \in Error :
       /\ AddToken(admRef[a], admArg[a].key, err)
       /\ AdmReturn(a, IF err = OK THEN <<"retOK">> ELSE <<"retAddToken", "retOK">>)
  /\ UNCHANGED <<now, listVars, subVars, pubVars, admRef, admArg, histVars>>

(***************************************************************************)
(* c.AddToken(token, key); the answer to an error is followed by "ok",     *)
(* unless writing it fails.                                                *)
(***************************************************************************)
AdmToken(a) ==
  /\ admPC[a] = "token"
  /\ \E err \in Error :
       /\ AddToken(admRef[a], admArg[a].token, err)
       /\ \/ err = OK /\ AdmReturn(a, <<"retOK">>)
          \/ err # OK /\ AdmReturn(a, <<"retAddToken">>)
          \/ err # OK /\ AdmReturn(a, <<"retAddToken", "retOK">>)
  /\ UNCHANGED <<now, listVars, subVars, pubVars, admRef, admArg, histVars>>

-----------------------------------------------------------------------------
(***************************************************************************)
(* The environment: the clock, and clients that go away.                   *)
(***************************************************************************)
Tick ==
  /\ now < MaxTime
  /\ now' = now + 1
  /\ UNCHANGED <<innerVars, netVars, listVars, subVars, pubVars, admVars, histVars>>

PeerGone(c) ==
  /\ sock[c] = "open"
  /\ sock' = [sock EXCEPT ![c] = "reset"]
  /\ UNCHANGED <<now, innerVars, sent, listVars, subVars, pubVars, admVars, histVars>>

\* Every request has been served.
Terminated ==
  /\ \A c \in Conn : subPC[c] = "done"
  /\ \A p \in Pub : pubPC[p] = "done"
  /\ \A a \in Admin : admPC[a] = "done" \/ Auth = 0
  /\ UNCHANGED vars

Init ==
  /\ now = 0
  /\ InnerInit
  /\ ListInit
  /\ subPC = [c \in Conn |-> "init"]
  /\ subRef = [c \in Conn |-> Nil]
  /\ subArg = [c \in Conn |-> Nil]
  /\ subErr = [c \in Conn |-> OK]
  /\ pubPC = [p \in Pub |-> "init"]
  /\ pubRef = [p \in Pub |-> Nil]
  /\ pubArg = [p \in Pub |-> Nil]
  /\ pubRet = [p \in Pub |-> "none"]
  /\ admPC = [a \in Admin |-> "init"]
  /\ admRef = [a \in Admin |-> Nil]
  /\ admArg = [a \in Admin |-> Nil]
  /\ admRet = [a \in Admin |-> <<>>]
  /\ gap = [c \in Conn |-> {}]
  /\ authed = {}

SubRequest(c) == SubscribeTCPHandle(c) \/ SubscribeHandle(c)

\* The steps a connection's goroutine takes by itself.
SubStep(c) ==
  \/ SubNew(c) \/ SubAuth(c) \/ SubHello(c) \/ SubSend(c)
  \/ SubAdd(c) \/ LoopBroken(c) \/ SubRemove(c) \/ SubClose(c)

Next ==
  \/ \E c \in Conn : Accept(c)
  \/ \E c \in Conn : SubRequest(c)
  \/ \E c \in Conn : SubStep(c)
  \/ \E c \in Conn : LoopTimeout(c)
  \/ \E c \in Conn : PeerGone(c)
  \/ \E p \in Pub : PubGet(p)
  \/ \E p \in Pub : PubPush(p)
  \/ \E a \in Admin : AdmNew(a)
  \/ \E a \in Admin : AdmToken(a)
  \/ Tick
  \/ Terminated

Spec == Init /\ [][Next]_vars

(***************************************************************************)
(* Goroutines are scheduled fairly, and every call returns: no client      *)
(* stops reading while it keeps its connection open.  Silent clients, the  *)
(* publishers and the clock are the environment's and are not forced.  The *)
(* first packet of a TCP connection is awaited for five seconds at most;   *)
(* a websocket handshake for as long as the peer keeps the connection.     *)
(***************************************************************************)
Fairness ==
  /\ \A c \in Conn : WF_vars(SubStep(c))
  /\ \A c \in Conn : WF_vars(SubscribeTCPHandle(c))
  /\ \A c \in Conn : WF_vars(sock[c] # "open" /\ SubscribeHandle(c))
  /\ \A p \in Pub : WF_vars(PubPush(p))
  /\ \A a \in Admin : WF_vars(AdmToken(a))

FairSpec == Spec /\ Fairness
=============================================================================
