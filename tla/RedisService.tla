---------------------------- MODULE RedisService ----------------------------
(***************************************************************************)
(* The push service with the redis channel, for one key: the goroutines of *)
(* pubsub.go and pubsub_tcp.go (or pubsub_http.go), the entry of the key   *)
(* in the channel list, and a process that may crash and start again while *)
(* redis keeps its data.  Malformed requests, which PushService and Server *)
(* have, are left out: they touch neither the channel nor redis.           *)
(*                                                                         *)
(* As in PushService every call is a step, with the buffer of a call and   *)
(* the redis command of AddConn and RemoveConn as steps of their own.      *)
(***************************************************************************)
EXTENDS RedisChannel

CONSTANTS
  Admin,      \* the requests to /ch
  MsgIDs,     \* the message ids a publisher may choose
  Mids,       \* the last message ids a subscriber may present
  ExpireSec,  \* how far behind Get the expiry of line 141 of pubsub.go may lie
  Nil,        \* no channel, no result
  MaxTime     \* bound on the clock

\* What a call on a channel object may return.
Error == {OK, MaxConnErr, AuthTokenErr, TokenExistErr, WriteErr, Panic,
          RedisErr, RedisNoConnErr}

ASSUME RedisServiceAssumption ==
  /\ Nil \notin Chan
  /\ Nil \notin Error
  /\ Nil \notin MessageType
  /\ MsgIDs \subseteq Int
  /\ Mids \subseteq Int
  /\ ExpireSec \subseteq Int
  /\ MaxTime \in Nat

VARIABLES
  auth,                           \* Conf.Auth, read at start
  data, made,                     \* the entry of the key; the objects made
  subPC, subRef, subArg,
  pubPC, pubRef, pubArg, pubRet,
  admPC, admRef, admArg, admRet,
  owed,    \* history: what the store held for c when SendMsg was called
  pushed,  \* history: what was pushed to c's channel since SendMsg returned
  authed   \* history: the connections that passed AuthToken

listVars == <<data, made>>
subVars == <<subPC, subRef, subArg>>
pubVars == <<pubPC, pubRef, pubArg, pubRet>>
admVars == <<admPC, admRef, admArg, admRet>>
histVars == <<owed, pushed, authed>>
chanVars == <<mapVars, expire, writeBuf, redisPool, redisVars, faults, netVars>>
vars == <<now, auth, chanVars, listVars, subVars, pubVars, admVars, histVars>>

SubArg == [mid : Mids, token : Token]

SubState == {"init", "new", "auth", "hello", "buf", "send", "add", "drop",
             "loop", "remove", "decr", "panic", "dead", "close", "done", "request"}

-----------------------------------------------------------------------------
(***************************************************************************)
(* The channel list, for one key (channel.go): ok says whether the caller  *)
(* gets the object o.                                                      *)
(***************************************************************************)
Get(o, ok) ==
  \/ /\ data = Nil /\ o = Nil /\ ~ok
     /\ UNCHANGED <<chanVars, listVars>>
  \/ /\ data # Nil /\ Timeout(data) /\ o = Nil /\ ~ok
     /\ Close(data)
     /\ data' = Nil
     /\ UNCHANGED made
  \/ /\ data # Nil /\ ~Timeout(data) /\ o = data /\ ok
     /\ UNCHANGED <<chanVars, listVars>>

New(o) ==
  \/ /\ data # Nil /\ o = data
     /\ SetDeadline(o, now + ChannelExpireSec)
     /\ UNCHANGED listVars
  \/ /\ data = Nil /\ o \in Chan \ made
     /\ NewRedisChannel(o)
     /\ data' = o
     /\ made' = made \cup {o}

-----------------------------------------------------------------------------
(***************************************************************************)
(* The goroutine of a connection.                                          *)
(***************************************************************************)
SubGoto(c, pc) == subPC' = [subPC EXCEPT ![c] = pc]

\* The frame of a step of c that only calls the channel object.
SubFrame ==
  UNCHANGED <<now, auth, listVars, subRef, subArg, pubVars, admVars>>

\* The accept loop; under TCP a socket option may fail.
Accept(c) ==
  /\ subPC[c] = "init"
  /\ \/ SubGoto(c, "request") /\ sock' = [sock EXCEPT ![c] = "open"]
     \/ /\ Protocol = TCPProtocol
        /\ SubGoto(c, "done")
        /\ sock' = [sock EXCEPT ![c] = "closed"]
  /\ UNCHANGED <<mapVars, expire, writeBuf, redisPool, redisVars, faults,
                 sent, histVars>>
  /\ SubFrame

\* The arguments have been read: channel.Get(key).
SubGet(c) ==
  /\ subPC[c] = "request"
  /\ \E arg \in SubArg, o \in Chan \cup {Nil}, ok \in BOOLEAN :
       /\ Get(o, ok)
       /\ subArg' = [subArg EXCEPT ![c] = arg]
       /\ subRef' = [subRef EXCEPT ![c] = o]
       /\ SubGoto(c, CASE ok /\ auth = 1 -> "auth" [] ok /\ auth = 0 -> "hello"
                       [] ~ok /\ auth = 1 -> "close" [] ~ok /\ auth = 0 -> "new")
  /\ UNCHANGED <<now, auth, pubVars, admVars, histVars>>

SubNew(c) ==
  /\ subPC[c] = "new"
  /\ \E o \in Chan :
       /\ New(o)
       /\ subRef' = [subRef EXCEPT ![c] = o]
  /\ SubGoto(c, "hello")
  /\ UNCHANGED <<now, auth, subArg, pubVars, admVars, histVars>>

SubAuth(c) ==
  /\ subPC[c] = "auth"
  /\ \E err \in Error :
       /\ AuthToken(subArg[c].token, err)
       /\ SubGoto(c, IF err = OK THEN "hello" ELSE "close")
       /\ authed' = IF err = OK THEN authed \cup {c} ELSE authed
  /\ UNCHANGED <<owed, pushed>>
  /\ SubFrame

\* The first heartbeat.
SubHello(c) ==
  /\ subPC[c] = "hello"
  /\ \E W \in Written({c}) : SubGoto(c, IF c \in W THEN "buf" ELSE "close")
  /\ UNCHANGED <<chanVars, histVars>>
  /\ SubFrame

\* The first line of SendMsg.
SubBuf(c) ==
  /\ subPC[c] = "buf"
  /\ newWriteBuf(subRef[c])
  /\ SubGoto(c, "send")
  /\ UNCHANGED <<now, auth, mapVars, expire, redisPool, redisVars, faults,
                 netVars, listVars, subRef, subArg, pubVars, admVars, histVars>>

\* The rest of c.SendMsg(conn, mid, key).
SubSend(c) ==
  /\ subPC[c] = "send"
  /\ \E err \in Error :
       /\ SendMsg(subRef[c], c, subArg[c].mid, err)
       /\ SubGoto(c, CASE err = OK -> "add" [] err = Panic -> "panic"
                       [] OTHER -> "close")
  /\ owed' = [owed EXCEPT ![c] =
       {p \in Pub : \E e \in stored : /\ e.m.Msg = p /\ e.json /\ ~Expired(e.m)
                                      /\ e.m.MsgID > subArg[c].mid}]
  /\ UNCHANGED <<pushed, authed>>
  /\ SubFrame

\* Faulty: a failing AddConn is only logged.
SubAddIgnores(c) ==
  /\ subPC[c] = "add"
  /\ \E err \in Error : AddConn(err)
  /\ SubGoto(c, "loop")
  /\ UNCHANGED histVars
  /\ SubFrame

\* Faulty: the deletion after an error is left to RemoveConn.
SubAddKeeps(c) ==
  /\ subPC[c] = "add"
  /\ \E err \in Error : AddConn(err) /\ SubGoto(c, IF err = OK THEN "loop" ELSE "close")
  /\ UNCHANGED histVars
  /\ SubFrame

\* c.AddConn(conn, mid, key): an error drops the connection from the map.
SubAdd(c) ==
  /\ subPC[c] = "add"
  /\ \E err \in Error : AddConn(err) /\ SubGoto(c, IF err = OK THEN "loop" ELSE "drop")
  /\ UNCHANGED histVars
  /\ SubFrame

SubDrop(c) ==
  /\ subPC[c] = "drop"
  /\ Delete(subRef[c], c)
  /\ SubGoto(c, "close")
  /\ UNCHANGED histVars
  /\ SubFrame

\* The heartbeat loop ends.
LoopExit(c) ==
  /\ subPC[c] = "loop"
  /\ SubGoto(c, "remove")
  /\ UNCHANGED <<chanVars, histVars>>
  /\ SubFrame

LoopBroken(c) == sock[c] # "open" /\ LoopExit(c)

LoopTimeout(c) == sock[c] = "open" /\ LoopExit(c)

\* c.RemoveConn(conn, mid, key)
SubRemove(c) ==
  /\ subPC[c] = "remove"
  /\ Delete(subRef[c], c)
  /\ SubGoto(c, "decr")
  /\ UNCHANGED histVars
  /\ SubFrame

SubDecr(c) ==
  /\ subPC[c] = "decr"
  /\ \E err \in Error : RemoveConn(err)
  /\ SubGoto(c, "close")
  /\ UNCHANGED histVars
  /\ SubFrame

\* The connection is closed when its handler has returned.
SubClose(c) ==
  /\ subPC[c] = "close"
  /\ SubGoto(c, "done")
  /\ sock' = [sock EXCEPT ![c] = "closed"]
  /\ UNCHANGED <<mapVars, expire, writeBuf, redisPool, redisVars, faults,
                 sent, histVars>>
  /\ SubFrame

-----------------------------------------------------------------------------
(***************************************************************************)
(* The goroutine of a publication, and whoever stores its message.         *)
(***************************************************************************)
\* The message of p; sec may be the past, as line 141 reads the clock before
\* the body of the request is read and line 163 calls Get.
Messages(p) ==
  IF pubArg[p] # Nil THEN {pubArg[p]}
  ELSE {[Msg |-> p, Expire |-> now + sec, MsgID |-> id] : sec \in ExpireSec, id \in MsgIDs}

\* ZADD m_key MsgID text; the text need not be a Message.
Store(p) ==
  /\ \A e \in stored : e.m.Msg # p
  /\ \E m \in Messages(p), json \in BOOLEAN :
       /\ pubArg' = [pubArg EXCEPT ![p] = m]
       /\ stored' = stored \cup {[m |-> m, json |-> json]}
  /\ UNCHANGED <<now, auth, mapVars, expire, writeBuf, redisPool, token, online, faults,
                 netVars, listVars, subVars, pubPC, pubRef, pubRet,
                 admVars, histVars>>

\* The parameters, and channel.Get(key).
PubGet(p) ==
  /\ pubPC[p] = "init"
  /\ \E m \in Messages(p), o \in Chan \cup {Nil}, ok \in BOOLEAN :
       /\ Get(o, ok)
       /\ pubArg' = [pubArg EXCEPT ![p] = m]
       /\ pubRef' = [pubRef EXCEPT ![p] = o]
       /\ pubPC' = [pubPC EXCEPT ![p] = IF ok THEN "buf" ELSE "done"]
       /\ pubRet' = [pubRet EXCEPT ![p] = IF ok THEN @ ELSE "retGetChannel"]
  /\ UNCHANGED <<now, auth, subVars, admVars, histVars>>

\* The first line of PushMsg.
PubBuf(p) ==
  /\ pubPC[p] = "buf"
  /\ newWriteBuf(pubRef[p])
  /\ pubPC' = [pubPC EXCEPT ![p] = "push"]
  /\ UNCHANGED <<now, auth, mapVars, expire, redisPool, redisVars, faults,
                 netVars, listVars, subVars, pubRef, pubArg, pubRet, admVars, histVars>>

\* The rest of c.PushMsg(&Message{...}, key).
PubPush(p) ==
  /\ pubPC[p] = "push"
  /\ PushMsg(pubRef[p], pubArg[p], OK)
  /\ pubPC' = [pubPC EXCEPT ![p] = "done"]
  /\ pubRet' = [pubRet EXCEPT ![p] = "retOK"]
  /\ pushed' = [c \in Conn |->
       IF subPC[c] \in {"add", "loop"} /\ subRef[c] = pubRef[p]
         THEN pushed[c] \cup {p} ELSE pushed[c]]
  /\ UNCHANGED <<now, auth, listVars, subVars, pubRef, pubArg, admVars,
                 owed, authed>>

-----------------------------------------------------------------------------
\* The goroutine of a /ch request: ChannelHandle.
AdmNew(a) ==
  /\ auth = 1
  /\ admPC[a] = "init"
  /\ \E t \in Token : admArg' = [admArg EXCEPT ![a] = t]
  /\ \E o \in Chan : New(o) /\ admRef' = [admRef EXCEPT ![a] = o]
  /\ admPC' = [admPC EXCEPT ![a] = "token"]
  /\ UNCHANGED <<now, auth, subVars, pubVars, admRet, histVars>>

AdmToken(a) ==
  /\ admPC[a] = "token"
  /\ \E err \in Error : AddToken(admArg[a], err) /\ admRet' = [admRet EXCEPT ![a] = err]
  /\ admPC' = [admPC EXCEPT ![a] = "done"]
  /\ UNCHANGED <<now, auth, listVars, subVars, pubVars, admRef, admArg, histVars>>

-----------------------------------------------------------------------------
(***************************************************************************)
(* The end of the process: its sockets are closed, its goroutines and its  *)
(* channel objects are gone.                                               *)
(***************************************************************************)
Ended ==
  /\ sock' = [c \in Conn |-> IF sock[c] = "none" THEN "none" ELSE "closed"]
  /\ subPC' = [c \in Conn |-> IF subPC[c] = "init" THEN "init" ELSE "done"]
  /\ pubPC' = [p \in Pub |-> IF pubPC[p] = "init" THEN "init" ELSE "done"]
  /\ admPC' = [a \in Admin |-> IF admPC[a] = "init" THEN "init" ELSE "done"]
  /\ conn' = [o \in Chan |-> {}]
  /\ data' = Nil
  /\ faults' = faults + 1
  /\ UNCHANGED <<now, auth, last, expire, writeBuf, redisPool, redisVars, sent,
                 made, subRef, subArg, pubRef, pubArg, pubRet,
                 admRef, admArg, admRet, histVars>>

Crash == faults < MaxFaults /\ Ended

(***************************************************************************)
(* A panic in SendMsg: under websocket the HTTP server recovers it and the *)
(* connection is closed; under TCP nothing recovers it.                    *)
(***************************************************************************)
SubPanic(c) ==
  /\ subPC[c] = "panic"
  /\ \/ Protocol = TCPProtocol /\ Ended
     \/ /\ Protocol # TCPProtocol
        /\ SubGoto(c, "dead")
        /\ sock' = [sock EXCEPT ![c] = "closed"]
        /\ UNCHANGED <<mapVars, expire, writeBuf, redisPool, redisVars, faults,
                       sent, histVars>>
        /\ SubFrame

Tick ==
  /\ now < MaxTime
  /\ now' = now + 1
  /\ UNCHANGED <<auth, chanVars, listVars, subVars, pubVars, admVars, histVars>>

PeerGone(c) ==
  /\ sock[c] = "open"
  /\ sock' = [sock EXCEPT ![c] = "reset"]
  /\ UNCHANGED <<mapVars, expire, writeBuf, redisPool, redisVars, faults,
                 sent, subPC, histVars>>
  /\ SubFrame

\* Every request that has come has been served.
Terminated ==
  /\ \A c \in Conn : subPC[c] \in {"init", "done", "dead"}
  /\ \A p \in Pub : pubPC[p] \in {"init", "done"}
  /\ \A a \in Admin : admPC[a] \in {"init", "done"}
  /\ UNCHANGED vars

Init ==
  /\ now = 0
  /\ auth \in {0, 1}
  /\ RedisInit
  /\ data = Nil /\ made = {}
  /\ subPC = [c \in Conn |-> "init"]
  /\ subRef = [c \in Conn |-> Nil]
  /\ subArg = [c \in Conn |-> Nil]
  /\ pubPC = [p \in Pub |-> "init"]
  /\ pubRef = [p \in Pub |-> Nil]
  /\ pubArg = [p \in Pub |-> Nil]
  /\ pubRet = [p \in Pub |-> "none"]
  /\ admPC = [a \in Admin |-> "init"]
  /\ admRef = [a \in Admin |-> Nil]
  /\ admArg = [a \in Admin |-> Nil]
  /\ admRet = [a \in Admin |-> Nil]
  /\ owed = [c \in Conn |-> {}]
  /\ pushed = [c \in Conn |-> {}]
  /\ authed = {}

SubStep(c) ==
  \/ SubGet(c) \/ SubNew(c) \/ SubAuth(c) \/ SubHello(c) \/ SubBuf(c) \/ SubSend(c)
  \/ SubAdd(c) \/ SubDrop(c) \/ LoopBroken(c) \/ SubRemove(c) \/ SubDecr(c)
  \/ SubPanic(c) \/ SubClose(c)

Next ==
  \/ \E c \in Conn : Accept(c) \/ SubStep(c) \/ LoopTimeout(c) \/ PeerGone(c)
  \/ \E p \in Pub : Store(p) \/ PubGet(p) \/ PubBuf(p) \/ PubPush(p)
  \/ \E a \in Admin : AdmNew(a) \/ AdmToken(a)
  \/ Crash
  \/ Tick
  \/ Terminated

Spec == Init /\ [][Next]_vars
=============================================================================
