---------------------------- MODULE RedisProofs ----------------------------
(***************************************************************************)
(* Proofs about the push service with the redis channel: what its calls do *)
(* to the shared state, the inductive invariant, and the promises that     *)
(* follow from it.                                                         *)
(***************************************************************************)
EXTENDS RedisInvariant, FiniteSetTheorems, TLAPS

-----------------------------------------------------------------------------
\* What the channel list and the redis commands do to the shared state.

LEMMA GetEffect ==
  ASSUME TypeOK, HandlesOK, NEW o \in Chan \cup {Nil}, NEW ok \in BOOLEAN, Get(o, ok)
  PROVE  /\ ok => o \in made
         /\ ~ok => o = Nil
         /\ data' \in {data, Nil}
         /\ sock' \in [Conn -> SockState]
         /\ \A c \in Conn : sock'[c] \in {sock[c], "closed"}
         /\ UNCHANGED <<made, mapVars, expire, writeBuf, redisPool, redisVars, faults,
                        sent>>
  BY DEF TypeOK, RedisTypeOK, HandlesOK, Get, Close, listVars, chanVars, netVars, SockState

LEMMA NewEffect ==
  ASSUME TypeOK, HandlesOK, NEW o \in Chan, New(o)
  PROVE  /\ o \in made'
         /\ made' = made \cup {o}
         /\ data' = o
         /\ expire' \in [Chan -> Int]
         /\ writeBuf' \in [Chan -> 0..WriteBufNum]
         /\ UNCHANGED <<mapVars, redisPool, redisVars, faults, netVars>>
<1>1. now + ChannelExpireSec \in Int
  BY RedisAssumption DEF TypeOK
<1>2. CASE data # Nil
  BY <1>1, <1>2, RedisServiceAssumption
     DEF TypeOK, RedisTypeOK, HandlesOK, New, SetDeadline, listVars, mapVars, netVars
<1>3. CASE data = Nil
  <2>0. o \in Chan \ made /\ NewRedisChannel(o) /\ data' = o /\ made' = made \cup {o}
    BY <1>3 DEF New
  <2>1. conn' = conn
    <3>1. conn' = [conn EXCEPT ![o] = {}] /\ conn[o] = {}
      BY <2>0 DEF HandlesOK, NewRedisChannel
    <3>2. conn \in [Chan -> SUBSET Conn]
      BY DEF TypeOK, RedisTypeOK
    <3>. QED
      BY <3>1, <3>2
  <2>2. writeBuf' \in [Chan -> 0..WriteBufNum]
    BY <2>0, RedisAssumption DEF TypeOK, RedisTypeOK, NewRedisChannel
  <2>3. expire' \in [Chan -> Int]
    BY <1>1, <2>0 DEF TypeOK, RedisTypeOK, NewRedisChannel
  <2>. QED
    BY <2>0, <2>1, <2>2, <2>3 DEF NewRedisChannel, mapVars, netVars
<1>. QED
  BY <1>2, <1>3

LEMMA PutEffect ==
  ASSUME TypeOK, NEW o \in Chan, putWriteBuf(o)
  PROVE  writeBuf' \in [Chan -> 0..WriteBufNum]
<1>1. /\ writeBuf \in [Chan -> 0..WriteBufNum]
      /\ writeBuf' = [writeBuf EXCEPT ![o] =
                        IF writeBuf[o] < WriteBufNum THEN writeBuf[o] + 1 ELSE writeBuf[o]]
  BY DEF TypeOK, RedisTypeOK, putWriteBuf
<1>2. (IF writeBuf[o] < WriteBufNum THEN writeBuf[o] + 1 ELSE writeBuf[o]) \in 0..WriteBufNum
  BY <1>1, RedisAssumption
<1>. QED
  BY <1>1, <1>2

LEMMA TakeEffect ==
  ASSUME TypeOK, NEW o \in Chan, newWriteBuf(o)
  PROVE  writeBuf' \in [Chan -> 0..WriteBufNum]
<1>1. /\ writeBuf \in [Chan -> 0..WriteBufNum]
      /\ writeBuf' = [writeBuf EXCEPT ![o] = IF writeBuf[o] > 0 THEN writeBuf[o] - 1 ELSE 0]
  BY DEF TypeOK, RedisTypeOK, newWriteBuf
<1>2. (IF writeBuf[o] > 0 THEN writeBuf[o] - 1 ELSE 0) \in 0..WriteBufNum
  BY <1>1, RedisAssumption
<1>. QED
  BY <1>1, <1>2

\* Writing to the connections W counts each message once.
LEMMA DeliverEffect ==
  ASSUME TypeOK, NEW W, NEW M, sent' = Deliver(W, M)
  PROVE  /\ sent' \in [Conn -> [Pub -> Nat]]
         /\ \A c \in Conn, p \in Pub :
              /\ sent'[c][p] >= sent[c][p]
              /\ sent'[c][p] > sent[c][p] <=> c \in W /\ \E m \in M : m.Msg = p
              /\ ~(c \in W /\ \E m \in M : m.Msg = p) => sent'[c][p] = sent[c][p]
<1>1. \A c \in Conn, p \in Pub : sent[c][p] \in Nat
  BY DEF TypeOK, RedisTypeOK
<1>. QED
  BY <1>1 DEF Deliver

LEMMA HincrByEffect ==
  ASSUME TypeOK, NEW n \in Int, NEW err, HincrBy(n, err)
  PROVE  /\ online' \in Int /\ faults' \in Nat
         /\ online' \in {online, online + n}
         /\ faults' >= faults
         /\ err = OK => online' = online + n
         /\ getRedisConn /\ online' # online + n => faults' > 0
         /\ getRedisConn /\ err # OK => faults' > 0
         /\ UNCHANGED <<mapVars, expire, writeBuf, redisPool, stored, token,
                        netVars>>
  BY DEF TypeOK, RedisTypeOK, HincrBy, Do, OK, RedisErr, RedisNoConnErr
-----------------------------------------------------------------------------
(***************************************************************************)
(* Types: one step per action.                                             *)
(***************************************************************************)

LEMMA WalkType ==
  ASSUME TypeOK, NEW o \in Chan, NEW c \in Conn, NEW mid \in Int, NEW err,
         Walk(o, c, mid, err)
  PROVE  /\ conn' \in [Chan -> SUBSET Conn]
         /\ last' \in [Conn -> Int]
         /\ sent' \in [Conn -> [Pub -> Nat]]
         /\ err \in {OK, WriteErr, Panic}
<1>1. PICK T \in SUBSET InRange(mid) :
        /\ sent' = Deliver({c}, Live(T))
        /\ err \in {OK, WriteErr, Panic}
        /\ \/ UNCHANGED mapVars
           \/ \E id \in LastOf(Live(T), mid) \cup {mid} : Register(o, c, id, mid)
  BY DEF Walk, Prefixes
<1>2. \A m \in Live(T) : m.MsgID \in Int
  BY <1>1 DEF Live, InRange, TypeOK, RedisTypeOK, Entry, MessageType
<1>3. LastOf(Live(T), mid) \cup {mid} \subseteq Int
  BY <1>2 DEF LastOf
<1>4. sent' \in [Conn -> [Pub -> Nat]]
  BY <1>1, DeliverEffect
<1>5. conn' \in [Chan -> SUBSET Conn] /\ last' \in [Conn -> Int]
  <2>0. conn \in [Chan -> SUBSET Conn] /\ last \in [Conn -> Int]
    BY DEF TypeOK, RedisTypeOK
  <2>1. CASE UNCHANGED mapVars
    BY <2>0, <2>1 DEF mapVars
  <2>2. ASSUME NEW id \in Int, Register(o, c, id, mid)
        PROVE  conn' \in [Chan -> SUBSET Conn] /\ last' \in [Conn -> Int]
    <3>1. conn' = [conn EXCEPT ![o] = conn[o] \cup {c}] /\ last' = [last EXCEPT ![c] = id]
      BY <2>2 DEF Register
    <3>2. conn[o] \cup {c} \in SUBSET Conn
      BY <2>0
    <3>. QED
      BY <2>0, <3>1, <3>2
  <2>. QED
    BY <1>1, <1>3, <2>1, <2>2
<1>. QED
  BY <1>1, <1>4, <1>5 DEF TypeOK, RedisTypeOK

LEMMA SendType ==
  ASSUME TypeOK, NEW o \in Chan, NEW c \in Conn, NEW mid \in Int, NEW err,
         SendMsg(o, c, mid, err)
  PROVE  RedisTypeOK'
<1>1. writeBuf' \in [Chan -> 0..WriteBufNum]
  BY PutEffect DEF SendMsg
<1>2. /\ conn' \in [Chan -> SUBSET Conn]
      /\ last' \in [Conn -> Int]
      /\ sent' \in [Conn -> [Pub -> Nat]]
  <2>1. CASE UNCHANGED <<mapVars, sent>>
    BY <2>1 DEF TypeOK, RedisTypeOK, mapVars
  <2>2. CASE Walk(o, c, mid, err)
    BY <2>2, WalkType
  <2>. QED
    BY <2>1, <2>2 DEF SendMsg
<1>3. faults' \in Nat
  BY DEF SendMsg, Do, TypeOK, RedisTypeOK
<1>. QED
  BY <1>1, <1>2, <1>3 DEF SendMsg, TypeOK, RedisTypeOK, redisVars

LEMMA PushType ==
  ASSUME TypeOK, NEW o \in Chan, NEW m \in MessageType,
         PushMsg(o, m, OK)
  PROVE  RedisTypeOK'
<1>1. writeBuf' \in [Chan -> 0..WriteBufNum]
  BY PutEffect DEF PushMsg
<1>2. PICK W \in SUBSET Newer(o, m.MsgID) :
        /\ sent' = Deliver(W, {m})
        /\ last' = [c \in Conn |-> IF c \in W THEN m.MsgID ELSE last[c]]
  BY DEF PushMsg, Written
<1>3. sent' \in [Conn -> [Pub -> Nat]]
  BY <1>2, DeliverEffect
<1>4. last' \in [Conn -> Int]
  BY <1>2 DEF Newer, TypeOK, RedisTypeOK, MessageType
<1>. QED
  BY <1>1, <1>3, <1>4 DEF PushMsg, TypeOK, RedisTypeOK, redisVars
LEMMA MessagesType ==
  ASSUME TypeOK, MessagesOK, NEW p \in Pub, NEW m \in Messages(p)
  PROVE  m \in MessageType /\ m.Msg = p
<1>1. CASE pubArg[p] # Nil
  BY <1>1 DEF Messages, MessagesOK
<1>2. CASE pubArg[p] = Nil
  <2>1. PICK sec \in ExpireSec, id \in MsgIDs :
          m = [Msg |-> p, Expire |-> now + sec, MsgID |-> id]
    BY <1>2 DEF Messages
  <2>2. now + sec \in Int /\ id \in Int
    BY RedisServiceAssumption DEF TypeOK
  <2>. QED
    BY <2>1, <2>2 DEF MessageType
<1>. QED
  BY <1>1, <1>2

LEMMA TypeStep ==
  TypeOK /\ HandlesOK /\ MessagesOK /\ [Next]_vars => TypeOK'
<1>. SUFFICES ASSUME TypeOK, HandlesOK, MessagesOK, [Next]_vars PROVE TypeOK'
  OBVIOUS
<1>. USE DEF TypeOK
<1>1. ASSUME NEW c \in Conn, Accept(c) PROVE TypeOK'
  BY <1>1 DEF Accept, SubGoto, SubState, RedisTypeOK, SockState, SubFrame, chanVars, mapVars, redisVars, netVars, listVars, subVars, pubVars,
            admVars, histVars
<1>2. ASSUME NEW c \in Conn, SubGet(c) PROVE TypeOK'
  <2>1. PICK arg \in SubArg, o \in Chan \cup {Nil}, ok \in BOOLEAN :
          /\ Get(o, ok)
          /\ subArg' = [subArg EXCEPT ![c] = arg]
          /\ subRef' = [subRef EXCEPT ![c] = o]
    BY <1>2 DEF SubGet
  <2>2. subPC' \in [Conn -> SubState]
    <3>1. \E pc \in SubState : SubGoto(c, pc)
      <4>1. ASSUME NEW k \in BOOLEAN
            PROVE  (CASE k /\ auth = 1 -> "auth" [] k /\ auth = 0 -> "hello"
                      [] ~k /\ auth = 1 -> "close" [] ~k /\ auth = 0 -> "new") \in SubState
        BY <4>1 DEF SubState
      <4>. QED
        BY <1>2, <4>1 DEF SubGet
    <3>. QED
      BY <3>1 DEF SubGoto
  <2>3. RedisTypeOK' /\ data' \in Chan \cup {Nil} /\ made' = made
    BY <2>1, GetEffect DEF RedisTypeOK, mapVars, redisVars
  <2>. QED
    BY <1>2, <2>1, <2>2, <2>3 DEF SubGet, pubVars, admVars, histVars
<1>3. ASSUME NEW c \in Conn, SubNew(c) PROVE TypeOK'
  <2>1. PICK o \in Chan : New(o) /\ subRef' = [subRef EXCEPT ![c] = o]
    BY <1>3 DEF SubNew
  <2>2. RedisTypeOK' /\ data' \in Chan \cup {Nil} /\ made' \in SUBSET Chan
    BY <2>1, NewEffect DEF RedisTypeOK, mapVars, redisVars, netVars
  <2>. QED
    BY <1>3, <2>1, <2>2 DEF SubNew, SubGoto, SubState, pubVars, admVars, histVars
<1>4. ASSUME NEW c \in Conn, SubAuth(c) PROVE TypeOK'
  <2>1. RedisTypeOK'
    BY <1>4 DEF SubAuth, AuthToken, Do, RedisTypeOK, mapVars, netVars
  <2>2. subPC' \in [Conn -> SubState] /\ authed' \in SUBSET Conn
    BY <1>4 DEF SubAuth, SubGoto, SubState
  <2>. QED
    BY <1>4, <2>1, <2>2 DEF SubAuth, SubFrame, chanVars, mapVars, redisVars, netVars, listVars, subVars, pubVars,
            admVars, histVars
<1>5. ASSUME NEW c \in Conn, SubHello(c) PROVE TypeOK'
  BY <1>5 DEF SubHello, SubGoto, SubState, RedisTypeOK, SubFrame, chanVars, mapVars, redisVars, netVars, listVars, subVars, pubVars,
            admVars, histVars
<1>6. ASSUME NEW c \in Conn, SubBuf(c) PROVE TypeOK'
  <2>1. writeBuf' \in [Chan -> 0..WriteBufNum]
    BY <1>6, TakeEffect DEF SubBuf, HandlesOK
  <2>. QED
    BY <1>6, <2>1 DEF SubBuf, SubGoto, SubState, RedisTypeOK, SubFrame, chanVars, mapVars, redisVars, netVars, listVars, subVars, pubVars,
            admVars, histVars
<1>7. ASSUME NEW c \in Conn, SubSend(c) PROVE TypeOK'
  <2>1. subRef[c] \in Chan /\ subArg[c].mid \in Int
    BY <1>7, RedisServiceAssumption DEF SubSend, HandlesOK, SubArg
  <2>2. RedisTypeOK'
    BY <1>7, <2>1, SendType DEF SubSend
  <2>3. subPC' \in [Conn -> SubState] /\ owed' \in [Conn -> SUBSET Pub]
    BY <1>7 DEF SubSend, SubGoto, SubState
  <2>. QED
    BY <1>7, <2>2, <2>3 DEF SubSend, SubFrame, chanVars, mapVars, redisVars, netVars, listVars, subVars, pubVars,
            admVars, histVars
<1>8. ASSUME NEW c \in Conn, SubAdd(c) PROVE TypeOK'
  <2>1. RedisTypeOK'
    <3>1. PICK err \in Error : HincrBy(1, err)
      BY <1>8 DEF SubAdd, AddConn
    <3>. QED
      BY <3>1, HincrByEffect DEF RedisTypeOK, mapVars, netVars
  <2>. QED
    BY <1>8, <2>1 DEF SubAdd, SubGoto, SubState, SubFrame, chanVars, mapVars, redisVars, netVars, listVars, subVars, pubVars,
            admVars, histVars
<1>9. ASSUME NEW c \in Conn, SubDrop(c) \/ SubRemove(c) PROVE TypeOK'
  <2>1. conn' \in [Chan -> SUBSET Conn]
    <3>1. Delete(subRef[c], c)
      BY <1>9 DEF SubDrop, SubRemove
    <3>. QED
      BY <3>1 DEF Delete, RedisTypeOK
  <2>2. subPC' \in [Conn -> SubState]
    BY <1>9 DEF SubDrop, SubRemove, SubGoto, SubState
  <2>. QED
    BY <1>9, <2>1, <2>2 DEF SubDrop, SubRemove, Delete, RedisTypeOK, SubFrame, redisVars,
       netVars, listVars, pubVars, admVars, histVars
<1>10. ASSUME NEW c \in Conn, LoopExit(c) PROVE TypeOK'
  BY <1>10 DEF LoopExit, SubGoto, SubState, RedisTypeOK, SubFrame, chanVars, mapVars, redisVars, netVars, listVars, subVars, pubVars,
            admVars, histVars
<1>11. ASSUME NEW c \in Conn, SubDecr(c) PROVE TypeOK'
  <2>1. RedisTypeOK'
    <3>1. PICK err \in Error : HincrBy(-1, err)
      BY <1>11 DEF SubDecr, RemoveConn
    <3>. QED
      BY <3>1, HincrByEffect DEF RedisTypeOK, mapVars, netVars
  <2>. QED
    BY <1>11, <2>1 DEF SubDecr, SubGoto, SubState, SubFrame, chanVars, mapVars, redisVars, netVars, listVars, subVars, pubVars,
            admVars, histVars
<1>12. ASSUME NEW c \in Conn, SubClose(c) PROVE TypeOK'
  BY <1>12 DEF SubClose, SubGoto, SubState, RedisTypeOK, SockState, SubFrame, chanVars, mapVars, redisVars, netVars, listVars, subVars, pubVars,
            admVars, histVars
<1>13. ASSUME Ended PROVE TypeOK'
  <2>1. /\ subPC' \in [Conn -> SubState]
        /\ sock' \in [Conn -> SockState]
        /\ faults' \in Nat /\ conn' \in [Chan -> SUBSET Conn]
    BY <1>13 DEF Ended, SubState, SockState, RedisTypeOK
  <2>. QED
    BY <1>13, <2>1 DEF Ended, RedisTypeOK, redisVars, histVars
<1>14. ASSUME NEW c \in Conn, SubPanic(c), ~Ended PROVE TypeOK'
  <2>1. /\ subPC' = [subPC EXCEPT ![c] = "dead"]
        /\ sock' = [sock EXCEPT ![c] = "closed"]
        /\ UNCHANGED <<mapVars, expire, writeBuf, redisPool, redisVars, faults,
                       sent, histVars>>
        /\ SubFrame
    BY <1>14 DEF SubPanic, SubGoto
  <2>2. subPC' \in [Conn -> SubState] /\ sock' \in [Conn -> SockState]
    BY <2>1 DEF SubState, RedisTypeOK, SockState
  <2>. QED
    BY <2>1, <2>2 DEF RedisTypeOK, SubFrame, mapVars, redisVars, listVars, pubVars, admVars,
       histVars
<1>15. ASSUME NEW c \in Conn, PeerGone(c) PROVE TypeOK'
  BY <1>15 DEF PeerGone, RedisTypeOK, SockState, SubFrame, chanVars, mapVars, redisVars, netVars, listVars, subVars, pubVars,
            admVars, histVars
<1>16. ASSUME NEW p \in Pub, Store(p) PROVE TypeOK'
  <2>1. PICK m \in Messages(p), json \in BOOLEAN :
          /\ pubArg' = [pubArg EXCEPT ![p] = m]
          /\ stored' = stored \cup {[m |-> m, json |-> json]}
    BY <1>16 DEF Store
  <2>2. stored' \in SUBSET Entry /\ pubArg' \in [Pub -> MessageType \cup {Nil}]
    BY <2>1, MessagesType DEF RedisTypeOK, Entry
  <2>. QED
    BY <1>16, <2>2 DEF Store, RedisTypeOK, SubFrame, chanVars, mapVars, redisVars, netVars, listVars, subVars, pubVars,
            admVars, histVars
<1>17. ASSUME NEW p \in Pub, PubGet(p) PROVE TypeOK'
  <2>1. PICK m \in Messages(p), o \in Chan \cup {Nil}, ok \in BOOLEAN :
          /\ Get(o, ok)
          /\ pubArg' = [pubArg EXCEPT ![p] = m]
          /\ pubRef' = [pubRef EXCEPT ![p] = o]
          /\ pubPC' = [pubPC EXCEPT ![p] = IF ok THEN "buf" ELSE "done"]
          /\ pubRet' = [pubRet EXCEPT ![p] = IF ok THEN @ ELSE "retGetChannel"]
    BY <1>17 DEF PubGet
  <2>2. pubArg' \in [Pub -> MessageType \cup {Nil}]
    BY <2>1, MessagesType
  <2>3. RedisTypeOK' /\ data' \in Chan \cup {Nil} /\ made' = made
    BY <2>1, GetEffect DEF RedisTypeOK, mapVars, redisVars
  <2>. QED
    BY <1>17, <2>1, <2>2, <2>3 DEF PubGet, subVars, admVars, histVars
<1>18. ASSUME NEW p \in Pub, PubBuf(p) PROVE TypeOK'
  <2>1. writeBuf' \in [Chan -> 0..WriteBufNum]
    BY <1>18, TakeEffect DEF PubBuf, HandlesOK
  <2>. QED
    BY <1>18, <2>1 DEF PubBuf, RedisTypeOK, SubFrame, chanVars, mapVars, redisVars, netVars, listVars, subVars, pubVars,
            admVars, histVars
<1>19. ASSUME NEW p \in Pub, PubPush(p) PROVE TypeOK'
  <2>1. pubRef[p] \in Chan /\ pubArg[p] \in MessageType
    BY <1>19 DEF PubPush, HandlesOK
  <2>2. RedisTypeOK'
    BY <1>19, <2>1, PushType DEF PubPush
  <2>3. pushed' \in [Conn -> SUBSET Pub]
    BY <1>19 DEF PubPush
  <2>. QED
    BY <1>19, <2>2, <2>3 DEF PubPush, SubFrame, chanVars, mapVars, redisVars, netVars, listVars, subVars, pubVars,
            admVars, histVars
<1>20. ASSUME NEW a \in Admin, AdmNew(a) PROVE TypeOK'
  <2>1. PICK o \in Chan : New(o) /\ admRef' = [admRef EXCEPT ![a] = o]
    BY <1>20 DEF AdmNew
  <2>2. RedisTypeOK' /\ data' \in Chan \cup {Nil} /\ made' \in SUBSET Chan
    BY <2>1, NewEffect DEF RedisTypeOK, mapVars, redisVars, netVars
  <2>. QED
    BY <1>20, <2>1, <2>2 DEF AdmNew, SubFrame, chanVars, mapVars, redisVars, netVars, listVars, subVars, pubVars,
            admVars, histVars
<1>21. ASSUME NEW a \in Admin, AdmToken(a) PROVE TypeOK'
  <2>0. admArg[a] \in Token
    BY <1>21 DEF AdmToken, HandlesOK
  <2>1. RedisTypeOK'
    BY <1>21, <2>0 DEF AdmToken, AddToken, Do, RedisTypeOK, mapVars, netVars
  <2>. QED
    BY <1>21, <2>1 DEF AdmToken, SubFrame, chanVars, mapVars, redisVars, netVars, listVars, subVars, pubVars,
            admVars, histVars
<1>22. ASSUME Tick PROVE TypeOK'
  BY <1>22 DEF Tick, RedisTypeOK, SubFrame, chanVars, mapVars, redisVars, netVars, listVars, subVars, pubVars,
            admVars, histVars
<1>23. ASSUME UNCHANGED vars PROVE TypeOK'
  BY <1>23 DEF vars, RedisTypeOK, SubFrame, chanVars, mapVars, redisVars, netVars, listVars, subVars, pubVars,
            admVars, histVars
<1>. QED
  BY <1>1, <1>2, <1>3, <1>4, <1>5, <1>6, <1>7, <1>8, <1>9, <1>10, <1>11, <1>12, <1>13,
     <1>14, <1>15, <1>16, <1>17, <1>18, <1>19, <1>20, <1>21, <1>22, <1>23
     DEF Next, SubStep, LoopBroken, LoopTimeout, Crash, Terminated

-----------------------------------------------------------------------------
(***************************************************************************)
(* Handles, messages and registration.                                     *)
(***************************************************************************)

\* What a call on the map of o may do to it: SendMsg adds c unless it fails.
LEMMA SendConn ==
  ASSUME TypeOK, NEW o \in Chan, NEW c \in Conn, NEW mid, NEW err \in Error,
         SendMsg(o, c, mid, err)
  PROVE  /\ conn' = IF err \in {OK, Panic} THEN [conn EXCEPT ![o] = @ \cup {c}] ELSE conn
         /\ err \in {OK, Panic} => getRedisConn /\ ~Full(o)
         /\ UNCHANGED <<expire, redisPool, redisVars, sock>>
<1>0. UNCHANGED <<expire, redisPool, redisVars, sock>>
  BY DEF SendMsg
<1>1. CASE getRedisConn /\ ~Full(o) /\ Walk(o, c, mid, err)
  <2>1. \/ err = WriteErr /\ conn' = conn
        \/ err \in {OK, Panic} /\ conn' = [conn EXCEPT ![o] = conn[o] \cup {c}]
    BY <1>1 DEF Walk, Register, mapVars
  <2>. QED
    BY <1>0, <1>1, <2>1 DEF OK, Panic, WriteErr
<1>2. CASE conn' = conn /\ err \notin {OK, Panic}
  BY <1>0, <1>2
<1>. QED
  <2>1. \/ getRedisConn /\ ~Full(o) /\ Walk(o, c, mid, err)
        \/ UNCHANGED mapVars /\ err \notin {OK, Panic}
    BY DEF SendMsg, Do, OK, Panic, MaxConnErr, RedisErr, RedisNoConnErr
  <2>. QED
    BY <1>1, <1>2, <2>1 DEF mapVars

LEMMA HandlesStep ==
  TypeOK /\ HandlesOK /\ MessagesOK /\ [Next]_vars => HandlesOK'
<1>. SUFFICES ASSUME TypeOK, HandlesOK, MessagesOK, [Next]_vars PROVE HandlesOK'
  OBVIOUS
<1>. USE DEF HandlesOK, Served, Mapped
<1>0. redisPool' = redisPool => getRedisConn' = getRedisConn
  BY DEF getRedisConn
<1>1. ASSUME NEW c \in Conn, Accept(c) PROVE HandlesOK'
  BY <1>0, <1>1 DEF Accept, SubGoto, TypeOK, RedisTypeOK, SubFrame, chanVars, mapVars, redisVars, netVars, listVars, subVars, pubVars,
            admVars, histVars
<1>2. ASSUME NEW c \in Conn, SubGet(c) PROVE HandlesOK'
  <2>1. PICK arg \in SubArg, o \in Chan \cup {Nil}, ok \in BOOLEAN :
          /\ Get(o, ok)
          /\ subArg' = [subArg EXCEPT ![c] = arg]
          /\ subRef' = [subRef EXCEPT ![c] = o]
          /\ subPC' = [subPC EXCEPT ![c] = subPC'[c]]
          /\ subPC'[c] \in {"auth", "hello", "new", "close"}
          /\ subPC'[c] \in {"auth", "hello"} => ok
    <3>. DEFINE pc(ok) == CASE ok /\ auth = 1 -> "auth" [] ok /\ auth = 0 -> "hello"
                            [] ~ok /\ auth = 1 -> "close" [] ~ok /\ auth = 0 -> "new"
    <3>1. PICK arg \in SubArg, o \in Chan \cup {Nil}, ok \in BOOLEAN :
            /\ Get(o, ok)
            /\ subArg' = [subArg EXCEPT ![c] = arg]
            /\ subRef' = [subRef EXCEPT ![c] = o]
            /\ subPC' = [subPC EXCEPT ![c] = pc(ok)]
      BY <1>2 DEF SubGet, SubGoto
    <3>a. auth \in {0, 1} /\ subPC \in [Conn -> SubState]
      BY DEF TypeOK
    <3>. HIDE DEF pc
    <3>b. subPC'[c] = pc(ok) /\ subPC' = [subPC EXCEPT ![c] = subPC'[c]]
      BY <3>1, <3>a
    <3>. USE DEF pc
    <3>2. /\ subPC'[c] = CASE ok /\ auth = 1 -> "auth" [] ok /\ auth = 0 -> "hello"
                           [] ~ok /\ auth = 1 -> "close" [] ~ok /\ auth = 0 -> "new"
          /\ auth \in {0, 1}
          /\ subPC' = [subPC EXCEPT ![c] = subPC'[c]]
      BY <3>a, <3>b
    <3>3. /\ subPC'[c] \in {"auth", "hello", "new", "close"}
          /\ subPC'[c] \in {"auth", "hello"} => ok
      <4>1. CASE ok
        BY <3>2, <4>1
      <4>2. CASE ~ok
        BY <3>2, <4>2
      <4>. QED
        BY <4>1, <4>2
    <3>. QED
      BY <3>1, <3>2, <3>3
  <2>2. /\ ok => o \in made
        /\ data' \in {data, Nil}
        /\ \A d \in Conn : sock'[d] \in {sock[d], "closed"}
        /\ UNCHANGED <<made, conn, redisPool>>
    BY <2>1, GetEffect DEF mapVars
  <2>. QED
    BY <1>0, <1>2, <2>1, <2>2 DEF SubGet, TypeOK, pubVars, admVars
<1>3. ASSUME NEW c \in Conn, SubNew(c) PROVE HandlesOK'
  <2>1. PICK o \in Chan : New(o) /\ subRef' = [subRef EXCEPT ![c] = o]
    BY <1>3 DEF SubNew
  <2>. QED
    BY <1>0, <1>3, <2>1, NewEffect DEF SubNew, SubGoto, TypeOK, mapVars, netVars, pubVars, admVars
<1>4. ASSUME NEW c \in Conn, SubAuth(c) PROVE HandlesOK'
  <2>1. UNCHANGED <<mapVars, redisPool, netVars>>
    BY <1>4 DEF SubAuth, AuthToken
  <2>. QED
    BY <1>0, <1>4, <2>1 DEF SubAuth, SubGoto, TypeOK, SubFrame, chanVars, mapVars, redisVars, netVars, listVars, subVars, pubVars,
            admVars, histVars
<1>5. ASSUME NEW c \in Conn, SubHello(c) PROVE HandlesOK'
  BY <1>0, <1>5 DEF SubHello, SubGoto, TypeOK, SubFrame, chanVars, mapVars, redisVars, netVars, listVars, subVars, pubVars,
            admVars, histVars
<1>6. ASSUME NEW c \in Conn, SubBuf(c) PROVE HandlesOK'
  BY <1>0, <1>6 DEF SubBuf, SubGoto, TypeOK, SubFrame, chanVars, mapVars, redisVars, netVars, listVars, subVars, pubVars,
            admVars, histVars
<1>7. ASSUME NEW c \in Conn, SubSend(c) PROVE HandlesOK'
  <2>1. PICK err \in Error :
          /\ SendMsg(subRef[c], c, subArg[c].mid, err)
          /\ subPC' = [subPC EXCEPT ![c] = subPC'[c]]
          /\ subPC'[c] \in {"add", "panic", "close"}
          /\ subPC'[c] \in {"add", "panic"} => err \in {OK, Panic}
    <3>1. ASSUME NEW err \in Error,
                 subPC' = [subPC EXCEPT ![c] =
                   CASE err = OK -> "add" [] err = Panic -> "panic" [] OTHER -> "close"]
          PROVE  /\ subPC' = [subPC EXCEPT ![c] = subPC'[c]]
                 /\ subPC'[c] \in {"add", "panic", "close"}
                 /\ subPC'[c] \in {"add", "panic"} => err \in {OK, Panic}
      BY <3>1 DEF TypeOK
    <3>. QED
      BY <1>7, <3>1 DEF SubSend, SubGoto
  <2>2. subRef[c] \in made /\ subPC[c] = "send" /\ subRef[c] \in Chan
    BY <1>7 DEF SubSend, TypeOK
  <2>3. /\ conn' = IF err \in {OK, Panic} THEN [conn EXCEPT ![subRef[c]] = @ \cup {c}] ELSE conn
        /\ err \in {OK, Panic} => getRedisConn
        /\ UNCHANGED <<redisPool, sock>>
    BY <2>1, <2>2, SendConn
  <2>4. \A o \in Chan \ made : conn'[o] = {}
    BY <2>2, <2>3 DEF TypeOK, RedisTypeOK
  <2>. QED
    BY <1>0, <1>7, <2>1, <2>2, <2>3, <2>4 DEF SubSend, TypeOK, SubFrame, chanVars, mapVars, redisVars, netVars, listVars, subVars, pubVars,
            admVars, histVars
<1>8. ASSUME NEW c \in Conn, SubAdd(c) \/ SubDecr(c) PROVE HandlesOK'
  <2>1. UNCHANGED <<mapVars, redisPool, netVars>>
    BY <1>8 DEF SubAdd, SubDecr, AddConn, RemoveConn, HincrBy
  <2>. QED
    BY <1>0, <1>8, <2>1 DEF SubAdd, SubDecr, SubGoto, TypeOK, SubFrame, chanVars, mapVars, redisVars, netVars, listVars, subVars, pubVars,
            admVars, histVars
<1>9. ASSUME NEW c \in Conn, SubDrop(c) \/ SubRemove(c) PROVE HandlesOK'
  <2>1. Delete(subRef[c], c)
    BY <1>9 DEF SubDrop, SubRemove
  <2>2. \A o \in Chan \ made : conn'[o] = {}
    BY <2>1 DEF Delete, TypeOK, RedisTypeOK
  <2>. QED
    BY <1>0, <1>9, <2>1, <2>2 DEF SubDrop, SubRemove, Delete, SubGoto, TypeOK, SubFrame, chanVars, mapVars, redisVars, netVars, listVars, subVars, pubVars,
            admVars, histVars
<1>10. ASSUME NEW c \in Conn, LoopExit(c) PROVE HandlesOK'
  BY <1>0, <1>10 DEF LoopExit, SubGoto, TypeOK, SubFrame, chanVars, mapVars, redisVars, netVars, listVars, subVars, pubVars,
            admVars, histVars
<1>11. ASSUME NEW c \in Conn, SubClose(c) PROVE HandlesOK'
  BY <1>0, <1>11 DEF SubClose, SubGoto, TypeOK, RedisTypeOK, SubFrame, chanVars, mapVars, redisVars, netVars, listVars, subVars, pubVars,
            admVars, histVars
<1>12. ASSUME Ended PROVE HandlesOK'
  BY <1>0, <1>12 DEF Ended, TypeOK, RedisTypeOK
<1>13. ASSUME NEW c \in Conn, SubPanic(c), ~Ended PROVE HandlesOK'
  BY <1>0, <1>13 DEF SubPanic, SubGoto, TypeOK, RedisTypeOK, SubFrame, chanVars, mapVars, redisVars, netVars, listVars, subVars, pubVars,
            admVars, histVars
<1>14. ASSUME NEW c \in Conn, PeerGone(c) PROVE HandlesOK'
  BY <1>0, <1>14 DEF PeerGone, TypeOK, RedisTypeOK, SubFrame, chanVars, mapVars, redisVars, netVars, listVars, subVars, pubVars,
            admVars, histVars
<1>15. ASSUME NEW p \in Pub, Store(p) PROVE HandlesOK'
  <2>1. PICK m \in Messages(p) : pubArg' = [pubArg EXCEPT ![p] = m]
    BY <1>15 DEF Store
  <2>2. pubArg[p] # Nil => m = pubArg[p]
    BY DEF Messages
  <2>. QED
    BY <1>0, <1>15, <2>1, <2>2 DEF Store, TypeOK, SubFrame, chanVars, mapVars, redisVars, netVars, listVars, subVars, pubVars,
            admVars, histVars
<1>16. ASSUME NEW p \in Pub, PubGet(p) PROVE HandlesOK'
  <2>1. PICK m \in Messages(p), o \in Chan \cup {Nil}, ok \in BOOLEAN :
          /\ Get(o, ok)
          /\ pubArg' = [pubArg EXCEPT ![p] = m]
          /\ pubRef' = [pubRef EXCEPT ![p] = o]
          /\ pubPC' = [pubPC EXCEPT ![p] = IF ok THEN "buf" ELSE "done"]
          /\ pubRet' = [pubRet EXCEPT ![p] = IF ok THEN @ ELSE "retGetChannel"]
    BY <1>16 DEF PubGet
  <2>2. /\ ok => o \in made
        /\ data' \in {data, Nil}
        /\ \A d \in Conn : sock'[d] \in {sock[d], "closed"}
        /\ UNCHANGED <<made, conn, redisPool>>
    BY <2>1, GetEffect DEF mapVars
  <2>3. m # Nil
    BY MessagesType, RedisServiceAssumption
  <2>. QED
    BY <1>0, <1>16, <2>1, <2>2, <2>3 DEF PubGet, TypeOK, subVars, admVars
<1>17. ASSUME NEW p \in Pub, PubBuf(p) PROVE HandlesOK'
  BY <1>0, <1>17 DEF PubBuf, TypeOK, SubFrame, chanVars, mapVars, redisVars, netVars, listVars, subVars, pubVars,
            admVars, histVars
<1>18. ASSUME NEW p \in Pub, PubPush(p) PROVE HandlesOK'
  BY <1>0, <1>18 DEF PubPush, PushMsg, TypeOK, SubFrame, chanVars, mapVars, redisVars, netVars, listVars, subVars, pubVars,
            admVars, histVars
<1>19. ASSUME NEW a \in Admin, AdmNew(a) PROVE HandlesOK'
  <2>1. PICK o \in Chan, t \in Token : /\ New(o) /\ admRef' = [admRef EXCEPT ![a] = o]
                                       /\ admArg' = [admArg EXCEPT ![a] = t]
    BY <1>19 DEF AdmNew
  <2>. QED
    BY <1>0, <1>19, <2>1, NewEffect DEF AdmNew, TypeOK, mapVars, netVars, subVars, pubVars
<1>20. ASSUME NEW a \in Admin, AdmToken(a) PROVE HandlesOK'
  <2>1. UNCHANGED <<mapVars, redisPool, netVars>>
    BY <1>20 DEF AdmToken, AddToken
  <2>. QED
    BY <1>0, <1>20, <2>1 DEF AdmToken, TypeOK, SubFrame, chanVars, mapVars, redisVars, netVars, listVars, subVars, pubVars,
            admVars, histVars
<1>21. ASSUME Tick \/ UNCHANGED vars PROVE HandlesOK'
  BY <1>0, <1>21 DEF Tick, vars, SubFrame, chanVars, mapVars, redisVars, netVars, listVars, subVars, pubVars,
            admVars, histVars
<1>. QED
  BY <1>1, <1>2, <1>3, <1>4, <1>5, <1>6, <1>7, <1>8, <1>9, <1>10, <1>11, <1>12, <1>13,
     <1>14, <1>15, <1>16, <1>17, <1>18, <1>19, <1>20, <1>21
     DEF Next, SubStep, LoopBroken, LoopTimeout, Crash, Terminated

-----------------------------------------------------------------------------
(***************************************************************************)
(* The inductive invariant, part by part.                                  *)
(***************************************************************************)


LEMMA MessagesStep ==
  TypeOK /\ MessagesOK /\ [Next]_vars => MessagesOK'
<1>. SUFFICES ASSUME TypeOK, MessagesOK, [Next]_vars PROVE MessagesOK'
  OBVIOUS
<1>0. \A e \in stored : e.m.Msg \in Pub /\ e.m \in MessageType
  BY DEF TypeOK, RedisTypeOK, Entry, MessageType
<1>1. ASSUME NEW p \in Pub, NEW m \in Messages(p), pubArg' = [pubArg EXCEPT ![p] = m],
             \/ stored' = stored
             \/ \E json \in BOOLEAN : stored' = stored \cup {[m |-> m, json |-> json]}
      PROVE  MessagesOK'
  <2>1. m \in MessageType /\ m.Msg = p /\ (pubArg[p] # Nil => m = pubArg[p])
    BY MessagesType DEF Messages
  <2>2. \A q \in Pub : pubArg[q] # Nil => pubArg'[q] = pubArg[q]
    BY <1>1, <2>1 DEF TypeOK
  <2>3. \A e \in stored : e.m = pubArg'[e.m.Msg]
    BY <1>0, <2>2, RedisServiceAssumption DEF MessagesOK
  <2>4. pubArg'[p] = m
    BY <1>1 DEF TypeOK
  <2>5. \A q \in Pub : pubArg'[q] # Nil => pubArg'[q] \in MessageType /\ pubArg'[q].Msg = q
    BY <1>1, <2>1, <2>4 DEF TypeOK, MessagesOK
  <2>. QED
    BY <1>1, <2>1, <2>3, <2>4, <2>5 DEF MessagesOK
<1>2. CASE \E p \in Pub : Store(p)
  BY <1>1, <1>2 DEF Store
<1>3. ASSUME NEW p \in Pub, PubGet(p) PROVE MessagesOK'
  <2>1. PICK m \in Messages(p), o \in Chan \cup {Nil}, ok \in BOOLEAN :
          /\ Get(o, ok)
          /\ pubArg' = [pubArg EXCEPT ![p] = m]
          /\ pubRef' = [pubRef EXCEPT ![p] = o]
          /\ pubPC' = [pubPC EXCEPT ![p] = IF ok THEN "buf" ELSE "done"]
          /\ pubRet' = [pubRet EXCEPT ![p] = IF ok THEN @ ELSE "retGetChannel"]
    BY <1>3 DEF PubGet
  <2>2. stored' = stored
    BY <2>1 DEF Get, Close, chanVars, redisVars
  <2>. QED
    BY <1>1, <2>1, <2>2
<1>4. CASE UNCHANGED <<pubArg, stored>>
  BY <1>4 DEF MessagesOK
<1>5. ASSUME NEW c \in Conn, SubGet(c) \/ SubNew(c) PROVE UNCHANGED <<pubArg, stored>>
  <2>1. CASE SubGet(c)
    <3>1. stored' = stored
      <4>1. ASSUME NEW o, NEW ok, Get(o, ok) PROVE stored' = stored
        BY <4>1 DEF Get, Close, chanVars, redisVars
      <4>. QED
        BY <2>1, <4>1 DEF SubGet
    <3>. QED
      BY <2>1, <3>1 DEF SubGet, pubVars
  <2>2. CASE SubNew(c)
    BY <2>2 DEF SubNew, New, SetDeadline, NewRedisChannel, redisVars, pubVars
  <2>. QED
    BY <1>5, <2>1, <2>2
<1>6. ASSUME NEW c \in Conn, SubAuth(c) \/ SubAdd(c) \/ SubDecr(c)
      PROVE  UNCHANGED <<pubArg, stored>>
  BY <1>6 DEF SubAuth, AuthToken, SubAdd, AddConn, SubDecr, RemoveConn, HincrBy, SubFrame,
     pubVars, redisVars
<1>7. ASSUME NEW c \in Conn, SubSend(c) \/ SubDrop(c) \/ SubRemove(c) \/ SubBuf(c)
      PROVE  UNCHANGED <<pubArg, stored>>
  BY <1>7 DEF SubSend, SendMsg, SubDrop, SubRemove, Delete, SubBuf, SubFrame, pubVars, redisVars
<1>8. ASSUME NEW c \in Conn,
             \/ Accept(c) \/ SubHello(c) \/ LoopExit(c) \/ SubPanic(c) \/ SubClose(c)
             \/ PeerGone(c)
      PROVE  UNCHANGED <<pubArg, stored>>
  BY <1>8 DEF Accept, SubHello, LoopExit, SubPanic, Ended, SubClose, PeerGone, SubFrame,
     chanVars, pubVars, redisVars
<1>9. ASSUME NEW p \in Pub, PubBuf(p) \/ PubPush(p) PROVE UNCHANGED <<pubArg, stored>>
  BY <1>9 DEF PubBuf, PubPush, PushMsg, redisVars
<1>10. ASSUME NEW a \in Admin, AdmNew(a) PROVE UNCHANGED <<pubArg, stored>>
  BY <1>10 DEF AdmNew, New, SetDeadline, NewRedisChannel, redisVars, pubVars
<1>11. ASSUME NEW a \in Admin, AdmToken(a) PROVE UNCHANGED <<pubArg, stored>>
  BY <1>11 DEF AdmToken, AddToken, pubVars
<1>12. ASSUME Ended \/ Tick \/ UNCHANGED vars PROVE UNCHANGED <<pubArg, stored>>
  BY <1>12 DEF Ended, Tick, vars, chanVars, redisVars, pubVars
<1>. QED
  <2>1. \/ \E p \in Pub : Store(p) \/ PubGet(p)
        \/ UNCHANGED <<pubArg, stored>>
    BY <1>5, <1>6, <1>7, <1>8, <1>9, <1>10, <1>11, <1>12
       DEF Next, SubStep, LoopBroken, LoopTimeout, Crash, Terminated
  <2>. QED
    BY <1>2, <1>3, <1>4, <2>1

-----------------------------------------------------------------------------
(***************************************************************************)
(* The steps that leave the map, the cursors, the writes and the counter   *)
(* alone.                                                                  *)
(***************************************************************************)
Quiet ==
  /\ UNCHANGED <<conn, last, sent, pushed, online>>
  /\ faults' >= faults
  /\ \A p \in Pub : pubArg[p] # Nil => pubArg'[p] = pubArg[p]
  /\ \A c \in Conn :
       /\ \/ subPC'[c] = subPC[c]
          \/ subPC[c] \in Early \ {"send"} /\ subPC'[c] \in Early \cup {"close", "done"}
          \/ subPC[c] = "loop" /\ subPC'[c] = "remove"
          \/ subPC[c] = "close" /\ subPC'[c] = "done"
          \/ subPC[c] = "panic" /\ subPC'[c] = "dead"
       /\ subPC[c] \notin {"init", "request", "new"} =>
            subRef'[c] = subRef[c] /\ subArg'[c] = subArg[c]
       /\ subPC[c] # "init" /\ sock'[c] = "open" => sock[c] = "open"

LEMMA QuietStep ==
  ASSUME TypeOK, HandlesOK, [Next]_vars
  PROVE  \/ Quiet
         \/ Ended
         \/ \E c \in Conn : \/ SubSend(c) \/ SubAdd(c) \/ SubDrop(c)
                            \/ SubRemove(c) \/ SubDecr(c)
         \/ \E p \in Pub : PubPush(p)
<1>. USE DEF TypeOK, RedisTypeOK, Quiet, Early
<1>1. ASSUME NEW c \in Conn,
             Accept(c) \/ SubHello(c) \/ LoopExit(c) \/ SubClose(c) \/ PeerGone(c)
      PROVE  Quiet
  BY <1>1 DEF Accept, SubHello, LoopExit, SubClose, PeerGone, SubGoto, SubFrame, chanVars,
     mapVars, redisVars, netVars, pubVars, histVars
<1>2. ASSUME NEW c \in Conn, SubGet(c) PROVE Quiet
  <2>1. PICK arg \in SubArg, o \in Chan \cup {Nil}, ok \in BOOLEAN :
          /\ Get(o, ok)
          /\ subArg' = [subArg EXCEPT ![c] = arg]
          /\ subRef' = [subRef EXCEPT ![c] = o]
    BY <1>2 DEF SubGet
  <2>2. subPC' = [subPC EXCEPT ![c] = subPC'[c]] /\ subPC'[c] \in Early \cup {"close", "done"}
    <3>1. ASSUME NEW k \in BOOLEAN
          PROVE  (CASE k /\ auth = 1 -> "auth" [] k /\ auth = 0 -> "hello"
                    [] ~k /\ auth = 1 -> "close" [] ~k /\ auth = 0 -> "new")
                   \in Early \cup {"close"}
      <4>1. CASE k
        BY <4>1
      <4>2. CASE ~k
        BY <4>2
      <4>. QED
        BY <4>1, <4>2
    <3>2. \E pc \in Early \cup {"close"} : subPC' = [subPC EXCEPT ![c] = pc]
      BY <1>2, <3>1 DEF SubGet, SubGoto
    <3>. QED
      BY <3>2
  <2>. QED
    <3>1. /\ UNCHANGED <<mapVars, redisVars, faults, sent>>
          /\ \A d \in Conn : sock'[d] \in {sock[d], "closed"}
      BY <2>1, GetEffect
    <3>. QED
      BY <1>2, <2>1, <2>2, <3>1 DEF SubGet, mapVars, redisVars, pubVars, histVars
<1>3. ASSUME NEW c \in Conn, SubNew(c) PROVE Quiet
  <2>1. PICK o \in Chan : New(o) /\ subRef' = [subRef EXCEPT ![c] = o]
    BY <1>3 DEF SubNew
  <2>. QED
    BY <1>3, <2>1, NewEffect
       DEF SubNew, SubGoto, mapVars, redisVars, netVars, pubVars, histVars
<1>4. ASSUME NEW c \in Conn, SubAuth(c) PROVE Quiet
  BY <1>4 DEF SubAuth, AuthToken, Do, SubGoto, SubFrame, mapVars, netVars, pubVars, histVars
<1>5. ASSUME NEW c \in Conn, SubBuf(c) PROVE Quiet
  BY <1>5 DEF SubBuf, SubGoto, mapVars, redisVars, netVars, pubVars, histVars
<1>6. ASSUME NEW c \in Conn, SubPanic(c), ~Ended PROVE Quiet
  BY <1>6 DEF SubPanic, SubGoto, SubFrame, mapVars, redisVars, netVars, pubVars, histVars
<1>7. ASSUME NEW p \in Pub, Store(p) PROVE Quiet
  <2>1. PICK m \in Messages(p) : pubArg' = [pubArg EXCEPT ![p] = m]
    BY <1>7 DEF Store
  <2>2. pubArg[p] # Nil => m = pubArg[p]
    BY DEF Messages
  <2>. QED
    BY <1>7, <2>1, <2>2 DEF Store, mapVars, netVars, subVars, histVars
<1>8. ASSUME NEW p \in Pub, PubGet(p) PROVE Quiet
  <2>1. PICK m \in Messages(p), o \in Chan \cup {Nil}, ok \in BOOLEAN :
          /\ Get(o, ok)
          /\ pubArg' = [pubArg EXCEPT ![p] = m]
          /\ pubRef' = [pubRef EXCEPT ![p] = o]
          /\ pubPC' = [pubPC EXCEPT ![p] = IF ok THEN "buf" ELSE "done"]
          /\ pubRet' = [pubRet EXCEPT ![p] = IF ok THEN @ ELSE "retGetChannel"]
    BY <1>8 DEF PubGet
  <2>2. pubArg[p] # Nil => m = pubArg[p]
    BY DEF Messages
  <2>. QED
    <3>1. /\ UNCHANGED <<mapVars, redisVars, faults, sent>>
          /\ \A d \in Conn : sock'[d] \in {sock[d], "closed"}
      BY <2>1, GetEffect
    <3>. QED
      BY <1>8, <2>1, <2>2, <3>1 DEF PubGet, mapVars, redisVars, subVars, histVars
<1>9. ASSUME NEW p \in Pub, PubBuf(p) PROVE Quiet
  BY <1>9 DEF PubBuf, mapVars, redisVars, netVars, subVars, histVars
<1>10. ASSUME NEW a \in Admin, AdmNew(a) PROVE Quiet
  <2>1. PICK o \in Chan : New(o)
    BY <1>10 DEF AdmNew
  <2>. QED
    BY <1>10, <2>1, NewEffect
       DEF AdmNew, mapVars, redisVars, netVars, subVars, pubVars, histVars
<1>11. ASSUME NEW a \in Admin, AdmToken(a) PROVE Quiet
  BY <1>11 DEF AdmToken, AddToken, Do, mapVars, netVars, subVars, pubVars, histVars
<1>12. ASSUME Tick \/ UNCHANGED vars PROVE Quiet
  BY <1>12 DEF Tick, vars, chanVars, mapVars, redisVars, netVars, subVars, pubVars, histVars
<1>. QED
  BY <1>1, <1>2, <1>3, <1>4, <1>5, <1>6, <1>7, <1>8, <1>9, <1>10, <1>11, <1>12
     DEF Next, SubStep, LoopBroken, LoopTimeout, Crash, Terminated

-----------------------------------------------------------------------------
(***************************************************************************)
(* What the other steps do.                                                *)
(***************************************************************************)

\* SubSend: only c's cursor and writes, from the messages above its mid.
LEMMA SendEffect ==
  ASSUME TypeOK, HandlesOK, MessagesOK, NEW c \in Conn, SubSend(c)
  PROVE  /\ \E err \in Error :
              /\ conn' = IF err \in {OK, Panic} THEN [conn EXCEPT ![subRef[c]] = @ \cup {c}]
                         ELSE conn
              /\ err \in {OK, Panic} => ~Full(subRef[c])
              /\ subPC'[c] = CASE err = OK -> "add" [] err = Panic -> "panic"
                               [] OTHER -> "close"
              /\ err = OK =>
                   \E M \in SUBSET MessageType :
                     /\ \A m \in M : pubArg[m.Msg] = m
                     /\ \A p \in Pub : sent'[c][p] > sent[c][p] <=> \E m \in M : m.Msg = p
                     /\ last'[c] \in LastOf(M, subArg[c].mid)
         /\ \A q \in Pub : sent'[c][q] > sent[c][q] => pubArg[q] # Nil
         /\ \A d \in Conn \ {c} : /\ subPC'[d] = subPC[d]
                                  /\ last'[d] = last[d]
                                  /\ \A q \in Pub : sent'[d][q] = sent[d][q]
         /\ UNCHANGED <<subRef, subArg, pushed, pubArg, sock, online>>
         /\ faults' >= faults
<1>1. /\ subPC[c] = "send"
      /\ subRef[c] \in Chan /\ subArg[c].mid \in Int
  BY RedisServiceAssumption DEF SubSend, HandlesOK, SubArg, TypeOK
<1>2. PICK err \in Error :
        /\ SendMsg(subRef[c], c, subArg[c].mid, err)
        /\ subPC' = [subPC EXCEPT ![c] =
             CASE err = OK -> "add" [] err = Panic -> "panic" [] OTHER -> "close"]
  BY DEF SubSend, SubGoto
<1>3. /\ conn' = IF err \in {OK, Panic} THEN [conn EXCEPT ![subRef[c]] = @ \cup {c}] ELSE conn
      /\ err \in {OK, Panic} => ~Full(subRef[c])
      /\ UNCHANGED <<redisVars, sock>>
  BY <1>1, <1>2, SendConn
<1>4. faults' >= faults
  BY <1>2 DEF SendMsg, Do, TypeOK, RedisTypeOK
<1>5. PICK M \in SUBSET MessageType :
        /\ \A m \in M : pubArg[m.Msg] = m
        /\ \A d \in Conn, q \in Pub :
             /\ sent'[d][q] > sent[d][q] <=> d = c /\ \E m \in M : m.Msg = q
             /\ ~(d = c /\ \E m \in M : m.Msg = q) => sent'[d][q] = sent[d][q]
        /\ \A d \in Conn \ {c} : last'[d] = last[d]
        /\ err = OK => last'[c] \in LastOf(M, subArg[c].mid)
  <2>1. CASE UNCHANGED <<mapVars, sent>> /\ err # OK
    <3>1. /\ last' = last /\ sent' = sent
          /\ \A d \in Conn, q \in Pub : sent[d][q] \in Nat
      BY <2>1 DEF mapVars, TypeOK, RedisTypeOK
    <3>2. \A d \in Conn, q \in Pub : ~(sent'[d][q] > sent[d][q])
      BY <3>1
    <3>3. {} \in SUBSET MessageType /\ \A m \in {} : pubArg[m.Msg] = m
      OBVIOUS
    <3>. QED
      BY <2>1, <3>1, <3>2, <3>3
  <2>2. CASE Walk(subRef[c], c, subArg[c].mid, err)
    <3>1. PICK T \in SUBSET InRange(subArg[c].mid) :
            /\ sent' = Deliver({c}, Live(T))
            /\ \/ last' = last /\ err # OK
               \/ /\ err # OK
                  /\ last' = [last EXCEPT ![c] = subArg[c].mid]
               \/ \E id \in LastOf(Live(T), subArg[c].mid) : last' = [last EXCEPT ![c] = id]
      BY <2>2 DEF Walk, Prefixes, Register, mapVars, OK, WriteErr, Panic
    <3>2. Live(T) \in SUBSET MessageType /\ \A m \in Live(T) : pubArg[m.Msg] = m
      BY <3>1 DEF Live, InRange, TypeOK, RedisTypeOK, Entry, MessagesOK
    <3>3. \A d \in Conn, q \in Pub :
            /\ sent'[d][q] > sent[d][q] <=> d = c /\ \E m \in Live(T) : m.Msg = q
            /\ ~(d = c /\ \E m \in Live(T) : m.Msg = q) => sent'[d][q] = sent[d][q]
      <4>1. \A d \in Conn, q \in Pub :
              /\ sent'[d][q] > sent[d][q] <=> d \in {c} /\ \E m \in Live(T) : m.Msg = q
              /\ ~(d \in {c} /\ \E m \in Live(T) : m.Msg = q) => sent'[d][q] = sent[d][q]
        <5>1. sent' = Deliver({c}, Live(T))
          BY <3>1
        <5>2. \A d \in Conn, q \in Pub : sent[d][q] \in Nat
          BY DEF TypeOK, RedisTypeOK
        <5>. QED
          BY ONLY <5>1, <5>2 DEF Deliver
      <4>. QED
        BY <4>1
    <3>4. /\ \A d \in Conn \ {c} : last'[d] = last[d]
          /\ err = OK => last'[c] \in LastOf(Live(T), subArg[c].mid)
      BY <3>1 DEF TypeOK, RedisTypeOK
    <3>. QED
      BY <3>2, <3>3, <3>4
  <2>. QED
    BY <1>2, <2>1, <2>2
       DEF SendMsg, Do, OK, MaxConnErr, RedisErr, RedisNoConnErr
<1>6. /\ subPC'[c] = CASE err = OK -> "add" [] err = Panic -> "panic" [] OTHER -> "close"
      /\ \A d \in Conn \ {c} : subPC'[d] = subPC[d]
  BY <1>2 DEF TypeOK
<1>7. \A q \in Pub : sent'[c][q] > sent[c][q] => pubArg[q] # Nil
  BY <1>5, RedisServiceAssumption
<1>8. UNCHANGED <<subRef, subArg, pushed, pubArg, online>>
  BY <1>3 DEF SubSend, SubFrame, pubVars, redisVars
<1>9. err = OK =>
        \E N \in SUBSET MessageType :
          /\ \A m \in N : pubArg[m.Msg] = m
          /\ \A p \in Pub : sent'[c][p] > sent[c][p] <=> \E m \in N : m.Msg = p
          /\ last'[c] \in LastOf(N, subArg[c].mid)
  BY <1>5
<1>10. \A d \in Conn \ {c} : /\ subPC'[d] = subPC[d]
                             /\ last'[d] = last[d]
                             /\ \A q \in Pub : sent'[d][q] = sent[d][q]
  BY <1>5, <1>6
<1>. QED
  BY <1>3, <1>4, <1>6, <1>7, <1>8, <1>9, <1>10

LEMMA PushEffect ==
  ASSUME TypeOK, HandlesOK, MessagesOK, NEW p \in Pub, PubPush(p)
  PROVE  \E W \in Written(Newer(pubRef[p], pubArg[p].MsgID)) :
           /\ \A c \in Conn, q \in Pub :
                /\ sent'[c][q] >= sent[c][q]
                /\ sent'[c][q] > sent[c][q] <=> c \in W /\ q = p
           /\ last' = [c \in Conn |-> IF c \in W THEN pubArg[p].MsgID ELSE last[c]]
           /\ pushed' = [c \in Conn |->
                IF subPC[c] \in {"add", "loop"} /\ subRef[c] = pubRef[p]
                  THEN pushed[c] \cup {p} ELSE pushed[c]]
           /\ pubArg[p] \in MessageType
           /\ UNCHANGED <<conn, subPC, subRef, subArg, pubArg, sock, online, faults>>
<1>1. pubRef[p] \in Chan /\ pubArg[p] \in MessageType
  BY DEF PubPush, HandlesOK, TypeOK
<1>2. PICK W \in Written(Newer(pubRef[p], pubArg[p].MsgID)) :
        /\ sent' = Deliver(W, {pubArg[p]})
        /\ last' = [c \in Conn |-> IF c \in W THEN pubArg[p].MsgID ELSE last[c]]
  BY DEF PubPush, PushMsg
<1>3. pubArg[p].Msg = p
  BY DEF PubPush, HandlesOK, MessagesOK
<1>4. \A c \in Conn, q \in Pub :
        /\ sent'[c][q] >= sent[c][q]
        /\ sent'[c][q] > sent[c][q] <=> c \in W /\ q = p
  <2>1. \A c \in Conn, q \in Pub :
          /\ sent'[c][q] >= sent[c][q]
          /\ sent'[c][q] > sent[c][q] <=> c \in W /\ \E m \in {pubArg[p]} : m.Msg = q
    <3>1. sent' = Deliver(W, {pubArg[p]})
      BY <1>2
    <3>2. \A c \in Conn, q \in Pub : sent[c][q] \in Nat
      BY DEF TypeOK, RedisTypeOK
    <3>. QED
      BY ONLY <3>1, <3>2 DEF Deliver
  <2>. QED
    BY <1>3, <2>1
<1>. QED
  BY <1>1, <1>2, <1>4 DEF PubPush, PushMsg, redisVars, subVars

\* SubDrop, SubRemove, SubAdd and SubDecr: the map, or the counter.
LEMMA LeaveEffect ==
  ASSUME TypeOK, HandlesOK, NEW c \in Conn, SubDrop(c) \/ SubRemove(c)
  PROVE  /\ conn' = [conn EXCEPT ![subRef[c]] = @ \ {c}]
         /\ subRef[c] \in Chan
         /\ \/ subPC[c] = "drop" /\ subPC' = [subPC EXCEPT ![c] = "close"]
            \/ subPC[c] = "remove" /\ subPC' = [subPC EXCEPT ![c] = "decr"]
         /\ UNCHANGED <<subRef, subArg, pubArg, pushed, last, sent, sock, online, faults>>
<1>1. subRef[c] \in Chan
  BY DEF SubDrop, SubRemove, HandlesOK, Served, Mapped, TypeOK
<1>. QED
  BY <1>1 DEF SubDrop, SubRemove, Delete, SubGoto, SubFrame, histVars, pubVars, redisVars,
     netVars

LEMMA CountEffect ==
  ASSUME TypeOK, HandlesOK, NEW c \in Conn, SubAdd(c) \/ SubDecr(c)
  PROVE  /\ \/ /\ subPC[c] = "add" /\ subPC' = [subPC EXCEPT ![c] = "loop"]
               /\ online' = online + 1
            \/ /\ subPC[c] = "add" /\ subPC' = [subPC EXCEPT ![c] = "drop"]
               /\ online' \in {online, online + 1} /\ faults' > 0
            \/ /\ subPC[c] = "decr" /\ subPC' = [subPC EXCEPT ![c] = "close"]
               /\ \/ online' = online - 1
                  \/ online' = online /\ faults' > 0
         /\ faults' >= faults
         /\ UNCHANGED <<conn, subRef, subArg, pubArg, pushed, last, sent, sock>>
<1>1. getRedisConn
  BY DEF HandlesOK, Served, Mapped, SubAdd, SubDecr
<1>2. CASE SubAdd(c)
  <2>1. PICK err \in Error :
          /\ HincrBy(1, err)
          /\ subPC' = [subPC EXCEPT ![c] = IF err = OK THEN "loop" ELSE "drop"]
    BY <1>2 DEF SubAdd, AddConn, SubGoto
  <2>. QED
    <3>1. /\ online' \in {online, online + 1} /\ faults' >= faults
          /\ err = OK => online' = online + 1
          /\ err # OK => faults' > 0
          /\ UNCHANGED <<mapVars, netVars>>
      BY <1>1, <2>1, HincrByEffect
    <3>2. subPC[c] = "add" /\ UNCHANGED <<subRef, subArg, pubArg, pushed>>
      BY <1>2 DEF SubAdd, SubFrame, pubVars, histVars
    <3>3. CASE err = OK
      BY <2>1, <3>1, <3>2, <3>3 DEF mapVars, netVars
    <3>4. CASE err # OK
      BY <2>1, <3>1, <3>2, <3>4 DEF mapVars, netVars
    <3>. QED
      BY <3>3, <3>4
<1>3. CASE SubDecr(c)
  <2>1. PICK err \in Error : HincrBy(-1, err)
    BY <1>3 DEF SubDecr, RemoveConn
  <2>2. online + (-1) = online - 1
    BY DEF TypeOK, RedisTypeOK
  <2>. QED
    BY <1>1, <1>3, <2>1, <2>2, HincrByEffect
       DEF SubDecr, SubGoto, SubFrame, mapVars, netVars, pubVars, histVars
<1>. QED
  BY <1>2, <1>3

\* The end of the process empties the map and leaves no handler running.
LEMMA EndedEffect ==
  ASSUME TypeOK, Ended
  PROVE  /\ \A o \in Chan : conn'[o] = {}
         /\ \A c \in Conn : subPC'[c] \in {"init", "done"} /\ (subPC'[c] = "init" => subPC[c] = "init")
         /\ faults' > 0
         /\ UNCHANGED <<subRef, subArg, pubArg, pushed, last, sent, online>>
  BY DEF Ended, TypeOK, RedisTypeOK, redisVars, histVars

-----------------------------------------------------------------------------
(***************************************************************************)
(* The parts of the invariant: one step per kind of step.                  *)
(***************************************************************************)
LEMMA RegisteredStep ==
  TypeOK /\ HandlesOK /\ MessagesOK /\ RegisteredExactly /\ [Next]_vars => RegisteredExactly'
<1>. SUFFICES ASSUME TypeOK, HandlesOK, MessagesOK, RegisteredExactly, [Next]_vars
              PROVE  RegisteredExactly'
  OBVIOUS
<1>0. /\ conn \in [Chan -> SUBSET Conn]
      /\ subPC \in [Conn -> SubState]
      /\ subRef \in [Conn -> Chan \cup {Nil}]
  BY DEF TypeOK, RedisTypeOK
<1>1. CASE Quiet
  BY <1>1 DEF Quiet, Early, RegisteredExactly
<1>2. CASE Ended
  BY <1>2, EndedEffect DEF RegisteredExactly
<1>3. ASSUME NEW c \in Conn, SubSend(c) PROVE RegisteredExactly'
  <2>1. PICK err \in Error :
          /\ conn' = IF err \in {OK, Panic} THEN [conn EXCEPT ![subRef[c]] = @ \cup {c}] ELSE conn
          /\ subPC'[c] = CASE err = OK -> "add" [] err = Panic -> "panic" [] OTHER -> "close"
          /\ \A d \in Conn \ {c} : subPC'[d] = subPC[d]
          /\ subRef' = subRef
    BY <1>3, SendEffect
  <2>2. /\ subPC[c] = "send" /\ subRef[c] \in Chan
    BY <1>3 DEF SubSend, HandlesOK, TypeOK
  <2>3. subPC'[c] \in {"add", "panic"} <=> err \in {OK, Panic}
    BY <2>1
  <2>4. subPC'[c] \in {"add", "panic", "close"}
    BY <2>1
  <2>5. \A d \in Conn, o \in Chan :
          d \in conn'[o] <=> d \in conn[o] \/ (d = c /\ o = subRef[c] /\ err \in {OK, Panic})
    BY <1>0, <2>1, <2>2
  <2>. QED
    BY <2>1, <2>2, <2>3, <2>4, <2>5 DEF RegisteredExactly
<1>4. ASSUME NEW c \in Conn, SubDrop(c) \/ SubRemove(c) PROVE RegisteredExactly'
  BY <1>0, <1>4, LeaveEffect DEF RegisteredExactly
<1>5. ASSUME NEW c \in Conn, SubAdd(c) \/ SubDecr(c) PROVE RegisteredExactly'
  BY <1>0, <1>5, CountEffect DEF RegisteredExactly
<1>6. ASSUME NEW p \in Pub, PubPush(p) PROVE RegisteredExactly'
  BY <1>6, PushEffect DEF RegisteredExactly
<1>. QED
  BY <1>1, <1>2, <1>3, <1>4, <1>5, <1>6, QuietStep

LEMMA CursorStep ==
  /\ TypeOK /\ HandlesOK /\ MessagesOK /\ RegisteredExactly /\ CursorOK /\ [Next]_vars
  => CursorOK'
<1>. SUFFICES ASSUME TypeOK, HandlesOK, MessagesOK, RegisteredExactly, CursorOK, [Next]_vars
              PROVE  CursorOK'
  OBVIOUS
<1>0. /\ \A c \in Conn, q \in Pub : sent[c][q] \in Nat
      /\ \A c \in Conn : last[c] \in Int
      /\ \A q \in Pub : pubArg[q] # Nil => pubArg[q].MsgID \in Int
      /\ subPC \in [Conn -> SubState]
  BY DEF TypeOK, RedisTypeOK, MessageType
<1>1. CASE Quiet
  BY <1>1 DEF Quiet, CursorOK, Early, Mapped
<1>2. CASE Ended
  BY <1>2, EndedEffect DEF CursorOK, Early, Mapped
<1>3. ASSUME NEW c \in Conn, SubSend(c) PROVE CursorOK'
  <2>0. subPC[c] = "send" /\ \A q \in Pub : sent[c][q] = 0
    BY <1>3 DEF SubSend, CursorOK, Early
  <2>1. PICK err \in Error :
          /\ subPC'[c] = CASE err = OK -> "add" [] err = Panic -> "panic" [] OTHER -> "close"
          /\ err = OK =>
               \E M \in SUBSET MessageType :
                 /\ \A m \in M : pubArg[m.Msg] = m
                 /\ \A p \in Pub : sent'[c][p] > sent[c][p] <=> \E m \in M : m.Msg = p
                 /\ last'[c] \in LastOf(M, subArg[c].mid)
    BY <1>3, SendEffect
  <2>2. /\ UNCHANGED <<subArg, pushed, pubArg>>
        /\ \A q \in Pub : sent'[c][q] > sent[c][q] => pubArg[q] # Nil
        /\ \A d \in Conn \ {c} : /\ subPC'[d] = subPC[d]
                                 /\ last'[d] = last[d]
                                 /\ \A q \in Pub : sent'[d][q] = sent[d][q]
    BY <1>3, SendEffect
  <2>3. subPC'[c] \in {"add", "panic", "close"} /\ (subPC'[c] = "add" => err = OK)
    BY <2>1
  <2>4. ASSUME err = OK
        PROVE  /\ \A q \in Pub : sent'[c][q] > 0 => pubArg[q].MsgID <= last'[c]
               /\ \/ last'[c] = subArg[c].mid
                  \/ \E q \in Pub : sent'[c][q] > 0 /\ last'[c] = pubArg[q].MsgID
    <3>1. PICK M \in SUBSET MessageType :
            /\ \A m \in M : pubArg[m.Msg] = m
            /\ \A p \in Pub : sent'[c][p] > 0 <=> \E m \in M : m.Msg = p
            /\ last'[c] \in LastOf(M, subArg[c].mid)
      BY <2>0, <2>1, <2>4
    <3>2. CASE M = {}
      BY <3>1, <3>2 DEF LastOf
    <3>3. CASE M # {}
      <4>1. PICK n \in M : last'[c] = n.MsgID /\ \A m \in M : m.MsgID <= last'[c]
        BY <3>1, <3>3 DEF LastOf
      <4>2. n.Msg \in Pub
        BY <3>1 DEF MessageType
      <4>. QED
        BY <3>1, <4>1, <4>2
    <3>. QED
      BY <3>2, <3>3
  <2>5. \A q \in Pub : sent'[c][q] > 0 => pubArg[q] # Nil
    BY <2>0, <2>2
  <2>6. ASSUME NEW d \in Conn
        PROVE  /\ \A q \in Pub : sent'[d][q] > 0 => pubArg'[q] # Nil
               /\ subPC'[d] \in Early => /\ pushed'[d] = {}
                                         /\ \A q \in Pub : sent'[d][q] = 0
               /\ subPC'[d] \in Mapped =>
                    /\ \A q \in Pub : sent'[d][q] > 0 => pubArg'[q].MsgID <= last'[d]
                    /\ \/ last'[d] = subArg'[d].mid
                       \/ \E q \in Pub : sent'[d][q] > 0 /\ last'[d] = pubArg'[q].MsgID
    <3>1. CASE d = c
      BY <2>2, <2>3, <2>4, <2>5, <3>1 DEF Early, Mapped
    <3>2. CASE d # c
      BY <2>2, <3>2 DEF CursorOK
    <3>. QED
      BY <3>1, <3>2
  <2>. QED
    BY <2>6 DEF CursorOK
<1>4. ASSUME NEW c \in Conn, SubDrop(c) \/ SubRemove(c) PROVE CursorOK'
  BY <1>0, <1>4, LeaveEffect DEF CursorOK, Early, Mapped
<1>5. ASSUME NEW c \in Conn, SubAdd(c) \/ SubDecr(c) PROVE CursorOK'
  BY <1>0, <1>5, CountEffect DEF CursorOK, Early, Mapped
<1>6. ASSUME NEW p \in Pub, PubPush(p) PROVE CursorOK'
  <2>1. PICK W \in Written(Newer(pubRef[p], pubArg[p].MsgID)) :
          /\ \A c \in Conn, q \in Pub :
               /\ sent'[c][q] >= sent[c][q]
               /\ sent'[c][q] > sent[c][q] <=> c \in W /\ q = p
          /\ last' = [c \in Conn |-> IF c \in W THEN pubArg[p].MsgID ELSE last[c]]
          /\ pushed' = [c \in Conn |->
               IF subPC[c] \in {"add", "loop"} /\ subRef[c] = pubRef[p]
                 THEN pushed[c] \cup {p} ELSE pushed[c]]
          /\ pubArg[p] \in MessageType
          /\ UNCHANGED <<subPC, subArg, pubArg>>
    BY <1>6, PushEffect
  <2>3. pubRef[p] \in Chan
    BY <1>6 DEF PubPush, HandlesOK, TypeOK
  <2>2. \A c \in W : c \in Conn /\ c \in conn[pubRef[p]] /\ last[c] < pubArg[p].MsgID
    <3>1. W \subseteq Newer(pubRef[p], pubArg[p].MsgID)
      BY <2>1 DEF Written
    <3>. QED
      BY <2>3, <3>1 DEF Newer, TypeOK, RedisTypeOK
  <2>4. \A c \in W : subPC[c] \notin Early
    BY <2>2, <2>3 DEF RegisteredExactly, Early
  <2>5. pubArg[p] # Nil
    BY <2>1, RedisServiceAssumption
  <2>6. \A c \in Conn, q \in Pub : sent'[c][q] \in Nat
    BY TypeStep DEF TypeOK, RedisTypeOK
  <2>7. ASSUME NEW c \in Conn
        PROVE  /\ \A q \in Pub : sent'[c][q] > 0 => pubArg'[q] # Nil
               /\ subPC'[c] \in Early => /\ pushed'[c] = {}
                                         /\ \A q \in Pub : sent'[c][q] = 0
               /\ subPC'[c] \in Mapped =>
                    /\ \A q \in Pub : sent'[c][q] > 0 => pubArg'[q].MsgID <= last'[c]
                    /\ \/ last'[c] = subArg'[c].mid
                       \/ \E q \in Pub : sent'[c][q] > 0 /\ last'[c] = pubArg'[q].MsgID
    <3>1. \A q \in Pub : sent'[c][q] > 0 => sent[c][q] > 0 \/ (c \in W /\ q = p)
      BY <1>0, <2>1, <2>6
    <3>2. CASE c \in W
      <4>1. last'[c] = pubArg[p].MsgID /\ last[c] < pubArg[p].MsgID /\ sent'[c][p] > 0
        BY <1>0, <2>1, <2>2, <2>6, <3>2
      <4>2. \A q \in Pub : sent'[c][q] > 0 => pubArg[q] # Nil
        BY <2>5, <3>1 DEF CursorOK
      <4>3. subPC[c] \in Mapped =>
              \A q \in Pub : sent'[c][q] > 0 => pubArg[q].MsgID <= last'[c]
        BY <1>0, <2>5, <3>1, <4>1, <4>2 DEF CursorOK
      <4>. QED
        BY <2>1, <2>4, <3>2, <4>1, <4>2, <4>3
    <3>3. CASE c \notin W
      <4>1. \A q \in Pub : sent'[c][q] = sent[c][q]
        <5>1. ASSUME NEW q \in Pub PROVE sent'[c][q] = sent[c][q]
          <6>1. sent'[c][q] >= sent[c][q] /\ ~(sent'[c][q] > sent[c][q])
            BY <2>1, <3>3
          <6>. QED
            BY <1>0, <2>6, <6>1
        <5>. QED
          BY <5>1
      <4>2. last'[c] = last[c] /\ (subPC[c] \in Early => pushed'[c] = pushed[c])
        BY <2>1, <3>3 DEF Early
      <4>3. UNCHANGED <<subPC, subArg, pubArg>>
        BY <2>1
      <4>. QED
        BY <4>1, <4>2, <4>3 DEF CursorOK
    <3>. QED
      BY <3>2, <3>3
  <2>. QED
    BY <2>7 DEF CursorOK
<1>. QED
  BY <1>1, <1>2, <1>3, <1>4, <1>5, <1>6, QuietStep

LEMMA PushedStep ==
  TypeOK /\ HandlesOK /\ MessagesOK /\ PushedOK /\ [Next]_vars => PushedOK'
<1>. SUFFICES ASSUME TypeOK, HandlesOK, MessagesOK, PushedOK, [Next]_vars PROVE PushedOK'
  OBVIOUS
<1>1. CASE Quiet
  BY <1>1 DEF Quiet, PushedOK
<1>2. CASE Ended
  BY <1>2, EndedEffect DEF PushedOK
<1>3. ASSUME NEW c \in Conn, SubSend(c) PROVE PushedOK'
  BY <1>3, SendEffect DEF PushedOK
<1>4. ASSUME NEW c \in Conn, SubDrop(c) \/ SubRemove(c) PROVE PushedOK'
  BY <1>4, LeaveEffect DEF PushedOK
<1>5. ASSUME NEW c \in Conn, SubAdd(c) \/ SubDecr(c) PROVE PushedOK'
  BY <1>5, CountEffect DEF PushedOK
<1>6. ASSUME NEW p \in Pub, PubPush(p) PROVE PushedOK'
  BY <1>6, PushEffect, RedisServiceAssumption DEF PushedOK
<1>. QED
  BY <1>1, <1>2, <1>3, <1>4, <1>5, <1>6, QuietStep

LEMMA BoundStep ==
  ASSUME NEW S, NEW T, NEW x, IsFiniteSet(S), T \subseteq S \cup {x},
         Cardinality(S) <= IF MaxSubscriberPerKey > 0 THEN MaxSubscriberPerKey ELSE 0,
         T \subseteq S \/ Cardinality(S) + 1 <= MaxSubscriberPerKey
  PROVE  /\ IsFiniteSet(T)
         /\ Cardinality(T) <= IF MaxSubscriberPerKey > 0 THEN MaxSubscriberPerKey ELSE 0
<1>1. Cardinality(S) \in Nat
  BY FS_CardinalityType
<1>2. CASE T \subseteq S
  <2>1. IsFiniteSet(T) /\ Cardinality(T) <= Cardinality(S)
    BY <1>2, FS_Subset
  <2>2. Cardinality(T) \in Nat
    BY <2>1, FS_CardinalityType
  <2>. QED
    BY <1>1, <2>1, <2>2, RedisAssumption
<1>3. CASE Cardinality(S) + 1 <= MaxSubscriberPerKey
  <2>1. IsFiniteSet(S \cup {x}) /\ Cardinality(S \cup {x}) <= Cardinality(S) + 1
    BY <1>1, FS_AddElement
  <2>2. IsFiniteSet(T) /\ Cardinality(T) <= Cardinality(S \cup {x})
    BY <2>1, FS_Subset
  <2>3. Cardinality(T) \in Nat /\ Cardinality(S \cup {x}) \in Nat
    BY <2>1, <2>2, FS_CardinalityType
  <2>. QED
    BY <1>1, <1>3, <2>1, <2>2, <2>3, RedisAssumption
<1>. QED
  BY <1>2, <1>3

LEMMA BoundedStep ==
  /\ TypeOK /\ HandlesOK /\ MessagesOK /\ CountsOK /\ [Next]_vars
  => SubscribersBounded' /\ \A o \in Chan : IsFiniteSet(conn'[o])
<1>. SUFFICES ASSUME TypeOK, HandlesOK, MessagesOK, CountsOK, [Next]_vars, NEW o \in Chan
              PROVE  /\ IsFiniteSet(conn'[o])
                     /\ Cardinality(conn'[o]) <=
                          IF MaxSubscriberPerKey > 0 THEN MaxSubscriberPerKey ELSE 0
  BY DEF SubscribersBounded
<1>0. /\ IsFiniteSet(conn[o])
      /\ Cardinality(conn[o]) <= IF MaxSubscriberPerKey > 0 THEN MaxSubscriberPerKey ELSE 0
      /\ conn \in [Chan -> SUBSET Conn]
  BY DEF CountsOK, SubscribersBounded, TypeOK, RedisTypeOK
<1>1. CASE conn'[o] \subseteq conn[o]
  BY <1>0, <1>1, BoundStep
<1>2. ASSUME NEW c \in Conn, SubSend(c), ~(conn'[o] \subseteq conn[o])
      PROVE  conn'[o] \subseteq conn[o] \cup {c} /\ Cardinality(conn[o]) + 1 <= MaxSubscriberPerKey
  <2>1. PICK err \in Error :
          /\ conn' = IF err \in {OK, Panic} THEN [conn EXCEPT ![subRef[c]] = @ \cup {c}] ELSE conn
          /\ err \in {OK, Panic} => ~Full(subRef[c])
    BY <1>2, SendEffect
  <2>2. err \in {OK, Panic} /\ subRef[c] = o
    BY <1>0, <1>2, <2>1
  <2>3. Cardinality(conn[o]) \in Nat
    BY <1>0, FS_CardinalityType
  <2>. QED
    BY <1>0, <2>1, <2>2, <2>3, RedisAssumption DEF Full
<1>3. \/ conn'[o] \subseteq conn[o]
      \/ \E c \in Conn : SubSend(c)
  <2>1. ASSUME NEW c \in Conn, SubDrop(c) \/ SubRemove(c) PROVE conn'[o] \subseteq conn[o]
    BY <1>0, <2>1, LeaveEffect
  <2>2. ASSUME NEW c \in Conn, SubAdd(c) \/ SubDecr(c) PROVE conn'[o] \subseteq conn[o]
    BY <2>2, CountEffect
  <2>3. ASSUME NEW p \in Pub, PubPush(p) PROVE conn'[o] \subseteq conn[o]
    BY <2>3, PushEffect
  <2>4. ASSUME Ended PROVE conn'[o] \subseteq conn[o]
    BY <2>4, EndedEffect
  <2>5. ASSUME Quiet PROVE conn'[o] \subseteq conn[o]
    BY <2>5 DEF Quiet
  <2>. QED
    BY <2>1, <2>2, <2>3, <2>4, <2>5, QuietStep
<1>. QED
  BY <1>0, <1>1, <1>2, <1>3, BoundStep

LEMMA OnlineStep ==
  /\ TypeOK /\ HandlesOK /\ MessagesOK /\ CountsOK /\ [Next]_vars
  => OnlineCount' /\ IsFiniteSet(Counted')
<1>. SUFFICES ASSUME TypeOK, HandlesOK, MessagesOK, CountsOK, [Next]_vars
              PROVE  OnlineCount' /\ IsFiniteSet(Counted')
  OBVIOUS
<1>0. /\ IsFiniteSet(Counted) /\ Cardinality(Counted) \in Nat
      /\ online \in Int /\ online >= Cardinality(Counted)
      /\ faults = 0 => online = Cardinality(Counted)
      /\ subPC \in [Conn -> SubState]
      /\ faults \in Nat
  BY FS_CardinalityType DEF CountsOK, OnlineCount, TypeOK, RedisTypeOK
<1>01. faults' \in Nat
  BY TypeStep DEF TypeOK, RedisTypeOK
<1>1. ASSUME Counted' = Counted, online' = online, faults' >= faults
      PROVE  OnlineCount' /\ IsFiniteSet(Counted')
  BY <1>0, <1>01, <1>1 DEF OnlineCount
<1>2. CASE Quiet
  BY <1>1, <1>2 DEF Quiet, Early, Counted
<1>3. CASE Ended
  <2>1. Counted' = {} /\ online' = online /\ faults' > 0
    BY <1>3, EndedEffect DEF Counted
  <2>. QED
    BY <1>0, <1>01, <2>1, FS_EmptySet DEF OnlineCount
<1>4. ASSUME NEW c \in Conn, SubSend(c) PROVE OnlineCount' /\ IsFiniteSet(Counted')
  <2>1. PICK err \in Error :
          subPC'[c] = CASE err = OK -> "add" [] err = Panic -> "panic" [] OTHER -> "close"
    BY <1>4, SendEffect
  <2>2. subPC'[c] \in {"add", "panic", "close"} /\ subPC[c] = "send"
    BY <1>4, <2>1 DEF SubSend
  <2>3. /\ \A d \in Conn \ {c} : subPC'[d] = subPC[d]
        /\ online' = online /\ faults' >= faults
    BY <1>4, SendEffect
  <2>. QED
    BY <1>1, <2>2, <2>3 DEF Counted
<1>5. ASSUME NEW c \in Conn, SubDrop(c) \/ SubRemove(c)
      PROVE  OnlineCount' /\ IsFiniteSet(Counted')
  <2>1. Counted' = Counted
    BY <1>0, <1>5, LeaveEffect DEF Counted
  <2>2. online' = online /\ faults' = faults
    BY <1>5, LeaveEffect
  <2>. QED
    BY <1>0, <1>1, <2>1, <2>2
<1>6. ASSUME NEW c \in Conn, SubAdd(c) \/ SubDecr(c) PROVE OnlineCount' /\ IsFiniteSet(Counted')
  <2>0. faults' >= faults
    BY <1>6, CountEffect
  <2>1. CASE /\ subPC[c] = "add" /\ subPC' = [subPC EXCEPT ![c] = "loop"]
             /\ online' = online + 1
    <3>1. Counted' = Counted \cup {c} /\ c \notin Counted
      BY <1>0, <2>1 DEF Counted
    <3>2. IsFiniteSet(Counted') /\ Cardinality(Counted') = Cardinality(Counted) + 1
      BY <1>0, <3>1, FS_AddElement
    <3>. QED
      BY <1>0, <1>01, <2>0, <2>1, <3>2 DEF OnlineCount
  <2>2. CASE /\ subPC[c] = "add" /\ subPC' = [subPC EXCEPT ![c] = "drop"]
             /\ online' \in {online, online + 1} /\ faults' > 0
    <3>1. Counted' = Counted
      BY <1>0, <2>2 DEF Counted
    <3>. QED
      BY <1>0, <1>01, <2>2, <3>1 DEF OnlineCount
  <2>3. CASE /\ subPC[c] = "decr" /\ subPC' = [subPC EXCEPT ![c] = "close"]
             /\ \/ online' = online - 1
                \/ online' = online /\ faults' > 0
    <3>1. Counted' = Counted \ {c} /\ c \in Counted
      BY <1>0, <2>3 DEF Counted
    <3>2. IsFiniteSet(Counted') /\ Cardinality(Counted') = Cardinality(Counted) - 1
      BY <1>0, <3>1, FS_RemoveElement
    <3>. QED
      BY <1>0, <1>01, <2>0, <2>3, <3>2 DEF OnlineCount
  <2>. QED
    BY <1>6, <2>1, <2>2, <2>3, CountEffect
<1>7. ASSUME NEW p \in Pub, PubPush(p) PROVE OnlineCount' /\ IsFiniteSet(Counted')
  <2>1. UNCHANGED <<subPC, online, faults>>
    BY <1>7, PushEffect
  <2>. QED
    BY <1>0, <1>1, <2>1 DEF Counted
<1>. QED
  BY <1>2, <1>3, <1>4, <1>5, <1>6, <1>7, QuietStep

LEMMA WindowStep ==
  /\ TypeOK /\ HandlesOK /\ MessagesOK /\ RegisteredExactly /\ CursorOK /\ PushedOK
  /\ NoWindow /\ [Next]_vars
  => NoWindow'
<1>. SUFFICES ASSUME TypeOK, HandlesOK, MessagesOK, RegisteredExactly, CursorOK, PushedOK,
                     NoWindow, [Next]_vars,
                     NEW c \in Conn, subPC'[c] \in {"add", "loop"}, sock'[c] = "open",
                     NEW p \in pushed'[c]
              PROVE  \/ pubArg'[p].MsgID <= subArg'[c].mid
                     \/ \E q \in Pub : sent'[c][q] > 0 /\ pubArg'[p].MsgID <= pubArg'[q].MsgID
  BY DEF NoWindow
<1>0. /\ \A q \in Pub : sent[c][q] \in Nat /\ sent'[c][q] \in Nat
      /\ subPC \in [Conn -> SubState]
      /\ pushed[c] \subseteq Pub
      /\ last[c] \in Int
  BY TypeStep DEF TypeOK, RedisTypeOK
<1>1. ASSUME subPC[c] \in {"add", "loop"}, sock[c] = "open", p \in pushed[c],
             subArg'[c] = subArg[c],
             \A q \in Pub : pubArg[q] # Nil => pubArg'[q] = pubArg[q],
             \A q \in Pub : sent'[c][q] >= sent[c][q]
      PROVE  \/ pubArg'[p].MsgID <= subArg'[c].mid
             \/ \E q \in Pub : sent'[c][q] > 0 /\ pubArg'[p].MsgID <= pubArg'[q].MsgID
  <2>1. p \in Pub /\ pubArg'[p] = pubArg[p]
    BY <1>0, <1>1 DEF PushedOK
  <2>2. \A q \in Pub : sent[c][q] > 0 => sent'[c][q] > 0 /\ pubArg'[q] = pubArg[q]
    BY <1>0, <1>1 DEF CursorOK
  <2>. QED
    BY <1>1, <2>1, <2>2 DEF NoWindow
<1>2. ASSUME UNCHANGED <<subArg, pubArg, pushed, sent>>, sock[c] = "open",
             subPC[c] \in {"add", "loop"}
      PROVE  \/ pubArg'[p].MsgID <= subArg'[c].mid
             \/ \E q \in Pub : sent'[c][q] > 0 /\ pubArg'[p].MsgID <= pubArg'[q].MsgID
  BY <1>0, <1>1, <1>2
<1>3. CASE Quiet
  <2>1. subPC[c] \in {"add", "loop"} /\ sock[c] = "open" /\ subArg'[c] = subArg[c]
    BY <1>3 DEF Quiet, Early
  <2>. QED
    BY <1>0, <1>1, <1>3, <2>1 DEF Quiet
<1>4. ~Ended
  BY EndedEffect
<1>5. ASSUME NEW d \in Conn, SubSend(d)
      PROVE  \/ pubArg'[p].MsgID <= subArg'[c].mid
             \/ \E q \in Pub : sent'[c][q] > 0 /\ pubArg'[p].MsgID <= pubArg'[q].MsgID
  <2>1. /\ UNCHANGED <<subArg, pushed, pubArg, sock>>
        /\ \A e \in Conn \ {d} : subPC'[e] = subPC[e] /\ \A q \in Pub : sent'[e][q] = sent[e][q]
    BY <1>5, SendEffect
  <2>2. pushed[d] = {}
    BY <1>5 DEF SubSend, CursorOK, Early
  <2>3. c # d
    BY <2>1, <2>2
  <2>. QED
    BY <1>0, <1>1, <2>1, <2>3
<1>6. ASSUME NEW d \in Conn, SubDrop(d) \/ SubRemove(d)
      PROVE  \/ pubArg'[p].MsgID <= subArg'[c].mid
             \/ \E q \in Pub : sent'[c][q] > 0 /\ pubArg'[p].MsgID <= pubArg'[q].MsgID
  BY <1>0, <1>2, <1>6, LeaveEffect
<1>7. ASSUME NEW d \in Conn, SubAdd(d) \/ SubDecr(d)
      PROVE  \/ pubArg'[p].MsgID <= subArg'[c].mid
             \/ \E q \in Pub : sent'[c][q] > 0 /\ pubArg'[p].MsgID <= pubArg'[q].MsgID
  BY <1>0, <1>2, <1>7, CountEffect
<1>8. ASSUME NEW r \in Pub, PubPush(r)
      PROVE  \/ pubArg'[p].MsgID <= subArg'[c].mid
             \/ \E q \in Pub : sent'[c][q] > 0 /\ pubArg'[p].MsgID <= pubArg'[q].MsgID
  <2>1. PICK W \in Written(Newer(pubRef[r], pubArg[r].MsgID)) :
          /\ \A d \in Conn, q \in Pub :
               /\ sent'[d][q] >= sent[d][q]
               /\ sent'[d][q] > sent[d][q] <=> d \in W /\ q = r
          /\ pushed' = [d \in Conn |->
               IF subPC[d] \in {"add", "loop"} /\ subRef[d] = pubRef[r]
                 THEN pushed[d] \cup {r} ELSE pushed[d]]
          /\ pubArg[r] \in MessageType
          /\ UNCHANGED <<subPC, subArg, pubArg, sock>>
    BY <1>8, PushEffect
  <2>2. CASE p \in pushed[c]
    BY <1>1, <2>1, <2>2
  <2>3. CASE p \notin pushed[c]
    <3>1. p = r /\ subPC[c] \in {"add", "loop"} /\ subRef[c] = pubRef[r]
      BY <2>1, <2>3
    <3>2. pubRef[r] \in Chan
      BY <1>8 DEF PubPush, HandlesOK, TypeOK
    <3>3. c \in conn[pubRef[r]]
      BY <3>1, <3>2 DEF RegisteredExactly
    <3>4. CASE c \in W
      <4>1. sent'[c][r] > 0
        BY <1>0, <2>1, <3>4
      <4>2. pubArg[r].MsgID \in Int
        BY <2>1 DEF MessageType
      <4>. QED
        BY <2>1, <3>1, <4>1, <4>2
    <3>5. CASE c \notin W
      <4>1. c \notin Newer(pubRef[r], pubArg[r].MsgID)
        BY <2>1, <3>5 DEF Written
      <4>2. ~(last[c] < pubArg[r].MsgID) /\ pubArg[r].MsgID \in Int
        BY <2>1, <3>3, <4>1 DEF Newer, MessageType
      <4>3. pubArg[r].MsgID <= last[c]
        BY <1>0, <4>2
      <4>4. \/ last[c] = subArg[c].mid
            \/ \E q \in Pub : sent[c][q] > 0 /\ last[c] = pubArg[q].MsgID
        BY <3>1 DEF CursorOK, Mapped
      <4>5. \A q \in Pub : sent[c][q] > 0 => sent'[c][q] > 0
        BY <1>0, <2>1
      <4>. QED
        BY <2>1, <3>1, <4>3, <4>4, <4>5
    <3>. QED
      BY <3>4, <3>5
  <2>. QED
    BY <2>2, <2>3
<1>. QED
  BY <1>3, <1>4, <1>5, <1>6, <1>7, <1>8, QuietStep

-----------------------------------------------------------------------------
(***************************************************************************)
(* The inductive invariant holds of every behaviour of the service.        *)
(***************************************************************************)
THEOREM RedisInvariance == Spec => []IndInv
<1>1. Init => IndInv
  <2>. SUFFICES ASSUME Init PROVE IndInv
    OBVIOUS
  <2>. USE DEF Init, RedisInit
  <2>1. TypeOK
    BY RedisAssumption, RedisServiceAssumption
       DEF TypeOK, RedisTypeOK, SubState, SockState, Error, SubArg
  <2>2. HandlesOK /\ MessagesOK /\ RegisteredExactly /\ PushedOK /\ NoWindow
    BY DEF HandlesOK, MessagesOK, RegisteredExactly, PushedOK, NoWindow, Served, Mapped
  <2>3. CursorOK
    BY DEF CursorOK, Early, Mapped
  <2>4. CountsOK
    <3>1. Counted = {} /\ \A o \in Chan : conn[o] = {}
      BY DEF Counted
    <3>2. OnlineCount /\ IsFiniteSet(Counted)
      BY <3>1, FS_EmptySet DEF OnlineCount
    <3>3. SubscribersBounded /\ \A o \in Chan : IsFiniteSet(conn[o])
      BY <3>1, FS_EmptySet, RedisAssumption DEF SubscribersBounded
    <3>. QED
      BY <3>2, <3>3 DEF CountsOK
  <2>. QED
    BY <2>1, <2>2, <2>3, <2>4 DEF IndInv
<1>2. IndInv /\ [Next]_vars => IndInv'
  <2>. SUFFICES ASSUME IndInv, [Next]_vars PROVE IndInv'
    OBVIOUS
  <2>1. TypeOK' /\ HandlesOK' /\ MessagesOK' /\ RegisteredExactly' /\ CursorOK' /\ PushedOK'
    BY TypeStep, HandlesStep, MessagesStep, RegisteredStep, CursorStep, PushedStep DEF IndInv
  <2>2. CountsOK'
    BY BoundedStep, OnlineStep DEF IndInv, CountsOK
  <2>3. NoWindow'
    BY WindowStep DEF IndInv
  <2>. QED
    BY <2>1, <2>2, <2>3 DEF IndInv
<1>. QED
  BY <1>1, <1>2, PTL DEF Spec

\* The maps, cursors, buffers and redis's data keep their types.
THEOREM RedisTypeCorrect == Spec => []TypeOK
<1>1. IndInv => TypeOK
  BY DEF IndInv
<1>. QED
  BY <1>1, RedisInvariance, PTL

\* A connection is in the map of exactly the object its handler put it into,
\* from SendMsg to RemoveConn.
THEOREM RedisRegistered == Spec => []RegisteredExactly
<1>1. IndInv => RegisteredExactly
  BY DEF IndInv
<1>. QED
  BY <1>1, RedisInvariance, PTL

\* The counter in redis is never below the connections that are counted,
\* and exact while nothing has failed.
THEOREM RedisOnline == Spec => []OnlineCount
<1>1. IndInv => OnlineCount
  BY DEF IndInv, CountsOK
<1>. QED
  BY <1>1, RedisInvariance, PTL

\* No channel object holds more connections than MaxSubscriberPerKey.
THEOREM RedisBounded == Spec => []SubscribersBounded
<1>1. IndInv => SubscribersBounded
  BY DEF IndInv, CountsOK
<1>. QED
  BY <1>1, RedisInvariance, PTL

\* What is pushed after SendMsg returned reaches the subscriber, unless it
\* is not newer than what it has.
THEOREM RedisNoWindow == Spec => []NoWindow
<1>1. IndInv => NoWindow
  BY DEF IndInv
<1>. QED
  BY <1>1, RedisInvariance, PTL

\* Each connection is written messages of increasing ids, from both paths.
THEOREM RedisInOrder == Spec => InOrder
<1>1. IndInv /\ [Next]_vars =>
        [\A c \in Conn, p, q \in Pub :
           subPC[c] # "panic" /\ sent'[c][p] > sent[c][p] /\ sent[c][q] > 0
             => pubArg[q].MsgID < pubArg[p].MsgID]_vars
  <2>. SUFFICES ASSUME IndInv, [Next]_vars, NEW c \in Conn, NEW p \in Pub, NEW q \in Pub,
                       subPC[c] # "panic", sent'[c][p] > sent[c][p], sent[c][q] > 0
                PROVE  pubArg[q].MsgID < pubArg[p].MsgID
    OBVIOUS
  <2>. USE DEF IndInv
  <2>0. /\ \A d \in Conn, r \in Pub : sent[d][r] \in Nat
        /\ \A d \in Conn : last[d] \in Int
        /\ \A r \in Pub : pubArg[r] # Nil => pubArg[r].MsgID \in Int
    BY DEF TypeOK, RedisTypeOK, MessageType
  <2>1. CASE sent' = sent
    BY <2>0, <2>1
  <2>2. CASE Quiet \/ Ended
    BY <2>1, <2>2, EndedEffect DEF Quiet
  <2>3. ASSUME NEW d \in Conn, SubDrop(d) \/ SubRemove(d)
        PROVE  pubArg[q].MsgID < pubArg[p].MsgID
    BY <2>1, <2>3, LeaveEffect
  <2>4. ASSUME NEW d \in Conn, SubAdd(d) \/ SubDecr(d)
        PROVE  pubArg[q].MsgID < pubArg[p].MsgID
    BY <2>1, <2>4, CountEffect
  <2>5. ASSUME NEW d \in Conn, SubSend(d)
        PROVE  pubArg[q].MsgID < pubArg[p].MsgID
    <3>1. sent[d][q] = 0
      BY <2>5 DEF SubSend, CursorOK, Early
    <3>2. d # c
      BY <3>1
    <3>3. sent'[c][p] = sent[c][p]
      BY <2>5, <3>2, SendEffect
    <3>. QED
      BY <2>0, <3>3
  <2>6. ASSUME NEW r \in Pub, PubPush(r)
        PROVE  pubArg[q].MsgID < pubArg[p].MsgID
    <3>1. PICK W \in Written(Newer(pubRef[r], pubArg[r].MsgID)) :
            /\ \A d \in Conn, s \in Pub : sent'[d][s] > sent[d][s] <=> d \in W /\ s = r
            /\ pubArg[r] \in MessageType
      BY <2>6, PushEffect
    <3>2. c \in W /\ p = r
      BY <3>1
    <3>3. c \in Newer(pubRef[r], pubArg[r].MsgID) /\ sock[c] # "closed"
      BY <3>1, <3>2 DEF Written
    <3>4. c \in conn[pubRef[r]] /\ last[c] < pubArg[r].MsgID
      BY <3>3 DEF Newer
    <3>5. pubRef[r] \in Chan
      BY <2>6 DEF PubPush, HandlesOK, TypeOK
    <3>6. subPC[c] \in Mapped
      BY <3>3, <3>4, <3>5 DEF RegisteredExactly, HandlesOK, Mapped
    <3>7. pubArg[q] # Nil /\ pubArg[q].MsgID <= last[c]
      BY <3>6 DEF CursorOK
    <3>8. pubArg[r] # Nil
      BY <3>1, RedisServiceAssumption
    <3>. QED
      BY <2>0, <3>2, <3>4, <3>7, <3>8
  <2>. QED
    BY <2>2, <2>3, <2>4, <2>5, <2>6, QuietStep
<1>. QED
  BY <1>1, RedisInvariance, PTL DEF Spec, InOrder

-----------------------------------------------------------------------------
(***************************************************************************)
(* Tokens.  The invariant counts, for every token, the subscribers it has  *)
(* let in and, while it is unused, one more.                               *)
(***************************************************************************)

\* A set with a further member counts one more.
LEMMA OneMore ==
  ASSUME NEW S, IsFiniteSet(S), NEW x, x \notin S
  PROVE  /\ IsFiniteSet(S \cup {x})
         /\ Cardinality(S) \in Nat
         /\ Cardinality(S \cup {x}) = Cardinality(S) + 1
  BY FS_AddElement, FS_CardinalityType

\* A step that neither authenticates nor answers a request.
LEMMA TokenQuiet ==
  ASSUME TypeOK, TokenInv, UNCHANGED <<token, authed, admRet>>,
         \A c \in Conn : c \in authed => subArg'[c] = subArg[c],
         \A c \in Conn : subPC'[c] \in Unauthed => subPC[c] \in Unauthed,
         \A a \in Admin : admRet[a] # Nil => admArg'[a] = admArg[a],
         \A a \in Admin : admPC'[a] # "done" => admPC[a] # "done"
  PROVE  TokenInv'
<1>1. authed \subseteq Conn
  BY DEF TypeOK
<1>2. Nil \notin {OK, RedisErr}
  BY RedisServiceAssumption DEF Error
<1>3. ASSUME NEW t
      PROVE  Passed(t)' = Passed(t) /\ Accepted(t)' = Accepted(t)
  BY <1>1, <1>2 DEF Passed, Accepted
<1>. QED
  BY <1>3 DEF TokenInv

\* A subscriber is let in with a token that is in redis, and removes it.
LEMMA TokenAuth == \A c \in Conn : TypeOK /\ HandlesOK /\ TokenInv /\ SubAuth(c) => TokenInv'
<1>. SUFFICES ASSUME NEW c \in Conn, TypeOK, HandlesOK, TokenInv, SubAuth(c)
              PROVE  TokenInv'
  OBVIOUS
<1>. DEFINE s == subArg[c].token
<1>1. PICK err \in Error :
        /\ AuthToken(s, err)
        /\ subPC' = [subPC EXCEPT ![c] = IF err = OK THEN "hello" ELSE "close"]
        /\ authed' = IF err = OK THEN authed \cup {c} ELSE authed
  BY DEF SubAuth, SubGoto
<1>2. /\ UNCHANGED <<subArg, admPC, admArg, admRet>> /\ c \notin authed
      /\ authed \subseteq Conn
  BY DEF SubAuth, SubFrame, admVars, TokenInv, Unauthed, TypeOK
<1>3. /\ \A d \in Conn : subPC'[d] \in Unauthed => d \notin authed'
      /\ \A a \in Admin : admPC'[a] # "done" => admRet'[a] = Nil
  <2>1. \A d \in Conn : d # c => subPC'[d] = subPC[d]
    BY <1>1 DEF TypeOK
  <2>2. subPC'[c] \notin Unauthed
    BY <1>1 DEF Unauthed, TypeOK
  <2>. QED
    BY <1>1, <1>2, <2>1, <2>2 DEF TokenInv
<1>4. ASSUME NEW t \in Token
      PROVE  /\ IsFiniteSet(Passed(t)')
             /\ IsFiniteSet(Accepted(t)')
             /\ Cardinality(Passed(t)') + (IF t \in token' THEN 1 ELSE 0)
                  <= Cardinality(Accepted(t)')
  <2>1. Accepted(t)' = Accepted(t)
    BY <1>2 DEF Accepted
  <2>2. /\ IsFiniteSet(Passed(t)) /\ IsFiniteSet(Accepted(t))
        /\ Cardinality(Passed(t)) \in Nat /\ Cardinality(Accepted(t)) \in Nat
        /\ Cardinality(Passed(t)) + (IF t \in token THEN 1 ELSE 0)
             <= Cardinality(Accepted(t))
    BY FS_CardinalityType DEF TokenInv
  <2>3. CASE err # OK
    <3>1. Passed(t)' = Passed(t)
      BY <1>1, <1>2, <2>3 DEF Passed
    <3>2. token' \subseteq token
      BY <1>1 DEF AuthToken
    <3>. QED
      BY <2>1, <2>2, <3>1, <3>2
  <2>4. CASE err = OK
    <3>1. s \in token /\ token' = token \ {s}
      BY <1>1, <2>4 DEF AuthToken, Do, OK, RedisErr, RedisNoConnErr, AuthTokenErr
    <3>2. CASE t = s
      <4>1. Passed(t)' = Passed(t) \cup {c} /\ c \notin Passed(t)
        BY <1>1, <1>2, <2>4, <3>2 DEF Passed
      <4>2. IsFiniteSet(Passed(t)') /\ Cardinality(Passed(t)') = Cardinality(Passed(t)) + 1
        BY <2>2, <4>1, OneMore
      <4>. QED
        BY <2>1, <2>2, <3>1, <3>2, <4>2
    <3>3. CASE t # s
      <4>1. Passed(t)' = Passed(t)
        BY <1>1, <1>2, <2>4, <3>3 DEF Passed
      <4>. QED
        BY <2>1, <2>2, <3>1, <3>3, <4>1
    <3>. QED
      BY <3>2, <3>3
  <2>. QED
    BY <2>3, <2>4
<1>. QED
  BY <1>3, <1>4 DEF TokenInv

\* Whenever redis has got a new token, its request has been answered so
\* that it counts.
LEMMA TokenAdd == \A a \in Admin : TypeOK /\ HandlesOK /\ TokenInv /\ AdmToken(a) => TokenInv'
<1>. SUFFICES ASSUME NEW a \in Admin, TypeOK, HandlesOK, TokenInv, AdmToken(a)
              PROVE  TokenInv'
  OBVIOUS
<1>. DEFINE s == admArg[a]
<1>1. PICK err \in Error : AddToken(s, err) /\ admRet' = [admRet EXCEPT ![a] = err]
  BY DEF AdmToken
<1>2. /\ admPC' = [admPC EXCEPT ![a] = "done"]
      /\ UNCHANGED <<subPC, subArg, admArg, authed>>
      /\ admRet[a] = Nil /\ Nil \notin {OK, RedisErr}
  BY RedisServiceAssumption DEF AdmToken, subVars, histVars, TokenInv, Error
<1>3. /\ \A d \in Conn : subPC'[d] \in Unauthed => d \notin authed'
      /\ \A b \in Admin : admPC'[b] # "done" => admRet'[b] = Nil
  BY <1>1, <1>2 DEF TokenInv, TypeOK
<1>4. /\ admRet'[a] = err
      /\ \A b \in Admin : b # a => admRet'[b] = admRet[b]
  BY <1>1 DEF TypeOK
<1>5. ASSUME NEW t \in Token
      PROVE  /\ IsFiniteSet(Passed(t)')
             /\ IsFiniteSet(Accepted(t)')
             /\ Cardinality(Passed(t)') + (IF t \in token' THEN 1 ELSE 0)
                  <= Cardinality(Accepted(t)')
  <2>1. Passed(t)' = Passed(t)
    BY <1>2 DEF Passed
  <2>2. /\ IsFiniteSet(Passed(t)) /\ IsFiniteSet(Accepted(t))
        /\ Cardinality(Passed(t)) \in Nat /\ Cardinality(Accepted(t)) \in Nat
        /\ Cardinality(Passed(t)) + (IF t \in token THEN 1 ELSE 0)
             <= Cardinality(Accepted(t))
    BY FS_CardinalityType DEF TokenInv
  <2>3. \/ token' = token
        \/ token' = token \cup {s} /\ err \in {OK, RedisErr} /\ (err = OK => s \notin token)
    BY <1>1 DEF AddToken, Do
  <2>4. CASE t = s /\ err \in {OK, RedisErr}
    <3>1. Accepted(t)' = Accepted(t) \cup {a} /\ a \notin Accepted(t)
      BY <1>2, <1>4, <2>4 DEF Accepted
    <3>2. /\ IsFiniteSet(Accepted(t)')
          /\ Cardinality(Accepted(t)') = Cardinality(Accepted(t)) + 1
      BY <2>2, <3>1, OneMore
    <3>. QED
      BY <2>1, <2>2, <3>2
  <2>5. CASE ~(t = s /\ err \in {OK, RedisErr})
    <3>1. Accepted(t)' = Accepted(t)
      BY <1>2, <1>4, <2>5 DEF Accepted
    <3>2. t \in token' => t \in token
      BY <2>3, <2>5
    <3>. QED
      BY <2>1, <2>2, <3>1, <3>2
  <2>. QED
    BY <2>4, <2>5
<1>. QED
  BY <1>3, <1>5 DEF TokenInv

\* A step of a handler but SubGet and SubAuth, or of the clock or a client.
LEMMA TokenHandler ==
  ASSUME TypeOK, HandlesOK, TokenInv, UNCHANGED <<token, authed, subArg, admVars>>,
         \E c \in Conn : \E s \in SubState :
           /\ subPC' = [subPC EXCEPT ![c] = s]
           /\ s \in Unauthed => subPC[c] \in Unauthed
  PROVE  TokenInv'
<1>1. \A c \in Conn : subPC'[c] \in Unauthed => subPC[c] \in Unauthed
  BY DEF TypeOK
<1>. QED
  BY <1>1, TokenQuiet DEF admVars

LEMMA TokenStep == TypeOK /\ HandlesOK /\ TokenInv /\ [Next]_vars => TokenInv'
<1>. SUFFICES ASSUME TypeOK, HandlesOK, TokenInv, [Next]_vars
              PROVE  TokenInv'
  OBVIOUS
<1>0. \A o \in Chan \cup {Nil}, ok \in BOOLEAN : Get(o, ok) => token' = token
  BY DEF Get, Close, chanVars, redisVars
<1>n. \A o \in Chan : New(o) => token' = token
  BY DEF New, SetDeadline, NewRedisChannel, redisVars
<1>1. ASSUME NEW c \in Conn, SubGet(c) PROVE TokenInv'
  <2>1. /\ token' = token /\ UNCHANGED <<authed, admVars>>
        /\ subPC[c] = "request" /\ c \notin authed
    BY <1>0, <1>1 DEF SubGet, histVars, TokenInv, Unauthed
  <2>2. \A d \in Conn : d # c => subArg'[d] = subArg[d] /\ subPC'[d] = subPC[d]
    BY <1>1 DEF SubGet, SubGoto, TypeOK
  <2>. QED
    BY <2>1, <2>2, TokenQuiet DEF admVars, Unauthed
<1>2. ASSUME NEW c \in Conn, Accept(c) \/ SubNew(c) \/ SubHello(c) \/ SubBuf(c)
      PROVE  TokenInv'
  <2>1. UNCHANGED <<token, authed, subArg, admVars>>
    BY <1>2, <1>n DEF Accept, SubNew, SubHello, SubBuf, SubFrame, chanVars, redisVars, histVars
  <2>2. CASE Accept(c) \/ SubNew(c)
    <3>1. subPC[c] \in Unauthed /\ \E s \in SubState : subPC' = [subPC EXCEPT ![c] = s]
      BY <2>2 DEF Accept, SubNew, SubGoto, SubState, Unauthed
    <3>. QED
      BY <2>1, <3>1, TokenHandler
  <2>3. CASE SubHello(c) \/ SubBuf(c)
    <3>1. \E s \in {"buf", "close", "send"} : subPC' = [subPC EXCEPT ![c] = s]
      BY <2>3 DEF SubHello, SubBuf, SubGoto
    <3>. QED
      BY <2>1, <3>1, TokenHandler DEF SubState, Unauthed
  <2>. QED
    BY <1>2, <2>2, <2>3
<1>3. ASSUME NEW c \in Conn, SubSend(c) \/ SubAdd(c) \/ SubDrop(c) \/ SubRemove(c) \/ SubDecr(c)
      PROVE  TokenInv'
  <2>1. UNCHANGED <<token, authed, subArg, admVars>>
    BY <1>3 DEF SubSend, SendMsg, SubAdd, AddConn, SubDrop, Delete, SubRemove, SubDecr,
       RemoveConn, HincrBy, SubFrame, redisVars, histVars
  <2>2. \E s \in {"add", "panic", "close", "loop", "drop", "decr"} :
          subPC' = [subPC EXCEPT ![c] = s]
    BY <1>3 DEF SubSend, SubAdd, SubDrop, SubRemove, SubDecr, SubGoto
  <2>. QED
    BY <2>1, <2>2, TokenHandler DEF SubState, Unauthed
<1>4. ASSUME NEW c \in Conn,
             LoopExit(c) \/ SubClose(c) \/ PeerGone(c) \/ (SubPanic(c) /\ ~Ended)
      PROVE  TokenInv'
  <2>1. UNCHANGED <<token, authed, subArg, admVars>>
    BY <1>4 DEF LoopExit, SubClose, PeerGone, SubPanic, SubFrame, chanVars, redisVars, histVars
  <2>2. subPC' = subPC \/ \E s \in {"remove", "done", "dead"} : subPC' = [subPC EXCEPT ![c] = s]
    BY <1>4 DEF LoopExit, SubClose, PeerGone, SubPanic, SubGoto
  <2>3. CASE subPC' = subPC
    BY <2>1, <2>3, TokenQuiet DEF admVars
  <2>4. CASE \E s \in {"remove", "done", "dead"} : subPC' = [subPC EXCEPT ![c] = s]
    BY <2>1, <2>4, TokenHandler DEF SubState, Unauthed
  <2>. QED
    BY <2>2, <2>3, <2>4
<1>5. ASSUME NEW p \in Pub, Store(p) \/ PubGet(p) \/ PubBuf(p) \/ PubPush(p)
      PROVE  TokenInv'
  <2>1. UNCHANGED <<token, authed, subVars, admVars>>
    BY <1>0, <1>5 DEF Store, PubGet, PubBuf, PubPush, PushMsg, redisVars, histVars
  <2>. QED
    BY <2>1, TokenQuiet DEF subVars, admVars
<1>6. ASSUME NEW a \in Admin, AdmNew(a) PROVE TokenInv'
  <2>1. /\ token' = token /\ UNCHANGED <<authed, subVars, admRet>>
        /\ admPC[a] = "init" /\ admRet[a] = Nil
    BY <1>n, <1>6 DEF AdmNew, histVars, TokenInv
  <2>2. /\ \A b \in Admin : b # a => admArg'[b] = admArg[b]
        /\ \A b \in Admin : admPC'[b] # "done" => admPC[b] # "done"
    BY <1>6, <2>1 DEF AdmNew, TypeOK
  <2>. QED
    BY <2>1, <2>2, TokenQuiet DEF subVars
<1>7. CASE Ended
  <2>1. UNCHANGED <<token, authed, subArg, admArg, admRet>>
    BY <1>7 DEF Ended, redisVars, histVars
  <2>2. /\ \A c \in Conn : subPC'[c] \in Unauthed => subPC[c] \in Unauthed
        /\ \A a \in Admin : admPC'[a] # "done" => admPC[a] # "done"
    BY <1>7 DEF Ended, Unauthed
  <2>. QED
    BY <2>1, <2>2, TokenQuiet
<1>8. CASE Tick \/ UNCHANGED vars
  BY <1>8, TokenQuiet DEF Tick, vars, chanVars, redisVars, subVars, admVars, histVars
<1>. QED
  BY <1>1, <1>2, <1>3, <1>4, <1>5, <1>6, <1>7, <1>8, TokenAuth, TokenAdd
     DEF Next, SubStep, LoopBroken, LoopTimeout, Crash, Terminated

(***************************************************************************)
(* However subscribers and /ch requests interleave, and whichever answers  *)
(* of redis are lost: AddToken must have been called for every subscriber  *)
(* that passes AuthToken.                                                  *)
(***************************************************************************)
THEOREM RedisTokenUsedOnce == Spec => []TokenUsedOnce
<1>1. Init => TokenInv
  <2>. SUFFICES ASSUME Init PROVE TokenInv
    OBVIOUS
  <2>1. \A t \in Token : Passed(t) = {} /\ Accepted(t) = {} /\ t \notin token
    BY RedisServiceAssumption DEF Init, RedisInit, Passed, Accepted, Error
  <2>2. IsFiniteSet({}) /\ Cardinality({}) = 0
    BY FS_EmptySet
  <2>3. ASSUME NEW t \in Token
        PROVE  /\ IsFiniteSet(Passed(t)) /\ IsFiniteSet(Accepted(t))
               /\ Cardinality(Passed(t)) + (IF t \in token THEN 1 ELSE 0)
                    <= Cardinality(Accepted(t))
    <3>1. Passed(t) = {} /\ Accepted(t) = {} /\ t \notin token
      BY <2>1
    <3>2. 0 + (IF t \in token THEN 1 ELSE 0) <= 0
      BY <3>1
    <3>. QED
      BY <2>2, <3>1, <3>2
  <2>. QED
    BY <2>3 DEF TokenInv, Init
<1>2. IndInv /\ TokenInv /\ [Next]_vars => TokenInv'
  BY TokenStep DEF IndInv
<1>3. TokenInv => TokenUsedOnce
  <2>. SUFFICES ASSUME TokenInv, NEW t \in Token
                PROVE  Cardinality(Passed(t)) <= Cardinality(Accepted(t))
    BY DEF TokenUsedOnce, Passed, Accepted
  <2>1. Cardinality(Passed(t)) \in Nat /\ Cardinality(Accepted(t)) \in Nat
    BY FS_CardinalityType DEF TokenInv
  <2>. QED
    BY <2>1 DEF TokenInv
<1>. QED
  BY <1>1, <1>2, <1>3, RedisInvariance, PTL DEF Spec
-----------------------------------------------------------------------------
(***************************************************************************)
(* The contract of the Channel interface.                                  *)
(***************************************************************************)

\* A publication is answered when its handler returns.
AnsweredLast == \A p \in Pub : pubPC[p] # "done" => pubRet[p] = "none"

\* A step that is no PubPush refuses some publications, and answers no other.
LEMMA AnswerStep ==
  ASSUME TypeOK, AnsweredLast, [Next]_vars, \A p \in Pub : ~PubPush(p)
  PROVE  /\ AnsweredLast'
         /\ \A p \in Pub : \/ Answer'[p] = Answer[p]
                           \/ Answer[p] = "none" /\ Answer'[p] = "refused"
<1> DEFINE Kept == UNCHANGED <<pubPC, pubRet>>
<1>1. ASSUME NEW c \in Conn, Accept(c) \/ SubStep(c) \/ LoopTimeout(c) \/ PeerGone(c), ~Ended
      PROVE  Kept
  <2>1. CASE SubGet(c) \/ SubNew(c) \/ SubBuf(c)
    BY <2>1 DEF SubGet, SubNew, SubBuf, pubVars
  <2>2. CASE SubFrame
    BY <2>2 DEF SubFrame, pubVars
  <2>3. CASE Accept(c) \/ SubAuth(c) \/ SubHello(c) \/ SubSend(c) \/ PeerGone(c)
    BY <2>2, <2>3 DEF Accept, SubAuth, SubHello, SubSend, PeerGone
  <2>4. CASE SubAdd(c) \/ SubDrop(c) \/ SubRemove(c) \/ SubDecr(c) \/ SubClose(c)
    BY <2>2, <2>4 DEF SubAdd, SubDrop, SubRemove, SubDecr, SubClose
  <2>5. CASE LoopBroken(c) \/ LoopTimeout(c)
    BY <2>2, <2>5 DEF LoopBroken, LoopTimeout, LoopExit
  <2>6. CASE SubPanic(c)
    BY <1>1, <2>2, <2>6 DEF SubPanic
  <2>. QED
    BY <1>1, <2>1, <2>3, <2>4, <2>5, <2>6 DEF SubStep
<1>2. ASSUME NEW p \in Pub, Store(p)
      PROVE  Kept
  BY <1>2 DEF Store
<1>3. ASSUME NEW a \in Admin, AdmNew(a) \/ AdmToken(a)
      PROVE  Kept
  BY <1>3 DEF AdmNew, AdmToken, pubVars
<1>4. ASSUME Tick \/ UNCHANGED vars
      PROVE  Kept
  BY <1>4 DEF Tick, vars, pubVars
<1>5. CASE Kept
  BY <1>5 DEF AnsweredLast, Answer
<1>6. ASSUME NEW p \in Pub, pubPC[p] # "done", NEW pc \in {"push", "buf"},
             pubPC' = [pubPC EXCEPT ![p] = pc], pubRet' = pubRet
      PROVE  AnsweredLast' /\ \A q \in Pub : Answer'[q] = Answer[q]
  <2>1. \A q \in Pub : pubPC'[q] = IF q = p THEN pc ELSE pubPC[q]
    BY <1>6 DEF TypeOK
  <2>2. \A q \in Pub : pubPC'[q] # "done" <=> pubPC[q] # "done"
    BY <1>6, <2>1
  <2>. QED
    BY <1>6, <2>2 DEF AnsweredLast, Answer
<1>7. ASSUME NEW p \in Pub, PubBuf(p)
      PROVE  AnsweredLast' /\ \A q \in Pub : Answer'[q] = Answer[q]
  <2>1. pubPC[p] = "buf" /\ pubPC' = [pubPC EXCEPT ![p] = "push"] /\ pubRet' = pubRet
    BY <1>7 DEF PubBuf
  <2>. QED
    BY <1>6, <2>1
<1>8. ASSUME NEW p \in Pub, PubGet(p)
      PROVE  /\ AnsweredLast'
             /\ \A q \in Pub : \/ Answer'[q] = Answer[q]
                               \/ Answer[q] = "none" /\ Answer'[q] = "refused"
  <2>1. /\ pubPC[p] = "init"
        /\ \/ pubPC' = [pubPC EXCEPT ![p] = "buf"] /\ pubRet' = pubRet
           \/ /\ pubPC' = [pubPC EXCEPT ![p] = "done"]
              /\ pubRet' = [pubRet EXCEPT ![p] = "retGetChannel"]
    <3>1. PICK ok \in BOOLEAN :
            /\ pubPC' = [pubPC EXCEPT ![p] = IF ok THEN "buf" ELSE "done"]
            /\ pubRet' = [pubRet EXCEPT ![p] = IF ok THEN @ ELSE "retGetChannel"]
      BY <1>8 DEF PubGet
    <3>2. pubPC[p] = "init"
      BY <1>8 DEF PubGet
    <3>3. CASE ok
      BY <3>1, <3>2, <3>3 DEF TypeOK
    <3>4. CASE ~ok
      BY <3>1, <3>2, <3>4
    <3>. QED
      BY <3>3, <3>4
  <2>2. CASE pubPC' = [pubPC EXCEPT ![p] = "buf"] /\ pubRet' = pubRet
    BY <1>6, <2>1, <2>2
  <2>3. CASE /\ pubPC' = [pubPC EXCEPT ![p] = "done"]
             /\ pubRet' = [pubRet EXCEPT ![p] = "retGetChannel"]
    BY <2>1, <2>3 DEF AnsweredLast, Answer, TypeOK
  <2>. QED
    BY <2>1, <2>2, <2>3
<1>9. ASSUME Ended
      PROVE  /\ AnsweredLast'
             /\ \A q \in Pub : \/ Answer'[q] = Answer[q]
                               \/ Answer[q] = "none" /\ Answer'[q] = "refused"
  <2>1. /\ pubRet' = pubRet
        /\ \A q \in Pub : pubPC'[q] = IF pubPC[q] = "init" THEN "init" ELSE "done"
    BY <1>9 DEF Ended
  <2>. QED
    BY <2>1 DEF AnsweredLast, Answer
<1>. HIDE DEF Kept
<1>. QED
  BY <1>1, <1>2, <1>3, <1>4, <1>5, <1>7, <1>8, <1>9 DEF Next, Crash, Terminated

\* Connections leave and publications are refused.
LEMMA LeaveKeeps ==
  ASSUME TypeOK, NEW C \in SUBSET Conn, sent' = sent,
         \A c \in Conn : Phase'[c] = IF c \in C THEN "out" ELSE Phase[c],
         conn' = [o \in Chan |-> conn[o] \ C],
         \A p \in Pub : \/ Answer'[p] = Answer[p]
                        \/ Answer[p] = "none" /\ Answer'[p] = "refused"
  PROVE  Contract!Leave(C, {p \in Pub : Answer'[p] # Answer[p]})
<1>. DEFINE P == {p \in Pub : Answer'[p] # Answer[p]}
<1>1. Phase' = [c \in Conn |-> IF c \in C THEN "out" ELSE Phase[c]]
  BY DEF Phase
<1>2. \A p \in P : Answer[p] = "none"
  OBVIOUS
<1>3. \A p \in Pub : Answer'[p] = IF p \in P THEN "refused" ELSE Answer[p]
  OBVIOUS
<1>4. Answer' = [p \in Pub |-> IF p \in P THEN "refused" ELSE Answer[p]]
  BY <1>3 DEF Answer
<1>. QED
  BY <1>1, <1>2, <1>4 DEF Contract!Leave

\* A quiet step takes connections out that are in no channel.
LEMMA QuietKeeps ==
  ASSUME IndInv, AnsweredLast, [Next]_vars, Quiet, \A p \in Pub : ~PubPush(p)
  PROVE  \E C \in SUBSET Conn, P \in SUBSET Pub : Contract!Leave(C, P)
<1>. DEFINE C == {c \in Conn : subPC[c] \in Early /\ subPC'[c] \in {"close", "done"}}
<1>1. \A c \in Conn : Phase'[c] = IF c \in C THEN "out" ELSE Phase[c]
  BY DEF Quiet, Phase, Early
<1>2. \A c \in C, o \in Chan : c \notin conn[o]
  BY DEF Quiet, Early, IndInv, RegisteredExactly
<1>3. conn' = [o \in Chan |-> conn[o] \ C]
  BY <1>2 DEF Quiet, IndInv, TypeOK, RedisTypeOK
<1>4. \A p \in Pub : \/ Answer'[p] = Answer[p]
                     \/ Answer[p] = "none" /\ Answer'[p] = "refused"
  BY AnswerStep DEF IndInv
<1>5. sent' = sent /\ TypeOK
  BY DEF Quiet, IndInv
<1>. HIDE DEF C
<1>6. C \in SUBSET Conn
  BY DEF C
<1>. QED
  BY <1>1, <1>3, <1>4, <1>5, <1>6, LeaveKeeps

\* The end of the process takes everybody out.
LEMMA EndedKeeps ==
  ASSUME IndInv, AnsweredLast, [Next]_vars, Ended
  PROVE  \E C \in SUBSET Conn, P \in SUBSET Pub : Contract!Leave(C, P)
<1>. DEFINE C == {c \in Conn : subPC[c] # "init"}
<1>1. \A c \in Conn : subPC'[c] = IF c \in C THEN "done" ELSE "init"
  BY DEF Ended
<1>2. \A c \in Conn : Phase'[c] = IF c \in C THEN "out" ELSE Phase[c]
  BY <1>1 DEF Phase
<1>3. \A o \in Chan : conn[o] \subseteq C
  BY DEF IndInv, RegisteredExactly, TypeOK, RedisTypeOK
<1>4. conn' = [o \in Chan |-> conn[o] \ C]
  BY <1>3 DEF Ended
<1>6. \A p \in Pub : \/ Answer'[p] = Answer[p]
                     \/ Answer[p] = "none" /\ Answer'[p] = "refused"
  <2>1. /\ pubRet' = pubRet
        /\ \A p \in Pub : pubPC'[p] = IF pubPC[p] = "init" THEN "init" ELSE "done"
    BY DEF Ended
  <2>. QED
    BY <2>1 DEF AnsweredLast, Answer
<1>7. sent' = sent /\ TypeOK
  BY DEF Ended, IndInv
<1>. HIDE DEF C
<1>8. C \in SUBSET Conn
  BY DEF C
<1>. QED
  BY <1>2, <1>4, <1>6, <1>7, <1>8, LeaveKeeps

\* The contract counts as everybody else does.
LEMMA SameCount == \A S : Contract!Cardinality(S) = Cardinality(S)
  BY Zenon DEF Contract!Cardinality, Cardinality

\* Most steps of a handler change the phase of its connection alone.
LEMMA PhaseOne ==
  ASSUME TypeOK, NEW c \in Conn, NEW pc, subPC' = [subPC EXCEPT ![c] = pc]
  PROVE  Phase' = [Phase EXCEPT ![c] = Phase'[c]]
<1>1. \A d \in Conn \ {c} : subPC'[d] = subPC[d]
  BY DEF TypeOK
<1>2. \A d \in Conn : Phase'[d] = [Phase EXCEPT ![c] = Phase'[c]][d]
  BY <1>1 DEF Phase
<1>. QED
  BY <1>2 DEF Phase

\* A connection gets a place in a channel that is not full.
LEMMA EnterKeeps ==
  ASSUME IndInv, NEW c \in Conn, NEW ph, NEW o \in Chan, ~Full(o),
         conn' = [conn EXCEPT ![o] = conn[o] \cup {c}], Phase' = [Phase EXCEPT ![c] = ph]
  PROVE  Contract!Enter(c, ph)
<1>1. Cardinality(conn[o]) \in Nat
  BY FS_CardinalityType DEF IndInv, CountsOK
<1>2. Cardinality(conn[o]) + 1 <= MaxSubscriberPerKey
  BY <1>1, RedisAssumption DEF Full
<1>. QED
  BY <1>2, SameCount DEF Contract!Enter

\* SendMsg writes publications above the id that was asked for.
LEMMA SendAsked ==
  ASSUME IndInv, NEW c \in Conn, subPC[c] = "send", NEW err \in Error,
         SendMsg(subRef[c], c, subArg[c].mid, err)
  PROVE  \E S \in SUBSET {p \in Pub : CarriedID[p] > AskedID[c]} : Contract!WriteTo({c}, S)
<1>1. CASE sent' = sent
  <2>1. sent \in [Conn -> [Pub -> Nat]]
    BY DEF IndInv, TypeOK, RedisTypeOK
  <2>2. Contract!WriteTo({c}, {})
    BY <1>1, <2>1 DEF Contract!WriteTo
  <2>. QED
    BY <2>2
<1>2. CASE Walk(subRef[c], c, subArg[c].mid, err)
  <2>1. PICK T \in SUBSET InRange(subArg[c].mid) : sent' = Deliver({c}, Live(T))
    BY <1>2 DEF Walk, Prefixes
  <2>. DEFINE S == {p \in Pub : \E m \in Live(T) : m.Msg = p}
  <2>2. AskedID[c] = subArg[c].mid
    BY DEF AskedID, IndInv, HandlesOK
  <2>3. ASSUME NEW m \in Live(T) PROVE CarriedID[m.Msg] > AskedID[c]
    <3>1. PICK e \in stored : e.m = m /\ m.MsgID > subArg[c].mid
      BY <2>1 DEF Live, InRange
    <3>2. m \in MessageType /\ m.Msg \in Pub /\ pubArg[m.Msg] = m
      BY <3>1 DEF IndInv, MessagesOK, TypeOK, RedisTypeOK, Entry, MessageType
    <3>3. CarriedID[m.Msg] = m.MsgID
      BY <3>2 DEF CarriedID
    <3>. QED
      BY <2>2, <3>1, <3>3
  <2>4. S \in SUBSET {p \in Pub : CarriedID[p] > AskedID[c]}
    BY <2>3
  <2>5. Contract!WriteTo({c}, S)
    BY <2>1 DEF Contract!WriteTo, Deliver
  <2>. QED
    BY <2>4, <2>5
<1>. QED
  BY <1>1, <1>2 DEF SendMsg

\* c.SendMsg is the contract's: the connection is registered, or out.
LEMMA SubSendKeeps ==
  ASSUME IndInv, NEW c \in Conn, SubSend(c)
  PROVE  Contract!SendMsg(c)
<1>1. PICK err \in Error :
        /\ SendMsg(subRef[c], c, subArg[c].mid, err)
        /\ subPC' = [subPC EXCEPT ![c] =
             CASE err = OK -> "add" [] err = Panic -> "panic" [] OTHER -> "close"]
  BY DEF SubSend, SubGoto
<1>2. subPC[c] = "send" /\ subRef[c] \in Chan /\ Answer' = Answer
  BY DEF SubSend, SubFrame, pubVars, Answer, IndInv, HandlesOK, TypeOK
<1>3. /\ conn' = IF err \in {OK, Panic} THEN [conn EXCEPT ![subRef[c]] = @ \cup {c}] ELSE conn
      /\ err \in {OK, Panic} => ~Full(subRef[c])
  BY <1>1, <1>2, SendConn DEF IndInv
<1>4. /\ Phase[c] = "new"
      /\ \E S \in SUBSET {p \in Pub : CarriedID[p] > AskedID[c]} : Contract!WriteTo({c}, S)
  BY <1>1, <1>2, SendAsked DEF Phase
<1>5. ASSUME NEW pc, subPC' = [subPC EXCEPT ![c] = pc], NEW ph,
             subPC'[c] = pc => Phase'[c] = ph
      PROVE  Phase' = [Phase EXCEPT ![c] = ph]
  <2>1. Phase' = [Phase EXCEPT ![c] = Phase'[c]]
    BY <1>5, PhaseOne DEF IndInv
  <2>2. subPC'[c] = pc
    BY <1>5 DEF IndInv, TypeOK
  <2>. QED
    BY <1>5, <2>1, <2>2
<1>6. CASE err = OK
  <2>1. subPC' = [subPC EXCEPT ![c] = "add"]
    BY <1>1, <1>6, OK # Panic DEF OK, Panic
  <2>2. subPC'[c] = "add" => Phase'[c] = "in"
    BY DEF Phase
  <2>3. Phase' = [Phase EXCEPT ![c] = "in"]
    BY <1>5, <2>1, <2>2
  <2>4. Contract!Enter(c, "in")
    BY <1>2, <1>3, <1>6, <2>3, EnterKeeps
  <2>. QED
    BY <1>2, <1>4, <2>4 DEF Contract!SendMsg
<1>7. CASE err = Panic
  <2>1. subPC' = [subPC EXCEPT ![c] = "panic"]
    BY <1>1, <1>7, OK # Panic DEF OK, Panic
  <2>2. subPC'[c] = "panic" => Phase'[c] = "broken"
    BY DEF Phase
  <2>3. Phase' = [Phase EXCEPT ![c] = "broken"]
    BY <1>5, <2>1, <2>2
  <2>4. Contract!Enter(c, "broken")
    BY <1>2, <1>3, <1>7, <2>3, EnterKeeps
  <2>. QED
    BY <1>2, <1>4, <2>4 DEF Contract!SendMsg
<1>8. CASE err \notin {OK, Panic}
  <2>1. subPC' = [subPC EXCEPT ![c] = "close"]
    BY <1>1, <1>8 DEF OK, Panic
  <2>2. subPC'[c] = "close" => Phase'[c] = "out"
    BY DEF Phase
  <2>3. Phase' = [Phase EXCEPT ![c] = "out"]
    BY <1>5, <2>1, <2>2
  <2>. QED
    BY <1>2, <1>3, <1>4, <1>8, <2>3 DEF Contract!SendMsg
<1>. QED
  BY <1>6, <1>7, <1>8

\* c.RemoveConn, and c.AddConn after an error, take the connection out of
\* the one channel it is in.
LEMMA SubLeaveKeeps ==
  ASSUME IndInv, NEW c \in Conn, SubDrop(c) \/ SubRemove(c)
  PROVE  \E C \in SUBSET Conn, P \in SUBSET Pub : Contract!Leave(C, P)
<1>1. /\ conn' = [conn EXCEPT ![subRef[c]] = @ \ {c}]
      /\ subRef[c] \in Chan /\ sent' = sent
      /\ \E pc \in {"close", "decr"} : subPC' = [subPC EXCEPT ![c] = pc]
  BY LeaveEffect DEF IndInv
<1>2. \A o \in Chan : o # subRef[c] => c \notin conn[o]
  BY DEF IndInv, RegisteredExactly
<1>3. conn' = [o \in Chan |-> conn[o] \ {c}]
  <2>1. conn \in [Chan -> SUBSET Conn]
    BY DEF IndInv, TypeOK, RedisTypeOK
  <2>. QED
    BY <1>1, <1>2, <2>1
<1>4. \A d \in Conn : Phase'[d] = IF d \in {c} THEN "out" ELSE Phase[d]
  <2>1. Phase' = [Phase EXCEPT ![c] = Phase'[c]]
    BY <1>1, PhaseOne DEF IndInv
  <2>2. subPC'[c] \in {"close", "decr"}
    BY <1>1 DEF IndInv, TypeOK
  <2>3. Phase'[c] = "out"
    BY <2>2 DEF Phase
  <2>. QED
    BY <2>1, <2>3 DEF Phase
<1>5. \A p \in Pub : Answer'[p] = Answer[p]
  BY DEF SubDrop, SubRemove, SubFrame, pubVars, Answer
<1>. QED
  BY <1>1, <1>3, <1>4, <1>5, LeaveKeeps DEF IndInv

\* The counter in redis is no part of the contract.
LEMMA SubCountKeeps ==
  ASSUME IndInv, NEW c \in Conn, SubAdd(c) \/ SubDecr(c)
  PROVE  UNCHANGED Contract!chVars
<1>1. /\ \/ subPC[c] = "add" /\ \E pc \in {"loop", "drop"} : subPC' = [subPC EXCEPT ![c] = pc]
         \/ subPC[c] = "decr" /\ subPC' = [subPC EXCEPT ![c] = "close"]
      /\ UNCHANGED <<conn, sent>>
  BY CountEffect DEF IndInv
<1>2. Phase' = Phase
  <2>1. \A d \in Conn : Phase'[d] = Phase[d]
    BY <1>1 DEF Phase, IndInv, TypeOK
  <2>. QED
    BY <2>1 DEF Phase
<1>3. Answer' = Answer
  BY DEF SubAdd, SubDecr, SubFrame, pubVars, Answer
<1>. QED
  BY <1>1, <1>2, <1>3 DEF Contract!chVars

\* c.PushMsg is the contract's: the cursors tell who has the message.
LEMMA PubPushKeeps ==
  ASSUME IndInv, AnsweredLast, NEW p \in Pub, PubPush(p)
  PROVE  Contract!PushMsg(p) /\ AnsweredLast'
<1> DEFINE o == pubRef[p]
           id == pubArg[p].MsgID
<1>1. /\ o \in Chan /\ pubArg[p] \in MessageType /\ id \in Int /\ pubArg[p].Msg = p
      /\ pubPC[p] = "push"
  BY DEF PubPush, IndInv, HandlesOK, MessagesOK, TypeOK, MessageType
<1>2. PICK W \in Written(Newer(o, id)) : sent' = Deliver(W, {pubArg[p]})
  BY DEF PubPush, PushMsg
<1>3. /\ W \in SUBSET conn[o] /\ \A c \in W : last[c] < id
      /\ \A c \in conn[o] \ W : sock[c] = "open" => ~(last[c] < id)
  BY <1>2 DEF Written, Newer
<1>4. Contract!WriteTo(W, {p})
  BY <1>1, <1>2 DEF Contract!WriteTo, Deliver
<1>5. /\ \A c \in Conn : last[c] \in Int /\ \A q \in Pub : sent[c][q] \in Nat
      /\ conn[o] \subseteq Conn /\ CarriedID[p] = id
  BY <1>1 DEF IndInv, TypeOK, RedisTypeOK, CarriedID
<1>6. ASSUME NEW c \in conn[o], Phase[c] = "in"
      PROVE  \/ c \in W /\ sent[c][p] = 0
             \/ c \notin W /\ (sock[c] = "open" => Contract!NotNewer(c, p))
  <2>1. c \in Conn /\ subPC[c] \in Mapped
    BY <1>5, <1>6 DEF Phase, Mapped
  <2>2. /\ \A q \in Pub : sent[c][q] > 0 => pubArg[q] # Nil /\ pubArg[q].MsgID <= last[c]
        /\ \/ last[c] = subArg[c].mid
           \/ \E q \in Pub : sent[c][q] > 0 /\ last[c] = pubArg[q].MsgID
    BY <2>1 DEF IndInv, CursorOK
  <2>3. CASE c \in W
    BY <1>1, <1>3, <1>5, <2>1, <2>2, <2>3
  <2>4. CASE c \notin W /\ sock[c] = "open"
    <3>1. id <= last[c]
      BY <1>1, <1>3, <1>5, <2>1, <2>4
    <3>2. AskedID[c] = subArg[c].mid
      BY <2>1 DEF AskedID, IndInv, HandlesOK, Served
    <3>3. \A q \in Pub : sent[c][q] > 0 => CarriedID[q] = pubArg[q].MsgID
      BY <2>2 DEF CarriedID, IndInv, MessagesOK
    <3>. QED
      BY <1>5, <2>2, <2>4, <3>1, <3>2, <3>3 DEF Contract!NotNewer
  <2>. QED
    BY <2>3, <2>4
<1>7. \A q \in Pub : /\ pubPC'[q] = IF q = p THEN "done" ELSE pubPC[q]
                     /\ pubRet'[q] = IF q = p THEN "retOK" ELSE pubRet[q]
  BY DEF PubPush, IndInv, TypeOK
<1>8. Answer' = [Answer EXCEPT ![p] = "ok"] /\ Answer[p] = "none"
  <2>1. \A q \in Pub : Answer'[q] = [Answer EXCEPT ![p] = "ok"][q]
    BY <1>7 DEF Answer
  <2>. QED
    BY <1>1, <2>1 DEF Answer
<1>9. UNCHANGED <<Phase, conn>>
  BY DEF PubPush, PushMsg, subVars, Phase
<1>10. AnsweredLast'
  BY <1>7 DEF AnsweredLast
<1>. HIDE DEF o
<1>. QED
  BY <1>1, <1>3, <1>4, <1>6, <1>8, <1>9, <1>10 DEF Contract!PushMsg

(***************************************************************************)
(* channel.go:28-51 and its implementation on redis: every step of the     *)
(* handlers is a step the Channel interface allows, or none.  A connection *)
(* comes into one channel once and within its limit, it is written no      *)
(* publication it did not ask for and none twice, and a publication that   *)
(* is answered ok missed no open connection it is new for, whatever redis  *)
(* answers and whenever the process ends.                                  *)
(***************************************************************************)
THEOREM RedisKeepsContract == Spec => KeepsContract
<1>1. Init => Contract!ChInit /\ AnsweredLast
  BY DEF Init, RedisInit, Contract!ChInit, Phase, Answer, AnsweredLast
<1>2. IndInv /\ AnsweredLast /\ [Next]_vars => AnsweredLast'
  BY AnswerStep, PubPushKeeps DEF IndInv
<1>3. IndInv /\ AnsweredLast /\ [Next]_vars => [Contract!ChNext]_(Contract!chVars)
  <2>. SUFFICES ASSUME IndInv, AnsweredLast, [Next]_vars
                PROVE  Contract!ChNext \/ UNCHANGED Contract!chVars
    OBVIOUS
  <2>1. CASE \E p \in Pub : PubPush(p)
    BY <2>1, PubPushKeeps DEF Contract!ChNext
  <2>2. CASE \E C \in SUBSET Conn, P \in SUBSET Pub : Contract!Leave(C, P)
    BY <2>2 DEF Contract!ChNext
  <2>3. CASE (Quiet /\ \A p \in Pub : ~PubPush(p)) \/ Ended
    BY <2>2, <2>3, QuietKeeps, EndedKeeps
  <2>4. CASE \E c \in Conn : SubSend(c)
    BY <2>4, SubSendKeeps DEF Contract!ChNext
  <2>5. CASE \E c \in Conn : SubAdd(c) \/ SubDecr(c)
    BY <2>5, SubCountKeeps
  <2>6. CASE \E c \in Conn : SubDrop(c) \/ SubRemove(c)
    BY <2>2, <2>6, SubLeaveKeeps
  <2>. QED
    BY <2>1, <2>3, <2>4, <2>5, <2>6, QuietStep DEF IndInv
<1>. QED
  BY <1>1, <1>2, <1>3, RedisInvariance, PTL DEF Spec, KeepsContract, Contract!ChSpec

=============================================================================
