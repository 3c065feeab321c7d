-------------------------- MODULE PushSafetyProofs --------------------------
(***************************************************************************)
(* Proofs of what the channels promise: the bounds on subscribers and      *)
(* stored messages, which messages and which channels go away, and that a  *)
(* registered subscriber has been sent what its channel stores.  They all  *)
(* use the inductive invariant of PushProofs.                              *)
(***************************************************************************)
EXTENDS PushProofs

\* The calls that change channel objects or the list, arguments forgotten.
Call ==
  \/ \E k \in Key, o \in Chan \cup {Nil}, err \in Error : Get(k, o, err) \/ New(k, o, err)
  \/ /\ UNCHANGED listVars
     /\ \E o \in Chan, c \in Conn, err \in Error :
          \/ \E mid \in Mids : SendMsg(o, c, mid, err)
          \/ AddConn(o, c, err)
          \/ RemoveConn(o, c)
  \/ /\ UNCHANGED listVars
     /\ \E o \in Chan, m \in MessageType, err \in Error :
          PushMsg(o, m, err) /\ PushReturns(o)

\* A step makes one of these calls, or leaves the objects (but for their
\* tokens) and the list alone; the clock never goes back.
LEMMA OneCall ==
  ASSUME IndInv, [Next]_vars
  PROVE  \/ now' = now /\ Call
         \/ now' \in {now, now + 1} /\ UNCHANGED <<conn, message, expire, listVars>>
<1> DEFINE Quiet == now' \in {now, now + 1} /\ UNCHANGED <<conn, message, expire, listVars>>
           Goal == (now' = now /\ Call) \/ Quiet
<1> SUFFICES Goal
  OBVIOUS
<1> USE DEF IndInv
<1>h. ASSUME NEW c \in Conn, subPC[c] \in Holding
      PROVE  subRef[c] \in Chan /\ subArg[c].mid \in Mids
  BY <1>h DEF HandlesOK, Reading, TypeOK, ListTypeOK, SubArg
<1>1. CASE UNCHANGED vars \/ Terminated
  BY <1>1 DEF Terminated, vars, innerVars, listVars
<1>2. ASSUME NEW c \in Conn, Accept(c) \/ SubReject(c) \/ SubHello(c) \/ LoopExit(c)
                             \/ SubClose(c) \/ PeerGone(c)
      PROVE  Quiet
  BY <1>2 DEF Accept, SubReject, SubHello, LoopExit, SubClose, PeerGone, innerVars, listVars
<1>3. ASSUME NEW c \in Conn, NEW arg \in SubArg, SubGet(c, arg)
      PROVE  now' = now /\ Call
  BY <1>3 DEF SubGet, Call, SubArg
<1>4. ASSUME NEW c \in Conn, SubNew(c)
      PROVE  now' = now /\ Call
  BY <1>4 DEF SubNew, Call, HandlesOK, Reading, SubArg
<1>5. ASSUME NEW c \in Conn, SubAuth(c)
      PROVE  Quiet
  BY <1>5 DEF SubAuth, AuthToken
<1>6. ASSUME NEW c \in Conn, SubSend(c)
      PROVE  now' = now /\ Call
  BY <1>6, <1>h DEF SubSend, Call, Holding
<1>7. ASSUME NEW c \in Conn, SubAdd(c)
      PROVE  now' = now /\ Call
  BY <1>7, <1>h DEF SubAdd, Call, Holding
<1>8. ASSUME NEW c \in Conn, SubRemove(c)
      PROVE  now' = now /\ Call
  <2>1. RemoveConn(subRef[c], c) /\ now' = now /\ UNCHANGED listVars /\ subRef[c] \in Chan
    BY <1>8, <1>h DEF SubRemove, Holding
  <2>2. OK \in Error
    BY DEF Error
  <2> QED BY <2>1, <2>2 DEF Call
<1>9. ASSUME NEW p \in Pub, PubGet(p)
      PROVE  Goal
  <2>1. CASE UNCHANGED <<innerVars, netVars, listVars, pubRef, pubArg>>
    BY <1>9, <2>1 DEF PubGet, innerVars
  <2>2. CASE \E k \in Key, o \in Chan \cup {Nil}, err \in Error : Get(k, o, err)
    BY <1>9, <2>2 DEF PubGet, Call
  <2> QED BY <1>9, <2>1, <2>2 DEF PubGet
<1>10. ASSUME NEW p \in Pub, PubPush(p)
       PROVE  now' = now /\ Call
  <2>1. pubRef[p] \in Chan /\ pubArg[p].msg \in MessageType
    BY <1>10 DEF PubPush, HandlesOK, TypeOK, ListTypeOK, PubArg
  <2>2. PushReturns(pubRef[p])
    BY <1>10 DEF PubPush, PubReturn, PushReturns, TypeOK
  <2> QED BY <1>10, <2>1, <2>2 DEF PubPush, Call
<1>11. ASSUME NEW a \in Admin, AdmNew(a)
       PROVE  Goal
  <2>1. CASE UNCHANGED <<innerVars, netVars, listVars, admRef, admArg>>
    BY <1>11, <2>1 DEF AdmNew, innerVars
  <2>2. CASE \E arg \in AdmArg, o \in Chan \cup {Nil}, err \in Error : New(arg.key, o, err)
    BY <1>11, <2>2 DEF AdmNew, Call, AdmArg
  <2> QED BY <1>11, <2>1, <2>2 DEF AdmNew
<1>12. ASSUME NEW a \in Admin, AdmToken(a)
       PROVE  Quiet
  BY <1>12 DEF AdmToken, AddToken
<1>13. CASE Tick
  BY <1>13 DEF Tick, innerVars
<1>14. ASSUME NEW c \in Conn, SubRequest(c) PROVE Goal
  BY <1>14, <1>2, <1>3 DEF SubRequest, SubscribeTCPHandle, SubscribeHandle
<1>15. ASSUME NEW c \in Conn, SubStep(c) PROVE Goal
  BY <1>15, <1>2, <1>4, <1>5, <1>6, <1>7, <1>8 DEF SubStep, LoopBroken
<1> HIDE DEF Goal, Quiet
<1>16. Quiet => Goal
  BY DEF Goal
<1>17. now' = now /\ Call => Goal
  BY DEF Goal
<1> QED BY <1>1, <1>2, <1>9, <1>10, <1>11, <1>12, <1>13, <1>14, <1>15, <1>16, <1>17
        DEF Next, LoopTimeout, Goal, Quiet

-----------------------------------------------------------------------------
(***************************************************************************)
(* The number of subscribers.                                              *)
(***************************************************************************)

\* A step adds a connection where there is room, or removes one.
LEMMA ConnChange ==
  ASSUME IndInv, [Next]_vars, NEW o \in Chan
  PROVE  \/ conn'[o] \subseteq conn[o]
         \/ /\ Cardinality(conn[o]) + 1 <= MaxSubscriberPerKey
            /\ \E c \in Conn : conn'[o] = conn[o] \cup {c}
<1>0. conn \in [Chan -> SUBSET Conn]
  BY DEF IndInv, TypeOK, InnerTypeOK
<1>1. ASSUME NEW k \in Key, NEW x \in Chan \cup {Nil}, NEW err \in Error, Get(k, x, err) \/ New(k, x, err)
      PROVE  conn' = conn
  BY <1>1, GetEffect, NewEffect
<1>2. CASE \E x \in Chan, c \in Conn, err \in Error : AddConn(x, c, err) \/ RemoveConn(x, c)
  BY <1>0, <1>2 DEF AddConn, RemoveConn
<1>3. CASE conn' = conn
  BY <1>3
<1>4. CASE Call
  BY <1>1, <1>2, <1>3, <1>4 DEF Call, SendMsg, PushMsg
<1> QED BY <1>3, <1>4, OneCall

\* The connections of every object are finitely many, and within the limit.
FiniteConns == \A o \in Chan : IsFiniteSet(conn[o])

(***************************************************************************)
(* inner_channel.go AddConn keeps the limit MaxSubscriberPerKey, whatever  *)
(* the number of subscribers that race for the places.                     *)
(***************************************************************************)
THEOREM SubscriberLimit == Spec => []SubscribersBounded
<1> DEFINE Inv == FiniteConns /\ SubscribersBounded
<1>1. Init => Inv
  BY FS_EmptySet, ConfAssumption DEF Init, InnerInit, FiniteConns, SubscribersBounded, Limit
<1>2. IndInv /\ Inv /\ [Next]_vars => Inv'
  <2> SUFFICES ASSUME IndInv, Inv, [Next]_vars, NEW o \in Chan
               PROVE  IsFiniteSet(conn'[o]) /\ Cardinality(conn'[o]) <= Limit(MaxSubscriberPerKey)
    BY DEF FiniteConns, SubscribersBounded, Limit
  <2>1. IsFiniteSet(conn[o]) /\ Cardinality(conn[o]) <= Limit(MaxSubscriberPerKey)
    BY DEF FiniteConns, SubscribersBounded
  <2>2. Cardinality(conn[o]) \in Nat /\ Limit(MaxSubscriberPerKey) \in Int
    BY <2>1, FS_CardinalityType, ConfAssumption DEF Limit
  <2>3. CASE conn'[o] \subseteq conn[o]
    <3>1. /\ IsFiniteSet(conn'[o]) /\ Cardinality(conn'[o]) <= Cardinality(conn[o])
          /\ Cardinality(conn'[o]) \in Nat
      BY <2>1, <2>3, FS_Subset, FS_CardinalityType
    <3> QED BY <3>1, <2>1, <2>2
  <2>4. ASSUME Cardinality(conn[o]) + 1 <= MaxSubscriberPerKey,
               NEW c \in Conn, conn'[o] = conn[o] \cup {c}
        PROVE  IsFiniteSet(conn'[o]) /\ Cardinality(conn'[o]) <= Limit(MaxSubscriberPerKey)
    <3>1. /\ IsFiniteSet(conn'[o])
          /\ \/ Cardinality(conn'[o]) = Cardinality(conn[o])
             \/ Cardinality(conn'[o]) = Cardinality(conn[o]) + 1
      BY <2>1, <2>4, FS_AddElement
    <3> QED BY <3>1, <2>1, <2>2, <2>4, ConfAssumption DEF Limit
  <2> QED BY <2>3, <2>4, ConnChange
<1>3. Inv => SubscribersBounded
  OBVIOUS
<1> HIDE DEF Inv
<1> QED BY <1>1, <1>2, <1>3, Invariant, PTL DEF Spec

-----------------------------------------------------------------------------
(***************************************************************************)
(* The list of channels.                                                   *)
(***************************************************************************)

(***************************************************************************)
(* channel.go Get and New: an object leaves the list only past its         *)
(* deadline, and its deadline is not moved again, whatever handlers still  *)
(* hold it.                                                                *)
(***************************************************************************)
THEOREM DropDeadline == Spec => []DroppedOnlyAfterDeadline
<1>1. Init => DroppedOnlyAfterDeadline
  BY DEF Init, ListInit, DroppedOnlyAfterDeadline
<1>2. IndInv /\ DroppedOnlyAfterDeadline /\ [Next]_vars => DroppedOnlyAfterDeadline'
  <2> SUFFICES ASSUME IndInv, DroppedOnlyAfterDeadline, [Next]_vars
               PROVE  DroppedOnlyAfterDeadline'
    OBVIOUS
  <2>0. /\ now \in Nat /\ expire \in [Chan -> Int] /\ made \subseteq Chan
        /\ data \in [Key -> Chan \cup {Nil}]
        /\ \A k \in Key : data[k] = Nil \/ data[k] \in made
        /\ \A o \in made : (\A k \in Key : data[k] # o) => now > expire[o]
    BY DEF IndInv, TypeOK, InnerTypeOK, ListTypeOK, HandlesOK, DroppedOnlyAfterDeadline,
           Listed, Timeout
  <2> SUFFICES ASSUME NEW o \in made', \A k \in Key : data'[k] # o
               PROVE  now' > expire'[o]
    BY DEF DroppedOnlyAfterDeadline, Listed, Timeout
  <2>1. CASE now' \in {now, now + 1} /\ expire' = expire /\ UNCHANGED listVars
    BY <2>0, <2>1 DEF listVars
  <2>2. ASSUME now' = now, NEW k \in Key, NEW x \in Chan \cup {Nil}, NEW err \in Error, Get(k, x, err)
        PROVE  now' > expire'[o]
    <3>1. CASE data' = data
      BY <2>0, <2>2, <3>1, GetEffect
    <3>2. CASE data' = [data EXCEPT ![k] = Nil] /\ Timeout(data[k]) /\ data[k] # Nil
      BY <2>0, <2>2, <3>2, GetEffect DEF Timeout
    <3> QED BY <2>2, <3>1, <3>2 DEF Get, listVars
  <2>3. ASSUME now' = now, NEW k \in Key, NEW x \in Chan \cup {Nil}, NEW err \in Error, New(k, x, err)
        PROVE  now' > expire'[o]
    <3>1. CASE data[k] # Nil
      BY <2>0, <2>3, <3>1 DEF New, SetDeadline, listVars
    <3>2. CASE data[k] = Nil /\ ChannelType = InnerChannelType
      BY <2>0, <2>3, <3>2, ListAssumption DEF New, NewInnerChannel
    <3>3. CASE data[k] = Nil /\ ChannelType # InnerChannelType
      BY <2>0, <2>3, <3>3 DEF New, innerVars, listVars
    <3> QED BY <3>1, <3>2, <3>3
  <2>4. CASE Call /\ now' = now
    BY <2>1, <2>2, <2>3, <2>4 DEF Call, SendMsg, AddConn, RemoveConn, PushMsg
  <2> QED BY <2>1, <2>4, OneCall
<1> QED BY <1>1, <1>2, Invariant, PTL DEF Spec

-----------------------------------------------------------------------------
(***************************************************************************)
(* The stored messages.                                                    *)
(***************************************************************************)


\* What PushMsg(m) may leave of the store of o.
Pushed(o, m, s) ==
  \E t \in Trimmed(o) : s = t \/ (~HasScore(t, m.MsgID) /\ s = t \cup {m})

\* A step changes a store by removing expired messages, or as PushMsg does.
LEMMA StoreChange ==
  ASSUME IndInv, [Next]_vars, NEW o \in Chan
  PROVE  \/ \E D \in SUBSET message[o] :
              (\A m \in D : Expired(m)) /\ message'[o] = message[o] \ D
         \/ PushReturns(o) /\ \E m \in MessageType : Pushed(o, m, message'[o])
<1> DEFINE Sweep(x) == \E D \in SUBSET message[x] :
                         (\A m \in D : Expired(m)) /\ message'[x] = message[x] \ D
<1>0. message \in [Chan -> SUBSET MessageType]
  BY DEF IndInv, TypeOK, InnerTypeOK
<1>1. CASE message'[o] = message[o]
  <2>1. message'[o] = message[o] \ {}
    BY <1>1
  <2> QED BY <2>1
<1>2. ASSUME NEW k \in Key, NEW x \in Chan \cup {Nil}, NEW err \in Error, Get(k, x, err) \/ New(k, x, err)
      PROVE  message' = message
  BY <1>2, GetEffect, NewEffect
<1>3. ASSUME NEW x \in Chan, NEW c \in Conn, NEW err \in Error, NEW mid \in Mids, SendMsg(x, c, mid, err)
      PROVE  message'[o] = message[o] \/ Sweep(o)
  <2>1. PICK D \in SUBSET message[x] :
          (\A m \in D : Expired(m)) /\ message' = [message EXCEPT ![x] = @ \ D]
    BY <1>3 DEF SendMsg, Greater
  <2> QED BY <1>0, <2>1
<1>4. ASSUME NEW x \in Chan, NEW m \in MessageType, NEW err \in Error, PushMsg(x, m, err),
             PushReturns(x)
      PROVE  message'[o] = message[o] \/ (PushReturns(o) /\ Pushed(o, m, message'[o]))
  <2>1. message' = message \/ \E s : message' = [message EXCEPT ![x] = s] /\ Pushed(x, m, s)
    BY <1>4 DEF PushMsg, Pushed
  <2> QED BY <1>0, <1>4, <2>1
<1>5. CASE Call
  BY <1>1, <1>2, <1>3, <1>4, <1>5 DEF Call, AddConn, RemoveConn
<1> QED BY <1>1, <1>5, OneCall

(***************************************************************************)
(* inner_channel.go SendMsg and PushMsg: no step loses a message that is   *)
(* neither expired nor the oldest one of a full store.                     *)
(***************************************************************************)
THEOREM NoOtherLoss == Spec => OnlyExpiredOrOldestLeave
<1> DEFINE A == \A o \in Chan : \A m \in message[o] \ message'[o] :
                  Expired(m) \/ (Full(o) /\ IsFirst(message[o], m) /\ PushReturns(o))
<1>1. IndInv /\ [Next]_vars => [A]_vars
  <2> SUFFICES ASSUME IndInv, [Next]_vars, NEW o \in Chan, NEW m \in message[o] \ message'[o]
               PROVE  Expired(m) \/ (Full(o) /\ IsFirst(message[o], m) /\ PushReturns(o))
    OBVIOUS
  <2>1. CASE \E D \in SUBSET message[o] :
               (\A n \in D : Expired(n)) /\ message'[o] = message[o] \ D
    BY <2>1
  <2>2. CASE PushReturns(o) /\ \E n \in MessageType : Pushed(o, n, message'[o])
    BY <2>2 DEF Pushed, Trimmed
  <2> QED BY <2>1, <2>2, StoreChange
<1> HIDE DEF A
<1>2. Spec => [][A]_vars
  BY <1>1, Invariant, PTL DEF Spec
<1> QED BY <1>2 DEF OnlyExpiredOrOldestLeave, A

\* One member of a store shares no id with another.
UniqueIds(s) == \A m, n \in s : m.MsgID = n.MsgID => m = n

\* PushMsg keeps a store finite, within the limit and its ids distinct.
LEMMA PushedBounded ==
  ASSUME NEW o \in Chan, NEW m \in MessageType, NEW s, Pushed(o, m, s),
         message[o] \subseteq MessageType,
         IsFiniteSet(message[o]), Cardinality(message[o]) <= Limit(MaxStoredMessage),
         UniqueIds(message[o])
  PROVE  /\ IsFiniteSet(s) /\ Cardinality(s) <= Limit(MaxStoredMessage)
         /\ UniqueIds(s)
<1>0. /\ Cardinality(message[o]) \in Nat
      /\ MaxStoredMessage \in Int /\ Limit(MaxStoredMessage) \in Nat
      /\ MaxStoredMessage <= Limit(MaxStoredMessage)
  BY FS_CardinalityType, ConfAssumption DEF Limit
<1>1. PICK t \in Trimmed(o) : s = t \/ (~HasScore(t, m.MsgID) /\ s = t \cup {m})
  BY DEF Pushed
<1>2. t \subseteq message[o] /\ UniqueIds(t)
  BY DEF Trimmed, UniqueIds
<1>3. /\ IsFiniteSet(t) /\ Cardinality(t) \in Nat
      /\ Cardinality(t) <= Limit(MaxStoredMessage)
      /\ Cardinality(t) + 1 <= Limit(MaxStoredMessage)
  <2>1. IsFiniteSet(t) /\ Cardinality(t) \in Nat
    BY <1>2, FS_Subset, FS_CardinalityType
  <2>2. CASE ~Full(o)
    BY <1>0, <2>1, <2>2 DEF Full, Trimmed
  <2>3. CASE Full(o)
    <3>1. PICK n \in message[o] : t = message[o] \ {n}
      BY <2>3 DEF Trimmed
    <3>2. Cardinality(t) = Cardinality(message[o]) - 1
      BY <3>1, FS_RemoveElement
    <3> QED BY <1>0, <2>1, <3>2
  <2> QED BY <2>2, <2>3
<1>4. IsFiniteSet(s) /\ Cardinality(s) <= Limit(MaxStoredMessage)
  <2>1. CASE s = t
    BY <1>3, <2>1
  <2>2. CASE s = t \cup {m}
    <3>1. /\ IsFiniteSet(s)
          /\ Cardinality(s) = Cardinality(t) \/ Cardinality(s) = Cardinality(t) + 1
      BY <1>3, <2>2, FS_AddElement
    <3> QED BY <1>0, <1>3, <3>1
  <2> QED BY <1>1, <2>1, <2>2
<1>5. UniqueIds(s)
  BY <1>1, <1>2 DEF UniqueIds, HasScore
<1> QED BY <1>4, <1>5

\* The messages of every object are finitely many.
FiniteMessages == \A o \in Chan : IsFiniteSet(message[o])

(***************************************************************************)
(* inner_channel.go PushMsg: the store keeps the limit MaxStoredMessage    *)
(* and never holds two messages with one id.                               *)
(***************************************************************************)
THEOREM StoreLimit == Spec => []StoreBounded
<1> DEFINE Inv == FiniteMessages /\ StoreBounded
<1>1. Init => Inv
  BY FS_EmptySet, ConfAssumption DEF Init, InnerInit, FiniteMessages, StoreBounded, Limit
<1>2. IndInv /\ Inv /\ [Next]_vars => Inv'
  <2> SUFFICES ASSUME IndInv, Inv, [Next]_vars, NEW o \in Chan
               PROVE  /\ IsFiniteSet(message'[o])
                      /\ Cardinality(message'[o]) <= Limit(MaxStoredMessage)
                      /\ UniqueIds(message'[o])
    BY DEF FiniteMessages, StoreBounded, Limit, UniqueIds
  <2>1. /\ IsFiniteSet(message[o])
        /\ Cardinality(message[o]) <= Limit(MaxStoredMessage)
        /\ UniqueIds(message[o])
    BY DEF FiniteMessages, StoreBounded, UniqueIds
  <2>2. message[o] \subseteq MessageType
    BY DEF IndInv, TypeOK, InnerTypeOK
  <2>3. CASE \E D \in SUBSET message[o] :
               (\A m \in D : Expired(m)) /\ message'[o] = message[o] \ D
    <3>1. message'[o] \subseteq message[o]
      BY <2>3
    <3>2. /\ IsFiniteSet(message'[o])
          /\ Cardinality(message'[o]) <= Cardinality(message[o])
          /\ Cardinality(message'[o]) \in Nat /\ Cardinality(message[o]) \in Nat
      BY <2>1, <3>1, FS_Subset, FS_CardinalityType
    <3>3. UniqueIds(message'[o])
      BY <2>1, <3>1 DEF UniqueIds
    <3> QED BY <2>1, <3>2, <3>3, ConfAssumption DEF Limit
  <2>4. ASSUME NEW m \in MessageType, Pushed(o, m, message'[o])
        PROVE  /\ IsFiniteSet(message'[o])
               /\ Cardinality(message'[o]) <= Limit(MaxStoredMessage)
               /\ UniqueIds(message'[o])
    BY <2>1, <2>2, <2>4, PushedBounded
  <2> QED BY <2>3, <2>4, StoreChange
<1>3. Inv => StoreBounded
  OBVIOUS
<1> HIDE DEF Inv
<1> QED BY <1>1, <1>2, <1>3, Invariant, PTL DEF Spec

-----------------------------------------------------------------------------
(***************************************************************************)
(* What a registered subscriber has been sent.                             *)
(***************************************************************************)

\* CaughtUpEarly for the connection c.
CaughtUpOn(c) ==
  subPC[c] \in {"add", "loop"} /\ sock[c] = "open" =>
    \A m \in message[subRef[c]] :
      m.MsgID > subArg[c].mid => sent[c][m.Msg] > 0 \/ m.Msg \in gap[c]

\* A step brings no connection closer to its loop by surprise, adds nothing
\* to its channel and forgets nothing that was written to it.
Keeps(c) ==
  /\ subPC'[c] \in {"add", "loop"} /\ sock'[c] = "open" =>
       /\ subPC[c] \in {"add", "loop"} /\ sock[c] = "open"
       /\ subRef'[c] = subRef[c] /\ subArg'[c] = subArg[c]
       /\ message'[subRef[c]] \subseteq message[subRef[c]]
  /\ \A p \in Pub : sent'[c][p] >= sent[c][p]
  /\ gap[c] \subseteq gap'[c]

\* Such a step leaves a connection caught up.
LEMMA KeepsCaughtUp ==
  ASSUME IndInv, IndInv', NEW c \in Conn, CaughtUpOn(c), Keeps(c)
  PROVE  CaughtUpOn(c)'
<1> SUFFICES ASSUME subPC'[c] \in {"add", "loop"}, sock'[c] = "open",
                    NEW m \in message'[subRef'[c]], m.MsgID > subArg'[c].mid
             PROVE  sent'[c][m.Msg] > 0 \/ m.Msg \in gap'[c]
  BY DEF CaughtUpOn
<1>1. /\ subPC[c] \in {"add", "loop"} /\ sock[c] = "open" /\ m \in message[subRef[c]]
      /\ m.MsgID > subArg[c].mid
  BY DEF Keeps
<1>2. m.Msg \in Pub
  <2>1. subRef[c] \in Chan
    BY <1>1 DEF IndInv, HandlesOK, Holding, TypeOK, ListTypeOK
  <2> QED BY <1>1, <2>1 DEF IndInv, TypeOK, InnerTypeOK, MessageType
<1>3. sent[c][m.Msg] \in Nat /\ sent'[c][m.Msg] \in Nat
  BY <1>2 DEF IndInv, TypeOK, InnerTypeOK
<1> QED BY <1>1, <1>2, <1>3 DEF CaughtUpOn, Keeps

\* SendMsg writes every stored message above mid, or fails; it touches no
\* other connection.
LEMMA SubSendCaughtUp ==
  ASSUME IndInv, Protocol # TCPProtocol, NEW d \in Conn, SubSend(d), NEW c \in Conn
  PROVE  Keeps(c) \/ CaughtUpOn(c)'
<1> USE DEF IndInv
<1>a. PICK err \in Error :
        /\ SendMsg(subRef[d], d, subArg[d].mid, err)
        /\ IF err = OK THEN SubGoto(d, "add") ELSE SubReturn(d, err)
  BY DEF SubSend
<1>b. subPC[d] = "send" /\ UNCHANGED <<now, listVars, subRef, subArg, pubVars, admVars, histVars>>
  BY DEF SubSend
<1>c. subRef[d] \in Chan
  BY <1>b DEF HandlesOK, Holding, TypeOK, ListTypeOK
<1>d. /\ UNCHANGED <<conn, token, expire, sock>>
      /\ \A x \in Chan : message'[x] \subseteq message[x]
      /\ \A p \in Pub : sent'[c][p] >= sent[c][p]
  <2>1. sent \in [Conn -> [Pub -> Nat]]
    BY DEF TypeOK, InnerTypeOK
  <2> QED BY <1>a, <1>c, <2>1, SendEffect
<1>1. CASE c # d
  <2>1. subPC'[c] = subPC[c]
    BY <1>a, <1>1 DEF SubGoto, SubReturn, TypeOK
  <2>2. subPC[c] \in {"add", "loop"} => subRef[c] \in Chan
    BY DEF HandlesOK, Holding, TypeOK, ListTypeOK
  <2> QED BY <1>b, <1>d, <2>1, <2>2 DEF Keeps, histVars
<1>2. CASE c = d /\ err # OK
  BY <1>a, <1>b, <1>d, <1>2 DEF Keeps, SubReturn, TypeOK, histVars
<1>3. CASE c = d /\ err = OK
  <2> DEFINE pending == Greater(message[subRef[d]], subArg[d].mid)
             live == {m \in pending : ~Expired(m)}
  <2>1. /\ message' = [message EXCEPT ![subRef[d]] = @ \ (pending \ live)]
        /\ sent' = Deliver({d}, live)
    BY <1>a, <1>3 DEF SendMsg, OK, MsgBufErr, WriteErr
  <2>2. ASSUME NEW m \in message'[subRef[d]], m.MsgID > subArg[d].mid
        PROVE  sent'[d][m.Msg] > 0
    <3>1. m \in live /\ m.Msg \in Pub
      BY <1>c, <2>1, <2>2 DEF Greater, TypeOK, InnerTypeOK, MessageType
    <3>2. sent'[d][m.Msg] = sent[d][m.Msg] + 1 /\ sent[d][m.Msg] \in Nat
      <4>1. sent \in [Conn -> [Pub -> Nat]]
        BY DEF TypeOK, InnerTypeOK
      <4>2. sent'[d][m.Msg] = sent[d][m.Msg] + 1
        BY <2>1, <3>1 DEF Deliver
      <4> QED BY <3>1, <4>1, <4>2
    <3> QED BY <3>2
  <2> QED BY <1>3, <1>b, <2>2 DEF CaughtUpOn
<1> QED BY <1>1, <1>2, <1>3

\* PushMsg writes the new message to every registered connection that
\* works, and gap remembers the connections that are not registered yet.
LEMMA PubPushCaughtUp ==
  ASSUME IndInv, Protocol # TCPProtocol, NEW p \in Pub, PubPush(p),
         NEW c \in Conn, CaughtUpOn(c)
  PROVE  CaughtUpOn(c)'
<1> USE DEF IndInv
<1>a. PICK err \in Error :
        /\ PushMsg(pubRef[p], pubArg[p].msg, err)
        /\ PubReturn(p, CASE err = OK -> "retOK"
                           [] err = Panic -> "panic"
                           [] OTHER -> "retPushMsg")
  BY DEF PubPush
<1>b. /\ pubPC[p] = "push"
      /\ UNCHANGED <<now, listVars, subVars, pubRef, pubArg, admVars, authed>>
  BY DEF PubPush
<1>c. /\ pubRef[p] \in Chan
      /\ pubArg[p].msg \in MessageType /\ pubArg[p].msg.Msg = p
  BY <1>b DEF HandlesOK, PubArg, TypeOK, ListTypeOK
<1>d. /\ UNCHANGED <<conn, token, expire, sock>>
      /\ \A x \in Chan : message'[x] \subseteq message[x] \cup {pubArg[p].msg}
      /\ \A x \in Chan : x # pubRef[p] => message'[x] = message[x]
      /\ \A q \in Pub : sent'[c][q] >= sent[c][q]
      /\ \A q \in Pub : sent[c][q] \in Nat /\ sent'[c][q] \in Nat
  <2>1. sent \in [Conn -> [Pub -> Nat]]
    BY DEF TypeOK, InnerTypeOK
  <2> QED BY <1>a, <1>c, <2>1, PushEffect
<1>e. gap[c] \subseteq gap'[c]
  BY DEF PubPush
<1> SUFFICES ASSUME subPC[c] \in {"add", "loop"}, sock[c] = "open",
                    NEW m \in message'[subRef[c]], m.MsgID > subArg[c].mid
             PROVE  sent'[c][m.Msg] > 0 \/ m.Msg \in gap'[c]
  BY <1>b, <1>d DEF CaughtUpOn, subVars
<1>f. subRef[c] \in Chan
  BY DEF HandlesOK, Holding, TypeOK, ListTypeOK
<1>1. CASE m \in message[subRef[c]]
  <2>1. m.Msg \in Pub
    BY <1>1, <1>f DEF TypeOK, InnerTypeOK, MessageType
  <2> QED BY <1>1, <1>d, <1>e, <2>1 DEF CaughtUpOn
<1>2. CASE m \notin message[subRef[c]]
  <2>1. m = pubArg[p].msg /\ subRef[c] = pubRef[p] /\ m.Msg = p
    BY <1>2, <1>c, <1>d, <1>f
  <2>2. CASE subPC[c] = "add"
    BY <2>1, <2>2, <1>c DEF PubPush
  <2>3. CASE subPC[c] = "loop"
    <3>1. c \in conn[pubRef[p]]
      BY <2>1, <2>3, <1>c DEF RegisteredExactly
    <3>2. \E W \in Written(conn[pubRef[p]]) : sent' = Deliver(W, {pubArg[p].msg})
      <4>1. message' # message
        BY <2>1, <1>2
      <4>2. ~BytesNilFails
        BY DEF BytesNilFails
      <4>3. message' \in [Chan -> SUBSET MessageType] /\ message \in [Chan -> SUBSET MessageType]
        BY <1>a, <1>c, PushEffect DEF TypeOK, InnerTypeOK
      <4>4. m \in message'[pubRef[p]] /\ m \notin message[pubRef[p]]
        BY <1>2, <2>1
      <4>5. \A s \in Trimmed(pubRef[p]) : m \notin s
        BY <4>4 DEF Trimmed
      <4>6. PICK s \in Trimmed(pubRef[p]) :
              \/ message' = [message EXCEPT ![pubRef[p]] = s]
              \/ \E W \in Written(conn[pubRef[p]]) : sent' = Deliver(W, {pubArg[p].msg})
        BY <1>a, <4>1, <4>2 DEF PushMsg
      <4> QED BY <1>c, <4>3, <4>4, <4>5, <4>6
    <3>3. PICK W \in Written(conn[pubRef[p]]) : sent' = Deliver(W, {pubArg[p].msg})
      BY <3>2
    <3>4. c \in W
      BY <3>1, <3>3 DEF Written
    <3>5. sent'[c][p] = sent[c][p] + 1
      BY <3>3, <3>4, <1>c DEF Deliver
    <3> QED BY <2>1, <3>5, <1>d
  <2> QED BY <2>2, <2>3
<1> QED BY <1>1, <1>2

\* Every other step keeps what is stored, written and remembered.
LEMMA OthersKeep ==
  ASSUME IndInv, [Next]_vars, NEW c \in Conn,
         \A d \in Conn : ~SubSend(d), \A p \in Pub : ~PubPush(p)
  PROVE  Keeps(c)
<1> USE DEF IndInv
<1>0. /\ subPC \in [Conn -> SubState] /\ sock \in [Conn -> SockState]
      /\ sent \in [Conn -> [Pub -> Nat]]
      /\ subPC[c] \in {"add", "loop"} => subRef[c] \in Chan
      /\ \A p \in Pub : sent[c][p] >= sent[c][p]
  BY DEF TypeOK, InnerTypeOK, ListTypeOK, HandlesOK, Holding
<1> DEFINE Same == UNCHANGED <<message, sent, gap>>
           Mild == sock'[c] = "open" => sock[c] = "open"
           Stay == subPC'[c] = subPC[c] /\ subRef'[c] = subRef[c] /\ subArg'[c] = subArg[c]
           Away == subPC'[c] \notin {"add", "loop"}
<1>k. ASSUME Same, (Mild /\ Stay) \/ Away PROVE Keeps(c)
  BY <1>k, <1>0 DEF Keeps
<1>1. CASE UNCHANGED vars \/ Terminated
  BY <1>1, <1>k DEF Terminated, vars, innerVars, netVars, subVars, histVars
<1>2. ASSUME NEW d \in Conn, Accept(d) PROVE Keeps(c)
  <2>1. Same /\ (d # c => Mild /\ Stay) /\ (d = c => Away)
    BY <1>2, <1>0 DEF Accept, innerVars, histVars
  <2> QED BY <2>1, <1>k
<1>3. ASSUME NEW d \in Conn, SubReject(d) \/ SubHello(d) \/ LoopExit(d) \/ SubClose(d) \/ PeerGone(d)
      PROVE  Keeps(c)
  <2>1. Same /\ Mild /\ (Stay \/ Away)
    BY <1>3, <1>0 DEF SubReject, SubHello, LoopExit, SubClose, PeerGone, SubGoto, SubReturn,
                      innerVars, netVars, subVars, histVars
  <2> QED BY <2>1, <1>k
<1>4. ASSUME NEW d \in Conn, NEW arg \in SubArg, SubGet(d, arg) PROVE Keeps(c)
  <2>1. PICK o \in Chan \cup {Nil}, err \in Error : Get(arg.key, o, err)
    BY <1>4 DEF SubGet
  <2>2. Mild /\ UNCHANGED <<message, sent>>
    BY <2>1, GetEffect DEF SubArg
  <2>3. Same /\ (Stay \/ Away)
    BY <1>4, <1>0, <2>2 DEF SubGet, SubGoto, SubReturn, histVars
  <2> QED BY <2>2, <2>3, <1>k
<1>5. ASSUME NEW d \in Conn, SubNew(d) PROVE Keeps(c)
  <2>1. PICK o \in Chan \cup {Nil}, err \in Error : New(subArg[d].key, o, err)
    BY <1>5 DEF SubNew
  <2>2. Mild /\ UNCHANGED <<message, sent>>
    BY <1>5, <2>1, NewEffect DEF SubNew, SubArg, HandlesOK, Reading
  <2>3. Same /\ (Stay \/ Away)
    BY <1>5, <1>0, <2>2 DEF SubNew, SubGoto, SubReturn, histVars
  <2> QED BY <2>2, <2>3, <1>k
<1>6. ASSUME NEW d \in Conn, SubAuth(d) \/ SubRemove(d) PROVE Keeps(c)
  <2>1. Same /\ Mild /\ (Stay \/ Away)
    BY <1>6, <1>0 DEF SubAuth, SubRemove, AuthToken, RemoveConn, SubGoto, SubReturn,
                      netVars, histVars
  <2> QED BY <2>1, <1>k
<1>7. ASSUME NEW d \in Conn, SubAdd(d) PROVE Keeps(c)
  <2>1. /\ Same /\ Mild
        /\ subRef' = subRef /\ subArg' = subArg
        /\ subPC'[c] \in {"add", "loop"} => subPC[c] \in {"add", "loop"}
    BY <1>7, <1>0 DEF SubAdd, AddConn, SubGoto, SubReturn, netVars, histVars
  <2> QED BY <2>1, <1>0 DEF Keeps
<1>8. ASSUME NEW p \in Pub, PubGet(p) PROVE Keeps(c)
  <2>1. Stay /\ gap' = gap
    BY <1>8 DEF PubGet, subVars, histVars
  <2>2. CASE UNCHANGED <<innerVars, netVars, listVars, pubRef, pubArg>>
    BY <2>1, <2>2, <1>k DEF innerVars, netVars
  <2>3. ASSUME NEW k \in Key, NEW o \in Chan \cup {Nil}, NEW err \in Error, Get(k, o, err)
        PROVE  Keeps(c)
    <3>1. Mild /\ UNCHANGED <<message, sent>>
      BY <2>3, GetEffect
    <3> QED BY <2>1, <3>1, <1>k
  <2> HIDE DEF Same, Mild, Stay, Away
  <2> QED BY <1>8, <2>2, <2>3 DEF PubGet
<1>9. ASSUME NEW a \in Admin, AdmNew(a) PROVE Keeps(c)
  <2>1. Stay /\ gap' = gap
    BY <1>9 DEF AdmNew, subVars, histVars
  <2>2. CASE UNCHANGED <<innerVars, netVars, listVars, admRef, admArg>>
    BY <2>1, <2>2, <1>k DEF innerVars, netVars
  <2>3. ASSUME NEW k \in Key, NEW o \in Chan \cup {Nil}, NEW err \in Error, New(k, o, err)
        PROVE  Keeps(c)
    <3>1. Mild /\ UNCHANGED <<message, sent>>
      BY <2>3, NewEffect
    <3> QED BY <2>1, <3>1, <1>k
  <2> HIDE DEF Same, Mild, Stay, Away
  <2> QED BY <1>9, <2>2, <2>3 DEF AdmNew, AdmArg
<1>10. ASSUME NEW a \in Admin, AdmToken(a) PROVE Keeps(c)
  <2>1. Same /\ Mild /\ Stay
    BY <1>10 DEF AdmToken, AddToken, netVars, subVars, histVars
  <2> QED BY <2>1, <1>k
<1>11. CASE Tick
  BY <1>11, <1>k DEF Tick, innerVars, netVars, subVars, histVars
<1>12. ASSUME NEW d \in Conn, SubRequest(d) PROVE Keeps(c)
  BY <1>12, <1>3, <1>4 DEF SubRequest, SubscribeTCPHandle, SubscribeHandle
<1>13. ASSUME NEW d \in Conn, SubStep(d) PROVE Keeps(c)
  BY <1>13, <1>3, <1>5, <1>6, <1>7 DEF SubStep, LoopBroken
<1> QED BY <1>1, <1>2, <1>3, <1>8, <1>9, <1>10, <1>11, <1>12, <1>13 DEF Next, LoopTimeout

(***************************************************************************)
(* The messages a registered subscriber has not been written are those     *)
(* pushed between its SendMsg and its AddConn (pubsub_tcp.go and           *)
(* pubsub_http.go): the window of NothingMissed is the only one.  Under    *)
(* the TCP protocol PushMsg stores a message and writes it to nobody, so   *)
(* the theorem excludes it.                                                *)
(***************************************************************************)
THEOREM OnlyTheGap == Protocol # TCPProtocol => (Spec => []CaughtUp)
<1> SUFFICES ASSUME Protocol # TCPProtocol PROVE Spec => []CaughtUp
  OBVIOUS
<1>1. Init => CaughtUpEarly
  BY DEF Init, CaughtUpEarly
<1>2. IndInv /\ IndInv' /\ CaughtUpEarly /\ [Next]_vars => CaughtUpEarly'
  <2> SUFFICES ASSUME IndInv, IndInv', CaughtUpEarly, [Next]_vars, NEW c \in Conn
               PROVE  CaughtUpOn(c)'
    BY DEF CaughtUpEarly, CaughtUpOn
  <2>1. CaughtUpOn(c)
    BY DEF CaughtUpEarly, CaughtUpOn
  <2>2. CASE \E d \in Conn : SubSend(d)
    BY <2>1, <2>2, SubSendCaughtUp, KeepsCaughtUp
  <2>3. CASE \E p \in Pub : PubPush(p)
    BY <2>1, <2>3, PubPushCaughtUp
  <2>4. CASE (\A d \in Conn : ~SubSend(d)) /\ (\A p \in Pub : ~PubPush(p))
    BY <2>1, <2>4, OthersKeep, KeepsCaughtUp
  <2> QED BY <2>2, <2>3, <2>4
<1>3. CaughtUpEarly => CaughtUp
  BY DEF CaughtUpEarly, CaughtUp
<1> QED BY <1>1, <1>2, <1>3, Invariant, PTL DEF Spec

-----------------------------------------------------------------------------
(***************************************************************************)
(* Tokens.                                                                 *)
(***************************************************************************)

LEMMA OneMore ==
  ASSUME NEW S, IsFiniteSet(S), NEW x, x \notin S
  PROVE  /\ IsFiniteSet(S \cup {x})
         /\ Cardinality(S) \in Nat
         /\ Cardinality(S \cup {x}) = Cardinality(S) + 1
  BY FS_AddElement, FS_CardinalityType

LEMMA OneLess ==
  ASSUME NEW S, IsFiniteSet(S), NEW x \in S
  PROVE  /\ IsFiniteSet(S \ {x})
         /\ Cardinality(S \ {x}) \in Nat
         /\ Cardinality(S \ {x}) = Cardinality(S) - 1
  BY FS_RemoveElement, FS_CardinalityType

\* A step that neither authenticates nor answers a request with "ok"; u says
\* for which keys objects are made after it.
LEMMA TokenQuiet ==
  ASSUME IndInv, NotYet,
         NEW w \in [Chan -> Key \cup {Nil}], TokensOK(w),
         NEW u \in [Chan -> Key \cup {Nil}], KeysOK(u)',
         \A k \in Key, t \in Token : Unused(u, k, t)' = Unused(w, k, t),
         authed' = authed,
         \A c \in Conn : c \in authed => subArg'[c] = subArg[c],
         \A c \in Conn : subPC'[c] \in Unauthed => subPC[c] \in Unauthed,
         \A a \in Admin : \/ admRet'[a] = admRet[a] /\ admArg'[a] = admArg[a]
                          \/ <<"retOK">> \notin {admRet[a], admRet'[a]},
         \A a \in Admin : admPC'[a] # "done" => admPC[a] # "done" /\ admRet'[a] = admRet[a]
  PROVE  TokenInv'
<1>1. authed \subseteq Conn
  BY DEF IndInv, TypeOK
<1>2. ASSUME NEW k \in Key, NEW t \in Token
      PROVE  Passed(k, t)' = Passed(k, t) /\ Accepted(k, t)' = Accepted(k, t)
  BY <1>1 DEF Passed, Accepted
<1>3. TokensOK(u)'
  BY <1>2 DEF TokensOK
<1>4. NotYet'
  BY DEF NotYet
<1>. QED
  BY <1>3, <1>4 DEF TokenInv

\* A step that moves the handler of c on, or leaves it where it is.
LEMMA TokenHandler ==
  ASSUME IndInv, TokenInv,
         UNCHANGED <<token, made, authed, subRef, subArg, admVars>>,
         \A k \in Key : data'[k] = Nil \/ data'[k] = data[k],
         \A c \in Conn : /\ subPC'[c] \in Holding => subPC[c] \in Holding
                         /\ subPC'[c] \in Unauthed => subPC[c] \in Unauthed
  PROVE  TokenInv'
<1>1. PICK w \in [Chan -> Key \cup {Nil}] : KeysOK(w) /\ TokensOK(w)
  BY DEF TokenInv
<1>2. KeysOK(w)'
  BY <1>1 DEF KeysOK, admVars
<1>3. \A k \in Key, t \in Token : Unused(w, k, t)' = Unused(w, k, t)
  BY DEF Unused
<1>. QED
  BY <1>1, <1>2, <1>3, TokenQuiet DEF TokenInv, NotYet, admVars

\* New makes the object for the key it is asked for, if it makes one.
LEMMA NewTokens ==
  ASSUME IndInv, NEW w \in [Chan -> Key \cup {Nil}], KeysOK(w),
         NEW k \in Key, NEW o \in Chan \cup {Nil}, NEW err, New(k, o, err)
  PROVE  \E u \in [Chan -> Key \cup {Nil}] :
           /\ \A p \in made : u[p] = w[p]
           /\ err = OK => u[o] = k
           /\ \A l \in Key : data'[l] # Nil => u[data'[l]] = l
           /\ \A l \in Key, t \in Token : Unused(u, l, t)' = Unused(w, l, t)
<1>. USE DEF IndInv, TypeOK, InnerTypeOK, ListTypeOK
<1>1. CASE data[k] # Nil
  <2>1. /\ o = data[k] /\ token' = token /\ data' = data /\ made' = made
    BY <1>1 DEF New, SetDeadline, listVars
  <2>2. /\ \A l \in Key : data'[l] # Nil => w[data'[l]] = l
        /\ w[o] = k
    BY <1>1, <2>1 DEF KeysOK
  <2>3. \A l \in Key, t \in Token : Unused(w, l, t)' = Unused(w, l, t)
    BY <2>1 DEF Unused
  <2>. QED
    BY <2>2, <2>3
<1>2. CASE data[k] = Nil /\ ChannelType # InnerChannelType
  <2>1. err # OK /\ token' = token /\ data' = data /\ made' = made
    BY <1>2 DEF New, innerVars, listVars, OK, ChannelTypeErr
  <2>2. \A l \in Key, t \in Token : Unused(w, l, t)' = Unused(w, l, t)
    BY <2>1 DEF Unused
  <2>. QED
    BY <2>1, <2>2 DEF KeysOK
<1>3. CASE data[k] = Nil /\ ChannelType = InnerChannelType
  <2>. DEFINE u == [w EXCEPT ![o] = k]
  <2>1. /\ o \in Chan \ made
        /\ token' = [token EXCEPT ![o] = {}]
        /\ data' = [data EXCEPT ![k] = o] /\ made' = made \cup {o}
    BY <1>3 DEF New, NewInnerChannel
  <2>2. /\ u \in [Chan -> Key \cup {Nil}] /\ u[o] = k
        /\ \A p \in made : u[p] = w[p]
    BY <2>1
  <2>3. ASSUME NEW l \in Key, data'[l] # Nil
        PROVE  u[data'[l]] = l
    <3>1. CASE l = k
      BY <2>1, <2>2, <3>1
    <3>2. CASE l # k
      <4>1. data'[l] = data[l] /\ data[l] \in made
        BY <2>1, <2>3, <3>2 DEF HandlesOK
      <4>. QED
        BY <2>2, <2>3, <4>1 DEF KeysOK
    <3>. QED
      BY <3>1, <3>2
  <2>4. ASSUME NEW l \in Key, NEW t \in Token
        PROVE  Unused(u, l, t)' = Unused(w, l, t)
    <3>1. \A p \in made : p # o /\ token'[p] = token[p]
      BY <2>1
    <3>2. token'[o] = {}
      BY <2>1
    <3>. QED
      BY <2>1, <2>2, <3>1, <3>2 DEF Unused
  <2>. HIDE DEF u
  <2>. QED
    BY <2>2, <2>3, <2>4
<1>. QED
  BY <1>1, <1>2, <1>3

LEMMA TokenSubGet ==
  ASSUME IndInv, TokenInv, NEW c \in Conn, subPC[c] = "request",
         NEW arg \in SubArg, SubGet(c, arg)
  PROVE  TokenInv'
<1>1. PICK o \in Chan \cup {Nil}, err \in Error :
        /\ Get(arg.key, o, err)
        /\ subRef' = [subRef EXCEPT ![c] = o]
        /\ IF err = OK
             THEN SubGoto(c, IF Auth = 1 THEN "auth" ELSE "hello")
             ELSE IF Auth = 0 THEN SubGoto(c, "new") ELSE SubReturn(c, err)
  BY DEF SubGet
<1>2. /\ subArg' = [subArg EXCEPT ![c] = arg] /\ UNCHANGED <<admVars, authed>>
      /\ arg.key \in Key /\ c \notin authed
  BY DEF SubGet, SubArg, histVars, TokenInv, NotYet, Unauthed
<1>3. /\ token' = token /\ made' = made
      /\ \A l \in Key : data'[l] = Nil \/ data'[l] = data[l]
  BY <1>1, <1>2, GetEffect
<1>4. err = OK => o = data[arg.key] /\ o # Nil
  BY <1>1 DEF Get, OK, ChannelNotExistErr, ChannelExpiredErr
<1>5. PICK w \in [Chan -> Key \cup {Nil}] : KeysOK(w) /\ TokensOK(w)
  BY DEF TokenInv
<1>6. \A d \in Conn : d # c => /\ subPC'[d] = subPC[d] /\ subRef'[d] = subRef[d]
                               /\ subArg'[d] = subArg[d]
  BY <1>1, <1>2 DEF SubGoto, SubReturn, IndInv, TypeOK
<1>7. subPC'[c] \in Holding => w[subRef'[c]] = subArg'[c].key
  <2>1. subPC'[c] \in Holding => err = OK
    BY <1>1 DEF SubGoto, SubReturn, Holding, IndInv, TypeOK
  <2>2. subRef'[c] = o /\ subArg'[c] = arg
    BY <1>1, <1>2 DEF IndInv, TypeOK
  <2>. QED
    BY <1>2, <1>4, <1>5, <2>1, <2>2 DEF KeysOK
<1>8. KeysOK(w)'
  BY <1>2, <1>3, <1>5, <1>6, <1>7 DEF KeysOK, admVars
<1>9. \A k \in Key, t \in Token : Unused(w, k, t)' = Unused(w, k, t)
  BY <1>3 DEF Unused
<1>. QED
  BY <1>2, <1>5, <1>6, <1>8, <1>9, TokenQuiet DEF TokenInv, NotYet, admVars, Unauthed

LEMMA TokenSubNew ==
  ASSUME IndInv, TokenInv, NEW c \in Conn, SubNew(c)
  PROVE  TokenInv'
<1>1. PICK o \in Chan \cup {Nil}, err \in Error :
        /\ New(subArg[c].key, o, err)
        /\ subRef' = [subRef EXCEPT ![c] = o]
        /\ IF err = OK THEN SubGoto(c, "hello") ELSE SubReturn(c, err)
  BY DEF SubNew
<1>2. /\ subPC[c] = "new" /\ UNCHANGED <<subArg, admVars, authed>>
      /\ subArg[c].key \in Key
  BY DEF SubNew, SubArg, histVars, IndInv, HandlesOK, Reading
<1>3. PICK w \in [Chan -> Key \cup {Nil}] : KeysOK(w) /\ TokensOK(w)
  BY DEF TokenInv
<1>4. PICK u \in [Chan -> Key \cup {Nil}] :
        /\ \A p \in made : u[p] = w[p]
        /\ err = OK => u[o] = subArg[c].key
        /\ \A l \in Key : data'[l] # Nil => u[data'[l]] = l
        /\ \A l \in Key, t \in Token : Unused(u, l, t)' = Unused(w, l, t)
  BY <1>1, <1>2, <1>3, NewTokens
<1>5. /\ \A d \in Conn : d # c => subPC'[d] = subPC[d] /\ subRef'[d] = subRef[d]
      /\ subRef'[c] = o
      /\ subPC'[c] = IF err = OK THEN "hello" ELSE "close"
  BY <1>1 DEF SubGoto, SubReturn, IndInv, TypeOK
<1>6. ASSUME NEW d \in Conn, subPC'[d] \in Holding
      PROVE  u[subRef'[d]] = subArg'[d].key
  <2>1. CASE d = c
    BY <1>2, <1>4, <1>5, <1>6, <2>1 DEF Holding
  <2>2. CASE d # c
    <3>1. subPC[d] \in Holding /\ subRef[d] \in made
      BY <1>5, <1>6, <2>2 DEF IndInv, HandlesOK
    <3>. QED
      BY <1>2, <1>3, <1>4, <1>5, <2>2, <3>1 DEF KeysOK
  <2>. QED
    BY <2>1, <2>2
<1>7. ASSUME NEW a \in Admin, admPC'[a] = "token"
      PROVE  u[admRef'[a]] = admArg'[a].key
  BY <1>2, <1>3, <1>4, <1>7 DEF KeysOK, admVars, IndInv, HandlesOK
<1>8. KeysOK(u)'
  BY <1>4, <1>6, <1>7 DEF KeysOK
<1>. QED
  BY <1>2, <1>3, <1>4, <1>5, <1>8, TokenQuiet DEF TokenInv, NotYet, admVars, Unauthed

LEMMA TokenAdmNew ==
  ASSUME IndInv, TokenInv, NEW a \in Admin, AdmNew(a)
  PROVE  TokenInv'
<1>. USE DEF admVars
<1>1. admPC[a] = "init" /\ UNCHANGED <<subVars, authed>> /\ admRet[a] = <<>>
  BY DEF AdmNew, histVars, TokenInv, NotYet
<1>2. PICK w \in [Chan -> Key \cup {Nil}] : KeysOK(w) /\ TokensOK(w)
  BY DEF TokenInv
<1>r. <<"retOK">> \notin {<<>>, <<"retParamErr">>, <<"retCreateChannel">>}
  OBVIOUS
<1>3. CASE /\ \E rets \in {<<>>, <<"retParamErr">>} : AdmReturn(a, rets)
           /\ UNCHANGED <<innerVars, netVars, listVars, admRef, admArg>>
  <2>1. PICK rets \in {<<>>, <<"retParamErr">>} :
          admPC' = [admPC EXCEPT ![a] = "done"] /\ admRet' = [admRet EXCEPT ![a] = rets]
    BY <1>3 DEF AdmReturn
  <2>2. /\ \A b \in Admin : b # a => admPC'[b] = admPC[b] /\ admRet'[b] = admRet[b]
        /\ admPC'[a] = "done" /\ admRet'[a] = rets
        /\ UNCHANGED <<token, made, data, admRef, admArg>>
    BY <1>3, <2>1 DEF IndInv, TypeOK, innerVars, listVars
  <2>3. KeysOK(w)'
    BY <1>1, <1>2, <2>2 DEF KeysOK, subVars
  <2>4. \A k \in Key, t \in Token : Unused(w, k, t)' = Unused(w, k, t)
    BY <2>2 DEF Unused
  <2>5. <<"retOK">> \notin {admRet[a], admRet'[a]}
    BY <1>1, <1>r, <2>2
  <2>. QED
    BY <1>1, <1>2, <2>2, <2>3, <2>4, <2>5, TokenQuiet DEF TokenInv, NotYet, subVars
<1>4. ASSUME NEW arg \in AdmArg, NEW o \in Chan \cup {Nil}, NEW err \in Error,
             admArg' = [admArg EXCEPT ![a] = arg], New(arg.key, o, err),
             admRef' = [admRef EXCEPT ![a] = o],
             IF err = OK
               THEN admPC' = [admPC EXCEPT ![a] = "token"] /\ UNCHANGED admRet
               ELSE AdmReturn(a, <<"retCreateChannel">>)
      PROVE  TokenInv'
  <2>1. /\ \A b \in Admin : b # a => /\ admPC'[b] = admPC[b] /\ admRet'[b] = admRet[b]
                                     /\ admRef'[b] = admRef[b] /\ admArg'[b] = admArg[b]
        /\ admRef'[a] = o /\ admArg'[a] = arg
        /\ \/ err = OK /\ admPC'[a] = "token" /\ admRet'[a] = <<>>
           \/ err # OK /\ admPC'[a] = "done" /\ admRet'[a] = <<"retCreateChannel">>
    BY <1>1, <1>4 DEF AdmReturn, IndInv, TypeOK
  <2>2. arg.key \in Key
    BY DEF AdmArg
  <2>3. PICK u \in [Chan -> Key \cup {Nil}] :
          /\ \A p \in made : u[p] = w[p]
          /\ err = OK => u[o] = arg.key
          /\ \A l \in Key : data'[l] # Nil => u[data'[l]] = l
          /\ \A l \in Key, t \in Token : Unused(u, l, t)' = Unused(w, l, t)
    BY <1>2, <1>4, <2>2, NewTokens
  <2>4. ASSUME NEW b \in Admin, admPC'[b] = "token"
        PROVE  u[admRef'[b]] = admArg'[b].key
    <3>1. CASE b = a
      BY <2>1, <2>3, <2>4, <3>1
    <3>2. CASE b # a
      BY <1>2, <2>1, <2>3, <2>4, <3>2 DEF KeysOK, IndInv, HandlesOK
    <3>. QED
      BY <3>1, <3>2
  <2>5. ASSUME NEW d \in Conn, subPC'[d] \in Holding
        PROVE  u[subRef'[d]] = subArg'[d].key
    BY <1>1, <1>2, <2>3, <2>5 DEF KeysOK, subVars, IndInv, HandlesOK
  <2>6. KeysOK(u)'
    BY <2>3, <2>4, <2>5 DEF KeysOK
  <2>7. <<"retOK">> \notin {admRet[a], admRet'[a]}
    BY <1>1, <1>r, <2>1
  <2>8. \A b \in Admin : admPC'[b] # "done" => admPC[b] # "done" /\ admRet'[b] = admRet[b]
    BY <1>1, <2>1
  <2>. QED
    BY <1>1, <1>2, <2>1, <2>3, <2>6, <2>7, <2>8, TokenQuiet DEF TokenInv, NotYet, subVars
<1>. QED
  BY <1>3, <1>4 DEF AdmNew

\* A subscriber is let in with an unused token of its key, and removes it.
LEMMA TokenAuth ==
  ASSUME IndInv, TokenInv, NEW c \in Conn, SubAuth(c)
  PROVE  TokenInv'
<1>. DEFINE o == subRef[c]
            s == subArg[c].token
            l == subArg[c].key
<1>1. PICK err \in Error :
        /\ AuthToken(o, s, err)
        /\ subPC' = [subPC EXCEPT ![c] = IF err = OK THEN "hello" ELSE "close"]
        /\ authed' = IF err = OK THEN authed \cup {c} ELSE authed
  BY DEF SubAuth, SubGoto, SubReturn
<1>2. /\ UNCHANGED <<listVars, subRef, subArg, admVars>>
      /\ subPC[c] = "auth" /\ c \notin authed /\ authed \subseteq Conn
      /\ o \in made /\ o \in Chan /\ l \in Key /\ s \in Token
  BY DEF SubAuth, TokenInv, NotYet, Unauthed, IndInv, TypeOK, ListTypeOK, HandlesOK, Holding,
         Reading, SubArg
<1>3. PICK w \in [Chan -> Key \cup {Nil}] : KeysOK(w) /\ TokensOK(w)
  BY DEF TokenInv
<1>4. w[o] = l
  BY <1>2, <1>3 DEF KeysOK, Holding
<1>5. /\ \A d \in Conn : d # c => subPC'[d] = subPC[d]
      /\ subPC'[c] = IF err = OK THEN "hello" ELSE "close"
  BY <1>1 DEF IndInv, TypeOK
<1>6. KeysOK(w)'
  BY <1>2, <1>3, <1>5 DEF KeysOK, listVars, admVars, Holding
<1>7. CASE err # OK
  <2>1. token' = token /\ authed' = authed
    BY <1>1, <1>7 DEF AuthToken
  <2>2. \A k \in Key, t \in Token : Unused(w, k, t)' = Unused(w, k, t)
    BY <1>2, <2>1 DEF Unused, listVars
  <2>3. \A d \in Conn : subPC'[d] \in Unauthed => subPC[d] \in Unauthed
    BY <1>5, <1>7 DEF Unauthed
  <2>. QED
    BY <1>2, <1>3, <1>6, <2>1, <2>2, <2>3, TokenQuiet DEF TokenInv, NotYet, admVars
<1>8. CASE err = OK
  <2>1. s \in token[o] /\ token' = [token EXCEPT ![o] = @ \ {s}]
    BY <1>1, <1>8 DEF AuthToken, OK, AuthTokenErr
  <2>2. /\ token'[o] = token[o] \ {s}
        /\ \A p \in Chan : p # o => token'[p] = token[p]
    BY <1>2, <2>1 DEF IndInv, TypeOK, InnerTypeOK
  <2>3. NotYet'
    BY <1>1, <1>2, <1>5, <1>8 DEF TokenInv, NotYet, Unauthed, admVars
  <2>4. ASSUME NEW k \in Key, NEW t \in Token
        PROVE  /\ IsFiniteSet(Passed(k, t)')
               /\ IsFiniteSet(Accepted(k, t)')
               /\ IsFiniteSet(Unused(w, k, t)')
               /\ Cardinality(Passed(k, t)') + Cardinality(Unused(w, k, t)')
                    <= Cardinality(Accepted(k, t)')
    <3>1. Accepted(k, t)' = Accepted(k, t)
      BY <1>2 DEF Accepted, admVars
    <3>2. /\ IsFiniteSet(Passed(k, t)) /\ IsFiniteSet(Accepted(k, t))
          /\ IsFiniteSet(Unused(w, k, t))
          /\ Cardinality(Passed(k, t)) \in Nat /\ Cardinality(Accepted(k, t)) \in Nat
          /\ Cardinality(Unused(w, k, t)) \in Nat
          /\ Cardinality(Passed(k, t)) + Cardinality(Unused(w, k, t))
               <= Cardinality(Accepted(k, t))
      BY <1>3, FS_CardinalityType DEF TokensOK
    <3>3. made \subseteq Chan /\ made' = made
      BY <1>2 DEF IndInv, TypeOK, ListTypeOK, listVars
    <3>4. CASE k = l /\ t = s
      <4>1. Passed(k, t)' = Passed(k, t) \cup {c} /\ c \notin Passed(k, t)
        BY <1>1, <1>2, <1>8, <3>4 DEF Passed
      <4>2. Unused(w, k, t)' = Unused(w, k, t) \ {o} /\ o \in Unused(w, k, t)
        BY <1>2, <1>4, <2>1, <2>2, <3>3, <3>4 DEF Unused
      <4>3. /\ IsFiniteSet(Passed(k, t)')
            /\ Cardinality(Passed(k, t)') = Cardinality(Passed(k, t)) + 1
        BY <3>2, <4>1, OneMore
      <4>4. /\ IsFiniteSet(Unused(w, k, t)')
            /\ Cardinality(Unused(w, k, t)') = Cardinality(Unused(w, k, t)) - 1
        BY <3>2, <4>2, OneLess
      <4>. QED
        BY <3>1, <3>2, <4>3, <4>4
    <3>5. CASE ~(k = l /\ t = s)
      <4>1. Passed(k, t)' = Passed(k, t)
        BY <1>1, <1>2, <1>8, <3>5 DEF Passed
      <4>2. Unused(w, k, t)' = Unused(w, k, t)
        BY <1>2, <1>4, <2>2, <3>3, <3>5 DEF Unused
      <4>. QED
        BY <3>1, <3>2, <4>1, <4>2
    <3>. QED
      BY <3>4, <3>5
  <2>5. TokensOK(w)'
    BY <2>4 DEF TokensOK
  <2>. QED
    BY <1>3, <1>6, <2>3, <2>5 DEF TokenInv
<1>. QED
  BY <1>7, <1>8

\* A request that is answered with "ok" has put its token into the object.
LEMMA TokenAdd ==
  ASSUME IndInv, TokenInv, NEW a \in Admin, AdmToken(a)
  PROVE  TokenInv'
<1>. USE DEF admVars
<1>. DEFINE o == admRef[a]
            s == admArg[a].token
            l == admArg[a].key
<1>1. /\ admPC[a] = "token" /\ admRet[a] = <<>>
      /\ UNCHANGED <<listVars, subVars, admRef, admArg, authed>>
      /\ o \in made /\ o \in Chan /\ l \in Key /\ s \in Token
      /\ admArg[a] = [key |-> l, token |-> s]
  BY DEF AdmToken, histVars, TokenInv, NotYet, IndInv, TypeOK, ListTypeOK, HandlesOK, AdmArg
<1>2. PICK err \in Error, rets \in {<<"retOK">>, <<"retAddToken">>, <<"retAddToken", "retOK">>} :
        /\ AddToken(o, s, err)
        /\ AdmReturn(a, rets)
        /\ err = OK <=> rets = <<"retOK">>
  <2>1. <<"retOK">> \notin {<<"retAddToken">>, <<"retAddToken", "retOK">>}
    OBVIOUS
  <2>. QED
    BY <2>1 DEF AdmToken
<1>3. /\ \A b \in Admin : b # a => admPC'[b] = admPC[b] /\ admRet'[b] = admRet[b]
      /\ admPC'[a] = "done" /\ admRet'[a] = rets
  BY <1>2 DEF AdmReturn, IndInv, TypeOK
<1>4. PICK w \in [Chan -> Key \cup {Nil}] : KeysOK(w) /\ TokensOK(w)
  BY DEF TokenInv
<1>5. w[o] = l
  BY <1>1, <1>4 DEF KeysOK
<1>6. KeysOK(w)'
  BY <1>1, <1>3, <1>4 DEF KeysOK, listVars, subVars
<1>7. CASE err # OK
  <2>1. token' = token
    BY <1>2, <1>7 DEF AddToken
  <2>2. \A k \in Key, t \in Token : Unused(w, k, t)' = Unused(w, k, t)
    BY <1>1, <2>1 DEF Unused, listVars
  <2>3. <<"retOK">> \notin {admRet[a], admRet'[a]}
    <3>1. <<"retOK">> # <<>>
      OBVIOUS
    <3>. QED
      BY <1>1, <1>2, <1>3, <1>7, <3>1
  <2>. QED
    BY <1>1, <1>3, <1>4, <1>6, <2>2, <2>3, TokenQuiet DEF TokenInv, NotYet, subVars
<1>8. CASE err = OK
  <2>1. s \notin token[o] /\ token' = [token EXCEPT ![o] = @ \cup {s}]
    BY <1>2, <1>8 DEF AddToken, OK, TokenExistErr
  <2>2. /\ token'[o] = token[o] \cup {s}
        /\ \A p \in Chan : p # o => token'[p] = token[p]
    BY <1>1, <2>1 DEF IndInv, TypeOK, InnerTypeOK
  <2>3. NotYet'
    BY <1>1, <1>3 DEF TokenInv, NotYet, subVars
  <2>4. ASSUME NEW k \in Key, NEW t \in Token
        PROVE  /\ IsFiniteSet(Passed(k, t)')
               /\ IsFiniteSet(Accepted(k, t)')
               /\ IsFiniteSet(Unused(w, k, t)')
               /\ Cardinality(Passed(k, t)') + Cardinality(Unused(w, k, t)')
                    <= Cardinality(Accepted(k, t)')
    <3>1. Passed(k, t)' = Passed(k, t)
      BY <1>1 DEF Passed, subVars
    <3>2. /\ IsFiniteSet(Passed(k, t)) /\ IsFiniteSet(Accepted(k, t))
          /\ IsFiniteSet(Unused(w, k, t))
          /\ Cardinality(Passed(k, t)) \in Nat /\ Cardinality(Accepted(k, t)) \in Nat
          /\ Cardinality(Unused(w, k, t)) \in Nat
          /\ Cardinality(Passed(k, t)) + Cardinality(Unused(w, k, t))
               <= Cardinality(Accepted(k, t))
      BY <1>4, FS_CardinalityType DEF TokensOK
    <3>3. made \subseteq Chan /\ made' = made
      BY <1>1 DEF IndInv, TypeOK, ListTypeOK, listVars
    <3>4. CASE k = l /\ t = s
      <4>1. /\ Unused(w, k, t)' = Unused(w, k, t) \cup {o}
            /\ o \notin Unused(w, k, t)
        BY <1>1, <1>5, <2>1, <2>2, <3>3, <3>4 DEF Unused
      <4>2. /\ Accepted(k, t)' = Accepted(k, t) \cup {a}
            /\ a \notin Accepted(k, t)
        <5>1. <<"retOK">> # <<>>
          OBVIOUS
        <5>. QED
          BY <1>1, <1>2, <1>3, <1>8, <3>4, <5>1 DEF Accepted
      <4>3. /\ IsFiniteSet(Unused(w, k, t)')
            /\ Cardinality(Unused(w, k, t)') = Cardinality(Unused(w, k, t)) + 1
        BY <3>2, <4>1, OneMore
      <4>4. /\ IsFiniteSet(Accepted(k, t)')
            /\ Cardinality(Accepted(k, t)') = Cardinality(Accepted(k, t)) + 1
        BY <3>2, <4>2, OneMore
      <4>. QED
        BY <3>1, <3>2, <4>3, <4>4
    <3>5. CASE ~(k = l /\ t = s)
      <4>1. Unused(w, k, t)' = Unused(w, k, t)
        BY <1>1, <1>5, <2>2, <3>3, <3>5 DEF Unused
      <4>2. Accepted(k, t)' = Accepted(k, t)
        <5>1. admArg[a] # [key |-> k, token |-> t]
          BY <1>1, <3>5
        <5>. QED
          BY <1>1, <1>3, <5>1 DEF Accepted
      <4>. QED
        BY <3>1, <3>2, <4>1, <4>2
    <3>. QED
      BY <3>4, <3>5
  <2>5. TokensOK(w)'
    BY <2>4 DEF TokensOK
  <2>. QED
    BY <1>4, <1>6, <2>3, <2>5 DEF TokenInv
<1>. QED
  BY <1>7, <1>8

LEMMA TokenStep == IndInv /\ TokenInv /\ [Next]_vars => TokenInv'
<1>. SUFFICES ASSUME IndInv, TokenInv, [Next]_vars
              PROVE  TokenInv'
  OBVIOUS
<1>1. ASSUME NEW c \in Conn, Accept(c) \/ (SubReject(c) /\ subPC[c] = "request") \/ SubHello(c)
      PROVE  TokenInv'
  <2>1. /\ UNCHANGED <<token, data, made, authed, subRef, subArg, admVars>>
        /\ subPC[c] \in Unauthed \cup Holding
        /\ \E s \in {"request", "done", "close", "send"} :
             /\ subPC' = [subPC EXCEPT ![c] = s]
             /\ s = "request" => subPC[c] \in Unauthed
             /\ s = "send" => subPC[c] \in Holding
    BY <1>1 DEF Accept, SubReject, SubReturn, SubHello, SubGoto, innerVars, listVars, histVars,
       Unauthed, Holding
  <2>. QED
    BY <2>1, TokenHandler DEF IndInv, TypeOK, Holding, Unauthed
<1>2. ASSUME NEW c \in Conn, SubSend(c) \/ SubAdd(c) \/ LoopExit(c) \/ SubRemove(c) \/ SubClose(c)
      PROVE  TokenInv'
  <2>1. UNCHANGED <<token, data, made, authed, subRef, subArg, admVars>>
    BY <1>2 DEF SubSend, SendMsg, SubAdd, AddConn, LoopExit, SubRemove, RemoveConn, SubClose,
       innerVars, listVars, histVars
  <2>2. /\ subPC[c] \in Holding \cup {"close"}
        /\ \E s \in {"add", "close", "loop", "remove", "done"} :
             /\ subPC' = [subPC EXCEPT ![c] = s]
             /\ s # "done" => subPC[c] \in Holding
    BY <1>2 DEF SubSend, SubAdd, LoopExit, SubRemove, SubClose, SubGoto, SubReturn, Holding
  <2>. QED
    BY <2>1, <2>2, TokenHandler DEF IndInv, TypeOK, Holding, Unauthed
<1>3. ASSUME NEW p \in Pub, PubGet(p)
      PROVE  TokenInv'
  <2>1. UNCHANGED <<authed, subVars, admVars>>
    BY <1>3 DEF PubGet, histVars
  <2>2. /\ token' = token /\ made' = made
        /\ \A k \in Key : data'[k] = Nil \/ data'[k] = data[k]
    <3>1. CASE UNCHANGED <<innerVars, netVars, listVars, pubRef, pubArg>>
      BY <3>1 DEF innerVars, listVars
    <3>2. CASE \E k \in Key, o \in Chan \cup {Nil}, err \in Error : Get(k, o, err)
      BY <3>2, GetEffect
    <3>. QED
      BY <1>3, <3>1, <3>2 DEF PubGet
  <2>. QED
    BY <2>1, <2>2, TokenHandler DEF subVars
<1>4. CASE Terminated \/ Tick \/ UNCHANGED vars \/ (\E p \in Pub : PubPush(p))
                      \/ (\E c \in Conn : PeerGone(c))
  <2>1. UNCHANGED <<token, data, made, authed, subVars, admVars>>
    BY <1>4 DEF Terminated, Tick, PubPush, PushMsg, PeerGone, vars, innerVars, listVars, histVars,
       subVars, admVars
  <2>. QED
    BY <2>1, TokenHandler DEF subVars
<1>5. ASSUME NEW c \in Conn, SubRequest(c)
      PROVE  TokenInv'
  BY <1>1, <1>5, TokenSubGet DEF SubRequest, SubscribeTCPHandle, SubscribeHandle
<1>6. ASSUME NEW c \in Conn, SubStep(c) \/ LoopTimeout(c)
      PROVE  TokenInv'
  BY <1>1, <1>2, <1>6, TokenSubNew, TokenAuth DEF SubStep, LoopBroken, LoopTimeout
<1>7. ASSUME NEW a \in Admin, AdmNew(a) \/ AdmToken(a)
      PROVE  TokenInv'
  BY <1>7, TokenAdmNew, TokenAdd
<1>8. CASE UNCHANGED vars
  BY <1>4, <1>8
<1>9. CASE Next
  BY <1>1, <1>3, <1>4, <1>5, <1>6, <1>7, <1>9 DEF Next
<1>. QED
  BY <1>8, <1>9

(***************************************************************************)
(* inner_channel.go AddToken and AuthToken keep the tokens of a key apart  *)
(* from those of any other, and a token passes one subscriber for every    *)
(* /ch request answered "ok", also when the list drops the channel object  *)
(* of the key and another one takes its place: no handler works with an    *)
(* object made for another key, so w in TokenInv names each object's key.  *)
(***************************************************************************)
THEOREM TokenOnce == Spec => []TokenUsedOnce
<1>1. Init => TokenInv
  <2>. SUFFICES ASSUME Init PROVE TokenInv
    OBVIOUS
  <2>. DEFINE w == [x \in Chan |-> Nil]
  <2>1. w \in [Chan -> Key \cup {Nil}]
    OBVIOUS
  <2>2. KeysOK(w)
    BY DEF Init, ListInit, KeysOK, Holding
  <2>3. ASSUME NEW k \in Key, NEW t \in Token
        PROVE  Passed(k, t) = {} /\ Accepted(k, t) = {} /\ Unused(w, k, t) = {}
    <3>1. <<"retOK">> # <<>>
      OBVIOUS
    <3>. QED
      BY <3>1 DEF Init, ListInit, Passed, Accepted, Unused
  <2>4. IsFiniteSet({}) /\ Cardinality({}) = 0
    BY FS_EmptySet
  <2>5. TokensOK(w)
    BY <2>3, <2>4 DEF TokensOK
  <2>6. NotYet
    BY DEF Init, NotYet
  <2>. QED
    BY <2>1, <2>2, <2>5, <2>6 DEF TokenInv
<1>2. IndInv /\ TokenInv /\ [Next]_vars => TokenInv'
  BY TokenStep
<1>3. TokenInv => TokenUsedOnce
  <2>. SUFFICES ASSUME TokenInv, NEW k \in Key, NEW t \in Token
                PROVE  Cardinality(Passed(k, t)) <= Cardinality(Accepted(k, t))
    BY DEF TokenUsedOnce, Passed, Accepted
  <2>1. PICK w \in [Chan -> Key \cup {Nil}] : TokensOK(w)
    BY DEF TokenInv
  <2>2. /\ Cardinality(Passed(k, t)) \in Nat /\ Cardinality(Accepted(k, t)) \in Nat
        /\ Cardinality(Unused(w, k, t)) \in Nat
    BY <2>1, FS_CardinalityType DEF TokensOK
  <2>. QED
    BY <2>1, <2>2 DEF TokensOK
<1>. QED
  BY <1>1, <1>2, <1>3, Invariant, PTL DEF Spec
-----------------------------------------------------------------------------
(***************************************************************************)
(* The contract of the Channel interface.                                  *)
(***************************************************************************)

\* What a channel stores is what its publication carries.
StorePublished ==
  \A o \in Chan : \A m \in message[o] : pubArg[m.Msg] \in PubArg /\ pubArg[m.Msg].msg = m

\* The handlers whose connection is new in the words of the contract.
NewPC == {"init", "request", "new", "auth", "hello", "send"}

\* A step that no connection is registered, removed or written by: a handler
\* goes on without changing its phase, or gives a new connection up.
Aside ==
  /\ UNCHANGED <<conn, message, sent, pubPC, pubArg, pubRet>>
  /\ \A c \in Conn : \/ subPC'[c] = subPC[c]
                     \/ subPC[c] \in NewPC /\ subPC'[c] \in NewPC \cup {"close", "done"}
                     \/ subPC[c] = "loop" /\ subPC'[c] = "remove"
                     \/ subPC[c] = "close" /\ subPC'[c] = "done"

\* The steps that are not aside.
LEMMA AsideOrCall ==
  ASSUME IndInv, [Next]_vars
  PROVE  \/ Aside
         \/ \E c \in Conn : SubSend(c) \/ SubAdd(c) \/ SubRemove(c)
         \/ \E p \in Pub : PubGet(p) \/ PubPush(p)
<1> USE DEF IndInv
<1>0. subPC \in [Conn -> SubState]
  BY DEF TypeOK
<1>1. CASE UNCHANGED vars \/ Terminated
  BY <1>1 DEF Terminated, vars, innerVars, netVars, subVars, pubVars, Aside
<1>2. ASSUME NEW d \in Conn, Accept(d) \/ SubHello(d) \/ LoopExit(d) \/ SubClose(d) \/ PeerGone(d)
      PROVE  Aside
  BY <1>2, <1>0 DEF Accept, SubHello, LoopExit, SubClose, PeerGone, SubGoto, SubReturn,
                    innerVars, netVars, subVars, pubVars, Aside, NewPC
<1>3. ASSUME NEW d \in Conn, subPC[d] = "request", SubReject(d)
      PROVE  Aside
  BY <1>3, <1>0 DEF SubReject, SubReturn, innerVars, netVars, pubVars, Aside, NewPC
<1>4. ASSUME NEW d \in Conn, subPC[d] = "request", NEW arg \in SubArg, SubGet(d, arg)
      PROVE  Aside
  <2>1. UNCHANGED <<conn, message, sent>>
    <3>1. PICK o \in Chan \cup {Nil}, err \in Error : Get(arg.key, o, err)
      BY <1>4 DEF SubGet
    <3> QED BY <3>1, GetEffect DEF SubArg
  <2> QED BY <1>4, <1>0, <2>1 DEF SubGet, SubGoto, SubReturn, pubVars, Aside, NewPC
<1>5. ASSUME NEW d \in Conn, SubNew(d)
      PROVE  Aside
  <2>1. UNCHANGED <<conn, message, sent>>
    <3>1. PICK o \in Chan \cup {Nil}, err \in Error : New(subArg[d].key, o, err)
      BY <1>5 DEF SubNew
    <3> QED BY <1>5, <3>1, NewEffect DEF SubNew, SubArg, HandlesOK, Reading
  <2> QED BY <1>5, <1>0, <2>1 DEF SubNew, SubGoto, SubReturn, pubVars, Aside, NewPC
<1>6. ASSUME NEW d \in Conn, SubAuth(d)
      PROVE  Aside
  BY <1>6, <1>0 DEF SubAuth, AuthToken, SubGoto, SubReturn, netVars, pubVars, Aside, NewPC
<1>7. ASSUME NEW a \in Admin, AdmNew(a)
      PROVE  Aside
  <2>1. UNCHANGED <<conn, message, sent>>
    <3>1. CASE UNCHANGED <<innerVars, netVars, listVars, admRef, admArg>>
      BY <3>1 DEF innerVars, netVars
    <3>2. ASSUME NEW arg \in AdmArg, NEW o \in Chan \cup {Nil}, NEW err \in Error,
                 New(arg.key, o, err)
          PROVE  UNCHANGED <<conn, message, sent>>
      BY <3>2, NewEffect DEF AdmArg
    <3> QED BY <1>7, <3>1, <3>2 DEF AdmNew
  <2> QED BY <1>7, <2>1 DEF AdmNew, subVars, pubVars, Aside
<1>8. ASSUME NEW a \in Admin, AdmToken(a)
      PROVE  Aside
  BY <1>8 DEF AdmToken, AddToken, netVars, subVars, pubVars, Aside
<1>9. CASE Tick
  BY <1>9 DEF Tick, innerVars, netVars, subVars, pubVars, Aside
<1>10. ASSUME NEW d \in Conn, SubRequest(d) PROVE Aside
  BY <1>10, <1>3, <1>4 DEF SubRequest, SubscribeTCPHandle, SubscribeHandle
<1> QED BY <1>1, <1>2, <1>5, <1>6, <1>7, <1>8, <1>9, <1>10
        DEF Next, SubStep, LoopBroken, LoopTimeout

\* A stored message keeps its publication's body: only PubGet changes it,
\* before the publication is pushed.
LEMMA StorePublishedStep == IndInv /\ StorePublished /\ [Next]_vars => StorePublished'
<1> SUFFICES ASSUME IndInv, StorePublished, [Next]_vars,
                    NEW o \in Chan, NEW m \in message'[o]
             PROVE  pubArg'[m.Msg] \in PubArg /\ pubArg'[m.Msg].msg = m
  BY DEF StorePublished
<1> USE DEF IndInv
<1>1. ASSUME m \in message[o], pubArg' = pubArg
      PROVE  pubArg'[m.Msg] \in PubArg /\ pubArg'[m.Msg].msg = m
  BY <1>1 DEF StorePublished
<1>2. CASE Aside
  BY <1>1, <1>2 DEF Aside
<1>3. ASSUME NEW c \in Conn, SubSend(c) \/ SubAdd(c) \/ SubRemove(c)
      PROVE  m \in message[o] /\ pubArg' = pubArg
  <2>1. pubArg' = pubArg
    BY <1>3 DEF SubSend, SubAdd, SubRemove, pubVars
  <2>2. CASE SubSend(c)
    <3>1. PICK err \in Error : SendMsg(subRef[c], c, subArg[c].mid, err)
      BY <2>2 DEF SubSend
    <3>2. subRef[c] \in Chan
      BY <2>2 DEF SubSend, HandlesOK, Holding, TypeOK, ListTypeOK
    <3>3. message'[o] \subseteq message[o]
      BY <3>1, <3>2, SendEffect
    <3> QED BY <2>1, <3>3
  <2>3. CASE SubAdd(c) \/ SubRemove(c)
    BY <2>1, <2>3 DEF SubAdd, SubRemove, AddConn, RemoveConn
  <2> QED BY <1>3, <2>2, <2>3
<1>4. ASSUME NEW p \in Pub, PubGet(p)
      PROVE  pubArg'[m.Msg] \in PubArg /\ pubArg'[m.Msg].msg = m
  <2>1. message' = message
    <3>1. ASSUME NEW k \in Key, NEW x \in Chan \cup {Nil}, NEW err \in Error, Get(k, x, err)
          PROVE  message' = message
      BY <3>1, GetEffect
    <3> QED BY <1>4, <3>1 DEF PubGet, innerVars
  <2>2. pubPC[m.Msg] = "done"
    BY <2>1 DEF DeliveredOnce
  <2>3. pubArg' = pubArg \/ \E x : pubArg' = [pubArg EXCEPT ![p] = x]
    BY <1>4 DEF PubGet
  <2>4. m.Msg # p /\ m.Msg \in Pub
    BY <1>4, <2>1, <2>2 DEF PubGet, TypeOK, InnerTypeOK, MessageType
  <2>5. pubArg'[m.Msg] = pubArg[m.Msg]
    BY <2>3, <2>4 DEF TypeOK
  <2> QED BY <2>1, <2>5 DEF StorePublished
<1>5. ASSUME NEW p \in Pub, PubPush(p)
      PROVE  pubArg'[m.Msg] \in PubArg /\ pubArg'[m.Msg].msg = m
  <2>1. /\ pubPC[p] = "push" /\ pubArg' = pubArg
        /\ \E err \in Error : PushMsg(pubRef[p], pubArg[p].msg, err)
    BY <1>5 DEF PubPush
  <2>2. pubRef[p] \in Chan /\ pubArg[p] \in PubArg /\ pubArg[p].msg.Msg = p
    BY <2>1 DEF HandlesOK, TypeOK, ListTypeOK
  <2>3. message'[o] \subseteq message[o] \cup {pubArg[p].msg}
    BY <2>1, <2>2, PushEffect DEF PubArg
  <2>4. CASE m \in message[o]
    BY <1>1, <2>1, <2>4
  <2>5. CASE m = pubArg[p].msg
    BY <2>1, <2>2, <2>5
  <2> QED BY <2>3, <2>4, <2>5
<1> QED BY <1>1, <1>2, <1>3, <1>4, <1>5, AsideOrCall

\* Most steps of a handler change the phase of its connection alone.
LEMMA PhaseOne ==
  ASSUME NEW c \in Conn, NEW pc, subPC \in [Conn -> SubState], subPC' = [subPC EXCEPT ![c] = pc]
  PROVE  Phase' = [Phase EXCEPT ![c] = Phase'[c]]
<1>1. \A d \in Conn \ {c} : subPC'[d] = subPC[d]
  OBVIOUS
<1>2. \A d \in Conn : Phase'[d] = [Phase EXCEPT ![c] = Phase'[c]][d]
  BY <1>1 DEF Phase
<1> QED BY <1>2 DEF Phase

\* A step aside takes connections out that are in no channel.
LEMMA AsideKeeps ==
  ASSUME IndInv, Aside
  PROVE  Contract!Leave({c \in Conn : Phase'[c] = "out"}, {})
<1> DEFINE C == {c \in Conn : Phase'[c] = "out"}
<1>0. conn \in [Chan -> SUBSET Conn]
  BY DEF IndInv, TypeOK, InnerTypeOK
<1>1. \A c \in Conn : Phase'[c] = Phase[c] \/ Phase'[c] = "out"
  BY DEF Aside, Phase, NewPC
<1>2. Phase' = [c \in Conn |-> IF c \in C THEN "out" ELSE Phase[c]]
  <2>1. \A c \in Conn : Phase'[c] = IF c \in C THEN "out" ELSE Phase[c]
    BY <1>1
  <2> QED BY <2>1 DEF Phase
<1>3. \A c \in C : subPC'[c] \in {"close", "done"}
  BY DEF Phase
<1>4. \A c \in C, o \in Chan : c \notin conn[o]
  BY <1>3 DEF Aside, NewPC, IndInv, RegisteredExactly
<1>5. conn' = [o \in Chan |-> conn[o] \ C]
  BY <1>0, <1>4 DEF Aside
<1>6. Answer' = [p \in Pub |-> IF p \in {} THEN "refused" ELSE Answer[p]]
  BY DEF Aside, Answer
<1> QED BY <1>2, <1>5, <1>6 DEF Contract!Leave, Aside

\* One connection is taken out of the channels, or was in none.
LEMMA OutKeeps ==
  ASSUME IndInv, NEW c \in Conn, subPC' = [subPC EXCEPT ![c] = "close"],
         conn' = [o \in Chan |-> conn[o] \ {c}], UNCHANGED <<sent, pubVars>>
  PROVE  Contract!Leave({c}, {})
<1>1. subPC \in [Conn -> SubState]
  BY DEF IndInv, TypeOK
<1>2. Phase' = [d \in Conn |-> IF d \in {c} THEN "out" ELSE Phase[d]]
  <2>1. \A d \in Conn : subPC'[d] = IF d = c THEN "close" ELSE subPC[d]
    BY <1>1
  <2>2. \A d \in Conn : Phase'[d] = IF d \in {c} THEN "out" ELSE Phase[d]
    BY <2>1 DEF Phase
  <2> QED BY <2>2 DEF Phase
<1>3. Answer' = [p \in Pub |-> IF p \in {} THEN "refused" ELSE Answer[p]]
  BY DEF Answer, pubVars
<1> QED BY <1>2, <1>3 DEF Contract!Leave

\* One publication is refused; no connection notices.
LEMMA RefusedKeeps ==
  ASSUME IndInv, NEW p \in Pub, pubPC[p] # "done", NEW ret, ret # "retOK", PubReturn(p, ret),
         UNCHANGED <<conn, sent, subPC>>
  PROVE  Contract!Leave({}, {p})
<1>1. /\ pubPC \in [Pub -> {"init", "push", "done"}] /\ pubRet \in [Pub -> RetCode \cup {"none", "panic"}]
      /\ conn \in [Chan -> SUBSET Conn]
  BY DEF IndInv, TypeOK, InnerTypeOK
<1>2. \A q \in Pub : /\ pubPC'[q] = IF q = p THEN "done" ELSE pubPC[q]
                     /\ pubRet'[q] = IF q = p THEN ret ELSE pubRet[q]
  BY <1>1 DEF PubReturn
<1>3. \A q \in Pub : Answer'[q] = IF q \in {p} THEN "refused" ELSE Answer[q]
  BY <1>2 DEF Answer
<1>4. Answer' = [q \in Pub |-> IF q \in {p} THEN "refused" ELSE Answer[q]]
  BY <1>3 DEF Answer
<1>5. Answer[p] = "none"
  BY DEF Answer
<1>6. Phase' = [c \in Conn |-> IF c \in {} THEN "out" ELSE Phase[c]]
  BY DEF Phase
<1>7. conn' = [o \in Chan |-> conn[o] \ {}]
  BY <1>1
<1> QED BY <1>4, <1>5, <1>6, <1>7 DEF Contract!Leave

\* The ids of the contract are those of the arguments.
LEMMA IdsRead ==
  ASSUME IndInv, StorePublished
  PROVE  /\ \A c \in Conn : subPC[c] \in Holding => AskedID[c] = subArg[c].mid
         /\ \A o \in Chan : \A m \in message[o] : CarriedID[m.Msg] = m.MsgID
<1>1. \A c \in Conn : subPC[c] \in Holding => subArg[c] \in SubArg
  BY DEF IndInv, HandlesOK, Reading
<1>2. \A o \in Chan : \A m \in message[o] : m.Msg \in Pub
  BY DEF IndInv, TypeOK, InnerTypeOK, MessageType
<1> QED BY <1>1, <1>2 DEF StorePublished, AskedID, CarriedID

\* c.SendMsg is the contract's: the connection is caught up, or out.
LEMMA SubSendKeeps ==
  ASSUME IndInv, StorePublished, NEW c \in Conn, SubSend(c)
  PROVE  Contract!SendMsg(c)
<1>1. PICK err \in Error :
        /\ SendMsg(subRef[c], c, subArg[c].mid, err)
        /\ IF err = OK THEN SubGoto(c, "add") ELSE SubReturn(c, err)
  BY DEF SubSend
<1>2. subPC[c] = "send" /\ subRef[c] \in Chan /\ subPC \in [Conn -> SubState]
  BY DEF SubSend, IndInv, HandlesOK, Holding, TypeOK, ListTypeOK
<1>3. Phase[c] = "new"
  BY <1>2 DEF Phase
<1>4. PICK M \in SUBSET Greater(message[subRef[c]], subArg[c].mid) : sent' = Deliver({c}, M)
  BY <1>1 DEF SendMsg
<1>5. \E S \in SUBSET {p \in Pub : CarriedID[p] > AskedID[c]} : Contract!WriteTo({c}, S)
  <2> DEFINE S == {p \in Pub : \E m \in M : m.Msg = p}
  <2>1. \A m \in M : CarriedID[m.Msg] > AskedID[c]
    <3>1. \A m \in M : m \in message[subRef[c]] /\ m.MsgID > subArg[c].mid
      BY <1>4 DEF Greater
    <3>2. AskedID[c] = subArg[c].mid /\ \A m \in M : CarriedID[m.Msg] = m.MsgID
      BY <1>2, <3>1, IdsRead DEF Holding
    <3> QED BY <3>1, <3>2
  <2>2. S \in SUBSET {p \in Pub : CarriedID[p] > AskedID[c]}
    BY <2>1
  <2>3. Contract!WriteTo({c}, S)
    BY <1>4 DEF Contract!WriteTo, Deliver
  <2> QED BY <2>2, <2>3
<1>6. Phase' \in {[Phase EXCEPT ![c] = ph] : ph \in {"caught", "out"}}
  <2>1. \E pc \in {"add", "close"} : subPC' = [subPC EXCEPT ![c] = pc]
    BY <1>1 DEF SubGoto, SubReturn
  <2>2. Phase'[c] \in {"caught", "out"}
    BY <1>2, <2>1 DEF Phase
  <2>3. Phase' = [Phase EXCEPT ![c] = Phase'[c]]
    BY <1>2, <2>1, PhaseOne
  <2> QED BY <2>2, <2>3
<1>7. conn' = conn /\ Answer' = Answer
  BY <1>1 DEF SubSend, SendMsg, Answer, pubVars
<1> QED BY <1>3, <1>5, <1>6, <1>7 DEF Contract!SendMsg

\* The contract counts as everybody else does.
LEMMA SameCount == \A S : Contract!Cardinality(S) = Cardinality(S)
  BY Zenon DEF Contract!Cardinality, Cardinality

\* c.AddConn is the contract's; a connection it refuses is in no channel.
LEMMA SubAddKeeps ==
  ASSUME IndInv, NEW c \in Conn, SubAdd(c)
  PROVE  Contract!AddConn(c) \/ Contract!Leave({c}, {})
<1>0. /\ subPC[c] = "add" /\ subRef[c] \in Chan /\ UNCHANGED <<sent, pubVars>>
      /\ subPC \in [Conn -> SubState] /\ conn \in [Chan -> SUBSET Conn]
  BY DEF SubAdd, AddConn, netVars, IndInv, HandlesOK, Holding, TypeOK, InnerTypeOK, ListTypeOK
<1>1. PICK err \in Error :
        /\ AddConn(subRef[c], c, err)
        /\ IF err = OK THEN SubGoto(c, "loop") ELSE SubReturn(c, err)
  BY DEF SubAdd
<1>2. Phase[c] = "caught" /\ Answer' = Answer
  BY <1>0 DEF Phase, Answer, pubVars
<1>3. CASE err = OK
  <2>1. /\ Cardinality(conn[subRef[c]]) + 1 <= MaxSubscriberPerKey
        /\ conn' = [conn EXCEPT ![subRef[c]] = @ \cup {c}]
        /\ subPC' = [subPC EXCEPT ![c] = "loop"]
    BY <1>1, <1>3 DEF AddConn, SubGoto, OK, MaxConnErr
  <2>2. Phase'[c] = "in" /\ Phase' = [Phase EXCEPT ![c] = Phase'[c]]
    BY <1>0, <2>1, PhaseOne DEF Phase
  <2>3. \E o \in Chan : /\ Cardinality(conn[o]) + 1 <= MaxSubscriberPerKey
                       /\ conn' = [conn EXCEPT ![o] = conn[o] \cup {c}]
    BY <1>0, <2>1
  <2>4. Contract!Enter(c, "in")
    BY <2>2, <2>3, SameCount DEF Contract!Enter
  <2> QED BY <1>0, <1>2, <2>4 DEF Contract!AddConn
<1>4. CASE err # OK
  <2>1. conn' = conn /\ subPC' = [subPC EXCEPT ![c] = "close"]
    BY <1>1, <1>4 DEF AddConn, SubReturn
  <2>2. conn' = [o \in Chan |-> conn[o] \ {c}]
    BY <1>0, <2>1 DEF IndInv, RegisteredExactly
  <2> QED BY <1>0, <2>1, <2>2, OutKeeps
<1> QED BY <1>3, <1>4

\* c.RemoveConn takes the connection out of the one channel it is in.
LEMMA SubRemoveKeeps ==
  ASSUME IndInv, NEW c \in Conn, SubRemove(c)
  PROVE  Contract!Leave({c}, {})
<1>1. /\ subPC[c] = "remove" /\ subRef[c] \in Chan /\ conn \in [Chan -> SUBSET Conn]
      /\ conn' = [conn EXCEPT ![subRef[c]] = @ \ {c}]
      /\ subPC' = [subPC EXCEPT ![c] = "close"]
      /\ UNCHANGED <<sent, pubVars>>
  BY DEF SubRemove, RemoveConn, SubGoto, netVars,
         IndInv, HandlesOK, Holding, TypeOK, InnerTypeOK, ListTypeOK
<1>2. \A o \in Chan : o # subRef[c] => c \notin conn[o]
  BY DEF IndInv, RegisteredExactly
<1>3. conn' = [o \in Chan |-> conn[o] \ {c}]
  BY <1>1, <1>2
<1> QED BY <1>1, <1>3, OutKeeps

\* channel.Get and the parameters: the publication goes on or is refused.
LEMMA PubGetKeeps ==
  ASSUME IndInv, NEW p \in Pub, PubGet(p)
  PROVE  Contract!Leave({}, {p}) \/ UNCHANGED Contract!chVars
<1>1. pubPC[p] = "init" /\ UNCHANGED subPC
  BY DEF PubGet, subVars
<1>2. UNCHANGED <<conn, sent>>
  <2>1. ASSUME NEW k \in Key, NEW o \in Chan \cup {Nil}, NEW err \in Error, Get(k, o, err)
        PROVE  UNCHANGED <<conn, sent>>
    BY <2>1, GetEffect
  <2> QED BY <2>1 DEF PubGet, innerVars, netVars
<1>3. CASE pubPC' = [pubPC EXCEPT ![p] = "push"] /\ pubRet' = pubRet
  <2>1. \A q \in Pub : Answer'[q] = Answer[q]
    BY <1>1, <1>3 DEF Answer, IndInv, TypeOK
  <2>2. Answer' = Answer /\ Phase' = Phase
    BY <1>1, <2>1 DEF Answer, Phase
  <2> QED BY <1>2, <2>2 DEF Contract!chVars
<1>4. CASE \E ret \in {"none", "retParamErr", "retInternalErr", "retGetChannel"} : PubReturn(p, ret)
  BY <1>1, <1>2, <1>4, RefusedKeeps
<1> QED BY <1>3, <1>4 DEF PubGet

\* c.PushMsg: an accepted publication is written as the contract says, any
\* other to nobody.
LEMMA PubPushKeeps ==
  ASSUME IndInv, NEW p \in Pub, PubPush(p)
  PROVE  Contract!PushMsg(p) \/ Contract!Leave({}, {p})
<1>1. PICK err \in Error :
        /\ PushMsg(pubRef[p], pubArg[p].msg, err)
        /\ PubReturn(p, CASE err = OK -> "retOK"
                           [] err = Panic -> "panic"
                           [] OTHER -> "retPushMsg")
  BY DEF PubPush
<1>2. /\ pubPC[p] = "push" /\ UNCHANGED subPC
      /\ pubRef[p] \in Chan /\ pubArg[p].msg \in MessageType /\ pubArg[p].msg.Msg = p
  BY DEF PubPush, subVars, IndInv, HandlesOK, PubArg, TypeOK, ListTypeOK
<1>3. conn' = conn
  BY <1>1 DEF PushMsg
<1>4. CASE err = OK
  <2>1. PICK W \in Written(conn[pubRef[p]]) : sent' = Deliver(W, {pubArg[p].msg})
    BY <1>1, <1>4 DEF PushMsg, OK, MsgExpiredErr, Panic, ErrNodeExists, MsgBufErr
  <2>2. W \in SUBSET conn[pubRef[p]] /\ \A c \in conn[pubRef[p]] \ W : sock[c] # "open"
    BY <2>1 DEF Written
  <2>3. W \subseteq Conn
    BY <1>2, <2>2 DEF IndInv, TypeOK, InnerTypeOK
  <2>4. \A c \in W : sent[c][p] = 0
    BY <1>2, <2>3 DEF IndInv, DeliveredOnce
  <2>5. Contract!WriteTo(W, {p})
    BY <1>2, <2>1 DEF Contract!WriteTo, Deliver
  <2>6. Answer' = [Answer EXCEPT ![p] = "ok"] /\ Answer[p] = "none"
    <3>1. \A q \in Pub : /\ pubPC'[q] = IF q = p THEN "done" ELSE pubPC[q]
                         /\ pubRet'[q] = IF q = p THEN "retOK" ELSE pubRet[q]
      <4>1. PubReturn(p, "retOK")
        BY <1>1, <1>4, OK # Panic DEF OK, Panic
      <4> QED BY <4>1 DEF PubReturn, IndInv, TypeOK
    <3>2. \A q \in Pub : Answer'[q] = [Answer EXCEPT ![p] = "ok"][q]
      BY <3>1 DEF Answer
    <3> QED BY <1>2, <3>2 DEF Answer
  <2>7. Phase' = Phase
    BY <1>2 DEF Phase
  <2> QED BY <1>2, <1>3, <2>2, <2>4, <2>5, <2>6, <2>7 DEF Contract!PushMsg
<1>5. CASE err # OK
  <2>1. sent' = sent
    BY <1>1, <1>5 DEF PushMsg
  <2>2. \E ret \in {"panic", "retPushMsg"} : PubReturn(p, ret)
    BY <1>1, <1>5
  <2> QED BY <1>2, <1>3, <2>1, <2>2, RefusedKeeps
<1> QED BY <1>4, <1>5

(***************************************************************************)
(* channel.go:28-51 and its in-memory implementation: every step of the    *)
(* handlers is a step the Channel interface allows, or none.  A connection *)
(* comes into one channel once and within its limit, it is written no      *)
(* publication twice and none but those it asked for or is registered for, *)
(* and a publication answered ok missed no registered connection.          *)
(***************************************************************************)
THEOREM PushKeepsContract == Spec => KeepsContract
<1>1. Init => Contract!ChInit
  BY DEF Init, InnerInit, Contract!ChInit, Phase, Answer
<1>2. Init => StorePublished
  BY DEF Init, InnerInit, StorePublished
<1>3. IndInv /\ StorePublished /\ [Next]_vars => [Contract!ChNext]_(Contract!chVars)
  <2> SUFFICES ASSUME IndInv, StorePublished, [Next]_vars
               PROVE  Contract!ChNext \/ UNCHANGED Contract!chVars
    OBVIOUS
  <2>1. ASSUME NEW C \in SUBSET Conn, NEW P \in SUBSET Pub, Contract!Leave(C, P)
        PROVE  Contract!ChNext
    BY <2>1 DEF Contract!ChNext
  <2>2. CASE Aside
    BY <2>1, <2>2, AsideKeeps
  <2>3. ASSUME NEW c \in Conn, SubSend(c) \/ SubAdd(c) \/ SubRemove(c)
        PROVE  Contract!ChNext
    <3>1. Contract!SendMsg(c) \/ Contract!AddConn(c) \/ Contract!Leave({c}, {})
      BY <2>3, SubSendKeeps, SubAddKeeps, SubRemoveKeeps
    <3> QED BY <2>1, <3>1 DEF Contract!ChNext
  <2>4. ASSUME NEW p \in Pub, PubGet(p) \/ PubPush(p)
        PROVE  Contract!ChNext \/ UNCHANGED Contract!chVars
    <3>1. Contract!PushMsg(p) \/ Contract!Leave({}, {p}) \/ UNCHANGED Contract!chVars
      BY <2>4, PubGetKeeps, PubPushKeeps
    <3> QED BY <2>1, <3>1 DEF Contract!ChNext
  <2> QED BY <2>2, <2>3, <2>4, AsideOrCall
<1>4. Spec => []StorePublished
  BY <1>2, StorePublishedStep, Invariant, PTL DEF Spec
<1> QED BY <1>1, <1>3, <1>4, Invariant, PTL DEF Spec, KeepsContract, Contract!ChSpec

=============================================================================
