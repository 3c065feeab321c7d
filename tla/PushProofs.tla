----------------------------- MODULE PushProofs -----------------------------
(***************************************************************************)
(* Proofs of the safety properties of the push service, for every number   *)
(* of connections, publications, requests, keys and objects, and every     *)
(* setting of the configuration.                                           *)
(***************************************************************************)
EXTENDS PushInvariant, FiniteSetTheorems, TLAPS

(***************************************************************************)
(* What one call does to the shared state.                                 *)
(***************************************************************************)

\* Get changes the list and the sockets only: it opens no connection, and
\* every object it returns is an allocated one.
LEMMA GetEffect ==
  ASSUME IndInv, NEW k \in Key, NEW o, NEW err, Get(k, o, err)
  PROVE  /\ UNCHANGED <<conn, message, token, expire, sent, made>>
         /\ o \in Chan \cup {Nil}
         /\ err = OK => o \in made
         /\ data' \in [Key -> Chan \cup {Nil}]
         /\ \A l \in Key : data'[l] = Nil \/ data'[l] = data[l]
         /\ sock' \in [Conn -> SockState]
         /\ \A c \in Conn : sock'[c] = "open" => sock[c] = "open"
<1> USE DEF IndInv, TypeOK, InnerTypeOK, ListTypeOK, HandlesOK, innerVars, netVars, listVars
<1>1. CASE data[k] = Nil
  BY <1>1 DEF Get, OK, ChannelNotExistErr
<1>2. CASE data[k] # Nil /\ ~Timeout(data[k])
  BY <1>2 DEF Get
<1>3. CASE data[k] # Nil /\ Timeout(data[k])
  <2>1. /\ o = Nil /\ err = ChannelExpiredErr /\ Close(data[k])
        /\ data' = [data EXCEPT ![k] = Nil] /\ made' = made
    BY <1>3 DEF Get
  <2>2. /\ sock' \in [Conn -> SockState]
        /\ \A c \in Conn : sock'[c] = "open" => sock[c] = "open"
    BY <2>1 DEF Close, SockState
  <2> QED BY <2>1, <2>2 DEF Close, OK, ChannelExpiredErr
<1> QED BY <1>1, <1>2, <1>3

\* New changes the list, a deadline and the tokens of the new object: that
\* object had no subscriber and no message before.
LEMMA NewEffect ==
  ASSUME IndInv, NEW k \in Key, NEW o, NEW err, New(k, o, err)
  PROVE  /\ UNCHANGED <<conn, message, sock, sent>>
         /\ o \in Chan \cup {Nil}
         /\ err = OK => o \in made'
         /\ made \subseteq made' /\ made' \subseteq Chan
         /\ data' \in [Key -> Chan \cup {Nil}]
         /\ \A l \in Key : data'[l] = Nil \/ data'[l] \in made'
         /\ token' \in [Chan -> SUBSET Token]
         /\ expire' \in [Chan -> Int]
<1> USE DEF IndInv, TypeOK, InnerTypeOK, ListTypeOK, HandlesOK
<1>1. CASE data[k] # Nil
  BY <1>1, ConfAssumption DEF New, SetDeadline, netVars, listVars
<1>2. CASE data[k] = Nil /\ ChannelType # InnerChannelType
  BY <1>2 DEF New, innerVars, netVars, listVars, OK, ChannelTypeErr
<1>3. CASE data[k] = Nil /\ ChannelType = InnerChannelType
  <2>1. /\ o \in Chan \ made /\ NewInnerChannel(o)
        /\ data' = [data EXCEPT ![k] = o] /\ made' = made \cup {o}
    BY <1>3 DEF New
  <2>2. conn[o] = {} /\ message[o] = {}
    BY <2>1 DEF RegisteredExactly, Holding
  <2>3. conn' = conn /\ message' = message
    BY <2>1, <2>2 DEF NewInnerChannel
  <2> QED BY <2>1, <2>3, ConfAssumption DEF NewInnerChannel, netVars
<1> QED BY <1>1, <1>2, <1>3

\* Deliver counts one more write of every message of M on the connections W.
LEMMA DeliverEffect ==
  ASSUME sent \in [Conn -> [Pub -> Nat]], NEW W, NEW M, sent' = Deliver(W, M)
  PROVE  /\ sent' \in [Conn -> [Pub -> Nat]]
         /\ \A d \in Conn, p \in Pub :
              sent'[d][p] = IF d \in W /\ (\E m \in M : m.Msg = p)
                              THEN sent[d][p] + 1 ELSE sent[d][p]
<1>1. \A d \in Conn, p \in Pub :
        sent'[d][p] = IF d \in W /\ (\E m \in M : m.Msg = p)
                        THEN sent[d][p] + 1 ELSE sent[d][p]
  BY DEF Deliver
<1>2. sent' = [d \in Conn |-> [p \in Pub |-> sent'[d][p]]]
  BY DEF Deliver
<1>3. \A d \in Conn, p \in Pub : sent'[d][p] \in Nat
  BY <1>1
<1>4. \A d \in Conn : [p \in Pub |-> sent'[d][p]] \in [Pub -> Nat]
  BY <1>3
<1> QED BY <1>1, <1>2, <1>4

\* SendMsg removes messages and writes stored ones, each at most once more.
LEMMA SendEffect ==
  ASSUME IndInv, NEW o \in Chan, NEW c \in Conn, NEW mid, NEW err, SendMsg(o, c, mid, err)
  PROVE  /\ UNCHANGED <<conn, token, expire, sock>>
         /\ message' \in [Chan -> SUBSET MessageType]
         /\ \A x \in Chan : message'[x] \subseteq message[x]
         /\ sent' \in [Conn -> [Pub -> Nat]]
         /\ \A d \in Conn, p \in Pub :
              \/ sent'[d][p] = sent[d][p]
              \/ /\ d = c /\ sent'[d][p] = sent[d][p] + 1
                 /\ \E m \in message[o] : m.Msg = p
<1>1. PICK D, M \in SUBSET message[o], W \in {{c}} :
        message' = [message EXCEPT ![o] = @ \ D] /\ sent' = Deliver(W, M)
  BY DEF SendMsg, Greater
<1>2. message' \in [Chan -> SUBSET MessageType] /\ \A x \in Chan : message'[x] \subseteq message[x]
  BY <1>1 DEF IndInv, TypeOK, InnerTypeOK
<1>3. sent \in [Conn -> [Pub -> Nat]]
  BY DEF IndInv, TypeOK, InnerTypeOK
<1>4. /\ sent' \in [Conn -> [Pub -> Nat]]
      /\ \A d \in Conn, p \in Pub :
           sent'[d][p] = IF d \in W /\ (\E m \in M : m.Msg = p)
                           THEN sent[d][p] + 1 ELSE sent[d][p]
  BY <1>1, <1>3, DeliverEffect
<1>5. UNCHANGED <<conn, token, expire, sock>>
  BY DEF SendMsg
<1>6. \A p \in Pub : (\E m \in M : m.Msg = p) => \E m \in message[o] : m.Msg = p
  BY <1>1
<1> QED BY <1>2, <1>4, <1>5, <1>6

\* PushMsg adds at most its own message, and writes it to registered
\* connections only.
LEMMA PushEffect ==
  ASSUME IndInv, NEW o \in Chan, NEW m \in MessageType, NEW err, PushMsg(o, m, err)
  PROVE  /\ UNCHANGED <<conn, token, expire, sock>>
         /\ message' \in [Chan -> SUBSET MessageType]
         /\ \A x \in Chan : message'[x] \subseteq message[x] \cup {m}
         /\ \A x \in Chan : x # o => message'[x] = message[x]
         /\ sent' \in [Conn -> [Pub -> Nat]]
         /\ \A d \in Conn, p \in Pub :
              \/ sent'[d][p] = sent[d][p]
              \/ d \in conn[o] /\ p = m.Msg /\ sent'[d][p] = sent[d][p] + 1
<1>0. /\ message \in [Chan -> SUBSET MessageType]
      /\ sent \in [Conn -> [Pub -> Nat]]
  BY DEF IndInv, TypeOK, InnerTypeOK
<1>1. message' = message \/ \E s \in SUBSET (message[o] \cup {m}) :
        message' = [message EXCEPT ![o] = s]
  BY DEF PushMsg, Trimmed
<1>2. sent' = sent \/ \E W \in SUBSET conn[o] : sent' = Deliver(W, {m})
  BY DEF PushMsg, Written
<1>3. /\ sent' \in [Conn -> [Pub -> Nat]]
      /\ \A d \in Conn, p \in Pub :
           \/ sent'[d][p] = sent[d][p]
           \/ d \in conn[o] /\ p = m.Msg /\ sent'[d][p] = sent[d][p] + 1
  BY <1>0, <1>2, DeliverEffect
<1>4. /\ message' \in [Chan -> SUBSET MessageType]
      /\ \A x \in Chan : message'[x] \subseteq message[x] \cup {m}
      /\ \A x \in Chan : x # o => message'[x] = message[x]
  BY <1>0, <1>1
<1> QED BY <1>3, <1>4 DEF PushMsg
-----------------------------------------------------------------------------
(***************************************************************************)
(* The inductive invariant.                                                *)
(***************************************************************************)

\* Every handler is at its start, and every object is unallocated.
LEMMA InitIndInv == Init => IndInv
<1> SUFFICES ASSUME Init PROVE IndInv
  OBVIOUS
<1> USE DEF Init, InnerInit, ListInit
<1>1. TypeOK
  BY DEF TypeOK, InnerTypeOK, ListTypeOK, SockState, SubState, Error, RetCode
<1>2. HandlesOK
  BY DEF HandlesOK, Holding, Reading
<1>3. RegisteredExactly
  BY DEF RegisteredExactly
<1>4. DeliveredOnce
  BY DEF DeliveredOnce
<1> QED BY <1>1, <1>2, <1>3, <1>4 DEF IndInv

\* A new connection has no channel yet.
LEMMA AcceptStep ==
  ASSUME IndInv, NEW c \in Conn, Accept(c)
  PROVE  IndInv'
<1> USE DEF IndInv
<1>a. \E x \in SubState, y \in SockState : subPC' = [subPC EXCEPT ![c] = x] /\ sock' = [sock EXCEPT ![c] = y]
  BY DEF Accept, SubState, SockState
<1> USE DEF Accept, innerVars, listVars, pubVars, admVars, histVars
<1>1. TypeOK'
  BY <1>a DEF TypeOK, InnerTypeOK, ListTypeOK, SubState, Error
<1>2. HandlesOK'
  BY <1>a DEF TypeOK, InnerTypeOK, ListTypeOK, HandlesOK, Holding, Reading
<1>3. RegisteredExactly'
  BY <1>a DEF TypeOK, InnerTypeOK, ListTypeOK, RegisteredExactly, HandlesOK, Holding
<1>4. DeliveredOnce'
  BY <1>a DEF TypeOK, InnerTypeOK, ListTypeOK, DeliveredOnce
<1> QED BY <1>1, <1>2, <1>3, <1>4

\* The peer of a connection goes away.
LEMMA PeerGoneStep ==
  ASSUME IndInv, NEW c \in Conn, PeerGone(c)
  PROVE  IndInv'
<1> USE DEF IndInv
<1> USE DEF PeerGone, innerVars, listVars, subVars, pubVars, admVars, histVars
<1>1. TypeOK'
  BY DEF TypeOK, InnerTypeOK, ListTypeOK, SubState, Error, SockState
<1>2. HandlesOK'
  BY DEF TypeOK, InnerTypeOK, ListTypeOK, HandlesOK, Holding, Reading
<1>3. RegisteredExactly'
  BY DEF TypeOK, InnerTypeOK, ListTypeOK, RegisteredExactly, HandlesOK, Holding
<1>4. DeliveredOnce'
  BY DEF TypeOK, InnerTypeOK, ListTypeOK, DeliveredOnce
<1> QED BY <1>1, <1>2, <1>3, <1>4

\* The clock advances.
LEMMA TickStep ==
  ASSUME IndInv, Tick
  PROVE  IndInv'
<1> USE DEF IndInv
<1> USE DEF Tick, innerVars, netVars, listVars, subVars, pubVars, admVars, histVars
<1>1. TypeOK'
  BY DEF TypeOK, InnerTypeOK, ListTypeOK, SubState, Error
<1>2. HandlesOK'
  BY DEF TypeOK, InnerTypeOK, ListTypeOK, HandlesOK, Holding, Reading
<1>3. RegisteredExactly'
  BY DEF TypeOK, InnerTypeOK, ListTypeOK, RegisteredExactly, HandlesOK, Holding
<1>4. DeliveredOnce'
  BY DEF TypeOK, InnerTypeOK, ListTypeOK, DeliveredOnce
<1> QED BY <1>1, <1>2, <1>3, <1>4

\* A malformed request ends the subscription.
LEMMA SubRejectStep ==
  ASSUME IndInv, NEW c \in Conn, subPC[c] = "request", SubReject(c)
  PROVE  IndInv'
<1> USE DEF IndInv
<1> USE DEF SubReject, SubReturn, innerVars, netVars, listVars, pubVars, admVars, histVars
<1>1. TypeOK'
  BY DEF TypeOK, InnerTypeOK, ListTypeOK, SubState, Error, BadRequest
<1>2. HandlesOK'
  BY DEF TypeOK, InnerTypeOK, ListTypeOK, HandlesOK, Holding, Reading
<1>3. RegisteredExactly'
  BY DEF TypeOK, InnerTypeOK, ListTypeOK, RegisteredExactly, HandlesOK, Holding
<1>4. DeliveredOnce'
  BY DEF TypeOK, InnerTypeOK, ListTypeOK, DeliveredOnce
<1> QED BY <1>1, <1>2, <1>3, <1>4

\* A subscriber looks its channel up.
LEMMA SubGetStep ==
  ASSUME IndInv, NEW c \in Conn, subPC[c] = "request", NEW arg \in SubArg, SubGet(c, arg)
  PROVE  IndInv'
<1> USE DEF IndInv
<1>a. PICK o \in Chan \cup {Nil}, err \in Error :
        /\ Get(arg.key, o, err)
        /\ subRef' = [subRef EXCEPT ![c] = o]
        /\ IF err = OK
             THEN SubGoto(c, IF Auth = 1 THEN "auth" ELSE "hello")
             ELSE IF Auth = 0 THEN SubGoto(c, "new") ELSE SubReturn(c, err)
  BY DEF SubGet
<1>b. /\ subArg' = [subArg EXCEPT ![c] = arg]
      /\ UNCHANGED <<now, pubVars, admVars, histVars>>
  BY DEF SubGet
<1>c. arg.key \in Key
  BY DEF SubArg
<1>d. /\ UNCHANGED <<conn, message, token, expire, sent, made>>
      /\ err = OK => o \in made
      /\ data' \in [Key -> Chan \cup {Nil}]
      /\ \A l \in Key : data'[l] = Nil \/ data'[l] = data[l]
      /\ sock' \in [Conn -> SockState]
  BY <1>a, <1>c, GetEffect
<1> USE DEF SubGoto, SubReturn, pubVars, admVars, histVars
<1>1. TypeOK'
  BY <1>a, <1>b, <1>d DEF TypeOK, InnerTypeOK, ListTypeOK, SubState, Error
<1>2. HandlesOK'
  BY <1>a, <1>b, <1>d DEF TypeOK, InnerTypeOK, ListTypeOK, HandlesOK, Holding, Reading
<1>3. RegisteredExactly'
  BY <1>a, <1>b, <1>d DEF TypeOK, InnerTypeOK, ListTypeOK, RegisteredExactly, HandlesOK, Holding
<1>4. DeliveredOnce'
  BY <1>a, <1>b, <1>d DEF TypeOK, InnerTypeOK, ListTypeOK, DeliveredOnce
<1> QED BY <1>1, <1>2, <1>3, <1>4

\* A subscriber creates its channel, or finds it created meanwhile.
LEMMA SubNewStep ==
  ASSUME IndInv, NEW c \in Conn, SubNew(c)
  PROVE  IndInv'
<1> USE DEF IndInv
<1>a. PICK o \in Chan \cup {Nil}, err \in Error :
        /\ New(subArg[c].key, o, err)
        /\ subRef' = [subRef EXCEPT ![c] = o]
        /\ IF err = OK THEN SubGoto(c, "hello") ELSE SubReturn(c, err)
  BY DEF SubNew
<1>b. subPC[c] = "new" /\ UNCHANGED <<now, subArg, pubVars, admVars, histVars>>
  BY DEF SubNew
<1>c. subArg[c].key \in Key
  BY <1>b DEF SubArg, HandlesOK, Reading
<1>d. /\ UNCHANGED <<conn, message, sock, sent>>
      /\ err = OK => o \in made'
      /\ made \subseteq made' /\ made' \subseteq Chan
      /\ data' \in [Key -> Chan \cup {Nil}]
      /\ \A l \in Key : data'[l] = Nil \/ data'[l] \in made'
      /\ token' \in [Chan -> SUBSET Token]
      /\ expire' \in [Chan -> Int]
  BY <1>a, <1>c, NewEffect
<1> USE DEF SubGoto, SubReturn, pubVars, admVars, histVars
<1>1. TypeOK'
  BY <1>a, <1>b, <1>d DEF TypeOK, InnerTypeOK, ListTypeOK, SubState, Error
<1>2. HandlesOK'
  BY <1>a, <1>b, <1>d DEF TypeOK, InnerTypeOK, ListTypeOK, HandlesOK, Holding, Reading
<1>3. RegisteredExactly'
  BY <1>a, <1>b, <1>d DEF TypeOK, InnerTypeOK, ListTypeOK, RegisteredExactly, HandlesOK, Holding
<1>4. DeliveredOnce'
  BY <1>a, <1>b, <1>d DEF TypeOK, InnerTypeOK, ListTypeOK, DeliveredOnce
<1> QED BY <1>1, <1>2, <1>3, <1>4

\* A subscriber spends its token.
LEMMA SubAuthStep ==
  ASSUME IndInv, NEW c \in Conn, SubAuth(c)
  PROVE  IndInv'
<1> USE DEF IndInv
<1>a. PICK err \in Error :
        /\ AuthToken(subRef[c], subArg[c].token, err)
        /\ IF err = OK
             THEN SubGoto(c, "hello") /\ authed' = authed \cup {c}
             ELSE SubReturn(c, err) /\ UNCHANGED authed
  BY DEF SubAuth
<1>b. subPC[c] = "auth" /\ UNCHANGED <<now, listVars, subRef, subArg, pubVars, admVars, gap>>
  BY DEF SubAuth
<1>c. /\ UNCHANGED <<conn, message, expire, netVars>>
      /\ token' \in [Chan -> SUBSET Token]
  BY <1>a DEF AuthToken, TypeOK, InnerTypeOK
<1> USE DEF SubGoto, SubReturn, netVars, listVars, pubVars, admVars
<1>t. subPC' \in [Conn -> SubState] /\ subErr' \in [Conn -> Error]
  BY <1>a DEF TypeOK, SubState, Error, AuthTokenErr
<1>u. authed' \in SUBSET Conn
  BY <1>a DEF TypeOK
<1>1. TypeOK'
  BY <1>b, <1>c, <1>t, <1>u DEF TypeOK, InnerTypeOK, ListTypeOK
<1>2. HandlesOK'
  BY <1>a, <1>b, <1>c DEF TypeOK, InnerTypeOK, ListTypeOK, HandlesOK, Holding, Reading
<1>3. RegisteredExactly'
  BY <1>a, <1>b, <1>c DEF TypeOK, InnerTypeOK, ListTypeOK, RegisteredExactly, HandlesOK, Holding
<1>4. DeliveredOnce'
  BY <1>a, <1>b, <1>c DEF TypeOK, InnerTypeOK, ListTypeOK, DeliveredOnce
<1> QED BY <1>1, <1>2, <1>3, <1>4

\* A subscriber is written the first heartbeat.
LEMMA SubHelloStep ==
  ASSUME IndInv, NEW c \in Conn, SubHello(c)
  PROVE  IndInv'
<1> USE DEF IndInv
<1>a. /\ subPC[c] = "hello"
      /\ SubGoto(c, "send") \/ SubReturn(c, WriteErr)
      /\ UNCHANGED <<now, innerVars, netVars, listVars, subRef, subArg,
                     pubVars, admVars, histVars>>
  BY DEF SubHello
<1> USE DEF SubGoto, SubReturn, innerVars, netVars, listVars, pubVars, admVars, histVars
<1>t. subPC' \in [Conn -> SubState] /\ subErr' \in [Conn -> Error]
  BY <1>a DEF TypeOK, SubState, Error, WriteErr
<1>1. TypeOK'
  BY <1>a, <1>t DEF TypeOK, InnerTypeOK, ListTypeOK
<1>2. HandlesOK'
  BY <1>a DEF TypeOK, InnerTypeOK, ListTypeOK, HandlesOK, Holding, Reading
<1>3. RegisteredExactly'
  BY <1>a DEF TypeOK, InnerTypeOK, ListTypeOK, RegisteredExactly, HandlesOK, Holding
<1>4. DeliveredOnce'
  BY <1>a DEF TypeOK, InnerTypeOK, ListTypeOK, DeliveredOnce
<1> QED BY <1>1, <1>2, <1>3, <1>4

\* A subscriber is written the stored messages: none was written before.
LEMMA SubSendStep ==
  ASSUME IndInv, NEW c \in Conn, SubSend(c)
  PROVE  IndInv'
<1> USE DEF IndInv
<1>a. PICK err \in Error :
        /\ SendMsg(subRef[c], c, subArg[c].mid, err)
        /\ IF err = OK THEN SubGoto(c, "add") ELSE SubReturn(c, err)
  BY DEF SubSend
<1>b. subPC[c] = "send" /\ UNCHANGED <<now, listVars, subRef, subArg, pubVars, admVars, histVars>>
  BY DEF SubSend
<1>c. subRef[c] \in Chan
  BY <1>b DEF HandlesOK, Holding, TypeOK, ListTypeOK
<1>d. /\ UNCHANGED <<conn, token, expire, sock>>
      /\ message' \in [Chan -> SUBSET MessageType]
      /\ \A x \in Chan : message'[x] \subseteq message[x]
      /\ sent' \in [Conn -> [Pub -> Nat]]
      /\ \A d \in Conn, p \in Pub :
           \/ sent'[d][p] = sent[d][p]
           \/ /\ d = c /\ sent'[d][p] = sent[d][p] + 1
              /\ \E m \in message[subRef[c]] : m.Msg = p
  BY <1>a, <1>c, SendEffect
<1> USE DEF SubGoto, SubReturn, listVars, pubVars, admVars, histVars
<1>t. subPC' \in [Conn -> SubState] /\ subErr' \in [Conn -> Error]
  BY <1>a DEF TypeOK, SubState, Error
<1>1. TypeOK'
  BY <1>b, <1>d, <1>t DEF TypeOK, InnerTypeOK, ListTypeOK
<1>2. HandlesOK'
  BY <1>a, <1>b, <1>c, <1>d DEF TypeOK, InnerTypeOK, ListTypeOK, HandlesOK, Holding, Reading
<1>3. RegisteredExactly'
  BY <1>a, <1>b, <1>c, <1>d DEF TypeOK, InnerTypeOK, ListTypeOK, RegisteredExactly, HandlesOK, Holding
<1>4. DeliveredOnce'
  <2>1. \A o \in Chan : \A m \in message'[o] : pubPC'[m.Msg] = "done"
    BY <1>b, <1>d DEF DeliveredOnce
  <2>2. \A m \in message[subRef[c]] : pubPC[m.Msg] = "done"
    BY <1>c DEF DeliveredOnce
  <2>3. /\ subPC'[c] \in {"add", "close"}
        /\ \A d \in Conn : d # c => subPC'[d] = subPC[d]
        /\ pubPC' = pubPC
    BY <1>a, <1>b DEF TypeOK
  <2>4. ASSUME NEW d \in Conn, NEW p \in Pub, sent'[d][p] # 0
        PROVE  /\ sent'[d][p] = 1 /\ pubPC'[p] = "done"
               /\ subPC'[d] \notin {"init", "request", "new", "auth", "hello", "send"}
    <3>1. CASE d = c
      BY <2>2, <2>3, <2>4, <3>1, <1>b, <1>d DEF DeliveredOnce
    <3>2. CASE d # c
      BY <2>3, <2>4, <3>2, <1>d DEF DeliveredOnce
    <3> QED BY <3>1, <3>2
  <2> QED BY <2>1, <2>4 DEF DeliveredOnce
<1> QED BY <1>1, <1>2, <1>3, <1>4

\* A subscriber is registered, or refused.
LEMMA SubAddStep ==
  ASSUME IndInv, NEW c \in Conn, SubAdd(c)
  PROVE  IndInv'
<1> USE DEF IndInv
<1>a. PICK err \in Error :
        /\ AddConn(subRef[c], c, err)
        /\ IF err = OK THEN SubGoto(c, "loop") ELSE SubReturn(c, err)
  BY DEF SubAdd
<1>b. subPC[c] = "add" /\ UNCHANGED <<now, listVars, subRef, subArg, pubVars, admVars, histVars>>
  BY DEF SubAdd
<1>c. subRef[c] \in Chan
  BY <1>b DEF HandlesOK, Holding, TypeOK, ListTypeOK
<1>d. /\ UNCHANGED <<message, token, expire, netVars>>
      /\ conn' = IF err = OK THEN [conn EXCEPT ![subRef[c]] = @ \cup {c}] ELSE conn
  BY <1>a DEF AddConn, OK, MaxConnErr
<1> USE DEF SubGoto, SubReturn, netVars, listVars, pubVars, admVars, histVars
<1>1. TypeOK'
  BY <1>a, <1>b, <1>c, <1>d DEF TypeOK, InnerTypeOK, ListTypeOK, SubState, Error
<1>2. HandlesOK'
  BY <1>a, <1>b, <1>c, <1>d DEF TypeOK, InnerTypeOK, ListTypeOK, HandlesOK, Holding, Reading
<1>3. RegisteredExactly'
  BY <1>a, <1>b, <1>c, <1>d DEF TypeOK, InnerTypeOK, ListTypeOK, RegisteredExactly, HandlesOK, Holding
<1>4. DeliveredOnce'
  BY <1>a, <1>b, <1>c, <1>d DEF TypeOK, InnerTypeOK, ListTypeOK, DeliveredOnce
<1> QED BY <1>1, <1>2, <1>3, <1>4

\* The heartbeat loop ends; the registration stays for RemoveConn.
LEMMA LoopExitStep ==
  ASSUME IndInv, NEW c \in Conn, LoopExit(c)
  PROVE  IndInv'
<1> USE DEF IndInv
<1> USE DEF LoopExit, SubGoto, innerVars, netVars, listVars, pubVars, admVars, histVars
<1>1. TypeOK'
  BY DEF TypeOK, InnerTypeOK, ListTypeOK, SubState, Error
<1>2. HandlesOK'
  BY DEF TypeOK, InnerTypeOK, ListTypeOK, HandlesOK, Holding, Reading
<1>3. RegisteredExactly'
  BY DEF TypeOK, InnerTypeOK, ListTypeOK, RegisteredExactly, HandlesOK, Holding
<1>4. DeliveredOnce'
  BY DEF TypeOK, InnerTypeOK, ListTypeOK, DeliveredOnce
<1> QED BY <1>1, <1>2, <1>3, <1>4

\* A subscriber is unregistered.
LEMMA SubRemoveStep ==
  ASSUME IndInv, NEW c \in Conn, SubRemove(c)
  PROVE  IndInv'
<1> USE DEF IndInv
<1>a. /\ subPC[c] = "remove" /\ RemoveConn(subRef[c], c) /\ SubGoto(c, "close")
      /\ UNCHANGED <<now, listVars, subRef, subArg, pubVars, admVars, histVars>>
  BY DEF SubRemove
<1>b. subRef[c] \in Chan
  BY <1>a DEF HandlesOK, Holding, TypeOK, ListTypeOK
<1> USE DEF SubGoto, RemoveConn, netVars, listVars, pubVars, admVars, histVars
<1>1. TypeOK'
  BY <1>a, <1>b DEF TypeOK, InnerTypeOK, ListTypeOK, SubState, Error
<1>2. HandlesOK'
  BY <1>a, <1>b DEF TypeOK, InnerTypeOK, ListTypeOK, HandlesOK, Holding, Reading
<1>3. RegisteredExactly'
  BY <1>a, <1>b DEF TypeOK, InnerTypeOK, ListTypeOK, RegisteredExactly, HandlesOK, Holding
<1>4. DeliveredOnce'
  BY <1>a, <1>b DEF TypeOK, InnerTypeOK, ListTypeOK, DeliveredOnce
<1> QED BY <1>1, <1>2, <1>3, <1>4

\* A handler closes its connection and ends.
LEMMA SubCloseStep ==
  ASSUME IndInv, NEW c \in Conn, SubClose(c)
  PROVE  IndInv'
<1> USE DEF IndInv
<1> USE DEF SubClose, SubGoto, innerVars, listVars, pubVars, admVars, histVars
<1>1. TypeOK'
  BY DEF TypeOK, InnerTypeOK, ListTypeOK, SubState, Error, SockState
<1>2. HandlesOK'
  BY DEF TypeOK, InnerTypeOK, ListTypeOK, HandlesOK, Holding, Reading
<1>3. RegisteredExactly'
  BY DEF TypeOK, InnerTypeOK, ListTypeOK, RegisteredExactly, HandlesOK, Holding
<1>4. DeliveredOnce'
  BY DEF TypeOK, InnerTypeOK, ListTypeOK, DeliveredOnce
<1> QED BY <1>1, <1>2, <1>3, <1>4

\* A publication is refused because of its parameters.
LEMMA PubParamStep ==
  ASSUME IndInv, NEW p \in Pub, NEW ret \in RetCode \cup {"none"}, PubReturn(p, ret),
         UNCHANGED <<now, innerVars, netVars, listVars, subVars, pubRef, pubArg, admVars, histVars>>
  PROVE  IndInv'
<1> USE DEF IndInv
<1> USE DEF PubReturn, innerVars, netVars, listVars, subVars, admVars, histVars
<1>1. TypeOK'
  BY DEF TypeOK, InnerTypeOK, ListTypeOK, SubState, Error
<1>2. HandlesOK'
  BY DEF TypeOK, InnerTypeOK, ListTypeOK, HandlesOK, Holding, Reading
<1>3. RegisteredExactly'
  BY DEF TypeOK, InnerTypeOK, ListTypeOK, RegisteredExactly, HandlesOK, Holding
<1>4. DeliveredOnce'
  BY DEF TypeOK, InnerTypeOK, ListTypeOK, DeliveredOnce
<1> QED BY <1>1, <1>2, <1>3, <1>4

\* A publication looks its channel up.
LEMMA PubGetStep ==
  ASSUME IndInv, NEW p \in Pub, pubPC[p] = "init", NEW k \in Key, NEW id \in MsgIDs, NEW sec \in ExpireSec,
         pubArg' = [pubArg EXCEPT ![p] =
           [key |-> k, msg |-> [Msg |-> p, Expire |-> now + sec, MsgID |-> id]]],
         NEW o \in Chan \cup {Nil}, NEW err \in Error, Get(k, o, err),
         pubRef' = [pubRef EXCEPT ![p] = o],
         IF err = OK THEN pubPC' = [pubPC EXCEPT ![p] = "push"] /\ UNCHANGED pubRet
                     ELSE PubReturn(p, "retGetChannel"),
         UNCHANGED <<now, subVars, admVars, histVars>>
  PROVE  IndInv'
<1> USE DEF IndInv
<1>a. /\ UNCHANGED <<conn, message, token, expire, sent, made>>
      /\ err = OK => o \in made
      /\ data' \in [Key -> Chan \cup {Nil}]
      /\ \A l \in Key : data'[l] = Nil \/ data'[l] = data[l]
      /\ sock' \in [Conn -> SockState]
  BY GetEffect
<1> DEFINE arg == [key |-> k, msg |-> [Msg |-> p, Expire |-> now + sec, MsgID |-> id]]
<1>b. arg \in PubArg /\ arg.msg.Msg = p
  BY ServiceAssumption DEF PubArg, MessageType, TypeOK
<1>c. pubArg' = [pubArg EXCEPT ![p] = arg]
  OBVIOUS
<1> HIDE DEF arg
<1>d. /\ pubPC' = [pubPC EXCEPT ![p] = IF err = OK THEN "push" ELSE "done"]
      /\ pubRet' \in [Pub -> RetCode \cup {"none", "panic"}]
  BY DEF PubReturn, RetCode, TypeOK
<1>e. \A q \in Pub : pubPC[q] = "done" <=> pubPC'[q] = "done" /\ q # p
  BY <1>d DEF TypeOK
<1> USE DEF subVars, admVars, histVars
<1>1. TypeOK'
  BY <1>a, <1>b, <1>c, <1>d DEF TypeOK, InnerTypeOK, ListTypeOK, SubState, Error 
<1>2. HandlesOK'
  BY <1>a, <1>b, <1>c, <1>d DEF TypeOK, InnerTypeOK, ListTypeOK, HandlesOK, Holding, Reading
<1>3. RegisteredExactly'
  BY <1>a, <1>b, <1>c, <1>d DEF TypeOK, InnerTypeOK, ListTypeOK, RegisteredExactly, HandlesOK, Holding
<1>4. DeliveredOnce'
  <2>1. \A o1 \in Chan : \A m \in message'[o1] : pubPC'[m.Msg] = "done"
    BY <1>a, <1>e DEF DeliveredOnce, TypeOK, InnerTypeOK, MessageType
  <2>2. \A d \in Conn, q \in Pub :
          sent'[d][q] # 0 => /\ sent'[d][q] = 1 /\ pubPC'[q] = "done"
                             /\ subPC'[d] \notin {"init", "request", "new", "auth", "hello", "send"}
    BY <1>a, <1>e DEF DeliveredOnce
  <2> QED BY <2>1, <2>2 DEF DeliveredOnce
<1> QED BY <1>1, <1>2, <1>3, <1>4

\* A publication is stored and pushed: it was not stored or written before.
LEMMA PubPushStep ==
  ASSUME IndInv, NEW p \in Pub, PubPush(p)
  PROVE  IndInv'
<1> USE DEF IndInv
<1>a. PICK err \in Error :
        /\ PushMsg(pubRef[p], pubArg[p].msg, err)
        /\ PubReturn(p, CASE err = OK -> "retOK"
                           [] err = Panic -> "panic"
                           [] OTHER -> "retPushMsg")
  BY DEF PubPush
<1>b. /\ pubPC[p] = "push"
      /\ UNCHANGED <<now, listVars, subVars, pubRef, pubArg, admVars, authed>>
  BY DEF PubPush
<1>c. /\ pubRef[p] \in made /\ pubRef[p] \in Chan
      /\ pubArg[p].msg \in MessageType /\ pubArg[p].msg.Msg = p
  BY <1>b DEF HandlesOK, PubArg, TypeOK, ListTypeOK
<1>d. /\ UNCHANGED <<conn, token, expire, sock>>
      /\ message' \in [Chan -> SUBSET MessageType]
      /\ \A x \in Chan : message'[x] \subseteq message[x] \cup {pubArg[p].msg}
      /\ \A x \in Chan : x # pubRef[p] => message'[x] = message[x]
      /\ sent' \in [Conn -> [Pub -> Nat]]
      /\ \A d \in Conn, q \in Pub :
           \/ sent'[d][q] = sent[d][q]
           \/ d \in conn[pubRef[p]] /\ q = p /\ sent'[d][q] = sent[d][q] + 1
  BY <1>a, <1>c, PushEffect
<1>e. gap' \in [Conn -> SUBSET Pub]
  BY DEF PubPush, TypeOK
<1>f. /\ pubPC' = [pubPC EXCEPT ![p] = "done"]
      /\ pubRet' \in [Pub -> RetCode \cup {"none", "panic"}]
  BY <1>a DEF PubReturn, RetCode, TypeOK
<1> USE DEF listVars, subVars, admVars
<1>1. TypeOK'
  BY <1>b, <1>c, <1>d, <1>e, <1>f DEF TypeOK, InnerTypeOK, ListTypeOK, SubState, Error
<1>2. HandlesOK'
  BY <1>b, <1>c, <1>d, <1>e, <1>f DEF TypeOK, InnerTypeOK, ListTypeOK, HandlesOK, Holding, Reading
<1>3. RegisteredExactly'
  BY <1>b, <1>c, <1>d, <1>e, <1>f DEF TypeOK, InnerTypeOK, ListTypeOK, RegisteredExactly, HandlesOK, Holding
<1>4. DeliveredOnce'
  <2>1. \A o \in Chan : \A m \in message'[o] : pubPC'[m.Msg] = "done"
    BY <1>c, <1>d, <1>f DEF DeliveredOnce, TypeOK, InnerTypeOK, MessageType
  <2>2. ASSUME NEW d \in Conn, NEW q \in Pub, sent'[d][q] # 0
        PROVE  /\ sent'[d][q] = 1 /\ pubPC'[q] = "done"
               /\ subPC'[d] \notin {"init", "request", "new", "auth", "hello", "send"}
    <3>1. CASE sent'[d][q] = sent[d][q]
      BY <2>2, <3>1, <1>b, <1>f DEF DeliveredOnce, TypeOK
    <3>2. CASE d \in conn[pubRef[p]] /\ q = p /\ sent'[d][q] = sent[d][q] + 1
      <4>1. subPC[d] \in {"loop", "remove"}
        BY <3>2, <1>c DEF RegisteredExactly
      <4>2. sent[d][q] = 0
        BY <3>2, <1>b DEF DeliveredOnce
      <4> QED BY <3>2, <4>1, <4>2, <1>b, <1>f DEF TypeOK
    <3> QED BY <3>1, <3>2, <1>d
  <2> QED BY <2>1, <2>2 DEF DeliveredOnce
<1> QED BY <1>1, <1>2, <1>3, <1>4

\* A /ch request is refused because of its parameters.
LEMMA AdmParamStep ==
  ASSUME IndInv, NEW a \in Admin, NEW rets \in {<<>>, <<"retParamErr">>}, AdmReturn(a, rets),
         UNCHANGED <<now, innerVars, netVars, listVars, subVars, pubVars, admRef, admArg, histVars>>
  PROVE  IndInv'
<1> USE DEF IndInv
<1> USE DEF AdmReturn, innerVars, netVars, listVars, subVars, pubVars, histVars
<1>a. {<<>>, <<"retParamErr">>} \subseteq Seq(RetCode)
  BY DEF RetCode
<1>b. /\ admPC' = [admPC EXCEPT ![a] = "done"]
      /\ admRet' \in [Admin -> Seq(RetCode)]
  BY <1>a DEF TypeOK
<1>1. TypeOK'
  BY <1>b DEF TypeOK, InnerTypeOK, ListTypeOK
<1>2. HandlesOK'
  BY DEF TypeOK, InnerTypeOK, ListTypeOK, HandlesOK, Holding, Reading
<1>3. RegisteredExactly'
  BY DEF TypeOK, InnerTypeOK, ListTypeOK, RegisteredExactly, HandlesOK, Holding
<1>4. DeliveredOnce'
  BY DEF TypeOK, InnerTypeOK, ListTypeOK, DeliveredOnce
<1> QED BY <1>1, <1>2, <1>3, <1>4

\* A /ch request creates a channel, or finds it.
LEMMA AdmNewStep ==
  ASSUME IndInv, NEW a \in Admin, NEW arg \in AdmArg, admArg' = [admArg EXCEPT ![a] = arg],
         NEW o \in Chan \cup {Nil}, NEW err \in Error, New(arg.key, o, err),
         admRef' = [admRef EXCEPT ![a] = o],
         IF err = OK THEN admPC' = [admPC EXCEPT ![a] = "token"] /\ UNCHANGED admRet
                     ELSE AdmReturn(a, <<"retCreateChannel">>),
         UNCHANGED <<now, subVars, pubVars, histVars>>
  PROVE  IndInv'
<1> USE DEF IndInv
<1>a. arg.key \in Key
  BY DEF AdmArg
<1>b. /\ UNCHANGED <<conn, message, sock, sent>>
      /\ err = OK => o \in made'
      /\ made \subseteq made' /\ made' \subseteq Chan
      /\ data' \in [Key -> Chan \cup {Nil}]
      /\ \A l \in Key : data'[l] = Nil \/ data'[l] \in made'
      /\ token' \in [Chan -> SUBSET Token]
      /\ expire' \in [Chan -> Int]
  BY <1>a, NewEffect
<1>c. <<"retCreateChannel">> \in Seq(RetCode)
  BY DEF RetCode
<1>d. /\ admPC' = [admPC EXCEPT ![a] = IF err = OK THEN "token" ELSE "done"]
      /\ admRet' \in [Admin -> Seq(RetCode)]
  BY <1>c DEF AdmReturn, TypeOK
<1> USE DEF subVars, pubVars, histVars
<1>1. TypeOK'
  BY <1>b, <1>d DEF TypeOK, InnerTypeOK, ListTypeOK, SubState, Error
<1>2. HandlesOK'
  BY <1>b, <1>d DEF TypeOK, InnerTypeOK, ListTypeOK, HandlesOK, Holding, Reading
<1>3. RegisteredExactly'
  BY <1>b, <1>d DEF TypeOK, InnerTypeOK, ListTypeOK, RegisteredExactly, HandlesOK, Holding
<1>4. DeliveredOnce'
  BY <1>b, <1>d DEF TypeOK, InnerTypeOK, ListTypeOK, DeliveredOnce
<1> QED BY <1>1, <1>2, <1>3, <1>4

\* A /ch request adds its token.
LEMMA AdmTokenStep ==
  ASSUME IndInv, NEW a \in Admin, AdmToken(a)
  PROVE  IndInv'
<1> USE DEF IndInv
<1>a. PICK err \in Error :
        /\ AddToken(admRef[a], admArg[a].token, err)
        /\ \/ err = OK /\ AdmReturn(a, <<"retOK">>)
           \/ err # OK /\ AdmReturn(a, <<"retAddToken">>)
           \/ err # OK /\ AdmReturn(a, <<"retAddToken", "retOK">>)
  BY DEF AdmToken
<1>b. /\ admPC[a] = "token"
      /\ UNCHANGED <<now, listVars, subVars, pubVars, admRef, admArg, histVars>>
  BY DEF AdmToken
<1>c. admRef[a] \in Chan /\ admArg[a].token \in Token
  BY <1>b DEF HandlesOK, TypeOK, ListTypeOK, AdmArg
<1>d. /\ UNCHANGED <<conn, message, expire, netVars>>
      /\ token' = token \/ token' = [token EXCEPT ![admRef[a]] = @ \cup {admArg[a].token}]
  BY <1>a DEF AddToken
<1>e. /\ admPC' = [admPC EXCEPT ![a] = "done"]
      /\ admRet' \in [Admin -> Seq(RetCode)]
  <2>1. {<<"retOK">>, <<"retAddToken">>, <<"retAddToken", "retOK">>} \subseteq Seq(RetCode)
    BY DEF RetCode
  <2> QED BY <2>1, <1>a DEF AdmReturn, TypeOK
<1>f. token' \in [Chan -> SUBSET Token]
  <2>1. token[admRef[a]] \cup {admArg[a].token} \in SUBSET Token
    BY <1>c DEF TypeOK, InnerTypeOK
  <2> QED BY <2>1, <1>d DEF TypeOK, InnerTypeOK
<1> USE DEF netVars, listVars, subVars, pubVars, histVars
<1>1. TypeOK'
  BY <1>b, <1>d, <1>e, <1>f DEF TypeOK, InnerTypeOK, ListTypeOK, SubState, Error
<1>2. HandlesOK'
  BY <1>b, <1>d, <1>e, <1>f DEF TypeOK, InnerTypeOK, ListTypeOK, HandlesOK, Holding, Reading
<1>3. RegisteredExactly'
  BY <1>b, <1>d, <1>e, <1>f DEF TypeOK, InnerTypeOK, ListTypeOK, RegisteredExactly, HandlesOK, Holding
<1>4. DeliveredOnce'
  BY <1>b, <1>d, <1>e, <1>f DEF TypeOK, InnerTypeOK, ListTypeOK, DeliveredOnce
<1> QED BY <1>1, <1>2, <1>3, <1>4

-----------------------------------------------------------------------------
(***************************************************************************)
(* Every step of the service keeps the invariant.                          *)
(***************************************************************************)
LEMMA NextIndInv == IndInv /\ [Next]_vars => IndInv'
<1> SUFFICES ASSUME IndInv, [Next]_vars PROVE IndInv'
  OBVIOUS
<1>1. CASE UNCHANGED vars
  BY <1>1 DEF IndInv, TypeOK, InnerTypeOK, ListTypeOK, HandlesOK, RegisteredExactly,
              DeliveredOnce, vars, innerVars, netVars, listVars, subVars, pubVars,
              admVars, histVars
<1>2. ASSUME NEW c \in Conn, SubRequest(c) PROVE IndInv'
  <2>1. /\ subPC[c] = "request"
        /\ SubReject(c) \/ \E arg \in SubArg : SubGet(c, arg)
    BY <1>2 DEF SubRequest, SubscribeTCPHandle, SubscribeHandle
  <2> QED BY <2>1, SubRejectStep, SubGetStep
<1>3. ASSUME NEW c \in Conn, SubStep(c) PROVE IndInv'
  BY <1>3, SubNewStep, SubAuthStep, SubHelloStep, SubSendStep, SubAddStep,
     LoopExitStep, SubRemoveStep, SubCloseStep DEF SubStep, LoopBroken
<1>4. ASSUME NEW p \in Pub, PubGet(p) PROVE IndInv'
  <2>1. CASE /\ \E ret \in {"none", "retParamErr", "retInternalErr"} : PubReturn(p, ret)
             /\ UNCHANGED <<innerVars, netVars, listVars, pubRef, pubArg>>
    BY <1>4, <2>1, PubParamStep DEF PubGet, RetCode
  <2>2. CASE \E k \in Key, id \in MsgIDs, sec \in ExpireSec :
          /\ pubArg' = [pubArg EXCEPT ![p] =
               [key |-> k, msg |-> [Msg |-> p, Expire |-> now + sec, MsgID |-> id]]]
          /\ \E o \in Chan \cup {Nil}, err \in Error :
               /\ Get(k, o, err)
               /\ pubRef' = [pubRef EXCEPT ![p] = o]
               /\ IF err = OK
                    THEN pubPC' = [pubPC EXCEPT ![p] = "push"] /\ UNCHANGED pubRet
                    ELSE PubReturn(p, "retGetChannel")
    BY <1>4, <2>2, PubGetStep DEF PubGet
  <2> QED BY <1>4, <2>1, <2>2 DEF PubGet
<1>5. ASSUME NEW a \in Admin, AdmNew(a) PROVE IndInv'
  <2>1. CASE /\ \E rets \in {<<>>, <<"retParamErr">>} : AdmReturn(a, rets)
             /\ UNCHANGED <<innerVars, netVars, listVars, admRef, admArg>>
    BY <1>5, <2>1, AdmParamStep DEF AdmNew
  <2>2. CASE \E arg \in AdmArg :
          /\ admArg' = [admArg EXCEPT ![a] = arg]
          /\ \E o \in Chan \cup {Nil}, err \in Error :
               /\ New(arg.key, o, err)
               /\ admRef' = [admRef EXCEPT ![a] = o]
               /\ IF err = OK
                    THEN admPC' = [admPC EXCEPT ![a] = "token"] /\ UNCHANGED admRet
                    ELSE AdmReturn(a, <<"retCreateChannel">>)
    BY <1>5, <2>2, AdmNewStep DEF AdmNew
  <2> QED BY <1>5, <2>1, <2>2 DEF AdmNew
<1>6. CASE Terminated
  BY <1>1, <1>6 DEF Terminated
<1>7. CASE Next
  BY <1>2, <1>3, <1>4, <1>5, <1>6, <1>7, AcceptStep, LoopExitStep, PeerGoneStep, PubPushStep,
     AdmTokenStep, TickStep DEF Next, LoopTimeout
<1> QED BY <1>1, <1>7

\* The inductive invariant holds in every reachable state.
THEOREM Invariant == Spec => []IndInv
<1>1. Init => IndInv
  BY InitIndInv
<1>2. IndInv /\ [Next]_vars => IndInv'
  BY NextIndInv
<1> QED BY <1>1, <1>2, PTL DEF Spec

(***************************************************************************)
(* Every variable keeps its type (the state of channel.go,                 *)
(* inner_channel.go and of the handlers).                                  *)
(***************************************************************************)
THEOREM TypeCorrect == Spec => []TypeOK
<1>1. IndInv => TypeOK
  BY DEF IndInv
<1> QED BY <1>1, Invariant, PTL

(***************************************************************************)
(* A connection is registered exactly while its handler is between AddConn *)
(* and RemoveConn, in the channel the handler holds.                       *)
(***************************************************************************)
THEOREM Registration == Spec => []RegisteredExactly
<1>1. IndInv => RegisteredExactly
  BY DEF IndInv
<1> QED BY <1>1, Invariant, PTL

(***************************************************************************)
(* No publication is written twice to one connection, whatever the         *)
(* interleaving of SendMsg and PushMsg.                                    *)
(***************************************************************************)
THEOREM AtMostOnce == Spec => []NoDuplicate
<1>1. IndInv => NoDuplicate
  BY DEF IndInv, DeliveredOnce, NoDuplicate
<1> QED BY <1>1, Invariant, PTL

=============================================================================
