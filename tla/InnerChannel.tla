---------------------------- MODULE InnerChannel ----------------------------
(***************************************************************************)
(* The in-memory channel (inner_channel.go): the state of every channel    *)
(* object the process has allocated, and one action per method of the      *)
(* Channel interface.                                                      *)
(*                                                                         *)
(* A method body runs under the object's mutex from its first line to its  *)
(* return, so one method call is one action.  Every action takes its       *)
(* result as the parameter err: Method(o, ..., err) is true of the steps   *)
(* in which the call on object o returns err.                              *)
(*                                                                         *)
(* The skip list of stored messages is represented by the set of its       *)
(* members; MsgID is the score, and Insert refuses a second member with    *)
(* the same score.                                                         *)
(*                                                                         *)
(* Definitions marked "Faulty" are slips one could make in the code; they  *)
(* belong to no specification and show that the properties notice them.    *)
(***************************************************************************)
EXTENDS Network

CONSTANTS
  Chan,                 \* the channel objects (*InnerChannel)
  Token,                \* the authentication tokens
  MaxStoredMessage,     \* Conf.MaxStoredMessage
  MaxSubscriberPerKey,  \* Conf.MaxSubscriberPerKey
  ChannelExpireSec      \* Conf.ChannelExpireSec

ASSUME ConfAssumption ==
  /\ MaxStoredMessage \in Int
  /\ MaxSubscriberPerKey \in Int
  /\ ChannelExpireSec \in Int
  /\ Protocol \in Int

VARIABLES
  conn,     \* conn[o]: the connections registered in o
  message,  \* message[o]: the messages stored in o
  token,    \* token[o]: the unused tokens of o
  expire    \* expire[o]: the deadline of o

innerVars == <<conn, message, token, expire>>

\* Results that only this channel has (message.go and skiplist.go).
MsgExpiredErr == "MsgExpiredErr"
MsgBufErr == "MsgBufErr"
ErrNodeExists == "ErrNodeExists"

-----------------------------------------------------------------------------
(***************************************************************************)
(* The skip list, as the channel uses it.                                  *)
(***************************************************************************)

\* Faulty: the walk starts one id too late.
GreaterSkipsOne(s, mid) == {m \in s : m.MsgID > mid + 1}

\* The nodes visited from Greate(mid) on, following Next().
Greater(s, mid) == {m \in s : m.MsgID > mid}

\* Equal(score) # nil
HasScore(s, score) == \E m \in s : m.MsgID = score

\* Head.Next(): the member with the smallest score.
IsFirst(s, n) == n \in s /\ \A m \in s : n.MsgID <= m.MsgID

-----------------------------------------------------------------------------
\* func NewInnerChannel() *InnerChannel, returning the object o.
NewInnerChannel(o) ==
  /\ conn' = [conn EXCEPT ![o] = {}]
  /\ message' = [message EXCEPT ![o] = {}]
  /\ token' = [token EXCEPT ![o] = {}]
  /\ expire' = [expire EXCEPT ![o] = now + ChannelExpireSec]
  /\ UNCHANGED netVars

(***************************************************************************)
(* SendMsg(conn, mid, key): walk the messages above mid in increasing      *)
(* order, delete the expired ones and write the others; the first error    *)
(* of Bytes or Write ends the walk.  The failing message n is the first    *)
(* unexpired one when Bytes fails or the connection is closed, and any     *)
(* unexpired one when the peer is gone.                                    *)
(***************************************************************************)
SendMsg(o, c, mid, err) ==
  LET pending == Greater(message[o], mid)
      live == {m \in pending : ~Expired(m)}
      Until(n) == {m \in pending : m.MsgID < n.MsgID}
  IN  /\ \/ /\ err = OK
            /\ live = {} \/ (~BytesNilFails /\ sock[c] # "closed")
            /\ message' = [message EXCEPT ![o] = @ \ (pending \ live)]
            /\ sent' = Deliver({c}, live)
         \/ \E n \in live :
              /\ \/ BytesNilFails /\ err = MsgBufErr
                 \/ ~BytesNilFails /\ sock[c] # "open" /\ err = WriteErr
              /\ (BytesNilFails \/ sock[c] = "closed") => IsFirst(live, n)
              /\ message' = [message EXCEPT ![o] = @ \ (Until(n) \ live)]
              /\ sent' = Deliver({c}, Until(n) \cap live)
      /\ UNCHANGED <<conn, token, expire, sock>>

\* Faulty: the new message is not counted.
FullOffByOne(o) == Cardinality(message[o]) > MaxStoredMessage

\* c.message.Length+1 > c.MaxMessage
Full(o) == Cardinality(message[o]) + 1 > MaxStoredMessage

\* Faulty: room is made at the wrong end.
TrimmedNewest(o) ==
  IF Full(o) THEN {message[o] \ {n} : n \in {m \in message[o] :
                                       \A l \in message[o] : l.MsgID <= m.MsgID}}
             ELSE {message[o]}

(***************************************************************************)
(* The store of o after the capacity check of PushMsg: unchanged while     *)
(* there is room, without its smallest member when there is none.          *)
(***************************************************************************)
Trimmed(o) ==
  IF Full(o) THEN {message[o] \ {n} : n \in {m \in message[o] : IsFirst(message[o], m)}}
             ELSE {message[o]}

(***************************************************************************)
(* PushMsg(m, key): refuse an expired message; make room; insert; write    *)
(* the message to every registered connection, skipping those on which     *)
(* the write fails.  Making room in an empty store panics; the panic is    *)
(* recovered by net/http after the deferred Unlock.                        *)
(***************************************************************************)
PushMsg(o, m, err) ==
  /\ \/ /\ Expired(m)
        /\ err = MsgExpiredErr
        /\ UNCHANGED <<message, sent>>
     \/ /\ ~Expired(m) /\ Full(o) /\ message[o] = {}
        /\ err = Panic
        /\ UNCHANGED <<message, sent>>
     \/ /\ ~Expired(m)
        /\ \E s \in Trimmed(o) :
             \/ /\ HasScore(s, m.MsgID)
                /\ err = ErrNodeExists
                /\ message' = [message EXCEPT ![o] = s]
                /\ UNCHANGED sent
             \/ /\ ~HasScore(s, m.MsgID)
                /\ message' = [message EXCEPT ![o] = s \cup {m}]
                /\ \/ /\ BytesNilFails
                      /\ err = MsgBufErr
                      /\ UNCHANGED sent
                   \/ /\ ~BytesNilFails
                      /\ err = OK
                      /\ \E W \in Written(conn[o]) : sent' = Deliver(W, {m})
  /\ UNCHANGED <<conn, token, expire, sock>>

\* Faulty: the connection that is being added is not counted.
AddConnOffByOne(o, c, err) ==
  /\ \/ /\ Cardinality(conn[o]) > MaxSubscriberPerKey
        /\ err = MaxConnErr
        /\ UNCHANGED conn
     \/ /\ Cardinality(conn[o]) <= MaxSubscriberPerKey
        /\ err = OK
        /\ conn' = [conn EXCEPT ![o] = @ \cup {c}]
  /\ UNCHANGED <<message, token, expire, netVars>>

\* AddConn(conn, mid, key)
AddConn(o, c, err) ==
  /\ \/ /\ Cardinality(conn[o]) + 1 > MaxSubscriberPerKey
        /\ err = MaxConnErr
        /\ UNCHANGED conn
     \/ /\ Cardinality(conn[o]) + 1 <= MaxSubscriberPerKey
        /\ err = OK
        /\ conn' = [conn EXCEPT ![o] = @ \cup {c}]
  /\ UNCHANGED <<message, token, expire, netVars>>

\* RemoveConn(conn, mid, key)
RemoveConn(o, c) ==
  /\ conn' = [conn EXCEPT ![o] = @ \ {c}]
  /\ UNCHANGED <<message, token, expire, netVars>>

\* AddToken(token, key)
AddToken(o, t, err) ==
  /\ \/ t \in token[o] /\ err = TokenExistErr /\ UNCHANGED token
     \/ t \notin token[o] /\ err = OK /\ token' = [token EXCEPT ![o] = @ \cup {t}]
  /\ UNCHANGED <<conn, message, expire, netVars>>

\* Faulty: the token stays valid.
AuthTokenKeeps(o, t, err) ==
  /\ err = (IF t \in token[o] THEN OK ELSE AuthTokenErr)
  /\ UNCHANGED <<innerVars, netVars>>

\* AuthToken(token, key): a token is used once.
AuthToken(o, t, err) ==
  /\ \/ t \notin token[o] /\ err = AuthTokenErr /\ UNCHANGED token
     \/ t \in token[o] /\ err = OK /\ token' = [token EXCEPT ![o] = @ \ {t}]
  /\ UNCHANGED <<conn, message, expire, netVars>>

\* SetDeadline(d), without the mutex.
SetDeadline(o, d) ==
  /\ expire' = [expire EXCEPT ![o] = d]
  /\ UNCHANGED <<conn, message, token, netVars>>

\* Timeout() bool, without the mutex.
Timeout(o) == now > expire[o]

\* Faulty: the connections are left open.
CloseNothing(o) == UNCHANGED <<innerVars, netVars>>

\* Close(): close every registered connection; the maps stay as they are.
Close(o) ==
  /\ sock' = [c \in Conn |-> IF c \in conn[o] THEN "closed" ELSE sock[c]]
  /\ UNCHANGED <<innerVars, sent>>

-----------------------------------------------------------------------------
InnerInit ==
  /\ conn = [o \in Chan |-> {}]
  /\ message = [o \in Chan |-> {}]
  /\ token = [o \in Chan |-> {}]
  /\ expire = [o \in Chan |-> 0]
  /\ sock = [c \in Conn |-> "none"]
  /\ sent = [c \in Conn |-> [p \in Pub |-> 0]]

InnerTypeOK ==
  /\ conn \in [Chan -> SUBSET Conn]
  /\ message \in [Chan -> SUBSET MessageType]
  /\ token \in [Chan -> SUBSET Token]
  /\ expire \in [Chan -> Int]
  /\ sock \in [Conn -> SockState]
  /\ sent \in [Conn -> [Pub -> Nat]]
=============================================================================
