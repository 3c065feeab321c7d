---------------------------- MODULE RedisChannel ----------------------------
(***************************************************************************)
(* The channel that keeps messages, tokens and the online counter in redis *)
(* (redis_channel.go), for one key: every redis key carries the key's      *)
(* name, and the channel objects of other keys are other objects.          *)
(*                                                                         *)
(* A body under the object's mutex is one action.  The buffer is taken     *)
(* before the mutex, and AddConn and RemoveConn work on the map and on     *)
(* redis apart, so these parts are actions of their own.  The result of a  *)
(* call is the parameter err.                                              *)
(*                                                                         *)
(* Redis itself, and whoever stores the messages there (nothing under      *)
(* src/ does), are outside the program.                                    *)
(***************************************************************************)
EXTENDS Network

CONSTANTS
  Chan,                 \* the channel objects (*RedisChannel)
  Token,                \* the authentication tokens
  MaxSubscriberPerKey,  \* Conf.MaxSubscriberPerKey
  ChannelExpireSec,     \* Conf.ChannelExpireSec
  WriteBufNum,          \* Conf.WriteBufNum
  RedisNode,            \* the node names Conf.Redis may hold
  KeyNode,              \* redisHash.Node(key)
  MaxFaults             \* bound on failing redis calls and crashes

defaultRedisNode == "node1"

ASSUME RedisAssumption ==
  /\ MaxSubscriberPerKey \in Int
  /\ ChannelExpireSec \in Int
  /\ WriteBufNum \in Nat
  /\ MaxFaults \in Nat

VARIABLES
  conn,       \* conn[o]: the connections in the map of o
  last,       \* last[c]: the value stored under c, the last message id
  expire,     \* expire[o]: the deadline of o
  writeBuf,   \* writeBuf[o]: the number of idle buffers of o
  redisPool,  \* the nodes of the configuration
  stored,     \* redis: the sorted set of messages
  token,      \* redis: the set of tokens
  online,     \* redis: the counter of this node
  faults      \* the failing redis calls and crashes so far

mapVars == <<conn, last>>
redisVars == <<stored, token, online>>

RedisErr == "RedisErr"
RedisNoConnErr == "RedisNoConnErr"

\* A member of the sorted set: json says whether the text is a Message.
Entry == [m : MessageType, json : BOOLEAN]

-----------------------------------------------------------------------------
\* getRedisConn(key) # nil
getRedisConn ==
  (IF Cardinality(redisPool) # 1 THEN KeyNode ELSE defaultRedisNode) \in redisPool

(***************************************************************************)
(* One command.  It is carried out (done) and answered; or it fails, and   *)
(* may have been carried out all the same; or there is no connection.      *)
(***************************************************************************)
Do(done, err) ==
  \/ getRedisConn /\ done /\ err = OK /\ UNCHANGED faults
  \/ getRedisConn /\ err = RedisErr /\ faults < MaxFaults /\ faults' = faults + 1
  \/ ~getRedisConn /\ ~done /\ err = RedisNoConnErr /\ UNCHANGED faults

-----------------------------------------------------------------------------
\* newWriteBuf(): an idle buffer, or a fresh one.
newWriteBuf(o) == writeBuf' = [writeBuf EXCEPT ![o] = IF @ > 0 THEN @ - 1 ELSE 0]

\* Faulty: the capacity is not looked at.
putWriteBufAlways(o) == writeBuf' = [writeBuf EXCEPT ![o] = @ + 1]

\* putWriteBuf(buf)
putWriteBuf(o) ==
  writeBuf' = [writeBuf EXCEPT ![o] = IF @ < WriteBufNum THEN @ + 1 ELSE @]

\* Faulty: a connection at the id of m is not passed over.
NewerOrSame(o, id) == {c \in conn[o] : last[c] <= id}

\* The connections PushMsg does not pass over.
Newer(o, id) == {c \in conn[o] : last[c] < id}

(***************************************************************************)
(* PushMsg(m, key), under the mutex: write m where it is newer than the    *)
(* last message; move the cursor where the write succeeds.                 *)
(***************************************************************************)
PushMsg(o, m, err) ==
  /\ err = OK
  /\ \E W \in Written(Newer(o, m.MsgID)) :
       /\ sent' = Deliver(W, {m})
       /\ last' = [c \in Conn |-> IF c \in W THEN m.MsgID ELSE last[c]]
  /\ putWriteBuf(o)
  /\ UNCHANGED <<conn, expire, redisPool, redisVars, faults, sock>>

-----------------------------------------------------------------------------
\* ZRANGEBYSCORE m_key (mid -1
InRange(mid) == {e \in stored : e.m.MsgID > mid /\ e.m.MsgID <= -1}

\* The entries of S a walk in the order of the scores may have passed.
Prefixes(S) ==
  {T \in SUBSET S : \A e \in T, f \in S \ T : e.m.MsgID <= f.m.MsgID}

\* The entry such a walk may visit next.
NextOf(S, T) ==
  {e \in S \ T : \A f \in S \ T : e.m.MsgID <= f.m.MsgID}

\* The messages of the walk that are written.
Live(T) == {e.m : e \in {f \in T : f.json /\ ~Expired(f.m)}}

\* nmid after the messages M were written: the greatest id.
LastOf(M, mid) ==
  IF M = {} THEN {mid}
  ELSE {id \in {m.MsgID : m \in M} : \A m \in M : m.MsgID <= id}

\* Faulty: the connection keeps the message id of its request.
RegisterKeeps(o, c, id, mid) ==
  /\ conn' = [conn EXCEPT ![o] = @ \cup {c}]
  /\ last' = [last EXCEPT ![c] = mid]

\* Faulty: only AddConn would put the connection into the map.
RegisterLater(o, c, id, mid) == UNCHANGED mapVars

\* c.conn[conn] = nmid
Register(o, c, id, mid) ==
  /\ conn' = [conn EXCEPT ![o] = @ \cup {c}]
  /\ last' = [last EXCEPT ![c] = id]

(***************************************************************************)
(* The walk over the range: an unexpired message is written; the first     *)
(* failing write ends the walk and takes the connection out of the map; a  *)
(* text that is no message panics with the connection left in the map.     *)
(* ZREM is given an id where the members are texts, and removes nothing.   *)
(***************************************************************************)
Walk(o, c, mid, err) ==
  LET range == InRange(mid)
  IN  \E T \in Prefixes(range) :
        /\ \A e \in T : e.json
        /\ Live(T) # {} => sock[c] # "closed"
        /\ sent' = Deliver({c}, Live(T))
        /\ \/ /\ T = range
              /\ err = OK
              /\ \E id \in LastOf(Live(T), mid) : Register(o, c, id, mid)
           \/ \E e \in NextOf(range, T) :
                /\ e.json /\ ~Expired(e.m) /\ sock[c] # "open"
                /\ err = WriteErr
                /\ UNCHANGED mapVars
           \/ \E e \in NextOf(range, T) :
                /\ ~e.json
                /\ err = Panic
                /\ Register(o, c, mid, mid)

\* Faulty: the connection that is being added is not counted.
FullOffByOne(o) == Cardinality(conn[o]) > MaxSubscriberPerKey

\* len(c.conn)+1 > Conf.MaxSubscriberPerKey
Full(o) == Cardinality(conn[o]) + 1 > MaxSubscriberPerKey

(***************************************************************************)
(* SendMsg(conn, mid, key), under the mutex: it registers the connection.  *)
(***************************************************************************)
SendMsg(o, c, mid, err) ==
  /\ \/ /\ getRedisConn /\ Full(o)
        /\ err = MaxConnErr
        /\ UNCHANGED <<mapVars, sent, faults>>
     \/ /\ ~getRedisConn \/ ~Full(o)
        /\ err # OK
        /\ \E done \in BOOLEAN : Do(done, err)
        /\ UNCHANGED <<mapVars, sent>>
     \/ /\ getRedisConn /\ ~Full(o)
        /\ Walk(o, c, mid, err)
        /\ UNCHANGED faults
  /\ putWriteBuf(o)
  /\ UNCHANGED <<expire, redisPool, redisVars, sock>>

-----------------------------------------------------------------------------
\* HINCRBY o_key Conf.Node n
HincrBy(n, err) ==
  /\ \E done \in BOOLEAN :
       /\ Do(done, err)
       /\ online' = IF done THEN online + n ELSE online
  /\ UNCHANGED <<mapVars, expire, writeBuf, redisPool, stored, token, netVars>>

\* AddConn(conn, mid, key), but for the map.
AddConn(err) == HincrBy(1, err)

\* delete(c.conn, conn): RemoveConn's first half, and what AddConn does
\* after an error.
Delete(o, c) ==
  /\ conn' = [conn EXCEPT ![o] = @ \ {c}]
  /\ UNCHANGED <<last, expire, writeBuf, redisPool, redisVars, faults, netVars>>

\* RemoveConn(conn, mid, key), but for the map.
RemoveConn(err) == HincrBy(-1, err)

\* AddToken(token, key): SADD answers whether the token is new.
AddToken(t, err) ==
  /\ \/ getRedisConn /\ t \in token /\ err = TokenExistErr /\ UNCHANGED <<token, faults>>
     \/ \E done \in BOOLEAN :
          /\ Do(done, err)
          /\ err = OK => t \notin token
          /\ token' = IF done THEN token \cup {t} ELSE token
  /\ UNCHANGED <<mapVars, expire, writeBuf, redisPool, stored, online, netVars>>

\* Faulty: SISMEMBER in the place of SREM.
AuthTokenKeeps(t, err) ==
  /\ err = IF t \in token THEN OK ELSE AuthTokenErr
  /\ UNCHANGED <<mapVars, expire, writeBuf, redisPool, redisVars, faults, netVars>>

\* AuthToken(token, key): SREM answers whether the token was there.
AuthToken(t, err) ==
  /\ \/ getRedisConn /\ t \notin token /\ err = AuthTokenErr /\ UNCHANGED <<token, faults>>
     \/ \E done \in BOOLEAN :
          /\ Do(done, err)
          /\ err = OK => t \in token
          /\ token' = IF done THEN token \ {t} ELSE token
  /\ UNCHANGED <<mapVars, expire, writeBuf, redisPool, stored, online, netVars>>

-----------------------------------------------------------------------------
\* NewRedisChannel(), returning the object o.
NewRedisChannel(o) ==
  /\ conn' = [conn EXCEPT ![o] = {}]
  /\ expire' = [expire EXCEPT ![o] = now + ChannelExpireSec]
  /\ writeBuf' = [writeBuf EXCEPT ![o] = 0]
  /\ UNCHANGED <<last, redisPool, redisVars, faults, netVars>>

SetDeadline(o, d) ==
  /\ expire' = [expire EXCEPT ![o] = d]
  /\ UNCHANGED <<mapVars, writeBuf, redisPool, redisVars, faults, netVars>>

Timeout(o) == now > expire[o]

\* Close(): close every connection of the map, which stays as it is.
Close(o) ==
  /\ sock' = [c \in Conn |-> IF c \in conn[o] THEN "closed" ELSE sock[c]]
  /\ UNCHANGED <<mapVars, expire, writeBuf, redisPool, redisVars, faults, sent>>

-----------------------------------------------------------------------------
\* InitRedisChannel(): at least one node is configured.
RedisInit ==
  /\ redisPool \in SUBSET RedisNode \ {{}}
  /\ conn = [o \in Chan |-> {}]
  /\ last = [c \in Conn |-> 0]
  /\ expire = [o \in Chan |-> 0]
  /\ writeBuf = [o \in Chan |-> 0]
  /\ stored = {} /\ token = {} /\ online = 0 /\ faults = 0
  /\ sock = [c \in Conn |-> "none"]
  /\ sent = [c \in Conn |-> [p \in Pub |-> 0]]

RedisTypeOK ==
  /\ redisPool \in SUBSET RedisNode
  /\ conn \in [Chan -> SUBSET Conn]
  /\ last \in [Conn -> Int]
  /\ expire \in [Chan -> Int]
  /\ writeBuf \in [Chan -> 0..WriteBufNum]
  /\ stored \in SUBSET Entry
  /\ token \in SUBSET Token
  /\ online \in Int
  /\ faults \in Nat
  /\ sock \in [Conn -> SockState]
  /\ sent \in [Conn -> [Pub -> Nat]]
=============================================================================
