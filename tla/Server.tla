------------------------------- MODULE Server -------------------------------
(***************************************************************************)
(* The front end of the push service: the accept loop (StartTCP, or the    *)
(* listener of StartHttp), the pools of readers that the goroutines of TCP *)
(* connections share, and the way of a connection from accept to close.    *)
(*                                                                         *)
(* What SubscribeTCPHandle and SubscribeHandle do with a connection is the *)
(* matter of PushService; here it is one state, "serve".                   *)
(***************************************************************************)
EXTENDS Integers, Sequences, FiniteSets

CONSTANTS
  Conn,               \* the client connections
  Reader,             \* the bufio.Reader objects
  ReadBufInstance,    \* Conf.ReadBufInstance
  ReadBufNumPerInst,  \* Conf.ReadBufNumPerInst
  Nil                 \* no connection, no reader

\* Get indexes the pools with round, and there is always a reader to make.
ASSUME ServerAssumption ==
  /\ ReadBufInstance \in Nat \ {0}
  /\ ReadBufNumPerInst \in Nat
  /\ Nil \notin Conn
  /\ Nil \notin Reader

VARIABLES
  protocol,  \* Conf.Protocol
  running,   \* the process runs
  taken,     \* the connection the accept loop is setting up
  round,     \* the pool of the next connection
  pool,      \* pool[i]: the idle readers of pool i, a Go channel
  made,      \* the readers made so far
  source,    \* source[r]: the connection r reads from
  left,      \* left[r]: whose bytes r holds that nobody has asked for
  pc,        \* where the goroutine of a connection is
  idx, rd,   \* the pool and the reader it works with
  sock       \* sock[c]: "none", "open" or "closed"

poolVars == <<pool, made, source, left>>
connVars == <<pc, idx, rd>>
vars == <<protocol, running, taken, round, poolVars, connVars, sock>>

WebsocketProtocol == 0
TCPProtocol == 1

Instance == 0..(ReadBufInstance - 1)

PCState == {"init", "get", "parse", "put", "serve", "close", "done"}

-----------------------------------------------------------------------------
\* Faulty: an idle reader is not reset to the connection.
GetNoReset(i, r, c) ==
  \/ /\ pool[i] # <<>> /\ r = Head(pool[i])
     /\ pool' = [pool EXCEPT ![i] = Tail(@)]
     /\ UNCHANGED <<made, source, left>>
  \/ /\ pool[i] = <<>> /\ r \in Reader \ made
     /\ made' = made \cup {r}
     /\ source' = [source EXCEPT ![r] = c]
     /\ UNCHANGED <<pool, left>>

\* b.Get(conn, idx): an idle reader, reset to conn, or else a new one.
Get(i, r, c) ==
  /\ \/ /\ pool[i] # <<>> /\ r = Head(pool[i])
        /\ pool' = [pool EXCEPT ![i] = Tail(@)]
        /\ UNCHANGED made
     \/ /\ pool[i] = <<>> /\ r \in Reader \ made
        /\ made' = made \cup {r}
        /\ UNCHANGED pool
  /\ source' = [source EXCEPT ![r] = c]
  /\ left' = [left EXCEPT ![r] = {}]

\* b.Put(buf, idx): the reader lets go of its connection and of the bytes
\* behind the command; a full pool discards it.
Put(i, r) ==
  /\ source' = [source EXCEPT ![r] = Nil]
  /\ left' = [left EXCEPT ![r] = {}]
  /\ pool' = IF Len(pool[i]) < ReadBufNumPerInst
               THEN [pool EXCEPT ![i] = Append(@, r)] ELSE pool
  /\ UNCHANGED made

-----------------------------------------------------------------------------
(***************************************************************************)
(* The end of the process takes every goroutine and connection with it.    *)
(***************************************************************************)
ProcessEnds ==
  /\ running' = FALSE
  /\ taken' = Nil
  /\ pc' = [c \in Conn |-> IF pc[c] = "init" THEN "init" ELSE "done"]
  /\ rd' = [c \in Conn |-> Nil]
  /\ sock' = [c \in Conn |-> IF sock[c] = "none" THEN "none" ELSE "closed"]
  /\ UNCHANGED <<protocol, round, poolVars, idx>>

(***************************************************************************)
(* The accept loop.  StartTCP tries again after an error of AcceptTCP, as  *)
(* net/http does after a temporary one; any other ends http.Serve.         *)
(***************************************************************************)
Accept(c) ==
  /\ running /\ taken = Nil /\ sock[c] = "none"
  /\ taken' = c
  /\ sock' = [sock EXCEPT ![c] = "open"]
  /\ UNCHANGED <<protocol, running, round, poolVars, connVars>>

AcceptFails ==
  /\ protocol = WebsocketProtocol
  /\ running /\ taken = Nil
  /\ ProcessEnds

\* Faulty: round is compared before it is increased.
NextRoundLate == IF round = ReadBufInstance THEN 0 ELSE round + 1

\* round++, back to 0 at the number of pools
NextRound == IF round + 1 = ReadBufInstance THEN 0 ELSE round + 1

\* go handleTCPConn(conn, round, rb)
Start ==
  /\ protocol = TCPProtocol
  /\ running /\ taken # Nil
  /\ pc' = [pc EXCEPT ![taken] = "get"]
  /\ idx' = [idx EXCEPT ![taken] = round]
  /\ round' = NextRound
  /\ taken' = Nil
  /\ UNCHANGED <<protocol, running, poolVars, rd, sock>>

\* Faulty: the loop goes on without closing the connection.
OptionFailsLeaves ==
  /\ protocol = TCPProtocol
  /\ running /\ taken # Nil
  /\ taken' = Nil
  /\ UNCHANGED <<protocol, running, round, poolVars, connVars, sock>>

\* SetKeepAlive, SetReadBuffer or SetWriteBuffer fails.
OptionFails ==
  /\ protocol = TCPProtocol
  /\ running /\ taken # Nil
  /\ sock' = [sock EXCEPT ![taken] = "closed"]
  /\ taken' = Nil
  /\ UNCHANGED <<protocol, running, round, poolVars, connVars>>

\* net/http starts a goroutine; the handshake is behind us, or has failed.
StartHttp ==
  /\ protocol = WebsocketProtocol
  /\ running /\ taken # Nil
  /\ \E s \in {"serve", "close"} : pc' = [pc EXCEPT ![taken] = s]
  /\ taken' = Nil
  /\ UNCHANGED <<protocol, running, round, poolVars, idx, rd, sock>>

(***************************************************************************)
(* StartTCP breaks its loop when SetReadDeadline fails, and http.Serve     *)
(* returns the error of SetKeepAlive that KeepAliveListener.Accept passes  *)
(* on: main returns.                                                       *)
(***************************************************************************)
Stop == running /\ taken # Nil /\ ProcessEnds

-----------------------------------------------------------------------------
(***************************************************************************)
(* The goroutine of a connection: handleTCPConn.                           *)
(***************************************************************************)
GetReader(c) ==
  /\ pc[c] = "get"
  /\ \E r \in Reader : Get(idx[c], r, c) /\ rd' = [rd EXCEPT ![c] = r]
  /\ pc' = [pc EXCEPT ![c] = "parse"]
  /\ UNCHANGED <<protocol, running, taken, round, idx, sock>>

(***************************************************************************)
(* parseCmd(rd) returns, with a command or an error, in five seconds at    *)
(* most; it may have read more from the connection than the command.       *)
(***************************************************************************)
ParseCmd(c) ==
  /\ pc[c] = "parse"
  /\ \E W \in {{}, {source[rd[c]]}} : left' = [left EXCEPT ![rd[c]] = @ \cup W]
  /\ pc' = [pc EXCEPT ![c] = "put"]
  /\ UNCHANGED <<protocol, running, taken, round, pool, made, source, idx, rd, sock>>

(***************************************************************************)
(* A number of arguments that cannot be allocated, or a length below zero, *)
(* makes parseCmd panic; nothing recovers a panic of this goroutine.       *)
(***************************************************************************)
ParsePanics(c) == pc[c] = "parse" /\ ProcessEnds

\* Faulty: the reader stays with the goroutine after it went to the pool.
PutReaderUses(c) ==
  /\ pc[c] = "put"
  /\ Put(idx[c], rd[c])
  /\ \E s \in {"parse", "serve", "close"} : pc' = [pc EXCEPT ![c] = s]
  /\ UNCHANGED <<protocol, running, taken, round, idx, rd, sock>>

\* rb.Put(rd, round), and on to the handler unless the command was refused.
PutReader(c) ==
  /\ pc[c] = "put"
  /\ Put(idx[c], rd[c])
  /\ rd' = [rd EXCEPT ![c] = Nil]
  /\ \E s \in {"serve", "close"} : pc' = [pc EXCEPT ![c] = s]
  /\ UNCHANGED <<protocol, running, taken, round, idx, sock>>

\* The handler of the subscription returns.
Serve(c) ==
  /\ pc[c] = "serve"
  /\ pc' = [pc EXCEPT ![c] = "close"]
  /\ UNCHANGED <<protocol, running, taken, round, poolVars, idx, rd, sock>>

Close(c) ==
  /\ pc[c] = "close"
  /\ pc' = [pc EXCEPT ![c] = "done"]
  /\ sock' = [sock EXCEPT ![c] = "closed"]
  /\ UNCHANGED <<protocol, running, taken, round, poolVars, idx, rd>>

-----------------------------------------------------------------------------
\* Every client has come and gone, or the process has ended.
Terminated ==
  /\ running => /\ taken = Nil
                /\ \A c \in Conn : sock[c] # "none" /\ pc[c] \in {"init", "done"}
  /\ UNCHANGED vars

Init ==
  /\ protocol \in {WebsocketProtocol, TCPProtocol}
  /\ running = TRUE
  /\ taken = Nil
  /\ round = 0
  /\ pool = [i \in Instance |-> <<>>]
  /\ made = {}
  /\ source = [r \in Reader |-> Nil]
  /\ left = [r \in Reader |-> {}]
  /\ pc = [c \in Conn |-> "init"]
  /\ idx = [c \in Conn |-> 0]
  /\ rd = [c \in Conn |-> Nil]
  /\ sock = [c \in Conn |-> "none"]

\* The accept loop after a connection has come in.
SetUp == Start \/ OptionFails \/ StartHttp \/ Stop

Next ==
  \/ \E c \in Conn : Accept(c)
  \/ AcceptFails
  \/ SetUp
  \/ \E c \in Conn : GetReader(c) \/ ParseCmd(c) \/ PutReader(c) \/ Serve(c) \/ Close(c)
  \/ \E c \in Conn : ParsePanics(c)
  \/ Terminated

Spec == Init /\ [][Next]_vars

\* The goroutines are scheduled; a subscription may last for ever, and no
\* failure has to happen.
Fairness ==
  /\ WF_vars(SetUp)
  /\ \A c \in Conn : WF_vars(GetReader(c) \/ ParseCmd(c) \/ PutReader(c) \/ Close(c))

FairSpec == Spec /\ Fairness

-----------------------------------------------------------------------------
\* The reader r is idle in pool i.
Pooled(i, r) == \E n \in 1..Len(pool[i]) : pool[i][n] = r

(***************************************************************************)
(* A reader belongs to one: it is idle once in one pool, or in the hands   *)
(* of one goroutine, or gone (pubsub_tcp.go Get and Put).                  *)
(***************************************************************************)
ReaderExclusive ==
  /\ \A i, j \in Instance : \A m \in 1..Len(pool[i]), n \in 1..Len(pool[j]) :
       pool[i][m] = pool[j][n] => i = j /\ m = n
  /\ \A c, d \in Conn : rd[c] # Nil /\ rd[c] = rd[d] => c = d
  /\ \A c \in Conn, i \in Instance : ~Pooled(i, rd[c])

(***************************************************************************)
(* A command is parsed from the bytes of the connection it is for, however *)
(* often the reader served others before; and an idle reader holds on to   *)
(* no connection and to no bytes.                                          *)
(***************************************************************************)
OwnBytes ==
  /\ \A c \in Conn :
       /\ pc[c] = "parse" => source[rd[c]] = c /\ left[rd[c]] = {}
       /\ pc[c] = "put" => left[rd[c]] \subseteq {c}
  /\ \A i \in Instance, r \in Reader : Pooled(i, r) => source[r] = Nil /\ left[r] = {}

(***************************************************************************)
(* Every connection is given one of the pools there are, and a pool never  *)
(* holds more readers than Conf.ReadBufNumPerInst.                         *)
(***************************************************************************)
PoolsInRange ==
  /\ round \in Instance
  /\ \A c \in Conn : idx[c] \in Instance
  /\ \A i \in Instance : Len(pool[i]) <= ReadBufNumPerInst

(***************************************************************************)
(* Every connection that comes in is served or closed, its reader given    *)
(* back within the five seconds, even when setting it up fails or ends the *)
(* process.                                                                *)
(***************************************************************************)
EveryClientHandled ==
  \A c \in Conn :
    (sock[c] = "open") ~> ((pc[c] = "serve" /\ rd[c] = Nil) \/ sock[c] = "closed")
=============================================================================
