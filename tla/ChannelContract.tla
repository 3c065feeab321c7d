-------------------------- MODULE ChannelContract --------------------------
(***************************************************************************)
(* What the Channel interface (channel.go) promises to the handlers,       *)
(* whichever of its implementations stands behind it: how a connection     *)
(* comes into a channel and leaves it, and what it is written meanwhile.   *)
(*                                                                         *)
(* A connection is "new" until it is given its stored messages, "caught"   *)
(* up until it is registered, "in" a channel while it is registered, and   *)
(* "out" once it left or was turned away; "broken" is a connection that a  *)
(* panic left registered, which is promised nothing.  Sockets, message ids *)
(* and the ids subscribers ask for are the environment's.                  *)
(***************************************************************************)
EXTENDS Integers, FiniteSets

CONSTANTS
  Conn, Pub, Chan,     \* connections, publications, channels
  MaxSubscriberPerKey  \* the size of a channel

VARIABLES
  phase,          \* phase[c]: how far connection c is
  conn,           \* conn[o]: the connections registered in channel o
  sent,           \* sent[c][p]: how often publication p was written to c
  answer,         \* answer[p]: what PushMsg has answered to publication p
  sock, mid, id   \* the sockets, the ids asked for, the ids published

chVars == <<phase, conn, sent, answer>>

\* Each publication of S is written once to each connection of W.
WriteTo(W, S) ==
  sent' = [c \in Conn |-> [p \in Pub |->
             IF c \in W /\ p \in S THEN sent[c][p] + 1 ELSE sent[c][p]]]

\* Connection c gets a place in a channel that has one left.
Enter(c, ph) ==
  /\ phase' = [phase EXCEPT ![c] = ph]
  /\ \E o \in Chan :
       /\ Cardinality(conn[o]) + 1 <= MaxSubscriberPerKey
       /\ conn' = [conn EXCEPT ![o] = @ \cup {c}]

(***************************************************************************)
(* "SendMsg send messages which id greate than the request id to the       *)
(* subscriber": only to this one, each at most once, and only to one that  *)
(* was not served before.  Whether it also registers the connection is     *)
(* the implementation's choice.                                            *)
(***************************************************************************)
SendMsg(c) ==
  /\ phase[c] = "new"
  /\ UNCHANGED answer
  /\ \E S \in SUBSET {p \in Pub : id[p] > mid[c]} : WriteTo({c}, S)
  /\ \/ Enter(c, "in") \/ Enter(c, "broken")
     \/ /\ phase' \in {[phase EXCEPT ![c] = ph] : ph \in {"caught", "out"}}
        /\ UNCHANGED conn

\* "AddConn add a connection for the subscriber."
AddConn(c) ==
  /\ phase[c] = "caught"
  /\ Enter(c, "in")
  /\ UNCHANGED <<sent, answer>>

\* Connection c asked for ids above that of p, or has one that is no smaller.
NotNewer(c, p) ==
  \/ id[p] <= mid[c]
  \/ \E q \in Pub : sent[c][q] > 0 /\ id[p] <= id[q]

(***************************************************************************)
(* "PushMsg push a message to the subscriber": a publication that is       *)
(* answered ok is written to every connection of its channel that works    *)
(* and for which it is new, to none that has it, and to no other channel's. *)
(***************************************************************************)
PushMsg(p) ==
  /\ answer[p] = "none"
  /\ answer' = [answer EXCEPT ![p] = "ok"]
  /\ \E o \in Chan : \E W \in SUBSET conn[o] :
       /\ \A c \in conn[o] : phase[c] = "in" =>
            \/ c \in W /\ sent[c][p] = 0
            \/ c \notin W /\ (sock[c] = "open" => NotNewer(c, p))
       /\ WriteTo(W, {p})
  /\ UNCHANGED <<phase, conn>>

(***************************************************************************)
(* The connections C leave, those that never came in included, and the     *)
(* publications P fail and were written to nobody.  The end of the process *)
(* does both to all of them.                                               *)
(***************************************************************************)
Leave(C, P) ==
  /\ UNCHANGED sent
  /\ \A p \in P : answer[p] = "none"
  /\ answer' = [p \in Pub |-> IF p \in P THEN "refused" ELSE answer[p]]
  /\ phase' = [c \in Conn |-> IF c \in C THEN "out" ELSE phase[c]]
  /\ conn' = [o \in Chan |-> conn[o] \ C]

ChInit ==
  /\ phase = [c \in Conn |-> "new"]
  /\ conn = [o \in Chan |-> {}]
  /\ sent = [c \in Conn |-> [p \in Pub |-> 0]]
  /\ answer = [p \in Pub |-> "none"]

ChNext ==
  \/ \E P \in SUBSET Pub, C \in SUBSET Conn : Leave(C, P)
  \/ \E c \in Conn : SendMsg(c) \/ AddConn(c)
  \/ \E p \in Pub : PushMsg(p)

ChSpec == ChInit /\ [][ChNext]_chVars
=============================================================================
