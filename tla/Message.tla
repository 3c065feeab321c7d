------------------------------ MODULE Message ------------------------------
(***************************************************************************)
(* A published message (message.go) and what the two front ends do when    *)
(* they turn it into the bytes of a connection.                            *)
(*                                                                         *)
(* Time is counted in ticks; "now" is the value time.Now().UnixNano()      *)
(* returns.  The body of a message is never inspected by the service, so   *)
(* it is named by the publication that carries it.                         *)
(***************************************************************************)
EXTENDS Integers

CONSTANTS
  Pub,        \* the publications; each one is the body of one POST /pub
  Protocol    \* Conf.Protocol

VARIABLE now  \* the wall clock

WebsocketProtocol == 0
TCPProtocol == 1

\* type Message struct { Msg, Expire, MsgID }
MessageType == [Msg : Pub, Expire : Int, MsgID : Int]

\* func (m *Message) Expired() bool
Expired(m) == now > m.Expire

(***************************************************************************)
(* m.Bytes(nil), the only way the inner channel calls Bytes: under the TCP *)
(* protocol the missing buffer is an error (MsgBufErr), under the          *)
(* websocket protocol the JSON text is returned.                           *)
(***************************************************************************)
BytesNilFails == Protocol = TCPProtocol
=============================================================================
