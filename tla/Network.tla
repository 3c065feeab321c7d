------------------------------ MODULE Network ------------------------------
(***************************************************************************)
(* The connections of the clients as the channels see them, and the        *)
(* results of the methods of the Channel interface that both of its        *)
(* implementations share.                                                  *)
(*                                                                         *)
(* A connection is "none" before it is accepted, "open", "reset" once the  *)
(* peer is gone, and "closed" after conn.Close().  A write succeeds on an  *)
(* open connection, fails on a closed one, and may do either on a reset    *)
(* one.                                                                    *)
(***************************************************************************)
EXTENDS Message, FiniteSets

CONSTANT Conn  \* the client connections (net.Conn)

VARIABLES
  sock,  \* sock[c]: what the network knows of connection c
  sent   \* sent[c][p]: how often publication p was written to c

netVars == <<sock, sent>>

\* Results (the error variables of channel.go and pubsub.go).
OK == "nil"
MaxConnErr == "MaxConnErr"
AuthTokenErr == "AuthTokenErr"
TokenExistErr == "TokenExistErr"
WriteErr == "WriteErr"
Panic == "panic"

SockState == {"none", "open", "reset", "closed"}

\* Faulty: the first failing write ends the loop over C.
WrittenStops(C) ==
  IF \E c \in C : sock[c] # "open"
    THEN SUBSET {c \in C : sock[c] # "closed"} ELSE {C}

\* The sets of connections of C on which a write may succeed.
Written(C) ==
  {W \in SUBSET C : \A c \in C : /\ sock[c] = "open" => c \in W
                                 /\ sock[c] = "closed" => c \notin W}

\* sent after the messages M were written to the connections W.
Deliver(W, M) ==
  [c \in Conn |-> [p \in Pub |->
     IF c \in W /\ (\E m \in M : m.Msg = p) THEN sent[c][p] + 1
                                            ELSE sent[c][p]]]
=============================================================================
