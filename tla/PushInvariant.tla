--------------------------- MODULE PushInvariant ---------------------------
(***************************************************************************)
(* The inductive invariant behind the safety properties of the push        *)
(* service, in named parts.                                                *)
(***************************************************************************)
EXTENDS PushProperties

\* The states in which a handler holds the object Get or New returned.
Holding == {"auth", "hello", "send", "add", "loop", "remove"}

\* The states of a handler that has read its arguments and needs them.
Reading == Holding \cup {"new"}

(***************************************************************************)
(* A handler that is about to call a method holds an allocated object and  *)
(* its arguments; a publication carries its own body; the list holds       *)
(* allocated objects only; an object not yet allocated stores nothing.     *)
(***************************************************************************)
HandlesOK ==
  /\ \A c \in Conn : subPC[c] \in Holding => subRef[c] \in made
  /\ \A c \in Conn : subPC[c] \in Reading => subArg[c] \in SubArg
  /\ \A p \in Pub : pubPC[p] = "push" =>
       pubRef[p] \in made /\ pubArg[p] \in PubArg /\ pubArg[p].msg.Msg = p
  /\ \A a \in Admin : admPC[a] = "token" => admRef[a] \in made /\ admArg[a] \in AdmArg
  /\ \A k \in Key : data[k] = Nil \/ data[k] \in made
  /\ \A o \in Chan \ made : message[o] = {}

(***************************************************************************)
(* Only finished publications are stored or have been written, and a       *)
(* connection is written nothing before its SendMsg.  With NoDuplicate     *)
(* this is why the two delivery paths cannot overlap.                      *)
(***************************************************************************)
DeliveredOnce ==
  /\ \A o \in Chan : \A m \in message[o] : pubPC[m.Msg] = "done"
  /\ \A c \in Conn, p \in Pub :
       sent[c][p] # 0 => /\ sent[c][p] = 1
                         /\ pubPC[p] = "done"
                         /\ subPC[c] \notin {"init", "request", "new", "auth", "hello", "send"}

\* CaughtUp holds from the end of SendMsg on, before the registration.
CaughtUpEarly ==
  \A c \in Conn :
    subPC[c] \in {"add", "loop"} /\ sock[c] = "open" =>
      \A m \in message[subRef[c]] :
        m.MsgID > subArg[c].mid => sent[c][m.Msg] > 0 \/ m.Msg \in gap[c]

\* The stores and the registrations are finite sets.
FiniteStores ==
  \A o \in Chan : IsFiniteSet(message[o]) /\ IsFiniteSet(conn[o])

IndInv ==
  /\ TypeOK
  /\ HandlesOK
  /\ RegisteredExactly
  /\ DeliveredOnce
-----------------------------------------------------------------------------
(***************************************************************************)
(* Tokens.  w says for which key an object was made.                       *)
(***************************************************************************)

\* The connections that passed AuthToken with a token of a key, the requests
\* that had it accepted, and the objects of the key that hold it unused.
Passed(k, t) == {c \in authed : subArg[c].key = k /\ subArg[c].token = t}
Accepted(k, t) ==
  {a \in Admin : admRet[a] = <<"retOK">> /\ admArg[a] = [key |-> k, token |-> t]}
Unused(w, k, t) == {o \in made : w[o] = k /\ t \in token[o]}

\* A handler works with an object made for the key of its request.
KeysOK(w) ==
  /\ \A k \in Key : data[k] # Nil => w[data[k]] = k
  /\ \A c \in Conn : subPC[c] \in Holding => w[subRef[c]] = subArg[c].key
  /\ \A a \in Admin : admPC[a] = "token" => w[admRef[a]] = admArg[a].key

\* Nobody passes AuthToken before its call, or is answered before AddToken's.
Unauthed == {"init", "request", "new", "auth"}

NotYet ==
  /\ \A c \in Conn : subPC[c] \in Unauthed => c \notin authed
  /\ \A a \in Admin : admPC[a] # "done" => admRet[a] = <<>>

\* Every connection that passed and every unused token has its request.
TokensOK(w) ==
  \A k \in Key, t \in Token :
    /\ IsFiniteSet(Passed(k, t))
    /\ IsFiniteSet(Accepted(k, t))
    /\ IsFiniteSet(Unused(w, k, t))
    /\ Cardinality(Passed(k, t)) + Cardinality(Unused(w, k, t))
         <= Cardinality(Accepted(k, t))

TokenInv ==
  NotYet /\ \E w \in [Chan -> Key \cup {Nil}] : KeysOK(w) /\ TokensOK(w)
=============================================================================
