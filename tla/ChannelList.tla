---------------------------- MODULE ChannelList ----------------------------
(***************************************************************************)
(* The list of channels by key (channel.go).  New and Get hold the mutex   *)
(* of the key's bucket for their whole body, and Close takes the object's  *)
(* mutex inside it, so a call is one action.  Which bucket a key falls     *)
(* into does not matter at this grain: distinct keys never share an entry. *)
(***************************************************************************)
EXTENDS InnerChannel

CONSTANTS
  Key,          \* the keys (device names)
  ChannelType,  \* Conf.ChannelType
  Nil           \* no channel

InnerChannelType == 1
RedisChannelType == 2

ASSUME ListAssumption ==
  /\ Nil \notin Chan
  /\ ChannelType \in Int \ {RedisChannelType}

VARIABLES
  data,  \* data[k]: the channel object listed under k, or Nil
  made   \* the channel objects allocated so far

listVars == <<data, made>>

ChannelNotExistErr == "ChannelNotExistErr"
ChannelExpiredErr == "ChannelExpiredErr"
ChannelTypeErr == "ChannelTypeErr"

\* Object o is in the list.
Listed(o) == \E k \in Key : data[k] = o

\* Faulty: New does not look for a channel another handler has created.
NewAlways(k, o, err) ==
  /\ o \in Chan \ made /\ err = OK
  /\ NewInnerChannel(o)
  /\ data' = [data EXCEPT ![k] = o]
  /\ made' = made \cup {o}

(***************************************************************************)
(* channel.New(key): an existing channel gets a new deadline, a missing    *)
(* one is created.                                                         *)
(***************************************************************************)
New(k, o, err) ==
  \/ /\ data[k] # Nil
     /\ o = data[k] /\ err = OK
     /\ SetDeadline(o, now + ChannelExpireSec)
     /\ UNCHANGED listVars
  \/ /\ data[k] = Nil
     /\ ChannelType = InnerChannelType
     /\ o \in Chan \ made /\ err = OK
     /\ NewInnerChannel(o)
     /\ data' = [data EXCEPT ![k] = o]
     /\ made' = made \cup {o}
  \/ /\ data[k] = Nil
     /\ ChannelType # InnerChannelType
     /\ o = Nil /\ err = ChannelTypeErr
     /\ UNCHANGED <<innerVars, netVars, listVars>>

(***************************************************************************)
(* channel.Get(key): a channel past its deadline is taken off the list and *)
(* closed; any other one is returned as it is.                             *)
(***************************************************************************)
Get(k, o, err) ==
  \/ /\ data[k] = Nil
     /\ o = Nil /\ err = ChannelNotExistErr
     /\ UNCHANGED <<innerVars, netVars, listVars>>
  \/ /\ data[k] # Nil /\ Timeout(data[k])
     /\ o = Nil /\ err = ChannelExpiredErr
     /\ Close(data[k])
     /\ data' = [data EXCEPT ![k] = Nil]
     /\ UNCHANGED made
  \/ /\ data[k] # Nil /\ ~Timeout(data[k])
     /\ o = data[k] /\ err = OK
     /\ UNCHANGED <<innerVars, netVars, listVars>>

-----------------------------------------------------------------------------
\* func NewChannelList() *ChannelList
ListInit ==
  /\ data = [k \in Key |-> Nil]
  /\ made = {}

ListTypeOK ==
  /\ data \in [Key -> Chan \cup {Nil}]
  /\ made \in SUBSET Chan
=============================================================================
