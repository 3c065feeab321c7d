----------------------------- MODULE Heartbeat -----------------------------
(***************************************************************************)
(* The heartbeat loop of a registered subscriber (SubscribeTCPHandle and   *)
(* SubscribeHandle): the read deadline, which is not set again on every    *)
(* round, against the clock and the heartbeats of the client.              *)
(*                                                                         *)
(* The handler reacts at once: the clock stands still between a read and   *)
(* the next one.  A client that works lets at most Period pass between two *)
(* heartbeats; it may fall silent for good at any time.                    *)
(*                                                                         *)
(* Definitions marked "Faulty" are slips one could make in the code; they  *)
(* belong to no specification and show that the properties notice them.    *)
(***************************************************************************)
EXTENDS Integers

CONSTANTS
  Second,   \* clock ticks per second (oneSecond)
  Period,   \* the heartbeat period the client asked for, in ticks
  MaxTime   \* bound on the clock

ASSUME HeartbeatAssumption ==
  /\ Second \in Nat \ {0}
  /\ Period \in Nat \ {0}
  /\ MaxTime \in Nat

VARIABLES
  now,         \* the wall clock
  begin, end,  \* the variables of the loop
  deadline,    \* the read deadline of the connection
  pc,          \* "timer": top of the loop, "read": in conn.Read, "done"
  setAt,       \* history: when the deadline was last set
  heard,       \* history: when the client was last heard
  silent       \* the client has fallen silent

vars == <<now, begin, end, deadline, pc, setAt, heard, silent>>

\* heartbeat *= 2
Timeout == 2 * Period

(***************************************************************************)
(* The loop is entered at time 0: end is a second ahead of the clock, so   *)
(* that the first round sets the deadline.                                 *)
(***************************************************************************)
Init ==
  /\ now = 0
  /\ begin = 0
  /\ end = Second
  /\ deadline = 0
  /\ pc = "timer"
  /\ setAt = 0
  /\ heard = 0
  /\ silent = FALSE

\* Faulty: the deadline is counted from end.
TimerFromEnd ==
  /\ pc = "timer"
  /\ pc' = "read"
  /\ IF end - begin >= Second
       THEN deadline' = end + Timeout /\ begin' = end /\ setAt' = now
       ELSE UNCHANGED <<deadline, begin, setAt>>
  /\ UNCHANGED <<now, end, heard, silent>>

\* Faulty: only an idle connection gets a new deadline.
TimerInverted ==
  /\ pc = "timer"
  /\ pc' = "read"
  /\ IF end - begin <= Second
       THEN deadline' = now + Timeout /\ begin' = end /\ setAt' = now
       ELSE UNCHANGED <<deadline, begin, setAt>>
  /\ UNCHANGED <<now, end, heard, silent>>

\* if end-begin >= oneSecond { SetReadDeadline; begin = end }
Timer ==
  /\ pc = "timer"
  /\ pc' = "read"
  /\ IF end - begin >= Second
       THEN deadline' = now + Timeout /\ begin' = end /\ setAt' = now
       ELSE UNCHANGED <<deadline, begin, setAt>>
  /\ UNCHANGED <<now, end, heard, silent>>

\* A heartbeat is read and answered.
Beat ==
  /\ pc = "read" /\ ~silent
  /\ now <= deadline
  /\ end' = now
  /\ heard' = now
  /\ pc' = "timer"
  /\ UNCHANGED <<now, begin, deadline, setAt, silent>>

\* The read times out.
TimedOut ==
  /\ pc = "read"
  /\ now > deadline
  /\ pc' = "done"
  /\ UNCHANGED <<now, begin, end, deadline, setAt, heard, silent>>

FallSilent ==
  /\ pc = "read" /\ ~silent
  /\ silent' = TRUE
  /\ UNCHANGED <<now, begin, end, deadline, pc, setAt, heard>>

\* Time passes while the handler waits; a working client keeps its period.
Tick ==
  /\ pc = "read"
  /\ now < MaxTime
  /\ silent \/ now < heard + Period
  /\ now' = now + 1
  /\ UNCHANGED <<begin, end, deadline, pc, setAt, heard, silent>>

Stopped == (pc = "done" \/ now = MaxTime) /\ UNCHANGED vars

Next == Timer \/ Beat \/ TimedOut \/ FallSilent \/ Tick \/ Stopped

Spec == Init /\ [][Next]_vars

-----------------------------------------------------------------------------
TypeOK ==
  /\ now \in Nat /\ begin \in Nat /\ end \in Nat /\ deadline \in Nat
  /\ setAt \in Nat /\ heard \in Nat
  /\ pc \in {"timer", "read", "done"}
  /\ silent \in BOOLEAN

(***************************************************************************)
(* A client that keeps its period is never disconnected by the timeout,    *)
(* although most of its heartbeats do not move the deadline                *)
(* (pubsub_tcp.go:234-273, pubsub_http.go:135-170).                        *)
(***************************************************************************)
ResponsiveStays == pc = "done" => silent

(***************************************************************************)
(* A client that has fallen silent is found out at most two periods after  *)
(* its last heartbeat: while it is waited for, the deadline is not later.  *)
(***************************************************************************)
SilentFound == pc = "read" => deadline <= heard + Timeout

(***************************************************************************)
(* Where the deadline comes from, for every period: it lies two periods    *)
(* behind its setting, the loop remembers that instant in begin, a second  *)
(* late in its first round only, and no heartbeat is heard more than a     *)
(* second behind begin without a new deadline.                             *)
(***************************************************************************)
DeadlineInv ==
  /\ TypeOK
  /\ pc = "timer" =>
       /\ heard = now
       /\ setAt <= now
       /\ \/ end = now /\ deadline = setAt + Timeout /\ begin <= setAt + Second
          \/ end = now + Second /\ begin = now
  /\ pc = "read" =>
       /\ deadline = setAt + Timeout
       /\ setAt <= heard /\ heard <= end /\ heard <= now
       /\ begin <= setAt + Second
       /\ end - begin < Second

\* A working client is never late: inductive for two seconds or more.
TimerInv ==
  /\ DeadlineInv
  /\ pc = "read" /\ ~silent => now <= heard + Period
  /\ pc = "done" => silent

=============================================================================
