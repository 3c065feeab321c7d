-------------------------- MODULE HeartbeatProofs --------------------------
(***************************************************************************)
(* Proofs about the heartbeat loop, for every resolution of the clock: the *)
(* bound on the deadline for every period, and for every period of two     *)
(* seconds or more that a working client keeps its connection.             *)
(***************************************************************************)
EXTENDS Heartbeat, TLAPS

\* The loop is entered with a clock a second ahead and no deadline.
LEMMA TimerInit == Init => TimerInv
<1> SUFFICES ASSUME Init PROVE TimerInv
  OBVIOUS
<1>1. silent \in BOOLEAN
  BY DEF Init
<1>2. /\ pc = "timer" /\ now \in Nat /\ begin \in Nat /\ end \in Nat
      /\ deadline \in Nat /\ setAt \in Nat /\ heard \in Nat
  BY HeartbeatAssumption DEF Init
<1>3. heard = now /\ setAt <= now /\ end = now + Second /\ begin = now
  BY HeartbeatAssumption DEF Init
<1> QED BY <1>1, <1>2, <1>3 DEF TimerInv, DeadlineInv, TypeOK

\* Every step keeps what is known of the deadline, whatever the period.
LEMMA DeadlineStep == DeadlineInv /\ [Next]_vars => DeadlineInv'
<1> SUFFICES ASSUME DeadlineInv, [Next]_vars PROVE DeadlineInv'
  OBVIOUS
<1> USE HeartbeatAssumption DEF DeadlineInv, TypeOK, Timeout
<1>1. CASE Timer
  BY <1>1 DEF Timer
<1>2. CASE Beat
  BY <1>2 DEF Beat
<1>3. CASE TimedOut
  BY <1>3 DEF TimedOut
<1>4. CASE FallSilent
  BY <1>4 DEF FallSilent
<1>5. CASE Tick
  BY <1>5 DEF Tick
<1>6. CASE Stopped \/ UNCHANGED vars
  BY <1>6 DEF Stopped, vars
<1> QED BY <1>1, <1>2, <1>3, <1>4, <1>5, <1>6 DEF Next

(***************************************************************************)
(* With two seconds or more a working client is never late.  The step that *)
(* matters is TimedOut: a working client was heard before setAt +          *)
(* 2 * Second, and its next heartbeat is due no later than the deadline.   *)
(***************************************************************************)
LEMMA TimerStep ==
  ASSUME Period >= 2 * Second
  PROVE  TimerInv /\ [Next]_vars => TimerInv'
<1> SUFFICES ASSUME TimerInv, [Next]_vars PROVE TimerInv'
  OBVIOUS
<1>1. DeadlineInv'
  BY DeadlineStep DEF TimerInv
<1> USE HeartbeatAssumption DEF TimerInv, DeadlineInv, TypeOK, Timeout
<1>2. CASE Timer
  <2>1. pc' = "read" /\ now' <= heard' + Period
    BY <1>2 DEF Timer
  <2> QED BY <1>1, <2>1
<1>3. CASE Beat
  BY <1>1, <1>3 DEF Beat
<1>4. CASE TimedOut
  <2>1. pc = "read" /\ now > deadline /\ pc' = "done" /\ silent' = silent
    BY <1>4 DEF TimedOut
  <2>2. ~silent => now <= deadline
    BY <2>1
  <2> QED BY <1>1, <2>1, <2>2
<1>5. CASE FallSilent
  BY <1>1, <1>5 DEF FallSilent
<1>6. CASE Tick
  BY <1>1, <1>6 DEF Tick
<1>7. CASE Stopped \/ UNCHANGED vars
  BY <1>1, <1>7 DEF Stopped, vars
<1> QED BY <1>2, <1>3, <1>4, <1>5, <1>6, <1>7 DEF Next

(***************************************************************************)
(* With a heartbeat of two seconds or more, a client that keeps its period *)
(* is never disconnected (the loop of SubscribeTCPHandle and               *)
(* SubscribeHandle).  With one second it may be, as the README tells.       *)
(***************************************************************************)
THEOREM Responsive ==
  ASSUME Period >= 2 * Second
  PROVE  Spec => []ResponsiveStays
<1>1. TimerInv => ResponsiveStays
  BY DEF TimerInv, ResponsiveStays
<1> QED BY <1>1, TimerInit, TimerStep, PTL DEF Spec

(***************************************************************************)
(* A silent client is found out at most two periods after its last         *)
(* heartbeat, whatever period the handlers of pubsub_tcp.go and            *)
(* pubsub_http.go accepted.                                                *)
(***************************************************************************)
THEOREM Found == Spec => []SilentFound
<1>1. Init => DeadlineInv
  BY TimerInit DEF TimerInv
<1>2. DeadlineInv => SilentFound
  BY HeartbeatAssumption DEF DeadlineInv, SilentFound, TypeOK, Timeout
<1> QED BY <1>1, <1>2, DeadlineStep, PTL DEF Spec
=============================================================================
