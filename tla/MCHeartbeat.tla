---------------------------- MODULE MCHeartbeat ----------------------------
(***************************************************************************)
(* Small instances of the heartbeat loop for TLC.                          *)
(***************************************************************************)
EXTENDS Heartbeat
=============================================================================
