---------------------------- MODULE MCDelayedAck ----------------------------
(* Instances of DelayedAck. *)
EXTENDS DelayedAck
=============================================================================
