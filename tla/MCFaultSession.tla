--------------------------- MODULE MCFaultSession ---------------------------
(* A session in which timers overlap with commands. *)
EXTENDS FaultSession, FaultScenarios
=============================================================================
