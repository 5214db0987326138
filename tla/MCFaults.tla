------------------------------ MODULE MCFaults ------------------------------
(***************************************************************************)
(* The faults of asuran in two kinds of sessions: two faults of any two    *)
(* types of the code by one thread (FaultTypes), and three injections of   *)
(* two abstract types by several threads (FaultSession).                   *)
(***************************************************************************)
EXTENDS FaultTypes, FaultScenarios

CONSTANTS Main, Sig

VARIABLES
  s_env, qdisc, setting, original, s_stack, rolled, file, s_active, timers, thr,
  s_up, used, faults

sessionVars == <<s_env, qdisc, setting, original, s_stack, rolled, file, s_active, timers, thr,
                 s_up, used, faults>>

FS == INSTANCE FaultSession WITH
  FaultIds <- {f1, f2, f3}, Scenarios <- MCSerial, env <- s_env, stack <- s_stack,
  active <- s_active, up <- s_up

ASSUME MCAssumption == FS!SessionAssumption

VARIABLE part    \* the kind of the session

FaultsInit ==
  \/ /\ part = "types"
     /\ Init /\ FS!Init /\ s_env = Plain
  \/ /\ part = "threads"
     /\ FS!Init /\ Init
     /\ env = [type |-> [f \in Faults |-> "delay"], dry |-> "no", host |-> HostWith(TRUE, "running")]

FaultsNext ==
  \/ part = "types" /\ Next /\ UNCHANGED <<part, sessionVars>>
  \/ part = "threads" /\ FS!Next /\ UNCHANGED <<part, vars>>

FaultsSpec == FaultsInit /\ [][FaultsNext]_<<part, vars, sessionVars>>

-----------------------------------------------------------------------------
(* The properties of FaultSession, stated there.                           *)

(* The rule of an active fault is on the interface.                        *)
RuleInPlace == FS!RuleInPlace

=============================================================================
