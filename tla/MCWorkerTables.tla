--------------------------- MODULE MCWorkerTables ---------------------------
(***************************************************************************)
(* The tables a worker keeps, each in behaviours of its own: the TCB       *)
(* store, the port pool, the port pool under the flows of the management   *)
(* thread, and the delayed-ACK list.                                       *)
(*                                                                         *)
(* TCB store: k1 to k4 are IPv4 connections; m1 and m2 are IPv6            *)
(* connections of two peers that use the same pair of ports, so both are   *)
(* looked up under the key mm. Home slots are chosen so that probe         *)
(* sequences collide, wrap around the end of the table and fill it with    *)
(* tombstones.                                                             *)
(***************************************************************************)
EXTENDS TcbStore, PortPool, TLC

CONSTANTS k1, k2, k3, k4, m1, m2, mm

MCV4     == {k1, k2, k3, k4}
MCTuples == MCV4 \cup {m1, m2}
MCKeys   == MCV4 \cup {mm}
MCKey    == [t \in MCTuples |-> IF t \in {m1, m2} THEN mm ELSE t]
MCHash   == (k1 :> HtSize - 1) @@ (k2 :> HtSize - 1) @@ (k3 :> HtSize - 2)
              @@ (k4 :> 0) @@ (mm :> HtSize - 1)

-----------------------------------------------------------------------------
(* Port pool: three IPs with the same home slot, one slot and the shared   *)
(* pool, two ports each; the ring can fill up.                             *)

CONSTANTS ip1, ip2, ip3

MCIPs  == {ip1, ip2, ip3}
MCHome == [ip \in MCIPs |-> 0]

(* The pool of one IP; ft is a TCP and fu a UDP flow, both started with    *)
(* --one.                                                                  *)

CONSTANTS ft, fu

VARIABLES f_pool, f_tw_ring, f_draining, f_held, f_cooling, mgmt, gen, inbox, clash

flowVars == <<f_pool, f_tw_ring, f_draining, f_held, f_cooling, mgmt, gen, inbox, clash>>

FP == INSTANCE FlowPorts WITH
  IPs <- {ip1}, Home <- [ip \in {ip1} |-> 0],
  Flows <- {ft, fu}, TcpFlows <- {ft}, OneShot <- {ft, fu}, MultiQueue <- TRUE,
  pool <- f_pool, tw_ring <- f_tw_ring, draining <- f_draining, held <- f_held,
  cooling <- f_cooling

-----------------------------------------------------------------------------
(* Delayed ACKs of three connections that end only after their ACKs are    *)
(* sent.                                                                   *)

VARIABLES d_in_use, pending_ack, wait, dack_next, in_dack_list, dack_head, d_free_stack, flush

ackVars == <<d_in_use, pending_ack, wait, dack_next, in_dack_list, dack_head, d_free_stack, flush>>

DA == INSTANCE DelayedAck WITH
  N <- 3, Delay <- 2, FreeListed <- FALSE, in_use <- d_in_use, free_stack <- d_free_stack

-----------------------------------------------------------------------------
VARIABLE part    \* the table that is used

allVars == <<part, vars, poolVars, flowVars, ackVars>>

ASSUME MCAssumption ==
  PoolAssumption /\ FP!PoolAssumption /\ FP!FlowAssumption /\ DA!DelayedAckAssumption

TablesInit ==
  /\ part \in {"store", "ports", "flows", "acks"}
  /\ Init /\ PoolInit /\ FP!FInit /\ DA!Init

InPart(name, A, others) == part = name /\ A /\ UNCHANGED <<part, others>>
Store(A) == InPart("store", A, <<poolVars, flowVars, ackVars>>)
Ports(A) == InPart("ports", A, <<vars, flowVars, ackVars>>)
Flows(A) == InPart("flows", A, <<vars, poolVars, ackVars>>)
Acks(A)  == InPart("acks", A, <<vars, poolVars, flowVars>>)

TablesNext == Store(Next) \/ Ports(PoolNext) \/ Flows(FP!FNext) \/ Acks(DA!Next)

(* The fairness of PortPool and of DelayedAck: only one of them runs. *)
TablesFairness ==
  /\ WF_allVars(Ports(TickBegin) \/ Acks(DA!FlushBegin))
  /\ WF_allVars(Ports(TickRelease) \/ Acks(DA!FlushOne))
  /\ WF_allVars(Ports(TickEnd) \/ Acks(DA!FlushEnd))
  /\ SF_allVars(Ports(Time) \/ Acks(DA!Time))

TablesSpec == TablesInit /\ [][TablesNext]_allVars /\ TablesFairness

-----------------------------------------------------------------------------
(* The properties of FlowPorts and DelayedAck, stated there.               *)


(* An ACK that is owed is sent.                                            *)
AckIsSent == DA!AckIsSent
=============================================================================
