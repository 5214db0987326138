----------------------------- MODULE FlowPorts ------------------------------
(***************************************************************************)
(* The port pool as the rest of vaigAI uses it: the management thread      *)
(* starts and stops client flows (cmd_start, mgmt_traffic_stop_flow),      *)
(* resetting and filtering the worker's pool itself, and sends the worker  *)
(* commands that it handles between its bursts (worker_loop.c). A worker   *)
(* allocates ports while it has an active TCP flow and frees them whenever *)
(* its connections end, be a flow active or not.                           *)
(*                                                                         *)
(* The management thread waits 100 ms after a stop and 300 ms after a      *)
(* reset; the model takes that to be long enough for the worker to have    *)
(* handled every command before the next flow is started.                  *)
(***************************************************************************)
EXTENDS PortPool

CONSTANTS
  Flows,      \* client flow slots
  TcpFlows,   \* those whose flow uses TCP
  OneShot,    \* those started with --one
  MultiQueue  \* more than one RX queue and worker: the RSS filter is applied

FlowAssumption ==
  /\ TcpFlows \subseteq Flows
  /\ OneShot \subseteq Flows
  /\ MultiQueue \in BOOLEAN

VARIABLES
  mgmt,    \* the flows active in g_client_flows
  gen,     \* the flows active in the worker's tx_gen
  inbox,   \* the commands on their way to the worker
  clash    \* some allocation returned a port in use by the same IP (history)

fvars == <<mgmt, gen, inbox, clash>>

FInit ==
  /\ PoolInit
  /\ mgmt = {}
  /\ gen = {}
  /\ inbox = <<>>
  /\ clash = FALSE

-----------------------------------------------------------------------------
(* The management thread.                                                  *)

(* tcp_port_pool_apply_rss_filter: the ports whose responses arrive at     *)
(* this worker become available in the shared and in every claimed pool.   *)
RssFilter(pools, mine) ==
  [p \in Pools |-> IF MultiQueue /\ (p = Shared \/ pools[p].ip # Zero)
                     THEN [pools[p] EXCEPT !.map = mine]
                     ELSE pools[p]]

(* cmd_start. The first flow also resets the pool, unless it uses no TCP.  *)
(* While a --one flow runs the command line is blocked.                    *)
cmd_start(f, mine) ==
  LET tcp   == f \in TcpFlows
      reset == tcp /\ mgmt = {}
  IN  /\ inbox = <<>>
      /\ f \notin mgmt /\ mgmt \cap OneShot = {}
      /\ mgmt' = mgmt \cup {f}
      /\ pool' = IF tcp THEN RssFilter(IF reset THEN ResetPools ELSE pool, mine) ELSE pool
      /\ tw_ring' = IF reset THEN <<>> ELSE tw_ring
      /\ cooling' = IF reset THEN {} ELSE cooling
      /\ inbox' = <<[cmd |-> "START", flow |-> f]>>
      /\ UNCHANGED <<draining, held, gen, clash>>

(* mgmt_traffic_stop_flow. The end of the last --one flow resets the       *)
(* worker.                                                                 *)
mgmt_traffic_stop_flow(f) ==
  LET stop  == <<[cmd |-> "STOP_FLOW", flow |-> f]>>
      reset == IF f \in OneShot /\ mgmt = {f} THEN <<[cmd |-> "RESET", flow |-> f]>> ELSE <<>>
  IN  /\ f \in mgmt
      /\ mgmt' = mgmt \ {f}
      /\ inbox' = inbox \o stop \o reset
      /\ UNCHANGED <<poolVars, gen, clash>>

-----------------------------------------------------------------------------
(* The worker.                                                             *)

Receives(cmd) == ~draining /\ inbox # <<>> /\ Head(inbox).cmd = cmd /\ inbox' = Tail(inbox)

(* tcp_fsm_reset_all drops every connection and frees none of their ports. *)
RecvStart ==
  /\ Receives("START")
  /\ held' = IF gen \subseteq {Head(inbox).flow} THEN {} ELSE held
  /\ gen' = gen \cup {Head(inbox).flow}
  /\ UNCHANGED <<pool, tw_ring, draining, cooling, mgmt, clash>>

RecvStopFlow ==
  /\ Receives("STOP_FLOW")
  /\ gen' = gen \ {Head(inbox).flow}
  /\ UNCHANGED <<poolVars, mgmt, clash>>

RecvReset ==
  /\ Receives("RESET")
  /\ WorkerReset
  /\ UNCHANGED <<mgmt, gen, clash>>


Connect(ip) ==
  /\ gen \cap TcpFlows # {}
  /\ tcp_port_alloc(ip)
  /\ clash' = (clash \/ held' = held)
  /\ UNCHANGED <<mgmt, gen, inbox>>

PoolStep ==
  \/ \E ip \in IPs, b \in Bits : tcp_port_free(ip, b)
  \/ \E ip \in IPs, b \in Bits : tcp_port_free_immediate(ip, b)
  \/ TickBegin \/ TickRelease \/ TickEnd
  \/ Time

FNext ==
  \/ \E f \in Flows, mine \in SUBSET Bits : cmd_start(f, mine)
  \/ \E f \in Flows : mgmt_traffic_stop_flow(f)
  \/ RecvStart \/ RecvStopFlow \/ RecvReset
  \/ \E ip \in IPs : Connect(ip)
  \/ PoolStep /\ UNCHANGED fvars

FSpec == FInit /\ [][FNext]_<<poolVars, fvars>>

-----------------------------------------------------------------------------
(* Properties.                                                             *)


=============================================================================
