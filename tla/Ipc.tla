-------------------------------- MODULE Ipc ---------------------------------
(***************************************************************************)
(* The command rings between the management thread and the workers         *)
(* (core/ipc.c): one bounded FIFO per worker, one producer, one consumer.  *)
(* A send to a ring that stays full for 100 us is given up, and neither    *)
(* the caller of tgen_ipc_send nor that of tgen_ipc_broadcast looks at the *)
(* result. The acknowledgements the workers send back are only logged (if  *)
(* their code is not 0, which no worker sends) and are left out.           *)
(***************************************************************************)
EXTENDS Integers, Sequences

CONSTANT RingSize    \* commands a ring holds

ASSUME IpcAssumption == RingSize \in Nat \ {0}

tgen_ipc_init(workers) == [w \in workers |-> <<>>]

(* The workers whose ring has no room for a command. *)
Full(rings) == {w \in DOMAIN rings : Len(rings[w]) >= RingSize}

tgen_ipc_send(rings, w, msg) ==
  IF w \in Full(rings) THEN rings ELSE [rings EXCEPT ![w] = Append(@, msg)]

(* Mutant: the broadcast ends before the last worker. *)
BroadcastShort(rings, msg) ==
  [w \in DOMAIN rings |->
     IF \A v \in DOMAIN rings : v <= w THEN rings[w] ELSE tgen_ipc_send(rings, w, msg)[w]]

tgen_ipc_broadcast(rings, msg) ==
  [w \in DOMAIN rings |-> tgen_ipc_send(rings, w, msg)[w]]

(* tgen_ipc_recv: the worker takes the oldest command. *)
tgen_ipc_recv(rings, w) == [rings EXCEPT ![w] = Tail(@)]
=============================================================================
