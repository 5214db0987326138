------------------------------ MODULE PortPool ------------------------------
(***************************************************************************)
(* The ephemeral port pool of one worker (vaigAI/src/net/tcp_port_pool.c): *)
(* a bitmap of available ports per source IP (a small probed table of such *)
(* bitmaps, and a shared one for the IPs that find no place in it) and the *)
(* TIME_WAIT ring, in which freed ports wait before they are available     *)
(* again.                                                                  *)
(*                                                                         *)
(* A port is its bit number. A ring entry carries the time that is left    *)
(* until its release_tsc. The connections that own ports are part of the   *)
(* model: each port taken with tcp_port_alloc is freed once, as            *)
(* tcp_fsm.c, tcp_timer.c and tx_gen.c do.                                 *)
(***************************************************************************)
EXTENDS Integers, FiniteSets, Sequences

CONSTANTS
  IPs,       \* source IPs of client connections
  Zero,      \* the address 0: marks a slot nobody claimed
  NIpSlots,  \* N_IP_SLOTS
  Home,      \* IP -> slot its search starts at
  Cnt,       \* TGEN_EPHEM_CNT, the number of ports
  RingSize,  \* TW_RING_SIZE; one position always stays unused
  Hold       \* TGEN_TCP_TIMEWAIT_MS in units of the model's time

PoolAssumption ==
  /\ Zero \notin IPs
  /\ NIpSlots \in Nat \ {0}
  /\ Home \in [IPs -> 0..(NIpSlots - 1)]
  /\ Cnt \in Nat \ {0}
  /\ RingSize \in Nat \ {0}
  /\ Hold \in Nat \ {0}

VARIABLES
  pool,      \* ip_pools[0 .. NIpSlots-1] and, at index Shared, the shared pool
  tw_ring,   \* the TIME_WAIT ring from tw_head to tw_tail
  draining,  \* the worker is in the loop of tcp_port_pool_tick
  held,      \* <<ip, port>> of the live connections
  cooling    \* put into the TIME_WAIT ring less than Hold ago (history)

poolVars == <<pool, tw_ring, draining, held, cooling>>

IpSlots == 0..(NIpSlots - 1)
Shared  == NIpSlots
Pools   == IpSlots \cup {Shared}
Bits    == 0..(Cnt - 1)

PoolType  == [ip : IPs \cup {Zero}, map : SUBSET Bits, cursor : Bits]
EntryType == [ip : IPs, port : Bits, wait : 0..Hold]

-----------------------------------------------------------------------------
(* The pool of a source IP.                                                *)

SlotAt(ip, k) == IF Home[ip] + k < NIpSlots THEN Home[ip] + k ELSE Home[ip] + k - NIpSlots

(* The k-th slot is the first that is the IP's own or unclaimed. *)
EndsAt(ip, k) ==
  /\ pool[SlotAt(ip, k)].ip \in {ip, Zero}
  /\ \A j \in 0..(k - 1) : pool[SlotAt(ip, j)].ip \notin {ip, Zero}

(* Where the search of ip_pool_get ends; Shared when the table is full. *)
PoolOf(ip) ==
  IF \E k \in IpSlots : EndsAt(ip, k)
    THEN SlotAt(ip, CHOOSE k \in IpSlots : EndsAt(ip, k))
    ELSE Shared

(* The pools after ip_pool_get: an unclaimed slot is claimed and inherits  *)
(* the shared bitmap.                                                      *)
ip_pool_get(ip) ==
  IF pool[PoolOf(ip)].ip = Zero /\ PoolOf(ip) # Shared
    THEN [pool EXCEPT ![PoolOf(ip)] = [ip |-> ip, map |-> pool[Shared].map, cursor |-> 0]]
    ELSE pool

(* The pools with port b of ip made available. *)
Released(ip, b) ==
  [ip_pool_get(ip) EXCEPT ![PoolOf(ip)].map = @ \cup {b}]

(* The first available port at or after the cursor, wrapping once. *)
After(cursor, b) == IF b >= cursor THEN b - cursor ELSE b - cursor + Cnt
bm_find_next(map, cursor) ==
  CHOOSE b \in map : \A c \in map : After(cursor, b) <= After(cursor, c)

-----------------------------------------------------------------------------
(* The operations of the worker.                                           *)

FreshPools ==
  [p \in Pools |-> [ip |-> Zero, map |-> Bits, cursor |-> 0]]

(* After tcp_port_pool_reset the unclaimed slots have an empty bitmap. *)
ResetPools ==
  [p \in Pools |-> [ip |-> Zero, map |-> IF p = Shared THEN Bits ELSE {}, cursor |-> 0]]

PoolInit ==
  /\ pool = FreshPools
  /\ tw_ring = <<>>
  /\ draining = FALSE
  /\ held = {}
  /\ cooling = {}

(* tcp_port_alloc for a new connection. Mutant: the bit is not cleared.    *)
tcp_port_alloc_keeping(ip) ==
  LET p == PoolOf(ip)
      q == ip_pool_get(ip)
      b == bm_find_next(q[p].map, q[p].cursor)
  IN  /\ ~draining
      /\ q[p].map # {}
      /\ pool' = [q EXCEPT ![p].cursor = (b + 1) % Cnt]
      /\ held' = held \cup {<<ip, b>>}
      /\ UNCHANGED <<tw_ring, draining, cooling>>

tcp_port_alloc(ip) ==
  LET p == PoolOf(ip)
      q == ip_pool_get(ip)
      b == bm_find_next(q[p].map, q[p].cursor)
  IN  /\ ~draining
      /\ q[p].map # {}
      /\ pool' = [q EXCEPT ![p].map = @ \ {b}, ![p].cursor = (b + 1) % Cnt]
      /\ held' = held \cup {<<ip, b>>}
      /\ UNCHANGED <<tw_ring, draining, cooling>>

(* Port exhaustion: the slot may have been claimed all the same. *)
AllocExhausted(ip) ==
  /\ ~draining
  /\ ip_pool_get(ip)[PoolOf(ip)].map = {}
  /\ pool' = ip_pool_get(ip)
  /\ UNCHANGED <<tw_ring, draining, held, cooling>>

(* A connection ends and its port enters the hold-off; if the ring is full *)
(* the port is available at once.                                          *)
tcp_port_free(ip, b) ==
  /\ ~draining
  /\ <<ip, b>> \in held
  /\ held' = held \ {<<ip, b>>}
  /\ LET e == [ip |-> ip, port |-> b, wait |-> Hold]
     IN  IF Len(tw_ring) = RingSize - 1
           THEN pool' = Released(ip, b) /\ UNCHANGED <<tw_ring, cooling>>
           ELSE /\ tw_ring' = Append(tw_ring, e)
                /\ cooling' = cooling \cup {e}
                /\ UNCHANGED pool
  /\ UNCHANGED draining

(* A connection ends by RST or is not opened after all. Mutant: the port   *)
(* is also put into the ring.                                              *)
tcp_port_free_twice(ip, b) ==
  /\ ~draining
  /\ <<ip, b>> \in held
  /\ held' = held \ {<<ip, b>>}
  /\ pool' = Released(ip, b)
  /\ tw_ring' = IF Len(tw_ring) < RingSize - 1
                  THEN Append(tw_ring, [ip |-> ip, port |-> b, wait |-> Hold])
                  ELSE tw_ring
  /\ UNCHANGED <<draining, cooling>>

tcp_port_free_immediate(ip, b) ==
  /\ ~draining
  /\ <<ip, b>> \in held
  /\ held' = held \ {<<ip, b>>}
  /\ pool' = Released(ip, b)
  /\ UNCHANGED <<tw_ring, draining, cooling>>

(* tcp_port_pool_tick, a step per iteration of its loop. *)
TickBegin ==
  /\ ~draining
  /\ draining' = TRUE
  /\ UNCHANGED <<pool, tw_ring, held, cooling>>

HeadExpired == tw_ring # <<>> /\ Head(tw_ring).wait = 0

(* Mutants: the head is released whatever its time; the loop ends without  *)
(* releasing anything.                                                     *)
TickReleaseEarly ==
  /\ draining
  /\ tw_ring # <<>>
  /\ pool' = Released(Head(tw_ring).ip, Head(tw_ring).port)
  /\ tw_ring' = Tail(tw_ring)
  /\ UNCHANGED <<draining, held, cooling>>

TickReleaseNothing ==
  /\ draining
  /\ HeadExpired
  /\ draining' = FALSE
  /\ UNCHANGED <<pool, tw_ring, held, cooling>>

TickRelease ==
  /\ draining
  /\ HeadExpired
  /\ pool' = Released(Head(tw_ring).ip, Head(tw_ring).port)
  /\ tw_ring' = Tail(tw_ring)
  /\ UNCHANGED <<draining, held, cooling>>

TickEnd ==
  /\ draining
  /\ ~HeadExpired
  /\ draining' = FALSE
  /\ UNCHANGED <<pool, tw_ring, held, cooling>>

(* CFG_CMD_RESET: tcp_fsm_reset_all and tcp_port_pool_reset in the worker. *)
WorkerReset ==
  /\ ~draining
  /\ pool' = ResetPools
  /\ tw_ring' = <<>>
  /\ held' = {}
  /\ cooling' = {}
  /\ UNCHANGED draining

(* The time-stamp counter advances. The tick compares with a time read     *)
(* before it began.                                                        *)
Dec(n) == IF n > 0 THEN n - 1 ELSE 0

Time ==
  /\ ~draining
  /\ \E n \in 1..Len(tw_ring) : tw_ring[n].wait > 0
  /\ tw_ring' = [n \in 1..Len(tw_ring) |-> [tw_ring[n] EXCEPT !.wait = Dec(@)]]
  /\ cooling' = {[c EXCEPT !.wait = Dec(@)] : c \in {d \in cooling : d.wait > 1}}
  /\ UNCHANGED <<pool, draining, held>>

PoolNext ==
  \/ \E ip \in IPs : tcp_port_alloc(ip)
  \/ \E ip \in IPs : AllocExhausted(ip)
  \/ \E ip \in IPs, b \in Bits : tcp_port_free(ip, b)
  \/ \E ip \in IPs, b \in Bits : tcp_port_free_immediate(ip, b)
  \/ TickBegin \/ TickRelease \/ TickEnd
  \/ WorkerReset
  \/ Time

PoolSpec == PoolInit /\ [][PoolNext]_poolVars

(* The poll loop calls the tick in each iteration and time passes. *)
Fairness ==
  /\ WF_poolVars(TickBegin) /\ WF_poolVars(TickRelease) /\ WF_poolVars(TickEnd)
  /\ SF_poolVars(Time)

FairSpec == PoolSpec /\ Fairness

-----------------------------------------------------------------------------
(* Properties.                                                             *)

(* The types of the pools; the ring keeps its bound (ip_pool_t, tw_entry_t). *)
PoolTypeOK ==
  /\ pool \in [Pools -> PoolType]
  /\ tw_ring \in Seq(EntryType) /\ Len(tw_ring) < RingSize
  /\ draining \in BOOLEAN
  /\ held \subseteq IPs \X Bits
  /\ cooling \subseteq EntryType

(* The port of a live connection is not available to another one of the    *)
(* same pool, so tcp_port_alloc never hands out a port twice, whichever    *)
(* IPs share a pool, own one or found the table full.                      *)
NoDoubleAllocation ==
  \A c \in held :
    /\ c[2] \notin pool[PoolOf(c[1])].map
    /\ \A d \in held : c[2] = d[2] /\ PoolOf(c[1]) = PoolOf(d[1]) => c = d

(* A port in the TIME_WAIT ring is neither available nor in use, and is in *)
(* the ring once (tcp_port_free, tcp_port_pool_tick, tcp_port_pool_reset). *)
RingExclusive ==
  \A n \in 1..Len(tw_ring) :
    LET e == tw_ring[n]
    IN  /\ e.port \notin pool[PoolOf(e.ip)].map
        /\ \A c \in held : c[2] = e.port => PoolOf(c[1]) # PoolOf(e.ip)
        /\ \A m \in 1..Len(tw_ring) :
             tw_ring[m].port = e.port /\ PoolOf(tw_ring[m].ip) = PoolOf(e.ip) => m = n

(* No port is lost: in each pool in use a port is available, belongs to a  *)
(* connection or waits in the ring.                                        *)
NoPortLost ==
  \A p \in Pools, b \in Bits :
    pool[p].ip # Zero \/ p = Shared =>
      \/ b \in pool[p].map
      \/ \E c \in held : c[2] = b /\ PoolOf(c[1]) = p
      \/ \E n \in 1..Len(tw_ring) : tw_ring[n].port = b /\ PoolOf(tw_ring[n].ip) = p

(* The IPs that have a port in use or in the ring. *)
Users == {c[1] : c \in held} \cup {tw_ring[n].ip : n \in 1..Len(tw_ring)}

(* An IP that has ports has claimed its slot or shares the shared pool, so *)
(* that ip_pool_get finds the pool the ports came from.                    *)
UsersOwnPools ==
  \A ip \in Users : PoolOf(ip) = Shared \/ pool[PoolOf(ip)].ip = ip

(* Every port of every pool in use is in one place: available, with one    *)
(* connection or once in the ring, whichever IPs share a pool, and however *)
(* the operations of tcp_port_pool.c follow each other.                    *)
PortsExact ==
  PoolTypeOK /\ NoDoubleAllocation /\ RingExclusive /\ NoPortLost /\ UsersOwnPools

(* A port that tcp_port_free put into the TIME_WAIT ring is not reused     *)
(* before its hold-off has passed, whichever ports are freed around it.    *)
(* (When the ring is full tcp_port_free makes the port available at once.) *)
HoldOffKept == \A c \in held, d \in cooling : ~(d.ip = c[1] /\ d.port = c[2])

(* A port freed through tcp_port_free does not stay in the ring forever:   *)
(* it becomes available to its IP again.                                   *)
PortComesBack ==
  \A ip \in IPs, b \in Bits :
    (\E n \in 1..Len(tw_ring) : tw_ring[n].ip = ip /\ tw_ring[n].port = b)
      ~> b \in ip_pool_get(ip)[PoolOf(ip)].map
=============================================================================
