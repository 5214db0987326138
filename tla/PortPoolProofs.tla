--------------------------- MODULE PortPoolProofs ---------------------------
(***************************************************************************)
(* Proofs about PortPool: for any number of IPs, slots and ports, any home *)
(* slots, any ring and any hold-off, every port is in exactly one place in *)
(* every reachable state.                                                  *)
(***************************************************************************)
EXTENDS PortPool, LeastNatural, TLAPS

-----------------------------------------------------------------------------
(* The search for a pool.                                                  *)

(* Each step of the search reads a slot. *)
LEMMA SlotAtInTable ==
  ASSUME PoolAssumption, NEW ip \in IPs, NEW k \in IpSlots
  PROVE  SlotAt(ip, k) \in IpSlots
BY DEF PoolAssumption, SlotAt, IpSlots

(* The search reads every slot. *)
LEMMA SlotAtOnto ==
  ASSUME PoolAssumption, NEW ip \in IPs, NEW s \in IpSlots
  PROVE  \E k \in IpSlots : SlotAt(ip, k) = s
<1>1. Home[ip] \in IpSlots /\ NIpSlots \in Nat
  BY DEF PoolAssumption, IpSlots
<1>2. CASE s >= Home[ip]
  <2>1. s - Home[ip] \in IpSlots /\ SlotAt(ip, s - Home[ip]) = s
    BY <1>1, <1>2 DEF SlotAt, IpSlots
  <2> QED BY <2>1
<1>3. CASE ~(s >= Home[ip])
  <2>1. s - Home[ip] + NIpSlots \in IpSlots /\ SlotAt(ip, s - Home[ip] + NIpSlots) = s
    BY <1>1, <1>3 DEF SlotAt, IpSlots
  <2> QED BY <2>1
<1> QED BY <1>2, <1>3

(* A search that reaches a slot to stop at stops. *)
LEMMA SearchStops ==
  ASSUME PoolAssumption, NEW ip \in IPs, NEW s \in IpSlots, pool[s].ip \in {ip, Zero}
  PROVE  \E k \in IpSlots : EndsAt(ip, k)
<1> DEFINE T == {k \in IpSlots : pool[SlotAt(ip, k)].ip \in {ip, Zero}}
<1>1. T # {} /\ T \in SUBSET Nat
  BY SlotAtOnto DEF IpSlots
<1>2. PICK x \in T : \A y \in T : x <= y
  BY <1>1, LeastElement
<1>3. \A j \in 0..(x - 1) : j \in IpSlots /\ ~(x <= j)
  BY DEF PoolAssumption, IpSlots
<1>4. EndsAt(ip, x)
  BY <1>2, <1>3 DEF EndsAt
<1> QED BY <1>4

(* What PoolOf is: the slot the search stops at, or the shared pool when   *)
(* it stops at none.                                                       *)
PoolOfIsSlot ==
  \A ip \in IPs, k \in IpSlots : EndsAt(ip, k) => PoolOf(ip) = SlotAt(ip, k)

PoolOfIsShared ==
  \A ip \in IPs : (\A k \in IpSlots : ~EndsAt(ip, k)) => PoolOf(ip) = Shared

(* The search stops at no slot but one. *)
LEMMA SlotFound == PoolOfIsSlot
<1> SUFFICES ASSUME NEW ip \in IPs, NEW k \in IpSlots, EndsAt(ip, k)
             PROVE  PoolOf(ip) = SlotAt(ip, k)
  BY DEF PoolOfIsSlot
<1> DEFINE c == CHOOSE m \in IpSlots : EndsAt(ip, m)
<1>1. c \in IpSlots /\ EndsAt(ip, c)
  OBVIOUS
<1> HIDE DEF c
<1>2. c \in Int /\ k \in Int /\ 0 <= c /\ 0 <= k
  BY <1>1 DEF IpSlots
<1>3. ~(c < k)
  <2> SUFFICES ASSUME c < k PROVE FALSE
    OBVIOUS
  <2>1. c \in 0..(k - 1)
    BY <1>2
  <2> QED BY <1>1, <2>1 DEF EndsAt
<1>4. ~(k < c)
  <2> SUFFICES ASSUME k < c PROVE FALSE
    OBVIOUS
  <2>1. k \in 0..(c - 1)
    BY <1>2
  <2> QED BY <1>1, <2>1 DEF EndsAt
<1>5. c = k
  BY <1>2, <1>3, <1>4
<1> QED BY <1>5 DEF PoolOf, c

(* Without such a slot the pool is the shared one. *)
LEMMA SharedFound == PoolOfIsShared
BY DEF PoolOfIsShared, PoolOf

(* Both in the next state. *)
LEMMA SlotFoundNext == PoolOfIsSlot'
BY SlotFound, PTL

LEMMA SharedFoundNext == PoolOfIsShared'
BY SharedFound, PTL

(* Where an IP's pool is. *)
LEMMA PoolOfCases ==
  ASSUME PoolAssumption, NEW ip \in IPs
  PROVE  \/ PoolOf(ip) = Shared /\ \A s \in IpSlots : pool[s].ip \notin {ip, Zero}
         \/ PoolOf(ip) \in IpSlots /\ pool[PoolOf(ip)].ip \in {ip, Zero}
<1>1. CASE \E k \in IpSlots : EndsAt(ip, k)
  <2>1. PICK k \in IpSlots : EndsAt(ip, k)
    BY <1>1
  <2>2. PoolOf(ip) = SlotAt(ip, k)
    BY <2>1, SlotFound DEF PoolOfIsSlot
  <2> QED BY <2>1, <2>2, SlotAtInTable DEF EndsAt
<1>2. CASE \A k \in IpSlots : ~EndsAt(ip, k)
  <2>1. PoolOf(ip) = Shared
    BY <1>2, SharedFound DEF PoolOfIsShared
  <2> QED BY <1>2, <2>1, SearchStops
<1> QED BY <1>1, <1>2

(* The shared pool is none of the slots. *)
LEMMA SharedIsNoSlot == PoolAssumption => Shared \notin IpSlots
BY DEF PoolAssumption, Shared, IpSlots

(* As long as no slot changes hands every IP keeps its pool. *)
LEMMA PoolsKept ==
  ASSUME PoolAssumption, \A s \in IpSlots : pool'[s].ip = pool[s].ip, NEW ip \in IPs
  PROVE  PoolOf(ip)' = PoolOf(ip)
<1>1. ASSUME NEW k \in IpSlots PROVE EndsAt(ip, k)' <=> EndsAt(ip, k)
  <2>1. \A j \in 0..(k - 1) : j \in IpSlots
    BY DEF PoolAssumption, IpSlots
  <2>2. SlotAt(ip, k) \in IpSlots /\ \A j \in 0..(k - 1) : SlotAt(ip, j) \in IpSlots
    BY <2>1, SlotAtInTable
  <2> QED BY <2>2 DEF EndsAt
<1>2. CASE \E k \in IpSlots : EndsAt(ip, k)
  <2>1. PICK k \in IpSlots : EndsAt(ip, k)
    BY <1>2
  <2>2. PoolOf(ip) = SlotAt(ip, k)
    BY <2>1, SlotFound DEF PoolOfIsSlot
  <2>3. PoolOf(ip)' = SlotAt(ip, k)
    BY <2>1, <1>1, SlotFoundNext DEF PoolOfIsSlot
  <2> QED BY <2>2, <2>3
<1>3. CASE \A k \in IpSlots : ~EndsAt(ip, k)
  <2>1. PoolOf(ip) = Shared
    BY <1>3, SharedFound DEF PoolOfIsShared
  <2>2. PoolOf(ip)' = Shared
    BY <1>1, <1>3, SharedFoundNext DEF PoolOfIsShared
  <2> QED BY <2>1, <2>2
<1> QED BY <1>2, <1>3

(* When an IP claims its slot it has its pool there, and the IPs that own  *)
(* a slot keep theirs.                                                     *)
LEMMA PoolsClaimed ==
  ASSUME PoolAssumption, NEW new \in IPs, NEW ip \in IPs,
         PoolOf(new) \in IpSlots, pool[PoolOf(new)].ip = Zero,
         pool'[PoolOf(new)].ip = new,
         \A s \in IpSlots \ {PoolOf(new)} : pool'[s].ip = pool[s].ip,
         ip = new \/ (PoolOf(ip) \in IpSlots /\ pool[PoolOf(ip)].ip = ip)
  PROVE  PoolOf(ip)' = PoolOf(ip)
<1> DEFINE p == PoolOf(new)
<1>1. PICK k \in IpSlots : EndsAt(ip, k) /\ PoolOf(ip) = SlotAt(ip, k)
  <2>1. \E k \in IpSlots : EndsAt(ip, k)
    <3>1. PoolOf(ip) # Shared
      BY SharedIsNoSlot
    <3> QED BY <3>1, SharedFound DEF PoolOfIsShared
  <2> QED BY <2>1, SlotFound DEF PoolOfIsSlot
<1>2. \A j \in 0..(k - 1) : SlotAt(ip, j) \in IpSlots
  <2>1. \A j \in 0..(k - 1) : j \in IpSlots
    BY DEF PoolAssumption, IpSlots
  <2> QED BY <2>1, SlotAtInTable
<1>3. \A j \in 0..(k - 1) : pool'[SlotAt(ip, j)].ip \notin {ip, Zero}
  <2> SUFFICES ASSUME NEW j \in 0..(k - 1) PROVE pool'[SlotAt(ip, j)].ip \notin {ip, Zero}
    OBVIOUS
  <2>1. pool[SlotAt(ip, j)].ip \notin {ip, Zero}
    BY <1>1 DEF EndsAt
  <2>2. SlotAt(ip, j) # p
    BY <2>1
  <2> QED BY <1>2, <2>1, <2>2
<1>4. pool'[SlotAt(ip, k)].ip = ip
  BY <1>1, SlotAtInTable DEF PoolAssumption
<1>5. EndsAt(ip, k)'
  BY <1>3, <1>4 DEF EndsAt
<1> QED BY <1>1, <1>5, SlotFoundNext DEF PoolOfIsSlot

-----------------------------------------------------------------------------
(* ip_pool_get.                                                            *)

(* The users of ports are source IPs. *)
LEMMA UsersAreIPs == PoolTypeOK => Users \subseteq IPs
<1> SUFFICES ASSUME PoolTypeOK PROVE Users \subseteq IPs
  OBVIOUS
<1>1. \A c \in held : c[1] \in IPs
  BY DEF PoolTypeOK
<1>2. \A n \in 1..Len(tw_ring) : tw_ring[n] \in EntryType
  BY DEF PoolTypeOK
<1>3. \A n \in 1..Len(tw_ring) : tw_ring[n].ip \in IPs
  BY <1>2 DEF EntryType
<1> QED BY <1>1, <1>3 DEF Users

(* While some slot is unclaimed nobody uses the shared pool, so that all   *)
(* its ports are available: the IP that claims the slot gets a full one.   *)
LEMMA SharedIsFull ==
  ASSUME PoolAssumption, PortsExact, NEW s \in IpSlots, pool[s].ip = Zero
  PROVE  pool[Shared].map = Bits
<1>1. \A ip \in IPs : PoolOf(ip) # Shared
  BY PoolOfCases, SharedIsNoSlot
<1>2. \A ip \in Users : PoolOf(ip) # Shared
  BY <1>1, UsersAreIPs DEF PortsExact
<1>3. Shared \in Pools /\ pool[Shared] \in PoolType
  BY DEF PortsExact, PoolTypeOK, Pools
<1>4. ASSUME NEW b \in Bits PROVE b \in pool[Shared].map
  <2>1. \A c \in held : PoolOf(c[1]) # Shared
    BY <1>2 DEF Users
  <2>2. \A n \in 1..Len(tw_ring) : PoolOf(tw_ring[n].ip) # Shared
    BY <1>2 DEF Users
  <2> QED BY <1>3, <2>1, <2>2 DEF PortsExact, NoPortLost
<1> QED BY <1>3, <1>4 DEF PoolType

(* ip_pool_get either changes nothing or lets an IP without ports claim a  *)
(* full pool.                                                              *)
Claims(ip) == PoolOf(ip) \in IpSlots /\ pool[PoolOf(ip)].ip = Zero

LEMMA GetEffect ==
  ASSUME PoolAssumption, PortsExact, NEW ip \in IPs
  PROVE  /\ PoolOf(ip) \in Pools
         /\ ip_pool_get(ip) \in [Pools -> PoolType]
         /\ \A r \in Pools \ {PoolOf(ip)} : ip_pool_get(ip)[r] = pool[r]
         /\ ~Claims(ip) => /\ ip_pool_get(ip) = pool
                           /\ PoolOf(ip) = Shared \/ pool[PoolOf(ip)].ip = ip
         /\ Claims(ip) => /\ ip_pool_get(ip)[PoolOf(ip)].ip = ip
                          /\ ip_pool_get(ip)[PoolOf(ip)].map = Bits
                          /\ \A u \in Users : PoolOf(u) # PoolOf(ip) /\ PoolOf(u) \in IpSlots
<1> DEFINE p == PoolOf(ip)
<1>1. p \in Pools /\ Shared \in Pools
  BY PoolOfCases DEF Pools
<1>2. pool \in [Pools -> PoolType]
  BY DEF PortsExact, PoolTypeOK
<1>3. CASE ~Claims(ip)
  <2>1. ip_pool_get(ip) = pool
    BY <1>3, PoolOfCases DEF ip_pool_get, Claims
  <2>2. p = Shared \/ pool[p].ip = ip
    BY <1>3, PoolOfCases DEF Claims
  <2> QED BY <1>1, <1>2, <1>3, <2>1, <2>2
<1>4. CASE Claims(ip)
  <2>1. p # Shared /\ p \in IpSlots /\ pool[p].ip = Zero
    BY <1>4, SharedIsNoSlot DEF Claims
  <2>2. pool[Shared].map = Bits
    BY <2>1, SharedIsFull
  <2>3. ip_pool_get(ip) = [pool EXCEPT ![p] = [ip |-> ip, map |-> Bits, cursor |-> 0]]
    BY <2>1, <2>2 DEF ip_pool_get
  <2>4. [ip |-> ip, map |-> Bits, cursor |-> 0] \in PoolType
    BY DEF PoolType, Bits, PoolAssumption
  <2>5. ASSUME NEW u \in Users PROVE PoolOf(u) # p /\ PoolOf(u) \in IpSlots
    <3>1. u \in IPs
      BY UsersAreIPs DEF PortsExact
    <3>2. PoolOf(u) \in IpSlots
      BY <2>1, <3>1, PoolOfCases
    <3>3. pool[PoolOf(u)].ip = u
      BY <3>2, SharedIsNoSlot DEF PortsExact, UsersOwnPools
    <3> QED BY <2>1, <3>1, <3>2, <3>3 DEF PoolAssumption
  <2> QED BY <1>1, <1>2, <1>4, <2>1, <2>3, <2>4, <2>5
<1> QED BY <1>3, <1>4

(* Whoever has a port has no slot to claim. *)
LEMMA UsersClaimNothing ==
  ASSUME PoolAssumption, PortsExact, NEW u \in Users
  PROVE  ~Claims(u)
<1>1. u \in IPs
  BY UsersAreIPs DEF PortsExact
<1> QED BY <1>1, SharedIsNoSlot DEF PortsExact, UsersOwnPools, Claims, PoolAssumption

(* The users, and the IP itself, have the same pools after ip_pool_get. *)
LEMMA GetKeepsPools ==
  ASSUME PoolAssumption, PortsExact, NEW ip \in IPs,
         \A r \in Pools : pool'[r].ip = ip_pool_get(ip)[r].ip
  PROVE  \A u \in Users \cup {ip} : PoolOf(u)' = PoolOf(u)
<1> SUFFICES ASSUME NEW u \in Users \cup {ip} PROVE PoolOf(u)' = PoolOf(u)
  OBVIOUS
<1>1. u \in IPs
  BY UsersAreIPs DEF PortsExact
<1>2. IpSlots \subseteq Pools
  BY DEF Pools
<1>3. CASE ~Claims(ip)
  <2>1. \A s \in IpSlots : pool'[s].ip = pool[s].ip
    BY <1>2, <1>3, GetEffect
  <2> QED BY <1>1, <2>1, PoolsKept
<1>4. CASE Claims(ip)
  <2>1. PoolOf(ip) \in IpSlots /\ pool[PoolOf(ip)].ip = Zero
    BY <1>4 DEF Claims
  <2>2. /\ pool'[PoolOf(ip)].ip = ip
        /\ \A s \in IpSlots \ {PoolOf(ip)} : pool'[s].ip = pool[s].ip
    BY <1>2, <1>4, <2>1, GetEffect
  <2>3. u = ip \/ (PoolOf(u) \in IpSlots /\ pool[PoolOf(u)].ip = u)
    BY <1>4, GetEffect, SharedIsNoSlot DEF PortsExact, UsersOwnPools
  <2> QED BY <1>1, <2>1, <2>2, <2>3, PoolsClaimed
<1> QED BY <1>3, <1>4

-----------------------------------------------------------------------------
(* Exactness of given pools pl, ring rg and connections hs, where P maps   *)
(* each IP to its pool: PortsExact without PoolOf and without variables.   *)

Exact(P, pl, rg, hs) ==
  /\ \A c \in hs : c[2] \notin pl[P[c[1]]].map
  /\ \A c, d \in hs : c[2] = d[2] /\ P[c[1]] = P[d[1]] => c = d
  /\ \A n \in 1..Len(rg) : rg[n].port \notin pl[P[rg[n].ip]].map
  /\ \A n \in 1..Len(rg), c \in hs : c[2] = rg[n].port => P[c[1]] # P[rg[n].ip]
  /\ \A n, m \in 1..Len(rg) : rg[m].port = rg[n].port /\ P[rg[m].ip] = P[rg[n].ip] => m = n
  /\ \A p \in Pools, b \in Bits :
       pl[p].ip # Zero \/ p = Shared =>
         \/ b \in pl[p].map
         \/ \E c \in hs : c[2] = b /\ P[c[1]] = p
         \/ \E n \in 1..Len(rg) : rg[n].port = b /\ P[rg[n].ip] = p
  /\ \A c \in hs : P[c[1]] = Shared \/ pl[P[c[1]]].ip = c[1]
  /\ \A n \in 1..Len(rg) : P[rg[n].ip] = Shared \/ pl[P[rg[n].ip]].ip = rg[n].ip

InPools(P, rg, hs) ==
  /\ \A c \in hs : P[c[1]] \in Pools
  /\ \A n \in 1..Len(rg) : P[rg[n].ip] \in Pools

PoolFn == [ip \in IPs |-> PoolOf(ip)]

ExactIsPortsExact ==
  PoolTypeOK => (PortsExact <=> Exact(PoolFn, pool, tw_ring, held))

LEMMA ExactIs == ExactIsPortsExact
<1> SUFFICES ASSUME PoolTypeOK PROVE PortsExact <=> Exact(PoolFn, pool, tw_ring, held)
  BY DEF ExactIsPortsExact
<1>1. \A c \in held : c[1] \in IPs
  BY DEF PoolTypeOK
<1>2. \A n \in 1..Len(tw_ring) : tw_ring[n].ip \in IPs
  <2>1. \A n \in 1..Len(tw_ring) : tw_ring[n] \in EntryType
    BY DEF PoolTypeOK
  <2> QED BY <2>1 DEF EntryType
<1>3. \A c \in held : PoolFn[c[1]] = PoolOf(c[1])
  BY <1>1 DEF PoolFn
<1>4. \A n \in 1..Len(tw_ring) : PoolFn[tw_ring[n].ip] = PoolOf(tw_ring[n].ip)
  BY <1>2 DEF PoolFn
<1>5. UsersOwnPools <=>
        /\ \A c \in held : PoolFn[c[1]] = Shared \/ pool[PoolFn[c[1]]].ip = c[1]
        /\ \A n \in 1..Len(tw_ring) : \/ PoolFn[tw_ring[n].ip] = Shared
                                      \/ pool[PoolFn[tw_ring[n].ip]].ip = tw_ring[n].ip
  BY <1>3, <1>4 DEF UsersOwnPools, Users
<1>6. NoDoubleAllocation <=>
        /\ \A c \in held : c[2] \notin pool[PoolFn[c[1]]].map
        /\ \A c, d \in held : c[2] = d[2] /\ PoolFn[c[1]] = PoolFn[d[1]] => c = d
  BY <1>3 DEF NoDoubleAllocation
<1>7. RingExclusive <=>
        /\ \A n \in 1..Len(tw_ring) : tw_ring[n].port \notin pool[PoolFn[tw_ring[n].ip]].map
        /\ \A n \in 1..Len(tw_ring), c \in held :
             c[2] = tw_ring[n].port => PoolFn[c[1]] # PoolFn[tw_ring[n].ip]
        /\ \A n, m \in 1..Len(tw_ring) :
             tw_ring[m].port = tw_ring[n].port
             /\ PoolFn[tw_ring[m].ip] = PoolFn[tw_ring[n].ip] => m = n
  BY <1>3, <1>4 DEF RingExclusive
<1>8. NoPortLost <=>
        \A p \in Pools, b \in Bits :
          pool[p].ip # Zero \/ p = Shared =>
            \/ b \in pool[p].map
            \/ \E c \in held : c[2] = b /\ PoolFn[c[1]] = p
            \/ \E n \in 1..Len(tw_ring) : tw_ring[n].port = b /\ PoolFn[tw_ring[n].ip] = p
  BY <1>3, <1>4 DEF NoPortLost
<1> QED BY <1>5, <1>6, <1>7, <1>8 DEF PortsExact, Exact

LEMMA ExactIsNext == ExactIsPortsExact'
BY ExactIs, PTL

(* A port is taken from a pool for a new connection. *)
LEMMA TakePort ==
  ASSUME NEW P, NEW pl, NEW pl2, NEW rg, NEW hs, NEW ip, NEW b,
         Exact(P, pl, rg, hs), P[ip] \in Pools,
         P[ip] = Shared \/ pl[P[ip]].ip = ip,
         b \in pl[P[ip]].map,
         \A r \in Pools : pl2[r].ip = pl[r].ip,
         pl2[P[ip]].map = pl[P[ip]].map \ {b},
         \A r \in Pools \ {P[ip]} : pl2[r] = pl[r],
         InPools(P, rg, hs)
  PROVE  Exact(P, pl2, rg, hs \cup {<<ip, b>>})
<1> DEFINE h2 == hs \cup {<<ip, b>>}
<1>1. \A r \in Pools : pl2[r].map \subseteq pl[r].map
  OBVIOUS
<1>2. \A c \in hs : c[2] = b => P[c[1]] # P[ip]
  BY DEF Exact
<1>3. \A n \in 1..Len(rg) : rg[n].port = b => P[rg[n].ip] # P[ip]
  BY DEF Exact
<1>4. \A c \in h2 : c \in hs \/ (c = <<ip, b>> /\ c[1] = ip /\ c[2] = b)
  OBVIOUS
<1>5. \A c \in h2 : c[2] \notin pl2[P[c[1]]].map
  BY <1>1, <1>4 DEF Exact, InPools
<1>6. \A c, d \in h2 : c[2] = d[2] /\ P[c[1]] = P[d[1]] => c = d
  BY <1>2, <1>4 DEF Exact
<1>7. \A n \in 1..Len(rg) : rg[n].port \notin pl2[P[rg[n].ip]].map
  BY <1>1 DEF Exact, InPools
<1>8. \A n \in 1..Len(rg), c \in h2 : c[2] = rg[n].port => P[c[1]] # P[rg[n].ip]
  BY <1>3, <1>4 DEF Exact
<1>9. ASSUME NEW p \in Pools, NEW d \in Bits, pl2[p].ip # Zero \/ p = Shared, d \notin pl2[p].map
      PROVE  \/ \E c \in h2 : c[2] = d /\ P[c[1]] = p
             \/ \E n \in 1..Len(rg) : rg[n].port = d /\ P[rg[n].ip] = p
  <2>1. CASE p = P[ip] /\ d = b
    <3>1. <<ip, b>> \in h2 /\ <<ip, b>>[1] = ip /\ <<ip, b>>[2] = b
      OBVIOUS
    <3> QED BY <2>1, <3>1
  <2>2. CASE ~(p = P[ip] /\ d = b)
    <3>1. d \notin pl[p].map /\ (pl[p].ip # Zero \/ p = Shared)
      BY <1>9, <2>2
    <3> QED BY <3>1 DEF Exact
  <2> QED BY <2>1, <2>2
<1>10. \A c \in h2 : P[c[1]] = Shared \/ pl2[P[c[1]]].ip = c[1]
  BY <1>4 DEF Exact, InPools
<1>11. \A n \in 1..Len(rg) : P[rg[n].ip] = Shared \/ pl2[P[rg[n].ip]].ip = rg[n].ip
  BY DEF Exact, InPools
<1> HIDE DEF h2
<1>12. Exact(P, pl2, rg, h2)
  BY <1>5, <1>6, <1>7, <1>8, <1>9, <1>10, <1>11, Exact(P, pl, rg, hs) DEF Exact
<1> QED BY <1>12 DEF h2

(* The port of a connection becomes available. *)
LEMMA ReleaseHeld ==
  ASSUME NEW P, NEW pl, NEW pl2, NEW rg, NEW hs, NEW c0 \in hs,
         Exact(P, pl, rg, hs), InPools(P, rg, hs),
         \A r \in Pools : pl2[r].ip = pl[r].ip,
         pl2[P[c0[1]]].map = pl[P[c0[1]]].map \cup {c0[2]},
         \A r \in Pools \ {P[c0[1]]} : pl2[r] = pl[r]
  PROVE  Exact(P, pl2, rg, hs \ {c0})
<1> DEFINE h2 == hs \ {c0}
<1>1. \A r \in Pools : \A x : x \in pl2[r].map <=> x \in pl[r].map \/ (r = P[c0[1]] /\ x = c0[2])
  BY DEF InPools
<1>2. \A c \in h2 : c[2] \notin pl2[P[c[1]]].map
  BY <1>1 DEF Exact, InPools
<1>3. \A n \in 1..Len(rg) : rg[n].port \notin pl2[P[rg[n].ip]].map
  BY <1>1 DEF Exact, InPools
<1>4. ASSUME NEW p \in Pools, NEW d \in Bits, pl2[p].ip # Zero \/ p = Shared, d \notin pl2[p].map
      PROVE  \/ \E c \in h2 : c[2] = d /\ P[c[1]] = p
             \/ \E n \in 1..Len(rg) : rg[n].port = d /\ P[rg[n].ip] = p
  <2>1. d \notin pl[p].map /\ (pl[p].ip # Zero \/ p = Shared) /\ ~(p = P[c0[1]] /\ d = c0[2])
    BY <1>1, <1>4
  <2> QED BY <2>1 DEF Exact
<1>5. /\ \A c \in h2 : P[c[1]] = Shared \/ pl2[P[c[1]]].ip = c[1]
      /\ \A n \in 1..Len(rg) : P[rg[n].ip] = Shared \/ pl2[P[rg[n].ip]].ip = rg[n].ip
  BY DEF Exact, InPools
<1>6. /\ \A c, d \in h2 : c[2] = d[2] /\ P[c[1]] = P[d[1]] => c = d
      /\ \A n \in 1..Len(rg), c \in h2 : c[2] = rg[n].port => P[c[1]] # P[rg[n].ip]
  BY DEF Exact
<1> HIDE DEF h2
<1>7. Exact(P, pl2, rg, h2)
  BY <1>2, <1>3, <1>4, <1>5, <1>6, Exact(P, pl, rg, hs) DEF Exact
<1> QED BY <1>7 DEF h2

(* The port of a connection enters the ring. *)
LEMMA HeldToRing ==
  ASSUME NEW P, NEW pl, NEW rg \in Seq(EntryType), NEW hs, NEW c0 \in hs,
         Exact(P, pl, rg, hs),
         NEW e \in EntryType, e.ip = c0[1], e.port = c0[2]
  PROVE  Exact(P, pl, Append(rg, e), hs \ {c0})
<1> DEFINE h2 == hs \ {c0}
           r2 == Append(rg, e)
           k  == Len(rg) + 1
<1>1. /\ Len(rg) \in Nat /\ Len(r2) = k /\ r2[k] = e /\ k \in 1..Len(r2)
      /\ \A n \in 1..Len(rg) : r2[n] = rg[n] /\ n \in 1..Len(r2)
      /\ \A n \in 1..Len(r2) : n \in 1..Len(rg) \/ n = k
  OBVIOUS
<1> HIDE DEF r2, k
<1>2. \A n \in 1..Len(r2) : \/ n \in 1..Len(rg) /\ r2[n] = rg[n]
                            \/ n = k /\ r2[n].ip = c0[1] /\ r2[n].port = c0[2]
  BY <1>1
<1>3. \A c \in h2 : /\ c \in hs /\ c # c0
                    /\ ~(c[2] = c0[2] /\ P[c[1]] = P[c0[1]])
  BY DEF Exact
<1>4. \A n \in 1..Len(r2) : r2[n].port \notin pl[P[r2[n].ip]].map
  BY <1>2 DEF Exact
<1>5. \A n \in 1..Len(r2), c \in h2 : c[2] = r2[n].port => P[c[1]] # P[r2[n].ip]
  BY <1>2, <1>3 DEF Exact
<1>6. \A n, m \in 1..Len(r2) : r2[m].port = r2[n].port /\ P[r2[m].ip] = P[r2[n].ip] => m = n
  <2> SUFFICES ASSUME NEW n \in 1..Len(r2), NEW m \in 1..Len(r2),
                      r2[m].port = r2[n].port, P[r2[m].ip] = P[r2[n].ip]
               PROVE  m = n
    OBVIOUS
  <2>1. \A j \in 1..Len(rg) : ~(rg[j].port = c0[2] /\ P[rg[j].ip] = P[c0[1]])
    BY DEF Exact
  <2>2. CASE n \in 1..Len(rg) /\ m \in 1..Len(rg)
    BY <1>1, <2>2 DEF Exact
  <2>3. CASE n = k /\ m = k
    BY <2>3
  <2>4. CASE n \in 1..Len(rg) /\ m = k
    BY <1>1, <2>1, <2>4
  <2>5. CASE n = k /\ m \in 1..Len(rg)
    BY <1>1, <2>1, <2>5
  <2> QED BY <1>1, <2>2, <2>3, <2>4, <2>5
<1>7. ASSUME NEW p \in Pools, NEW d \in Bits, pl[p].ip # Zero \/ p = Shared, d \notin pl[p].map
      PROVE  \/ \E c \in h2 : c[2] = d /\ P[c[1]] = p
             \/ \E n \in 1..Len(r2) : r2[n].port = d /\ P[r2[n].ip] = p
  <2>1. CASE d = c0[2] /\ p = P[c0[1]]
    <3>1. r2[k].port = d /\ P[r2[k].ip] = p
      BY <1>1, <2>1
    <3> QED BY <1>1, <3>1
  <2>2. CASE ~(d = c0[2] /\ p = P[c0[1]])
    <3>1. CASE \E c \in hs : c[2] = d /\ P[c[1]] = p
      BY <2>2, <3>1
    <3>2. CASE \E n \in 1..Len(rg) : rg[n].port = d /\ P[rg[n].ip] = p
      BY <1>1, <3>2
    <3> QED BY <1>7, <3>1, <3>2 DEF Exact
  <2> QED BY <2>1, <2>2
<1>8. /\ \A c \in h2 : P[c[1]] = Shared \/ pl[P[c[1]]].ip = c[1]
      /\ \A n \in 1..Len(r2) : P[r2[n].ip] = Shared \/ pl[P[r2[n].ip]].ip = r2[n].ip
  BY <1>2, <1>3 DEF Exact
<1>9. /\ \A c \in h2 : c[2] \notin pl[P[c[1]]].map
      /\ \A c, d \in h2 : c[2] = d[2] /\ P[c[1]] = P[d[1]] => c = d
  BY DEF Exact
<1> HIDE DEF h2
<1>10. Exact(P, pl, r2, h2)
  BY <1>4, <1>5, <1>6, <1>7, <1>8, <1>9 DEF Exact
<1> QED BY <1>10 DEF h2, r2

(* The head of the ring becomes available. *)
LEMMA ReleaseHead ==
  ASSUME NEW P, NEW pl, NEW pl2, NEW rg \in Seq(EntryType), NEW hs, rg # <<>>,
         Exact(P, pl, rg, hs), InPools(P, rg, hs),
         \A r \in Pools : pl2[r].ip = pl[r].ip,
         pl2[P[Head(rg).ip]].map = pl[P[Head(rg).ip]].map \cup {Head(rg).port},
         \A r \in Pools \ {P[Head(rg).ip]} : pl2[r] = pl[r]
  PROVE  Exact(P, pl2, Tail(rg), hs)
<1> DEFINE r2 == Tail(rg)
           e  == rg[1]
<1>1. /\ Len(rg) \in Nat /\ 1 \in 1..Len(rg) /\ Head(rg) = e /\ Len(r2) = Len(rg) - 1
      /\ \A n \in 1..Len(r2) : r2[n] = rg[n + 1] /\ n + 1 \in 1..Len(rg) /\ n + 1 # 1
      /\ \A n \in 1..Len(rg) : n # 1 => n - 1 \in 1..Len(r2) /\ r2[n - 1] = rg[n]
  OBVIOUS
<1>2. P[e.ip] \in Pools
  BY <1>1 DEF InPools
<1> HIDE DEF r2, e
<1>3. \A r \in Pools : \A x : x \in pl2[r].map <=> x \in pl[r].map \/ (r = P[e.ip] /\ x = e.port)
  BY <1>1, <1>2
<1>4. \A n \in 1..Len(rg) : n # 1 => ~(rg[n].port = e.port /\ P[rg[n].ip] = P[e.ip])
  BY <1>1 DEF Exact, e
<1>5. \A c \in hs : ~(c[2] = e.port /\ P[c[1]] = P[e.ip])
  BY <1>1 DEF Exact, e
<1>6. \A c \in hs : c[2] \notin pl2[P[c[1]]].map
  BY <1>3, <1>5 DEF Exact, InPools
<1>7. \A n \in 1..Len(rg) : n # 1 => rg[n].port \notin pl2[P[rg[n].ip]].map
  BY <1>3, <1>4 DEF Exact, InPools
<1>8. \A n \in 1..Len(r2) : r2[n].port \notin pl2[P[r2[n].ip]].map
  BY <1>1, <1>7
<1>9. \A n \in 1..Len(r2), c \in hs : c[2] = r2[n].port => P[c[1]] # P[r2[n].ip]
  BY <1>1 DEF Exact
<1>10. ASSUME NEW n \in 1..Len(r2), NEW m \in 1..Len(r2),
              r2[m].port = r2[n].port, P[r2[m].ip] = P[r2[n].ip]
       PROVE  m = n
  <2>1. n + 1 = m + 1
    BY <1>1, <1>10 DEF Exact
  <2> QED BY <1>1, <2>1
<1>11. ASSUME NEW p \in Pools, NEW d \in Bits, pl2[p].ip # Zero \/ p = Shared, d \notin pl2[p].map
       PROVE  \/ \E c \in hs : c[2] = d /\ P[c[1]] = p
              \/ \E n \in 1..Len(r2) : r2[n].port = d /\ P[r2[n].ip] = p
  <2>1. d \notin pl[p].map /\ (pl[p].ip # Zero \/ p = Shared) /\ ~(p = P[e.ip] /\ d = e.port)
    BY <1>3, <1>11
  <2>2. CASE \E n \in 1..Len(rg) : rg[n].port = d /\ P[rg[n].ip] = p
    <3>1. PICK n \in 1..Len(rg) : rg[n].port = d /\ P[rg[n].ip] = p
      BY <2>2
    <3>2. n # 1
      BY <2>1, <3>1 DEF e
    <3>3. n - 1 \in 1..Len(r2) /\ r2[n - 1].port = d /\ P[r2[n - 1].ip] = p
      BY <1>1, <3>1, <3>2
    <3> QED BY <3>3
  <2> QED BY <2>1, <2>2 DEF Exact
<1>12. \A c \in hs : P[c[1]] = Shared \/ pl2[P[c[1]]].ip = c[1]
  BY DEF Exact, InPools
<1>13. \A n \in 1..Len(rg) : P[rg[n].ip] = Shared \/ pl2[P[rg[n].ip]].ip = rg[n].ip
  BY DEF Exact, InPools
<1>14. \A n \in 1..Len(r2) : P[r2[n].ip] = Shared \/ pl2[P[r2[n].ip]].ip = r2[n].ip
  BY <1>1, <1>13
<1>15. \A c, d \in hs : c[2] = d[2] /\ P[c[1]] = P[d[1]] => c = d
  BY DEF Exact
<1>16. Exact(P, pl2, r2, hs)
  BY <1>6, <1>8, <1>9, <1>10, <1>11, <1>12, <1>14, <1>15 DEF Exact
<1> QED BY <1>16 DEF r2

(* A slot nobody has a port of is claimed, with all ports available. *)
LEMMA ClaimSlot ==
  ASSUME NEW P, NEW P2, NEW pl, NEW pl2, NEW rg, NEW hs, NEW p,
         Exact(P, pl, rg, hs), InPools(P, rg, hs),
         \A c \in hs : P2[c[1]] = P[c[1]] /\ P[c[1]] # p,
         \A n \in 1..Len(rg) : P2[rg[n].ip] = P[rg[n].ip] /\ P[rg[n].ip] # p,
         \A r \in Pools \ {p} : pl2[r] = pl[r],
         pl2[p].map = Bits
  PROVE  Exact(P2, pl2, rg, hs)
<1>1. \A c \in hs : pl2[P2[c[1]]] = pl[P[c[1]]]
  BY DEF InPools
<1>2. \A n \in 1..Len(rg) : pl2[P2[rg[n].ip]] = pl[P[rg[n].ip]]
  BY DEF InPools
<1>3. ASSUME NEW r \in Pools, NEW d \in Bits, pl2[r].ip # Zero \/ r = Shared, d \notin pl2[r].map
      PROVE  \/ \E c \in hs : c[2] = d /\ P2[c[1]] = r
             \/ \E n \in 1..Len(rg) : rg[n].port = d /\ P2[rg[n].ip] = r
  <2>1. pl2[r] = pl[r]
    BY <1>3
  <2> QED BY <1>3, <2>1 DEF Exact
<1> QED BY <1>1, <1>2, <1>3 DEF Exact

(* Without connections and ring all ports of the pools in use must be      *)
(* available.                                                              *)
LEMMA NobodyHasPorts ==
  ASSUME NEW P, NEW pl,
         \A p \in Pools : pl[p].map = Bits \/ (pl[p].ip = Zero /\ p # Shared)
  PROVE  Exact(P, pl, <<>>, {})
<1> DEFINE rg == <<>>
<1>1. 1..Len(rg) = {}
  OBVIOUS
<1> HIDE DEF rg
<1>2. Exact(P, pl, rg, {})
  BY <1>1 DEF Exact
<1> QED BY <1>2 DEF rg

(* Exactness is about the IPs and the ports of the ring, not their times. *)
LEMMA TimesDoNotMatter ==
  ASSUME NEW P, NEW pl, NEW rg, NEW r2, NEW hs, Exact(P, pl, rg, hs),
         Len(r2) = Len(rg),
         \A n \in 1..Len(rg) : r2[n].ip = rg[n].ip /\ r2[n].port = rg[n].port
  PROVE  Exact(P, pl, r2, hs)
BY DEF Exact

-----------------------------------------------------------------------------
(* The operations.                                                         *)

(* In each state of the pool the pools of the users exist. *)
LEMMA PoolsExist ==
  ASSUME PoolAssumption, PoolTypeOK
  PROVE  InPools(PoolFn, tw_ring, held)
<1>1. \A ip \in IPs : PoolFn[ip] \in Pools
  BY PoolOfCases DEF PoolFn, Pools
<1>2. \A n \in 1..Len(tw_ring) : tw_ring[n].ip \in IPs
  <2>1. \A n \in 1..Len(tw_ring) : tw_ring[n] \in EntryType
    BY DEF PoolTypeOK
  <2> QED BY <2>1 DEF EntryType
<1>3. \A c \in held : c[1] \in IPs
  BY DEF PoolTypeOK
<1> QED BY <1>1, <1>2, <1>3 DEF InPools

(* While no slot changes hands the map of the pools stays. *)
LEMMA PoolFnKept ==
  ASSUME PoolAssumption, \A s \in IpSlots : pool'[s].ip = pool[s].ip
  PROVE  PoolFn' = PoolFn
<1>1. \A ip \in IPs : PoolOf(ip)' = PoolOf(ip)
  BY PoolsKept
<1> QED BY <1>1 DEF PoolFn

(* The state right after ip_pool_get is exact. *)
LEMMA GetKeepsExact ==
  ASSUME PoolAssumption, PortsExact, NEW ip \in IPs,
         \A r \in Pools : pool'[r].ip = ip_pool_get(ip)[r].ip
  PROVE  /\ Exact(PoolFn', ip_pool_get(ip), tw_ring, held)
         /\ InPools(PoolFn', tw_ring, held)
         /\ PoolFn'[ip] = PoolOf(ip)
<1> DEFINE q == ip_pool_get(ip)
<1>1. \A u \in Users \cup {ip} : u \in IPs
  BY UsersAreIPs DEF PortsExact
<1>2. \A u \in Users \cup {ip} : PoolOf(u)' = PoolOf(u)
  BY GetKeepsPools
<1>3. \A u \in Users \cup {ip} : PoolFn[u] = PoolOf(u) /\ PoolFn'[u] = PoolOf(u)
  BY <1>1, <1>2 DEF PoolFn
<1>4. /\ \A c \in held : c[1] \in Users
      /\ \A n \in 1..Len(tw_ring) : tw_ring[n].ip \in Users
  BY DEF Users
<1>5. Exact(PoolFn, pool, tw_ring, held) /\ InPools(PoolFn, tw_ring, held)
  BY ExactIs, PoolsExist DEF PortsExact, ExactIsPortsExact
<1>6. /\ \A c \in held : PoolFn'[c[1]] = PoolFn[c[1]]
      /\ \A n \in 1..Len(tw_ring) : PoolFn'[tw_ring[n].ip] = PoolFn[tw_ring[n].ip]
  BY <1>3, <1>4
<1>7. InPools(PoolFn', tw_ring, held)
  BY <1>5, <1>6 DEF InPools
<1>8. Exact(PoolFn', q, tw_ring, held)
  <2>1. CASE ~Claims(ip)
    <3>1. q = pool
      BY <2>1, GetEffect
    <3> QED BY <1>5, <1>6, <3>1 DEF Exact
  <2>2. CASE Claims(ip)
    <3> DEFINE p == PoolOf(ip)
    <3>1. q[p].map = Bits /\ \A r \in Pools \ {p} : q[r] = pool[r]
      BY <2>2, GetEffect
    <3>2. \A u \in Users : PoolFn[u] # p
      BY <1>3, <2>2, GetEffect
    <3>3. /\ \A c \in held : PoolFn[c[1]] # p
          /\ \A n \in 1..Len(tw_ring) : PoolFn[tw_ring[n].ip] # p
      BY <1>4, <3>2
    <3> HIDE DEF p, q
    <3> QED BY <1>5, <1>6, <3>1, <3>3, ClaimSlot
  <2> QED BY <2>1, <2>2
<1> QED BY <1>3, <1>7, <1>8

(* bm_find_next finds an available port when there is one. *)
LEMMA FindNextFinds ==
  ASSUME PoolAssumption, NEW map \in SUBSET Bits, map # {}, NEW cursor \in Bits
  PROVE  bm_find_next(map, cursor) \in map
<1> DEFINE T == {After(cursor, c) : c \in map}
<1>1. \A c \in map : After(cursor, c) \in Nat
  BY DEF After, Bits, PoolAssumption
<1>2. T \in SUBSET Nat /\ T # {}
  BY <1>1
<1>3. PICK x \in T : \A y \in T : x <= y
  BY <1>2, LeastElement
<1>4. PICK b \in map : x = After(cursor, b)
  BY <1>3
<1>5. \A c \in map : After(cursor, b) <= After(cursor, c)
  BY <1>3, <1>4
<1> QED BY <1>5 DEF bm_find_next

(* A state with exact pools is one of PortsExact. *)
LEMMA ExactNext ==
  ASSUME PoolTypeOK', Exact(PoolFn', pool', tw_ring', held')
  PROVE  PortsExact'
BY ExactIsNext DEF ExactIsPortsExact

LEMMA AllocKeeps ==
  ASSUME PoolAssumption, PortsExact, NEW ip \in IPs, tcp_port_alloc(ip)
  PROVE  PortsExact'
<1> DEFINE p == PoolOf(ip)
           q == ip_pool_get(ip)
           b == bm_find_next(q[p].map, q[p].cursor)
<1>1. /\ p \in Pools /\ q \in [Pools -> PoolType] /\ q[p] \in PoolType
      /\ p = Shared \/ q[p].ip = ip
  BY GetEffect
<1>2. b \in q[p].map /\ b \in Bits
  BY <1>1, FindNextFinds DEF tcp_port_alloc, PoolType
<1>3. /\ pool' = [q EXCEPT ![p].map = @ \ {b}, ![p].cursor = (b + 1) % Cnt]
      /\ held' = held \cup {<<ip, b>>}
      /\ tw_ring' = tw_ring /\ draining' = draining /\ cooling' = cooling
  BY DEF tcp_port_alloc
<1> HIDE DEF b
<1>4. (b + 1) % Cnt \in Bits
  BY <1>2 DEF Bits, PoolAssumption
<1>5. /\ pool' \in [Pools -> PoolType]
      /\ pool'[p].map = q[p].map \ {b}
      /\ \A r \in Pools : pool'[r].ip = q[r].ip
      /\ \A r \in Pools \ {p} : pool'[r] = q[r]
  BY <1>1, <1>3, <1>4 DEF PoolType
<1>6. PoolTypeOK'
  BY <1>2, <1>3, <1>5 DEF PortsExact, PoolTypeOK
<1>7. /\ Exact(PoolFn', q, tw_ring, held) /\ InPools(PoolFn', tw_ring, held)
      /\ PoolFn'[ip] = p
  BY <1>5, GetKeepsExact
<1> HIDE DEF q
<1>8. /\ PoolFn'[ip] \in Pools
      /\ PoolFn'[ip] = Shared \/ q[PoolFn'[ip]].ip = ip
      /\ b \in q[PoolFn'[ip]].map
      /\ pool'[PoolFn'[ip]].map = q[PoolFn'[ip]].map \ {b}
      /\ \A r \in Pools \ {PoolFn'[ip]} : pool'[r] = q[r]
  BY <1>1, <1>2, <1>5, <1>7
<1>9. \A r \in Pools : pool'[r].ip = q[r].ip
  BY <1>5
<1>10. Exact(PoolFn', pool', tw_ring, held \cup {<<ip, b>>})
  BY <1>7, <1>8, <1>9, TakePort, Zenon
<1> QED BY <1>3, <1>6, <1>10, ExactNext

LEMMA ExhaustedKeeps ==
  ASSUME PoolAssumption, PortsExact, NEW ip \in IPs, AllocExhausted(ip)
  PROVE  PortsExact'
<1>1. /\ pool' = ip_pool_get(ip) /\ held' = held /\ tw_ring' = tw_ring
      /\ draining' = draining /\ cooling' = cooling
  BY DEF AllocExhausted
<1>2. PoolTypeOK'
  BY <1>1, GetEffect DEF PortsExact, PoolTypeOK
<1>3. Exact(PoolFn', ip_pool_get(ip), tw_ring, held)
  BY <1>1, GetKeepsExact
<1> QED BY <1>1, <1>2, <1>3, ExactNext

(* A user's port made available: no slot changes hands. *)
LEMMA ReleasedEffect ==
  ASSUME PoolAssumption, PortsExact, NEW u \in Users, NEW b \in Bits,
         pool' = Released(u, b)
  PROVE  /\ pool' \in [Pools -> PoolType]
         /\ PoolFn' = PoolFn
         /\ \A r \in Pools : pool'[r].ip = pool[r].ip
         /\ pool'[PoolFn[u]].map = pool[PoolFn[u]].map \cup {b}
         /\ \A r \in Pools \ {PoolFn[u]} : pool'[r] = pool[r]
<1>1. u \in IPs
  BY UsersAreIPs DEF PortsExact
<1>2. ip_pool_get(u) = pool /\ PoolOf(u) \in Pools
  BY <1>1, UsersClaimNothing, GetEffect
<1>3. PoolFn[u] = PoolOf(u)
  BY <1>1 DEF PoolFn
<1>4. pool' = [pool EXCEPT ![PoolFn[u]].map = @ \cup {b}]
  BY <1>2, <1>3 DEF Released
<1>5. pool \in [Pools -> PoolType]
  BY DEF PortsExact, PoolTypeOK
<1>6. /\ pool' \in [Pools -> PoolType]
      /\ \A r \in Pools : pool'[r].ip = pool[r].ip
      /\ pool'[PoolFn[u]].map = pool[PoolFn[u]].map \cup {b}
      /\ \A r \in Pools \ {PoolFn[u]} : pool'[r] = pool[r]
  BY <1>2, <1>3, <1>4, <1>5 DEF PoolType
<1>7. PoolFn' = PoolFn
  BY <1>6, PoolFnKept DEF Pools
<1> QED BY <1>6, <1>7

(* A connection's port made available. *)
LEMMA HeldReleased ==
  ASSUME PoolAssumption, PortsExact, NEW ip \in IPs, NEW b \in Bits,
         <<ip, b>> \in held, held' = held \ {<<ip, b>>}, pool' = Released(ip, b),
         tw_ring' = tw_ring, draining' = draining, cooling' = cooling
  PROVE  PortsExact'
<1> DEFINE c0 == <<ip, b>>
<1>1. ip \in Users /\ c0[1] = ip /\ c0[2] = b
  BY DEF Users
<1>2. PoolTypeOK'
  BY <1>1, ReleasedEffect DEF PortsExact, PoolTypeOK
<1>3. /\ Exact(PoolFn, pool, tw_ring, held) /\ InPools(PoolFn, tw_ring, held)
      /\ c0 \in held
  BY ExactIs, PoolsExist DEF PortsExact, ExactIsPortsExact
<1>4. /\ PoolFn' = PoolFn
      /\ \A r \in Pools : pool'[r].ip = pool[r].ip
      /\ pool'[PoolFn[c0[1]]].map = pool[PoolFn[c0[1]]].map \cup {c0[2]}
      /\ \A r \in Pools \ {PoolFn[c0[1]]} : pool'[r] = pool[r]
  BY <1>1, ReleasedEffect
<1> HIDE DEF c0
<1>5. Exact(PoolFn, pool', tw_ring, held \ {c0})
  BY <1>3, <1>4, ReleaseHeld, Zenon
<1>6. Exact(PoolFn', pool', tw_ring', held')
  BY <1>4, <1>5 DEF c0
<1> QED BY <1>2, <1>6, ExactNext

LEMMA FreeKeeps ==
  ASSUME PoolAssumption, PortsExact, NEW ip \in IPs, NEW b \in Bits, tcp_port_free(ip, b)
  PROVE  PortsExact'
<1>1. CASE Len(tw_ring) = RingSize - 1
  BY <1>1, HeldReleased DEF tcp_port_free
<1>2. CASE Len(tw_ring) # RingSize - 1
  <2> DEFINE c0 == <<ip, b>>
             e  == [ip |-> ip, port |-> b, wait |-> Hold]
  <2>1. /\ c0 \in held /\ held' = held \ {c0} /\ tw_ring' = Append(tw_ring, e)
        /\ cooling' = cooling \cup {e} /\ pool' = pool /\ draining' = draining
    BY <1>2 DEF tcp_port_free
  <2>2. e \in EntryType /\ e.ip = c0[1] /\ e.port = c0[2]
    BY DEF EntryType, PoolAssumption
  <2>3. Exact(PoolFn, pool, tw_ring, held) /\ tw_ring \in Seq(EntryType)
    BY ExactIs DEF PortsExact, ExactIsPortsExact, PoolTypeOK
  <2> HIDE DEF c0, e
  <2>4. PoolTypeOK'
    BY <1>2, <2>1, <2>2 DEF PortsExact, PoolTypeOK, PoolAssumption
  <2>5. Exact(PoolFn, pool, Append(tw_ring, e), held \ {c0})
    BY <2>1, <2>2, <2>3, HeldToRing
  <2>6. PoolFn' = PoolFn
    BY <2>1, PoolFnKept
  <2> QED BY <2>1, <2>4, <2>5, <2>6, ExactNext
<1> QED BY <1>1, <1>2

LEMMA FreeImmediateKeeps ==
  ASSUME PoolAssumption, PortsExact, NEW ip \in IPs, NEW b \in Bits,
         tcp_port_free_immediate(ip, b)
  PROVE  PortsExact'
BY HeldReleased DEF tcp_port_free_immediate

LEMMA TickReleaseKeeps ==
  ASSUME PoolAssumption, PortsExact, TickRelease
  PROVE  PortsExact'
<1> DEFINE e == Head(tw_ring)
<1>1. /\ tw_ring # <<>> /\ pool' = Released(e.ip, e.port) /\ tw_ring' = Tail(tw_ring)
      /\ draining' = draining /\ held' = held /\ cooling' = cooling
  BY DEF TickRelease, HeadExpired
<1>2. tw_ring \in Seq(EntryType)
  BY DEF PortsExact, PoolTypeOK
<1>3. 1 \in 1..Len(tw_ring) /\ e = tw_ring[1] /\ e \in EntryType
  BY <1>1, <1>2
<1>4. e.ip \in Users /\ e.port \in Bits
  BY <1>3 DEF Users, EntryType
<1> HIDE DEF e
<1>5. /\ pool' \in [Pools -> PoolType]
      /\ PoolFn' = PoolFn
      /\ \A r \in Pools : pool'[r].ip = pool[r].ip
      /\ pool'[PoolFn[e.ip]].map = pool[PoolFn[e.ip]].map \cup {e.port}
      /\ \A r \in Pools \ {PoolFn[e.ip]} : pool'[r] = pool[r]
  BY <1>1, <1>4, ReleasedEffect
<1>6. Tail(tw_ring) \in Seq(EntryType) /\ Len(Tail(tw_ring)) < Len(tw_ring) /\ Len(tw_ring) \in Nat
  BY <1>1, <1>2
<1>7. Len(tw_ring') < RingSize
  BY <1>1, <1>6 DEF PortsExact, PoolTypeOK, PoolAssumption
<1>8. PoolTypeOK'
  BY <1>1, <1>5, <1>6, <1>7 DEF PortsExact, PoolTypeOK
<1>9. Exact(PoolFn, pool, tw_ring, held) /\ InPools(PoolFn, tw_ring, held)
  BY ExactIs, PoolsExist DEF PortsExact, ExactIsPortsExact
<1>10. Exact(PoolFn, pool', Tail(tw_ring), held)
  BY <1>1, <1>2, <1>5, <1>9, ReleaseHead, Zenon DEF e
<1> QED BY <1>1, <1>5, <1>8, <1>10, ExactNext

(* The loop of the tick begins and ends, and stuttering. *)
LEMMA SamePoolsKeep ==
  ASSUME PoolAssumption, PortsExact, UNCHANGED <<pool, tw_ring, held, cooling>>,
         draining' \in BOOLEAN
  PROVE  PortsExact'
<1>1. PoolTypeOK'
  BY DEF PortsExact, PoolTypeOK
<1>2. PoolFn' = PoolFn
  BY PoolFnKept
<1>3. Exact(PoolFn, pool, tw_ring, held)
  BY ExactIs DEF PortsExact, ExactIsPortsExact
<1> QED BY <1>1, <1>2, <1>3, ExactNext

LEMMA ResetKeeps ==
  ASSUME PoolAssumption, PortsExact, WorkerReset
  PROVE  PortsExact'
<1>1. /\ pool' = ResetPools /\ tw_ring' = <<>> /\ held' = {} /\ cooling' = {}
      /\ draining' = draining
  BY DEF WorkerReset
<1>2. /\ ResetPools \in [Pools -> PoolType]
      /\ \A p \in Pools : /\ ResetPools[p].ip = Zero
                          /\ p = Shared => ResetPools[p].map = Bits
  BY DEF ResetPools, PoolType, Bits, PoolAssumption
<1>3. PoolTypeOK'
  BY <1>1, <1>2 DEF PortsExact, PoolTypeOK, PoolAssumption
<1>4. Exact(PoolFn', ResetPools, <<>>, {})
  <2>1. \A p \in Pools : \/ ResetPools[p].map = Bits
                         \/ ResetPools[p].ip = Zero /\ p # Shared
    BY <1>2
  <2> QED BY <2>1, NobodyHasPorts
<1> QED BY <1>1, <1>3, <1>4, ExactNext

(* The entries of the ring after a unit of time. *)
LEMMA TimeEffect ==
  ASSUME PoolAssumption, PoolTypeOK, Time
  PROVE  /\ tw_ring' \in Seq(EntryType) /\ Len(tw_ring') = Len(tw_ring)
         /\ \A n \in 1..Len(tw_ring) :
              /\ tw_ring'[n].ip = tw_ring[n].ip /\ tw_ring'[n].port = tw_ring[n].port
              /\ tw_ring'[n] = [tw_ring[n] EXCEPT !.wait = Dec(@)]
         /\ cooling' \subseteq EntryType
<1>1. tw_ring \in Seq(EntryType) /\ cooling \subseteq EntryType
  BY DEF PoolTypeOK
<1>2. tw_ring' = [n \in 1..Len(tw_ring) |-> [tw_ring[n] EXCEPT !.wait = Dec(@)]]
  BY DEF Time
<1>3. ASSUME NEW e \in EntryType
      PROVE  /\ [e EXCEPT !.wait = Dec(@)] \in EntryType
             /\ [e EXCEPT !.wait = Dec(@)].ip = e.ip
             /\ [e EXCEPT !.wait = Dec(@)].port = e.port
  <2>1. Dec(e.wait) \in 0..Hold
    BY DEF EntryType, Dec, PoolAssumption
  <2> QED BY <2>1 DEF EntryType
<1>4. \A n \in 1..Len(tw_ring) : tw_ring[n] \in EntryType
  BY <1>1
<1>5. /\ Len(tw_ring) \in Nat
      /\ tw_ring' \in [1..Len(tw_ring) -> EntryType]
  BY <1>1, <1>2, <1>3, <1>4
<1>6. tw_ring' \in Seq(EntryType) /\ Len(tw_ring') = Len(tw_ring)
  BY <1>5
<1>7. \A n \in 1..Len(tw_ring) : tw_ring'[n] = [tw_ring[n] EXCEPT !.wait = Dec(@)]
  BY <1>2
<1>8. cooling' \subseteq EntryType
  BY <1>1, <1>3 DEF Time
<1> QED BY <1>3, <1>4, <1>6, <1>7, <1>8

LEMMA TimeKeeps ==
  ASSUME PoolAssumption, PortsExact, Time
  PROVE  PortsExact'
<1>1. pool' = pool /\ draining' = draining /\ held' = held
  BY DEF Time
<1>2. PoolTypeOK
  BY DEF PortsExact
<1>3. PoolTypeOK'
  BY <1>1, <1>2, TimeEffect DEF PoolTypeOK
<1>4. PoolFn' = PoolFn
  BY <1>1, PoolFnKept
<1>5. Exact(PoolFn, pool, tw_ring, held)
  BY ExactIs DEF PortsExact, ExactIsPortsExact
<1>6. Exact(PoolFn, pool, tw_ring', held)
  BY <1>2, <1>5, TimeEffect, TimesDoNotMatter
<1> QED BY <1>1, <1>3, <1>4, <1>6, ExactNext

LEMMA InitExact == PoolAssumption /\ PoolInit => PortsExact
<1> SUFFICES ASSUME PoolAssumption, PoolInit PROVE PortsExact
  OBVIOUS
<1>1. /\ FreshPools \in [Pools -> PoolType]
      /\ \A p \in Pools : FreshPools[p].map = Bits
  BY DEF FreshPools, PoolType, Bits, PoolAssumption
<1>2. PoolTypeOK
  <2>1. <<>> \in Seq(EntryType) /\ Len(<<>>) = 0 /\ 0 < RingSize
    BY DEF PoolAssumption
  <2> QED BY <1>1, <2>1 DEF PoolInit, PoolTypeOK
<1>3. Exact(PoolFn, FreshPools, <<>>, {})
  BY <1>1, NobodyHasPorts
<1> QED BY <1>2, <1>3, ExactIs DEF PoolInit, ExactIsPortsExact

LEMMA NextExact == PoolAssumption /\ PortsExact /\ [PoolNext]_poolVars => PortsExact'
<1> SUFFICES ASSUME PoolAssumption, PortsExact, [PoolNext]_poolVars PROVE PortsExact'
  OBVIOUS
<1>1. ASSUME NEW ip \in IPs, tcp_port_alloc(ip) PROVE PortsExact'
  BY <1>1, AllocKeeps
<1>2. ASSUME NEW ip \in IPs, AllocExhausted(ip) PROVE PortsExact'
  BY <1>2, ExhaustedKeeps
<1>3. ASSUME NEW ip \in IPs, NEW b \in Bits, tcp_port_free(ip, b) PROVE PortsExact'
  BY <1>3, FreeKeeps
<1>4. ASSUME NEW ip \in IPs, NEW b \in Bits, tcp_port_free_immediate(ip, b) PROVE PortsExact'
  BY <1>4, FreeImmediateKeeps
<1>5. CASE TickBegin
  BY <1>5, SamePoolsKeep DEF TickBegin
<1>6. CASE TickRelease
  BY <1>6, TickReleaseKeeps
<1>7. CASE TickEnd
  BY <1>7, SamePoolsKeep DEF TickEnd
<1>8. CASE WorkerReset
  BY <1>8, ResetKeeps
<1>9. CASE Time
  BY <1>9, TimeKeeps
<1>10. CASE UNCHANGED poolVars
  BY <1>10, SamePoolsKeep DEF poolVars, PortsExact, PoolTypeOK
<1> QED BY <1>1, <1>2, <1>3, <1>4, <1>5, <1>6, <1>7, <1>8, <1>9, <1>10 DEF PoolNext

(* For all constants: in every reachable state each port of each pool in   *)
(* use is available, with one connection or once in the TIME_WAIT ring,    *)
(* whichever IPs share a pool (tcp_port_alloc, tcp_port_free,              *)
(* tcp_port_free_immediate, tcp_port_pool_tick, tcp_port_pool_reset).      *)
THEOREM PortsExactHolds == PoolAssumption /\ PoolSpec => []PortsExact
<1> SUFFICES ASSUME PoolAssumption PROVE PoolSpec => []PortsExact
  OBVIOUS
<1>1. PoolInit => PortsExact
  BY InitExact
<1>2. PortsExact /\ [PoolNext]_poolVars => PortsExact'
  BY NextExact
<1> QED BY <1>1, <1>2, PTL DEF PoolSpec

-----------------------------------------------------------------------------
(* The hold-off.                                                           *)

(* A port whose hold-off has not passed is in the ring, with as much time  *)
(* left.                                                                   *)
CoolingInRing ==
  \A d \in cooling : d.wait > 0 /\ \E n \in 1..Len(tw_ring) : tw_ring[n] = d

LEMMA CoolingNext ==
  PoolAssumption /\ PoolTypeOK /\ CoolingInRing /\ [PoolNext]_poolVars => CoolingInRing'
<1> SUFFICES ASSUME PoolAssumption, PoolTypeOK, CoolingInRing, [PoolNext]_poolVars
             PROVE  CoolingInRing'
  OBVIOUS
<1>1. tw_ring \in Seq(EntryType) /\ cooling \subseteq EntryType
  BY DEF PoolTypeOK
<1>2. ASSUME tw_ring' = tw_ring, cooling' = cooling PROVE CoolingInRing'
  BY <1>2 DEF CoolingInRing
<1>3. ASSUME NEW ip \in IPs, NEW b \in Bits, tcp_port_free(ip, b) PROVE CoolingInRing'
  <2>1. CASE Len(tw_ring) = RingSize - 1
    BY <1>2, <1>3, <2>1 DEF tcp_port_free
  <2>2. CASE Len(tw_ring) # RingSize - 1
    <3> DEFINE e == [ip |-> ip, port |-> b, wait |-> Hold]
    <3>1. tw_ring' = Append(tw_ring, e) /\ cooling' = cooling \cup {e}
      BY <1>3, <2>2 DEF tcp_port_free
    <3>2. e.wait > 0 /\ e \in EntryType
      BY DEF PoolAssumption, EntryType
    <3> HIDE DEF e
    <3>3. /\ Len(tw_ring) + 1 \in 1..Len(tw_ring') /\ tw_ring'[Len(tw_ring) + 1] = e
          /\ \A n \in 1..Len(tw_ring) : n \in 1..Len(tw_ring') /\ tw_ring'[n] = tw_ring[n]
      BY <1>1, <3>1, <3>2
    <3> QED BY <3>1, <3>2, <3>3 DEF CoolingInRing
  <2> QED BY <2>1, <2>2
<1>4. CASE TickRelease
  <2>1. /\ tw_ring # <<>> /\ Head(tw_ring).wait = 0
        /\ tw_ring' = Tail(tw_ring) /\ cooling' = cooling
    BY <1>4 DEF TickRelease, HeadExpired
  <2>2. /\ tw_ring[1] = Head(tw_ring)
        /\ \A n \in 1..Len(tw_ring) : n # 1 =>
             n - 1 \in 1..Len(tw_ring') /\ tw_ring'[n - 1] = tw_ring[n]
    BY <1>1, <2>1
  <2>3. ASSUME NEW d \in cooling PROVE d.wait > 0 /\ \E n \in 1..Len(tw_ring') : tw_ring'[n] = d
    <3>1. PICK n \in 1..Len(tw_ring) : tw_ring[n] = d /\ d.wait > 0
      BY DEF CoolingInRing
    <3>2. n # 1
      BY <2>1, <2>2, <3>1
    <3> QED BY <2>2, <3>1, <3>2
  <2> QED BY <2>1, <2>3 DEF CoolingInRing
<1>5. CASE WorkerReset
  BY <1>5 DEF WorkerReset, CoolingInRing
<1>6. CASE Time
  <2> SUFFICES ASSUME NEW d \in cooling'
               PROVE  d.wait > 0 /\ \E n \in 1..Len(tw_ring') : tw_ring'[n] = d
    BY DEF CoolingInRing
  <2>1. PICK c \in cooling : c.wait > 1 /\ d = [c EXCEPT !.wait = Dec(@)]
    BY <1>6 DEF Time
  <2>2. d.wait > 0
    BY <1>1, <2>1 DEF Dec, EntryType
  <2>3. PICK n \in 1..Len(tw_ring) : tw_ring[n] = c
    BY <2>1 DEF CoolingInRing
  <2>4. n \in 1..Len(tw_ring') /\ tw_ring'[n] = d
    BY <1>6, <2>1, <2>3, TimeEffect
  <2> QED BY <2>2, <2>4
<1>7. CASE \E ip \in IPs : tcp_port_alloc(ip) \/ AllocExhausted(ip)
  BY <1>2, <1>7 DEF tcp_port_alloc, AllocExhausted
<1>8. CASE \E ip \in IPs, b \in Bits : tcp_port_free_immediate(ip, b)
  BY <1>2, <1>8 DEF tcp_port_free_immediate
<1>9. CASE TickBegin \/ TickEnd \/ UNCHANGED poolVars
  BY <1>2, <1>9 DEF TickBegin, TickEnd, poolVars
<1> QED BY <1>3, <1>4, <1>5, <1>6, <1>7, <1>8, <1>9 DEF PoolNext

(* For all constants: a port that tcp_port_free put into the TIME_WAIT     *)
(* ring is with no connection of its IP until its hold-off has passed.     *)
THEOREM HoldOffHolds == PoolAssumption /\ PoolSpec => []HoldOffKept
<1> SUFFICES ASSUME PoolAssumption PROVE PoolSpec => []HoldOffKept
  OBVIOUS
<1>1. PoolSpec => []PortsExact
  BY PortsExactHolds
<1>2. PoolInit => CoolingInRing
  BY DEF PoolInit, CoolingInRing
<1>3. PortsExact /\ CoolingInRing /\ [PoolNext]_poolVars => CoolingInRing'
  BY CoolingNext DEF PortsExact
<1>4. PortsExact /\ CoolingInRing => HoldOffKept
  <2> SUFFICES ASSUME PortsExact, CoolingInRing, NEW c \in held, NEW d \in cooling,
                      d.ip = c[1], d.port = c[2]
               PROVE  FALSE
    BY DEF HoldOffKept
  <2>1. PICK n \in 1..Len(tw_ring) : tw_ring[n] = d
    BY DEF CoolingInRing
  <2> QED BY <2>1 DEF PortsExact, RingExclusive
<1> QED BY <1>1, <1>2, <1>3, <1>4, PTL DEF PoolSpec
=============================================================================
