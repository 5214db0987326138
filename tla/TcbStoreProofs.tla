--------------------------- MODULE TcbStoreProofs ---------------------------
(***************************************************************************)
(* Proofs about TcbStore: for any capacity, any hash function and any set  *)
(* of connections, the free stack, the hash table and the lookup are exact *)
(* in every reachable state, and the store implements ConnTable.           *)
(***************************************************************************)
EXTENDS TcbStore, LeastNatural, FiniteSetTheorems, SequenceTheorems, TLAPS

-----------------------------------------------------------------------------
(* Probing.                                                                *)

(* Each probe lands in the table. *)
LEMMA ProbeInTable ==
  ASSUME NEW h \in Slots, NEW k \in Offsets
  PROVE  Probe(h, k) \in Slots
BY StoreAssumption DEF Probe, Slots, Offsets

(* Two probes of one walk read different slots. *)
LEMMA ProbeInjective ==
  ASSUME NEW h \in Slots, NEW j \in Offsets, NEW k \in Offsets,
         Probe(h, j) = Probe(h, k)
  PROVE  j = k
BY StoreAssumption DEF Probe, Slots, Offsets

(* A walk visits every slot of the table. *)
LEMMA ProbeSurjective ==
  ASSUME NEW h \in Slots, NEW s \in Slots
  PROVE  \E k \in Offsets : Probe(h, k) = s
<1>1. CASE s >= h
  <2>1. s - h \in Offsets /\ Probe(h, s - h) = s
    BY <1>1, StoreAssumption DEF Probe, Slots, Offsets
  <2> QED BY <2>1
<1>2. CASE ~(s >= h)
  <2>1. s - h + HtSize \in Offsets /\ Probe(h, s - h + HtSize) = s
    BY <1>2, StoreAssumption DEF Probe, Slots, Offsets
  <2> QED BY <2>1
<1> QED BY <1>1, <1>2

(* The home slot of a connection is a slot. *)
LEMMA HomeInTable ==
  ASSUME NEW t \in Tuples
  PROVE  Hash[Key[t]] \in Slots
BY StoreAssumption DEF Slots

(* With fewer TCBs than slots some slot is empty or a tombstone. *)
LEMMA SomeSlotReusable ==
  ASSUME TypeOK, ProbeInv
  PROVE  \E s \in Slots : ht[s] \in {Empty, Tombstone}
<1> SUFFICES ASSUME \A s \in Slots : ht[s] \notin {Empty, Tombstone}
             PROVE  FALSE
  OBVIOUS
<1>1. ht \in [Slots -> Indices]
  BY DEF TypeOK
<1>2. IsFiniteSet(Slots) /\ Cardinality(Slots) = HtSize
  BY FS_Interval, StoreAssumption DEF Slots
<1>3. IsFiniteSet(Indices) /\ Cardinality(Indices) = Capacity
  BY FS_Interval, StoreAssumption DEF Indices
<1>4. Capacity < HtSize
  BY StoreAssumption
<1>5. PICK r, s \in Slots : r # s /\ ht[r] = ht[s]
  BY <1>1, <1>2, <1>3, <1>4, FS_PigeonHole, Zenon
<1> QED BY <1>1, <1>5 DEF ProbeInv

(* So an insertion always finds its slot: the loop in tcb_alloc never runs *)
(* off its end.                                                            *)
LEMMA InsertFindsSlot ==
  ASSUME TypeOK, ProbeInv, NEW t \in Tuples
  PROVE  \E k \in Offsets : InsertsAt(t, k)
<1> DEFINE T == {k \in Offsets : EntryAt(t, k) \in {Empty, Tombstone}}
<1>1. PICK s \in Slots : ht[s] \in {Empty, Tombstone}
  BY SomeSlotReusable
<1>2. PICK k \in Offsets : Probe(Hash[Key[t]], k) = s
  BY ProbeSurjective, HomeInTable
<1>3. T # {} /\ T \in SUBSET Nat
  BY <1>1, <1>2, StoreAssumption DEF EntryAt, Offsets
<1>4. PICK x \in T : \A y \in T : x <= y
  BY <1>3, LeastElement
<1>5. InsertsAt(t, x)
  <2>1. \A j \in 0..(x - 1) : j \in Offsets /\ ~(x <= j)
    BY StoreAssumption DEF Offsets
  <2> QED BY <1>4, <2>1 DEF InsertsAt
<1> QED BY <1>5

-----------------------------------------------------------------------------
(* What the lookup returns.                                                *)

(* The lookup of a live IPv4 connection finds its TCB. *)
LEMMA LookupOfLive ==
  ASSUME TypeOK, ProbeInv, NEW i \in Live, tuple[i] \in V4
  PROVE  tcb_lookup(tuple[i]) = i /\ find_tcb(tuple[i]) = i
<1> DEFINE t == tuple[i]
<1>1. t \in Tuples /\ i \in Indices /\ in_use[i]
  BY DEF ProbeInv, Live
<1>2. PICK k \in Offsets : /\ EntryAt(t, k) = i
                           /\ \A j \in 0..(k - 1) : EntryAt(t, j) # Empty
  BY DEF ProbeInv, Anchored
<1>3. ASSUME NEW j \in Offsets, Matches(t, j) PROVE EntryAt(t, j) = i
  <2>1. EntryAt(t, j) \in Live /\ Key[tuple[EntryAt(t, j)]] = Key[t]
    BY <1>3 DEF Matches, Live
  <2>2. tuple[EntryAt(t, j)] \in Tuples
    BY <2>1 DEF ProbeInv
  <2>3. tuple[EntryAt(t, j)] = t
    BY <1>1, <2>1, <2>2, StoreAssumption
  <2> QED BY <2>1, <2>3 DEF ProbeInv
<1>4. \A j \in Offsets : EntryAt(t, j) = i => j = k
  <2> SUFFICES ASSUME NEW j \in Offsets, EntryAt(t, j) = i PROVE j = k
    OBVIOUS
  <2>1. Probe(Hash[Key[t]], j) \in Slots /\ Probe(Hash[Key[t]], k) \in Slots
    BY <1>1, HomeInTable, ProbeInTable
  <2>2. Probe(Hash[Key[t]], j) = Probe(Hash[Key[t]], k)
    BY <1>1, <1>2, <2>1 DEF ProbeInv, EntryAt
  <2> QED BY <2>2, <1>1, HomeInTable, ProbeInjective
<1>5. FoundAt(t, k)
  <2>1. Matches(t, k)
    BY <1>1, <1>2 DEF Matches
  <2>2. \A j \in 0..(k - 1) : j \in Offsets /\ j # k
    BY StoreAssumption DEF Offsets
  <2> QED BY <1>2, <1>3, <1>4, <2>1, <2>2 DEF FoundAt, Passes
<1>6. tcb_lookup(t) = i
  <2> DEFINE c == CHOOSE m \in Offsets : FoundAt(t, m)
  <2>1. c \in Offsets /\ FoundAt(t, c)
    BY <1>5
  <2>2. EntryAt(t, c) = i
    BY <2>1, <1>3 DEF FoundAt
  <2> QED BY <1>5, <2>2 DEF tcb_lookup
<1> QED BY <1>6 DEF find_tcb

(* A lookup never returns a TCB that is free. *)
LEMMA LookupIsLive ==
  ASSUME TypeOK, NEW t \in Tuples, find_tcb(t) # NoTcb
  PROVE  find_tcb(t) \in Live /\ tuple[find_tcb(t)] = t
<1>1. tcb_lookup(t) # NoTcb /\ find_tcb(t) = tcb_lookup(t) /\ tuple[tcb_lookup(t)] = t
  BY DEF find_tcb
<1> DEFINE c == CHOOSE m \in Offsets : FoundAt(t, m)
<1>2. c \in Offsets /\ FoundAt(t, c) /\ tcb_lookup(t) = EntryAt(t, c)
  BY <1>1 DEF tcb_lookup
<1> QED BY <1>1, <1>2 DEF FoundAt, Matches, Live

(* The invariant implies the exactness of lookup and table. *)
LEMMA InvImpliesExact ==
  Inv => LookupExact /\ TableExact
<1> SUFFICES ASSUME Inv PROVE LookupExact /\ TableExact
  OBVIOUS
<1>1. LookupExact
  BY LookupOfLive, LookupIsLive DEF Inv, LookupExact
<1>2. ASSUME NEW i \in Live PROVE \E s \in Slots : ht[s] = i
  <2>1. PICK k \in Offsets : EntryAt(tuple[i], k) = i
    BY DEF Inv, ProbeInv, Anchored
  <2>2. tuple[i] \in Tuples
    BY DEF Inv, ProbeInv
  <2> QED BY <2>1, <2>2, HomeInTable, ProbeInTable DEF EntryAt
<1> QED BY <1>1, <1>2 DEF Inv, ProbeInv, TableExact

-----------------------------------------------------------------------------
(* The invariant is inductive.                                             *)

(* The store with no live TCB, as tcb_store_init and tcb_store_reset leave *)
(* it, satisfies the invariant.                                            *)
LEMMA InitInv == Init => Inv
<1> SUFFICES ASSUME Init PROVE Inv
  OBVIOUS
<1>1. FullStack \in Seq(Indices) /\ Len(FullStack) = Capacity
  BY StoreAssumption DEF FullStack, Indices
<1>2. TypeOK
  BY <1>1, StoreAssumption DEF Init, TypeOK
<1>3. FreeStackExact
  <2>1. \A m, n \in 1..Capacity : FullStack[m] = FullStack[n] => m = n
    BY StoreAssumption DEF FullStack
  <2>2. ASSUME NEW i \in Indices PROVE \E n \in 1..Capacity : FullStack[n] = i
    <3>1. Capacity - i \in 1..Capacity /\ FullStack[Capacity - i] = i
      BY StoreAssumption DEF FullStack, Indices
    <3> QED BY <3>1
  <2> QED BY <1>1, <2>1, <2>2, StoreAssumption DEF Init, FreeStackExact
<1>4. ProbeInv
  <2>1. Live = {}
    BY DEF Init, Live
  <2>2. \A s \in Slots : ht[s] \notin Indices
    BY StoreAssumption DEF Init, Empty, Indices
  <2> QED BY <2>1, <2>2 DEF ProbeInv
<1> QED BY <1>2, <1>3, <1>4 DEF Inv

(* tcb_alloc of a connection that has no TCB preserves the invariant. *)
LEMMA AllocInv ==
  ASSUME Inv, NEW t \in Tuples, tcb_alloc(t),
         t \in V4 => \A j \in Live : tuple[j] # t
  PROVE  Inv'
<1> DEFINE n == Len(free_stack)
           i == free_stack[n]
<1>1. n \in Nat /\ n # 0 /\ i \in Indices /\ ~in_use[i]
  BY DEF Inv, TypeOK, FreeStackExact, tcb_alloc
<1>2. /\ free_stack' \in Seq(Indices) /\ Len(free_stack') = n - 1
      /\ \A m \in 1..(n - 1) : free_stack'[m] = free_stack[m]
  <2>1. \A m \in 1..(n - 1) : free_stack[m] \in Indices
    BY <1>1 DEF Inv, TypeOK
  <2>2. free_stack' = SubSeq(free_stack, 1, n - 1)
    BY DEF tcb_alloc
  <2>3. 1 \in Int /\ n - 1 \in Int
    BY <1>1
  <2> DEFINE r == SubSeq(free_stack, 1, n - 1)
  <2>4. /\ r \in Seq(Indices)
        /\ Len(r) = IF 1 <= n - 1 THEN (n - 1) - 1 + 1 ELSE 0
        /\ \A m \in 1..((n - 1) - 1 + 1) : r[m] = free_stack[1 + m - 1]
    BY <2>1, <2>3, SubSeqProperties
  <2> HIDE DEF r
  <2>5. Len(r) = n - 1
    <3>1. n \in Nat /\ n # 0
      BY <1>1
    <3>2. Len(r) = IF 1 <= n - 1 THEN (n - 1) - 1 + 1 ELSE 0
      BY <2>4
    <3> HIDE DEF n
    <3> QED BY <3>1, <3>2
  <2>6. \A m \in 1..(n - 1) : r[m] = free_stack[m]
    <3> SUFFICES ASSUME NEW m \in 1..(n - 1) PROVE r[m] = free_stack[m]
      OBVIOUS
    <3>1. m \in 1..((n - 1) - 1 + 1) /\ 1 + m - 1 = m
      BY <1>1
    <3>2. r[m] = free_stack[1 + m - 1]
      BY <2>4, <3>1, Zenon
    <3> QED BY <3>1, <3>2
  <2>7. free_stack' = r
    BY <2>2 DEF r
  <2> QED BY <2>4, <2>5, <2>6, <2>7
<1>3. PICK k \in Offsets :
        /\ InsertsAt(t, k)
        /\ ht' = [ht EXCEPT ![Probe(Hash[Key[t]], k)] = i]
  <2> DEFINE c == CHOOSE m \in Offsets : InsertsAt(t, m)
  <2>1. c \in Offsets /\ InsertsAt(t, c)
    BY InsertFindsSlot DEF Inv
  <2>2. ht' = [ht EXCEPT ![Probe(Hash[Key[t]], c)] = i]
    BY <2>1 DEF tcb_alloc, ht_insert
  <2> QED BY <2>1, <2>2
<1> DEFINE s0 == Probe(Hash[Key[t]], k)
<1>4. s0 \in Slots /\ ht[s0] \in {Empty, Tombstone} /\ ht[s0] \notin Indices
  BY <1>3, HomeInTable, ProbeInTable, StoreAssumption
     DEF InsertsAt, EntryAt, Empty, Tombstone, Indices
<1>5. TypeOK'
  BY <1>1, <1>2, <1>3, <1>4 DEF Inv, TypeOK, tcb_alloc
<1>6. FreeStackExact'
  <2>1. \A p, q \in 1..(n - 1) : free_stack'[p] = free_stack'[q] => p = q
    <3>1. \A p \in 1..(n - 1) : p \in 1..n
      BY <1>1
    <3>2. \A p, q \in 1..n : free_stack[p] = free_stack[q] => p = q
      BY DEF Inv, FreeStackExact
    <3> HIDE DEF n
    <3> QED BY <1>2, <3>1, <3>2
  <2>2. \A j \in Indices :
          in_use'[j] <=> \A m \in 1..(n - 1) : free_stack'[m] # j
    <3> SUFFICES ASSUME NEW j \in Indices
                 PROVE  in_use'[j] <=> \A m \in 1..(n - 1) : free_stack'[m] # j
      OBVIOUS
    <3>1. CASE j = i
      <4>1. in_use'[j]
        BY <3>1 DEF tcb_alloc, Inv, TypeOK
      <4>2. \A m \in 1..(n - 1) : m \in 1..n /\ n \in 1..n /\ m # n
        BY <1>1
      <4>3. \A m \in 1..(n - 1) : free_stack'[m] # j
        BY <3>1, <1>2, <4>2 DEF Inv, FreeStackExact
      <4> QED BY <4>1, <4>3
    <3>2. CASE j # i
      <4>1. in_use'[j] = in_use[j]
        BY <3>2, <1>1 DEF tcb_alloc, Inv, TypeOK
      <4>2. in_use[j] <=> \A m \in 1..n : free_stack[m] # j
        BY DEF Inv, FreeStackExact
      <4>3. \A m : m \in 1..n <=> m \in 1..(n - 1) \/ m = n
        BY <1>1
      <4> QED BY <3>2, <1>2, <4>1, <4>2, <4>3
    <3> QED BY <3>1, <3>2
  <2>3. count' + (n - 1) = Capacity
    BY <1>1, StoreAssumption DEF Inv, TypeOK, FreeStackExact, tcb_alloc
  <2> QED BY <1>2, <2>1, <2>2, <2>3 DEF FreeStackExact
<1>7. Live' = Live \cup {i} /\ i \notin Live
  BY <1>1 DEF Live, tcb_alloc, Inv, TypeOK
<1>8. /\ tuple'[i] = t
      /\ \A j \in Live : tuple'[j] = tuple[j]
  BY <1>1, <1>7 DEF tcb_alloc, Inv, TypeOK, Live
<1>9. \A s \in Slots : ht'[s] = IF s = s0 THEN i ELSE ht[s]
  BY <1>3, <1>4 DEF Inv, TypeOK
<1>10. \A s \in Slots : ht[s] # i
  BY <1>1 DEF Inv, ProbeInv
<1>11. ASSUME NEW j \in Live' PROVE tuple'[j] \in Tuples /\ Anchored(j)'
  <2>1. CASE j = i
    <3>1. EntryAt(t, k)' = i
      BY <1>4, <1>9 DEF EntryAt
    <3>2. ASSUME NEW m \in 0..(k - 1) PROVE EntryAt(t, m)' # Empty
      <4>1. m \in Offsets /\ m # k
        BY StoreAssumption DEF Offsets
      <4>2. Probe(Hash[Key[t]], m) \in Slots /\ Probe(Hash[Key[t]], m) # s0
        BY <4>1, HomeInTable, ProbeInTable, ProbeInjective
      <4> QED BY <1>3, <1>9, <4>2 DEF InsertsAt, EntryAt
    <3> QED BY <1>8, <2>1, <3>1, <3>2 DEF Anchored, EntryAt
  <2>2. CASE j # i
    <3>1. j \in Live /\ j \in Indices
      BY <1>7, <2>2 DEF Live
    <3>2. tuple[j] \in Tuples /\ tuple'[j] = tuple[j]
      BY <1>8, <3>1 DEF Inv, ProbeInv
    <3>3. PICK m \in Offsets : /\ EntryAt(tuple[j], m) = j
                               /\ \A l \in 0..(m - 1) : EntryAt(tuple[j], l) # Empty
      BY <3>1 DEF Inv, ProbeInv, Anchored
    <3>4. ASSUME NEW l \in Offsets
          PROVE  EntryAt(tuple[j], l)' = EntryAt(tuple[j], l) \/ EntryAt(tuple[j], l)' = i
      BY <1>9, <3>2, HomeInTable, ProbeInTable DEF EntryAt
    <3>5. EntryAt(tuple[j], m)' = j
      BY <1>4, <1>9, <3>1, <3>2, <3>3, HomeInTable, ProbeInTable DEF EntryAt
    <3>6. \A l \in 0..(m - 1) : EntryAt(tuple[j], l)' # Empty
      <4>1. \A l \in 0..(m - 1) : l \in Offsets
        BY StoreAssumption DEF Offsets
      <4>2. i # Empty
        BY <1>1, StoreAssumption DEF Indices, Empty
      <4> QED BY <3>3, <3>4, <4>1, <4>2
    <3> QED BY <3>2, <3>5, <3>6 DEF Anchored, EntryAt
  <2> QED BY <2>1, <2>2
<1>12. ProbeInv'
  <2>1. \A s \in Slots : ht'[s] \in Indices => in_use'[ht'[s]]
    BY <1>1, <1>9 DEF Inv, ProbeInv, TypeOK, tcb_alloc
  <2>2. \A r, s \in Slots : ht'[r] \in Indices /\ ht'[r] = ht'[s] => r = s
    BY <1>9, <1>10 DEF Inv, ProbeInv
  <2>3. \A j, l \in Live' : tuple'[j] = tuple'[l] /\ tuple'[j] \in V4 => j = l
    BY <1>7, <1>8 DEF Inv, ProbeInv
  <2> QED BY <1>11, <2>1, <2>2, <2>3 DEF ProbeInv
<1> QED BY <1>5, <1>6, <1>12 DEF Inv

(* tcb_free preserves the invariant: the tombstone keeps the probe walks   *)
(* of all other TCBs intact.                                               *)
LEMMA FreeInv ==
  ASSUME Inv, NEW i \in Indices, tcb_free(i)
  PROVE  Inv'
<1> DEFINE t == tuple[i]
           n == Len(free_stack)
<1>1. i \in Live /\ in_use[i] /\ t \in Tuples /\ n \in Nat
  BY DEF Inv, ProbeInv, TypeOK, Live, tcb_free
<1>2. /\ free_stack' \in Seq(Indices) /\ Len(free_stack') = n + 1
      /\ \A m \in 1..n : free_stack'[m] = free_stack[m]
      /\ free_stack'[n + 1] = i
  BY AppendProperties DEF Inv, TypeOK, tcb_free
<1>3. PICK k \in Offsets : /\ EntryAt(t, k) = i
                           /\ ht' = [ht EXCEPT ![Probe(Hash[Key[t]], k)] = Tombstone]
  <2>1. PICK m \in Offsets : /\ EntryAt(t, m) = i
                             /\ \A j \in 0..(m - 1) : EntryAt(t, j) # Empty
    BY <1>1 DEF Inv, ProbeInv, Anchored
  <2>2. ASSUME NEW j \in 0..(m - 1) PROVE EntryAt(t, j) # i
    <3>1. j \in Offsets /\ j # m
      BY StoreAssumption DEF Offsets
    <3>2. /\ Probe(Hash[Key[t]], j) \in Slots
          /\ Probe(Hash[Key[t]], m) \in Slots
          /\ Probe(Hash[Key[t]], j) # Probe(Hash[Key[t]], m)
      BY <1>1, <3>1, HomeInTable, ProbeInTable, ProbeInjective
    <3> QED BY <2>1, <3>2 DEF Inv, ProbeInv, EntryAt
  <2>3. RemovesAt(t, i, m)
    BY <2>1, <2>2 DEF RemovesAt
  <2> DEFINE c == CHOOSE l \in Offsets : RemovesAt(t, i, l)
  <2>4. c \in Offsets /\ RemovesAt(t, i, c)
    BY <2>3
  <2>5. ht' = [ht EXCEPT ![Probe(Hash[Key[t]], c)] = Tombstone]
    BY <2>4 DEF tcb_free, ht_remove
  <2> QED BY <2>4, <2>5 DEF RemovesAt
<1> DEFINE s0 == Probe(Hash[Key[t]], k)
<1>4. s0 \in Slots /\ ht[s0] = i
  BY <1>1, <1>3, HomeInTable, ProbeInTable DEF EntryAt
<1>5. \A s \in Slots : ht'[s] = IF s = s0 THEN Tombstone ELSE ht[s]
  BY <1>3, <1>4 DEF Inv, TypeOK
<1>6. Tombstone \notin Indices /\ Tombstone # Empty
  BY StoreAssumption DEF Tombstone, Empty, Indices
<1>7. TypeOK'
  BY <1>2, <1>3, <1>4 DEF Inv, TypeOK, tcb_free
<1>8. FreeStackExact'
  <2>1. \A m \in 1..n : free_stack[m] # i
    BY <1>1 DEF Inv, FreeStackExact
  <2>2. \A m : m \in 1..(n + 1) <=> m \in 1..n \/ m = n + 1
    BY <1>1
  <2>3. \A p, q \in 1..(n + 1) : free_stack'[p] = free_stack'[q] => p = q
    BY <1>2, <2>1, <2>2 DEF Inv, FreeStackExact
  <2>4. \A j \in Indices :
          in_use'[j] <=> \A m \in 1..(n + 1) : free_stack'[m] # j
    <3> SUFFICES ASSUME NEW j \in Indices
                 PROVE  in_use'[j] <=> \A m \in 1..(n + 1) : free_stack'[m] # j
      OBVIOUS
    <3>1. CASE j = i
      BY <3>1, <1>2, <2>2 DEF tcb_free, Inv, TypeOK
    <3>2. CASE j # i
      <4>1. in_use'[j] = in_use[j]
        BY <3>2 DEF tcb_free, Inv, TypeOK
      <4> QED BY <3>2, <4>1, <1>2, <2>2 DEF Inv, FreeStackExact
    <3> QED BY <3>1, <3>2
  <2>5. count' + (n + 1) = Capacity
    BY <1>1, StoreAssumption DEF Inv, TypeOK, FreeStackExact, tcb_free
  <2> QED BY <1>2, <2>3, <2>4, <2>5 DEF FreeStackExact
<1>9. Live' = Live \ {i} /\ \A j \in Live' : tuple'[j] = tuple[j]
  BY <1>1 DEF Live, tcb_free, Inv, TypeOK
<1>10. ASSUME NEW j \in Live' PROVE tuple'[j] \in Tuples /\ Anchored(j)'
  <2>1. j \in Live /\ j # i /\ tuple'[j] = tuple[j] /\ tuple[j] \in Tuples
    BY <1>9 DEF Inv, ProbeInv
  <2>2. PICK m \in Offsets : /\ EntryAt(tuple[j], m) = j
                             /\ \A l \in 0..(m - 1) : EntryAt(tuple[j], l) # Empty
    BY <2>1 DEF Inv, ProbeInv, Anchored
  <2>3. ASSUME NEW l \in Offsets
        PROVE  \/ EntryAt(tuple[j], l)' = EntryAt(tuple[j], l)
               \/ EntryAt(tuple[j], l) = i /\ EntryAt(tuple[j], l)' = Tombstone
    BY <1>4, <1>5, <2>1, HomeInTable, ProbeInTable DEF EntryAt
  <2>4. EntryAt(tuple[j], m)' = j
    BY <2>1, <2>2, <2>3
  <2>5. \A l \in 0..(m - 1) : EntryAt(tuple[j], l)' # Empty
    <3>1. \A l \in 0..(m - 1) : l \in Offsets
      BY StoreAssumption DEF Offsets
    <3> QED BY <1>6, <2>2, <2>3, <3>1
  <2> QED BY <2>1, <2>4, <2>5 DEF Anchored, EntryAt
<1>11. ProbeInv'
  <2>1. ASSUME NEW s \in Slots, ht'[s] \in Indices PROVE in_use'[ht'[s]]
    <3>1. s # s0 /\ ht'[s] = ht[s]
      BY <1>5, <1>6, <2>1
    <3>2. ht[s] # i
      BY <1>4, <3>1 DEF Inv, ProbeInv
    <3> QED BY <2>1, <3>1, <3>2 DEF Inv, ProbeInv, TypeOK, tcb_free
  <2>2. \A r, s \in Slots : ht'[r] \in Indices /\ ht'[r] = ht'[s] => r = s
    BY <1>5, <1>6 DEF Inv, ProbeInv
  <2>3. \A j, l \in Live' : tuple'[j] = tuple'[l] /\ tuple'[j] \in V4 => j = l
    BY <1>9 DEF Inv, ProbeInv
  <2> QED BY <1>10, <2>1, <2>2, <2>3 DEF ProbeInv
<1> QED BY <1>7, <1>8, <1>11 DEF Inv

(* tcb_store_reset leaves the store as tcb_store_init does. *)
LEMMA ResetInv ==
  ASSUME tcb_store_reset
  PROVE  Inv'
<1>1. Init'
  BY DEF tcb_store_reset, Init
<1>2. Init' => Inv'
  BY InitInv, PTL
<1> QED BY <1>1, <1>2

(* No operation breaks the invariant. *)
LEMMA NextInv ==
  ASSUME Inv, [Next]_vars
  PROVE  Inv'
<1>1. ASSUME NEW t \in Tuples, PassiveOpen(t) PROVE Inv'
  <2>1. t \in V4 => \A j \in Live : tuple[j] # t
    <3> SUFFICES ASSUME t \in V4, NEW j \in Live, tuple[j] = t PROVE FALSE
      OBVIOUS
    <3>1. find_tcb(t) = j
      BY LookupOfLive DEF Inv
    <3>2. j # NoTcb
      BY StoreAssumption DEF Live, Indices, NoTcb
    <3> QED BY <1>1, <3>1, <3>2 DEF PassiveOpen
  <2> QED BY <1>1, <2>1, AllocInv DEF PassiveOpen
<1>2. ASSUME NEW t \in Tuples, ActiveOpen(t) PROVE Inv'
  BY <1>2, AllocInv DEF ActiveOpen, Live
<1>3. ASSUME NEW i \in Indices, tcb_free(i) PROVE Inv'
  BY <1>3, FreeInv
<1>4. CASE tcb_store_reset
  BY <1>4, ResetInv
<1>5. CASE UNCHANGED vars
  BY <1>5 DEF vars, Inv, TypeOK, FreeStackExact, ProbeInv, Anchored, EntryAt, Live
<1> QED BY <1>1, <1>2, <1>3, <1>4, <1>5 DEF Next

(* Whatever connections are opened, closed and reset in whatever order,    *)
(* the invariant holds (all operations of tcp_tcb.c).                      *)
THEOREM InvHolds == Spec => []Inv
BY InitInv, NextInv, PTL DEF Spec

(* The TCB store stays well typed (tcp_tcb.c). *)
THEOREM TypeCorrect == Spec => []TypeOK
<1>1. Inv => TypeOK
  BY DEF Inv
<1> QED BY <1>1, InvHolds, PTL

(* No TCB index is handed out twice or lost, and count is exact            *)
(* (tcb_alloc, tcb_free, tcb_store_reset).                                 *)
THEOREM FreeStackCorrect == Spec => []FreeStackExact
<1>1. Inv => FreeStackExact
  BY DEF Inv
<1> QED BY <1>1, InvHolds, PTL

(* For every hash function and every history of tombstones the lookup of a *)
(* live IPv4 connection returns its TCB (tcb_lookup, tcp_fsm_input).       *)
THEOREM LookupCorrect == Spec => []LookupExact
BY InvHolds, InvImpliesExact, PTL

(* The hash table holds every live index in exactly one slot: insertion    *)
(* never fails (tcb_alloc).                                                *)
THEOREM TableCorrect == Spec => []TableExact
BY InvHolds, InvImpliesExact, PTL

-----------------------------------------------------------------------------
(* The store implements the bounded connection set.                        *)

(* A connection is reachable exactly if a live TCB has its tuple. *)
LEMMA ReachableIsLive ==
  Inv => Reachable = {t \in V4 : \E i \in Live : tuple[i] = t}
<1> SUFFICES ASSUME Inv
             PROVE  Reachable = {t \in V4 : \E i \in Live : tuple[i] = t}
  OBVIOUS
<1>1. ASSUME NEW t \in V4, find_tcb(t) # NoTcb PROVE \E i \in Live : tuple[i] = t
  BY <1>1, LookupIsLive, StoreAssumption DEF Inv
<1>2. ASSUME NEW i \in Live, tuple[i] \in V4 PROVE find_tcb(tuple[i]) # NoTcb
  <2>1. i # NoTcb
    BY StoreAssumption DEF Live, Indices, NoTcb
  <2> QED BY <1>2, <2>1, LookupOfLive DEF Inv
<1> QED BY <1>1, <1>2 DEF Reachable

(* While a TCB is free fewer than capacity connections are reachable. *)
LEMMA ReachableBound ==
  ASSUME Inv, NEW i \in Indices, ~in_use[i]
  PROVE  Cardinality(Reachable) < Capacity
<1> DEFINE f == [t \in Reachable |-> find_tcb(t)]
           Others == Indices \ {i}
<1>1. IsFiniteSet(Indices) /\ Cardinality(Indices) = Capacity
  BY FS_Interval, StoreAssumption DEF Indices
<1>2. IsFiniteSet(Others) /\ Cardinality(Others) = Capacity - 1
  BY <1>1, FS_RemoveElement
<1>3. \A t \in Reachable : find_tcb(t) \in Live /\ tuple[find_tcb(t)] = t
  BY LookupIsLive, StoreAssumption DEF Reachable, Inv
<1>4. f \in Injection(Reachable, Others)
  <2>1. f \in [Reachable -> Others]
    BY <1>3 DEF Live
  <2>2. \A t, u \in Reachable : f[t] = f[u] => t = u
    BY <1>3
  <2> QED BY <2>1, <2>2 DEF Injection, IsInjective
<1> HIDE DEF f, Others
<1>5. IsFiniteSet(Reachable) /\ Cardinality(Reachable) <= Cardinality(Others)
  BY <1>2, <1>4, FS_Injection
<1>6. Cardinality(Reachable) \in Nat
  BY <1>5, FS_CardinalityType
<1> QED BY <1>2, <1>5, <1>6, StoreAssumption

(* Every store operation is a step of ConnTable or leaves it unchanged. *)
LEMMA StepImplements ==
  ASSUME Inv, Inv', [Next]_vars
  PROVE  [CT!Next]_Reachable
<1> DEFINE L  == {t \in V4 : \E i \in Live : tuple[i] = t}
<1>1. Reachable = L
  BY ReachableIsLive
<1>2. (Inv => Reachable = L)'
  BY ReachableIsLive, PTL
<1>3. Reachable' = L'
  BY <1>2
<1>4. ASSUME NEW t \in Tuples, tcb_alloc(t), t \in V4 => \A j \in Live : tuple[j] # t
      PROVE  [CT!Next]_Reachable
  <2> DEFINE i == free_stack[Len(free_stack)]
  <2>1. i \in Indices /\ ~in_use[i]
    BY <1>4 DEF Inv, TypeOK, FreeStackExact, tcb_alloc
  <2>2. /\ Live' = Live \cup {i} /\ i \notin Live /\ tuple'[i] = t
        /\ \A j \in Live : tuple'[j] = tuple[j]
    BY <1>4, <2>1 DEF Live, tcb_alloc, Inv, TypeOK
  <2>3. CASE t \in V4
    <3>1. t \notin L /\ L' = L \cup {t}
      BY <1>4, <2>2, <2>3
    <3>2. Cardinality(Reachable) < Capacity
      BY <2>1, ReachableBound
    <3>3. CT!Cardinality(Reachable) = Cardinality(Reachable)
      BY DEF CT!Cardinality, Cardinality
    <3>4. CT!Open(t)
      BY <1>1, <1>3, <3>1, <3>2, <3>3 DEF CT!Open
    <3> QED BY <2>3, <3>4 DEF CT!Next
  <2>4. CASE t \notin V4
    <3>1. L' = L
      BY <2>2, <2>4
    <3> QED BY <1>1, <1>3, <3>1
  <2> QED BY <2>3, <2>4
<1>5. ASSUME NEW t \in Tuples, PassiveOpen(t) PROVE [CT!Next]_Reachable
  <2>1. t \in V4 => t \notin L
    BY <1>1, <1>5 DEF PassiveOpen, Reachable
  <2> QED BY <1>4, <1>5, <2>1 DEF PassiveOpen
<1>6. ASSUME NEW t \in Tuples, ActiveOpen(t) PROVE [CT!Next]_Reachable
  BY <1>4, <1>6 DEF ActiveOpen, Live
<1>7. ASSUME NEW i \in Indices, tcb_free(i) PROVE [CT!Next]_Reachable
  <2>1. /\ Live' = Live \ {i} /\ i \in Live
        /\ \A j \in Live' : tuple'[j] = tuple[j]
    BY <1>7 DEF Live, tcb_free, Inv, TypeOK
  <2>2. CASE tuple[i] \in V4
    <3>1. tuple[i] \in L /\ L' = L \ {tuple[i]}
      BY <2>1, <2>2 DEF Inv, ProbeInv
    <3>2. CT!Close(tuple[i])
      BY <1>1, <1>3, <3>1 DEF CT!Close
    <3> QED BY <2>2, <3>2 DEF CT!Next
  <2>3. CASE tuple[i] \notin V4
    <3>1. L' = L
      BY <2>1, <2>3
    <3> QED BY <1>1, <1>3, <3>1
  <2> QED BY <2>2, <2>3
<1>8. CASE tcb_store_reset
  <2>1. L' = {}
    BY <1>8 DEF tcb_store_reset, Live
  <2> QED BY <1>3, <2>1 DEF CT!Next, CT!Reset
<1>9. CASE UNCHANGED vars
  <2>1. L' = L
    BY <1>9 DEF vars, Live
  <2> QED BY <1>1, <1>3, <2>1
<1> QED BY <1>5, <1>6, <1>7, <1>8, <1>9 DEF Next

(* Array, free stack, hash table and tombstones together behave as a       *)
(* bounded set of connections, whatever the capacity and the hash function *)
(* (tcb_alloc, tcb_free, tcb_lookup, tcb_store_reset).                     *)
THEOREM StoreImplementsConnTable == Spec => ImplementsConnTable
<1>1. Init => CT!Init
  <2> SUFFICES ASSUME Init PROVE Reachable = {}
    BY DEF CT!Init
  <2>1. Reachable = {t \in V4 : \E i \in Live : tuple[i] = t}
    BY InitInv, ReachableIsLive
  <2>2. Live = {}
    BY DEF Init, Live
  <2> QED BY <2>1, <2>2
<1> QED BY <1>1, InvHolds, StepImplements, PTL DEF Spec, ImplementsConnTable, CT!Spec
=============================================================================
