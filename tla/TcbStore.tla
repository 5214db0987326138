------------------------------ MODULE TcbStore ------------------------------
(***************************************************************************)
(* The TCB store of one worker (vaigAI/src/net/tcp_tcb.c): a flat array of *)
(* connection control blocks, a LIFO stack of free array indices and an    *)
(* open-addressing hash table from connection 4-tuples to array indices.   *)
(* The store is private to its worker, so an operation is one step.        *)
(*                                                                         *)
(* A member of Tuples identifies a connection: addresses and ports. Key is *)
(* what the hash table sees of it. For IPv4 that is the whole 4-tuple; for *)
(* IPv6 tcp_fsm_input passes 0 for both addresses, so connections of two   *)
(* peers can share a key. Hash stands for tuple_hash() & ht_mask and is an *)
(* arbitrary function, so every pattern of collisions can be instantiated. *)
(***************************************************************************)
EXTENDS Integers, FiniteSets, Sequences

CONSTANTS
  Capacity,   \* store->capacity: the number of TCBs
  HtSize,     \* store->ht_size: next power of two >= 2 * capacity
  Tuples,     \* the connections segments can belong to
  V4,         \* those of them that run over IPv4
  Keys,       \* the (src_ip, src_port, dst_ip, dst_port) of a hash lookup
  Key,        \* connection -> key
  Hash,       \* key -> home slot
  NoTuple     \* the all-zero tuple of a TCB that was memset to 0

ASSUME StoreAssumption ==
  /\ Capacity \in Nat \ {0}
  /\ HtSize \in Nat /\ HtSize >= 2 * Capacity
  /\ V4 \subseteq Tuples
  /\ Key \in [Tuples -> Keys]
  /\ \A t \in V4, u \in Tuples : Key[t] = Key[u] => t = u
  /\ Hash \in [Keys -> 0..(HtSize - 1)]
  /\ NoTuple \notin Tuples

VARIABLES
  in_use,      \* tcbs[i].in_use
  tuple,       \* the address and port fields of tcbs[i]
  ht,          \* the hash table: an index, Empty or Tombstone
  free_stack,  \* free_stack[0 .. free_top-1], last element on top
  count        \* store->count

vars == <<in_use, tuple, ht, free_stack, count>>

Indices   == 0..(Capacity - 1)
Slots     == 0..(HtSize - 1)
Offsets   == 0..(HtSize - 1)
Empty     == -1
Tombstone == -2
NoTcb     == -1

-----------------------------------------------------------------------------
(* Linear probing.                                                         *)

(* (h + k) & ht_mask, for h and k below ht_size. *)
Probe(h, k) == IF h + k < HtSize THEN h + k ELSE h + k - HtSize

(* The table entry the k-th probe for tuple t reads. *)
EntryAt(t, k) == ht[Probe(Hash[Key[t]], k)]

(* The k-th probe for t hits a live TCB with t's key. *)
Matches(t, k) ==
  LET i == EntryAt(t, k)
  IN  i \in Indices /\ in_use[i] /\ Key[tuple[i]] = Key[t]

(* The walk of tcb_lookup passes over the j-th probe. Mutant: it also      *)
(* stops at a tombstone.                                                   *)
PassesStopAtTombstone(t, j) == ~Matches(t, j) /\ EntryAt(t, j) \notin {Empty, Tombstone}
Passes(t, j) == ~Matches(t, j) /\ EntryAt(t, j) # Empty

(* The k-th probe is where tcb_lookup stops with a result. *)
FoundAt(t, k) == Matches(t, k) /\ \A j \in 0..(k - 1) : Passes(t, j)

tcb_lookup(t) ==
  IF \E k \in Offsets : FoundAt(t, k)
    THEN EntryAt(t, CHOOSE k \in Offsets : FoundAt(t, k))
    ELSE NoTcb

(* The lookup at the head of tcp_fsm_input, with its second comparison of  *)
(* the addresses (which can only differ when two connections share a key). *)
find_tcb(t) ==
  LET i == tcb_lookup(t)
  IN  IF i # NoTcb /\ tuple[i] # t THEN NoTcb ELSE i

(* The first probe that is empty or a tombstone. *)
InsertsAt(t, k) ==
  /\ EntryAt(t, k) \in {Empty, Tombstone}
  /\ \A j \in 0..(k - 1) : EntryAt(t, j) \notin {Empty, Tombstone}

(* The table with index i entered for t. *)
ht_insert(t, i) ==
  IF \E k \in Offsets : InsertsAt(t, k)
    THEN [ht EXCEPT ![Probe(Hash[Key[t]], CHOOSE k \in Offsets : InsertsAt(t, k))] = i]
    ELSE ht

(* tcb_free walks the probe sequence to the slot that holds index i and    *)
(* gives up at the first empty slot.                                       *)
RemovesAt(t, i, k) ==
  /\ EntryAt(t, k) = i
  /\ \A j \in 0..(k - 1) : EntryAt(t, j) \notin {i, Empty}

(* The table with i's slot turned into a tombstone. Mutant: the slot is    *)
(* emptied.                                                                *)
ht_remove_emptying(t, i) ==
  IF \E k \in Offsets : RemovesAt(t, i, k)
    THEN [ht EXCEPT ![Probe(Hash[Key[t]], CHOOSE k \in Offsets : RemovesAt(t, i, k))]
                      = Empty]
    ELSE ht

ht_remove(t, i) ==
  IF \E k \in Offsets : RemovesAt(t, i, k)
    THEN [ht EXCEPT ![Probe(Hash[Key[t]], CHOOSE k \in Offsets : RemovesAt(t, i, k))]
                      = Tombstone]
    ELSE ht

-----------------------------------------------------------------------------
(* The store's operations.                                                 *)

(* free_stack[i] = capacity - 1 - i: index 0 is on top.                    *)
FullStack == [n \in 1..Capacity |-> Capacity - n]

Init ==
  /\ in_use = [i \in Indices |-> FALSE]
  /\ tuple = [i \in Indices |-> NoTuple]
  /\ ht = [s \in Slots |-> Empty]
  /\ free_stack = FullStack
  /\ count = 0

tcb_alloc(t) ==
  LET n == Len(free_stack)
      i == free_stack[n]
  IN  /\ n # 0
      /\ free_stack' = SubSeq(free_stack, 1, n - 1)
      /\ in_use' = [in_use EXCEPT ![i] = TRUE]
      /\ tuple' = [tuple EXCEPT ![i] = t]
      /\ ht' = ht_insert(t, i)
      /\ count' = count + 1

(* A SYN of a connection the lookup does not find allocates a TCB; with no *)
(* free TCB the SYN is dropped and nothing changes. Mutant: it takes over a *)
(* TCB with the same home slot instead.                                    *)
PassiveOpenEvicting(t) ==
  /\ find_tcb(t) = NoTcb
  /\ \/ tcb_alloc(t)
     \/ /\ free_stack = <<>>
        /\ \E i \in Indices : /\ Hash[Key[tuple[i]]] = Hash[Key[t]]
                             /\ tuple' = [tuple EXCEPT ![i] = t]
        /\ UNCHANGED <<in_use, ht, free_stack, count>>

PassiveOpen(t) ==
  /\ find_tcb(t) = NoTcb
  /\ tcb_alloc(t)

(* tcp_fsm_connect (IPv4 only) allocates without a lookup. Its callers     *)
(* take the source port from the port pool, whose contract is that no live *)
(* connection has it.                                                      *)
ActiveOpen(t) ==
  /\ t \in V4
  /\ \A i \in Indices : in_use[i] => tuple[i] # t
  /\ tcb_alloc(t)

tcb_free(i) ==
  /\ in_use[i]
  /\ in_use' = [in_use EXCEPT ![i] = FALSE]
  /\ tuple' = [tuple EXCEPT ![i] = NoTuple]
  /\ count' = count - 1
  /\ free_stack' = Append(free_stack, i)
  /\ ht' = ht_remove(tuple[i], i)

tcb_store_reset ==
  /\ in_use' = [i \in Indices |-> FALSE]
  /\ tuple' = [i \in Indices |-> NoTuple]
  /\ count' = 0
  /\ ht' = [s \in Slots |-> Empty]
  /\ free_stack' = FullStack

Next ==
  \/ \E t \in Tuples : PassiveOpen(t)
  \/ \E t \in Tuples : ActiveOpen(t)
  \/ \E i \in Indices : tcb_free(i)
  \/ tcb_store_reset

Spec == Init /\ [][Next]_vars

-----------------------------------------------------------------------------
(* Properties.                                                             *)

(* The types of the store (tcb_store_t). *)
TypeOK ==
  /\ in_use \in [Indices -> BOOLEAN]
  /\ tuple \in [Indices -> Tuples \cup {NoTuple}]
  /\ ht \in [Slots -> Indices \cup {Empty, Tombstone}]
  /\ free_stack \in Seq(Indices)
  /\ count \in Int

Live == {i \in Indices : in_use[i]}

(* However allocations, frees and tombstones were interleaved, the lookup  *)
(* of a live IPv4 connection returns its TCB and no other, and a lookup    *)
(* never returns a TCB that is free (tcp_tcb.c, tcb_lookup).               *)
LookupExact ==
  /\ \A i \in Live : tuple[i] \in V4 => find_tcb(tuple[i]) = i
  /\ \A t \in Tuples : find_tcb(t) # NoTcb => find_tcb(t) \in Live

(* The free stack holds each index that is not in use exactly once and     *)
(* none that is: no index is ever handed out twice or lost, and count is   *)
(* the number of live TCBs (tcb_alloc, tcb_free, tcb_store_reset).         *)
FreeStackExact ==
  /\ \A m, n \in 1..Len(free_stack) : free_stack[m] = free_stack[n] => m = n
  /\ \A i \in Indices : in_use[i] <=> \A n \in 1..Len(free_stack) : free_stack[n] # i
  /\ count + Len(free_stack) = Capacity

(* The hash table holds the index of each live TCB in exactly one slot and *)
(* of no other: although tombstones are never cleaned up, an insertion     *)
(* never fails (the silent end of tcb_alloc's loop is never reached).      *)
TableExact ==
  /\ \A s \in Slots : ht[s] \in Indices => in_use[ht[s]]
  /\ \A r, s \in Slots : ht[r] \in Indices /\ ht[r] = ht[s] => r = s
  /\ \A i \in Live : \E s \in Slots : ht[s] = i

(* The probe walk for TCB i's tuple reaches i's slot before an empty one. *)
Anchored(i) ==
  \E k \in Offsets :
    /\ EntryAt(tuple[i], k) = i
    /\ \A j \in 0..(k - 1) : EntryAt(tuple[i], j) # Empty

(* Why the lookup works: table entries are live indices, each once; every  *)
(* live TCB is anchored, so neither a lookup nor a free can stop short of  *)
(* it; and no IPv4 connection has two TCBs. This is the inductive form of  *)
(* LookupExact and TableExact (tcb_alloc, tcb_lookup, tcb_free).           *)
ProbeInv ==
  /\ \A s \in Slots : ht[s] \in Indices => in_use[ht[s]]
  /\ \A r, s \in Slots : ht[r] \in Indices /\ ht[r] = ht[s] => r = s
  /\ \A i \in Live : tuple[i] \in Tuples /\ Anchored(i)
  /\ \A i, j \in Live : tuple[i] = tuple[j] /\ tuple[i] \in V4 => i = j

(* The inductive invariant of the store (all its operations). *)
Inv == TypeOK /\ FreeStackExact /\ ProbeInv

-----------------------------------------------------------------------------
(* What the store implements: the set of IPv4 connections a segment can    *)
(* reach. Its value is defined through the lookup itself.                  *)

Reachable == {t \in V4 : find_tcb(t) # NoTcb}

CT == INSTANCE ConnTable WITH Conns <- V4, Limit <- Capacity, open <- Reachable

(* Each store operation is a step of the bounded connection set: it adds,  *)
(* removes or clears exactly the connections it is about and makes no      *)
(* other connection unreachable (tcb_alloc, tcb_free, tcb_store_reset).    *)
ImplementsConnTable == CT!Spec
=============================================================================
