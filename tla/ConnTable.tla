----------------------------- MODULE ConnTable ------------------------------
(***************************************************************************)
(* What a worker's TCB store promises to the TCP state machine: a bounded  *)
(* set of open connections. It abstracts vaigAI/src/net/tcp_tcb.h from     *)
(* array indices, the free stack, the hash table and its tombstones.       *)
(***************************************************************************)
EXTENDS Naturals, FiniteSets

CONSTANTS
  Conns,   \* connections
  Limit    \* the most that can be open at once

VARIABLE open

Init == open = {}

Open(c) ==
  /\ c \notin open
  /\ Cardinality(open) < Limit
  /\ open' = open \cup {c}

Close(c) ==
  /\ c \in open
  /\ open' = open \ {c}

Reset == open' = {}

Next ==
  \/ Reset
  \/ \E c \in Conns : Open(c) \/ Close(c)

Spec == Init /\ [][Next]_open
=============================================================================
