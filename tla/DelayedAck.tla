----------------------------- MODULE DelayedAck -----------------------------
(***************************************************************************)
(* The delayed-ACK list of one worker (vaigAI/src/net/tcp_timer.c): a      *)
(* singly-linked list through the TCBs that received data and did not      *)
(* acknowledge it yet. A TCB enters it when data arrives and leaves it     *)
(* only when tcp_timer_tick walks the list; tcb_free does not take the TCB *)
(* off it but sets it to zero, link and flag included.                     *)
(***************************************************************************)
EXTENDS Integers, Sequences

CONSTANTS
  N,          \* number of TCBs of the store
  Delay,      \* TCP_DELAYED_ACK_US in ticks
  FreeListed  \* connections also end while they are on the list

DelayedAckAssumption ==
  N \in Nat \ {0} /\ Delay \in Nat \ {0} /\ FreeListed \in BOOLEAN

Tcbs == 0..(N - 1)
Nil  == -1         \* UINT32_MAX

VARIABLES
  in_use,
  pending_ack,
  wait,          \* time left until delayed_ack_tsc
  dack_next,
  in_dack_list,
  dack_head,
  free_stack,    \* the unused TCBs, the next one to be allocated last
  flush          \* the walk of tcp_timer_tick: next TCB and the list it rebuilds

vars == <<in_use, pending_ack, wait, dack_next, in_dack_list, dack_head, free_stack, flush>>

Flushing == flush.on
Resting  == [on |-> FALSE, idx |-> Nil, head |-> Nil, tail |-> Nil]

(* The free stack of an empty store. *)
FullStack == [n \in 1..N |-> N - n]

Init ==
  /\ in_use = [t \in Tcbs |-> FALSE]
  /\ pending_ack = [t \in Tcbs |-> FALSE]
  /\ wait = [t \in Tcbs |-> 0]
  /\ dack_next = [t \in Tcbs |-> 0]
  /\ in_dack_list = [t \in Tcbs |-> FALSE]
  /\ dack_head = Nil
  /\ free_stack = FullStack
  /\ flush = Resting

-----------------------------------------------------------------------------
(* What happens to a connection between ticks.                             *)

tcb_alloc ==
  LET t == free_stack[Len(free_stack)]
  IN  /\ ~Flushing /\ free_stack # <<>>
      /\ free_stack' = SubSeq(free_stack, 1, Len(free_stack) - 1)
      /\ in_use' = [in_use EXCEPT ![t] = TRUE]
      /\ pending_ack' = [pending_ack EXCEPT ![t] = FALSE]
      /\ wait' = [wait EXCEPT ![t] = 0]
      /\ dack_next' = [dack_next EXCEPT ![t] = Nil]
      /\ in_dack_list' = [in_dack_list EXCEPT ![t] = FALSE]
      /\ UNCHANGED <<dack_head, flush>>

tcb_free(t) ==
  /\ ~Flushing /\ in_use[t]
  /\ FreeListed \/ ~in_dack_list[t]
  /\ in_use' = [in_use EXCEPT ![t] = FALSE]
  /\ pending_ack' = [pending_ack EXCEPT ![t] = FALSE]
  /\ wait' = [wait EXCEPT ![t] = 0]
  /\ dack_next' = [dack_next EXCEPT ![t] = 0]
  /\ in_dack_list' = [in_dack_list EXCEPT ![t] = FALSE]
  /\ free_stack' = Append(free_stack, t)
  /\ UNCHANGED <<dack_head, flush>>

(* tcb_store_reset: the list is emptied and every TCB is set to zero. *)
tcb_store_reset ==
  /\ ~Flushing
  /\ in_use' = [t \in Tcbs |-> FALSE]
  /\ pending_ack' = [t \in Tcbs |-> FALSE]
  /\ wait' = [t \in Tcbs |-> 0]
  /\ dack_next' = [t \in Tcbs |-> 0]
  /\ in_dack_list' = [t \in Tcbs |-> FALSE]
  /\ dack_head' = Nil
  /\ free_stack' = FullStack
  /\ UNCHANGED flush

(* Data in order in ESTABLISHED defers its ACK; tcp_timer_dack_add puts    *)
(* the TCB on the list unless it is on it.                                 *)
Data(t) ==
  /\ ~Flushing /\ in_use[t]
  /\ pending_ack' = [pending_ack EXCEPT ![t] = TRUE]
  /\ wait' = [wait EXCEPT ![t] = Delay]
  /\ IF in_dack_list[t] THEN UNCHANGED <<dack_next, dack_head, in_dack_list>>
     ELSE /\ dack_next' = [dack_next EXCEPT ![t] = dack_head]
          /\ dack_head' = t
          /\ in_dack_list' = [in_dack_list EXCEPT ![t] = TRUE]
  /\ UNCHANGED <<in_use, free_stack, flush>>

(* A segment with an ACK is sent: the delayed one is not needed any more. *)
tcp_send_segment(t) ==
  /\ ~Flushing /\ in_use[t] /\ pending_ack[t]
  /\ pending_ack' = [pending_ack EXCEPT ![t] = FALSE]
  /\ UNCHANGED <<in_use, wait, dack_next, in_dack_list, dack_head, free_stack, flush>>

-----------------------------------------------------------------------------
(* The last part of tcp_timer_tick, a step for each TCB of the list.       *)

FlushBegin ==
  /\ ~Flushing
  /\ flush' = [on |-> TRUE, idx |-> dack_head, head |-> Nil, tail |-> Nil]
  /\ UNCHANGED <<in_use, pending_ack, wait, dack_next, in_dack_list, dack_head, free_stack>>

(* A TCB is taken off the list. If its ACK is due it is sent; if it is     *)
(* pending and not due the TCB is linked behind the last one kept.         *)
(* Mutant: an ACK that is due is put off again.                            *)
FlushNeverDue ==
  LET t    == flush.idx
      keep == in_use[t] /\ pending_ack[t]
      cut  == [dack_next EXCEPT ![t] = Nil]
  IN  /\ Flushing /\ t # Nil
      /\ in_dack_list' = [in_dack_list EXCEPT ![t] = keep]
      /\ pending_ack' = [pending_ack EXCEPT ![t] = keep]
      /\ dack_next' = IF keep /\ flush.tail # Nil THEN [cut EXCEPT ![flush.tail] = t] ELSE cut
      /\ flush' = [flush EXCEPT !.idx = dack_next[t],
                                !.head = IF keep /\ flush.tail = Nil THEN t ELSE @,
                                !.tail = IF keep THEN t ELSE @]
      /\ UNCHANGED <<in_use, wait, dack_head, free_stack>>

FlushOne ==
  LET t    == flush.idx
      keep == in_use[t] /\ pending_ack[t] /\ wait[t] > 0
      cut  == [dack_next EXCEPT ![t] = Nil]
  IN  /\ Flushing /\ t # Nil
      /\ in_dack_list' = [in_dack_list EXCEPT ![t] = keep]
      /\ pending_ack' = [pending_ack EXCEPT ![t] = keep]
      /\ dack_next' = IF keep /\ flush.tail # Nil THEN [cut EXCEPT ![flush.tail] = t] ELSE cut
      /\ flush' = [flush EXCEPT !.idx = dack_next[t],
                                !.head = IF keep /\ flush.tail = Nil THEN t ELSE @,
                                !.tail = IF keep THEN t ELSE @]
      /\ UNCHANGED <<in_use, wait, dack_head, free_stack>>

FlushEnd ==
  /\ Flushing /\ flush.idx = Nil
  /\ dack_head' = flush.head
  /\ flush' = Resting
  /\ UNCHANGED <<in_use, pending_ack, wait, dack_next, in_dack_list, free_stack>>

Time ==
  /\ ~Flushing
  /\ \E t \in Tcbs : wait[t] > 0
  /\ wait' = [t \in Tcbs |-> IF wait[t] > 0 THEN wait[t] - 1 ELSE 0]
  /\ UNCHANGED <<in_use, pending_ack, dack_next, in_dack_list, dack_head, free_stack, flush>>

Next ==
  \/ tcb_alloc \/ tcb_store_reset
  \/ \E t \in Tcbs : tcb_free(t) \/ Data(t) \/ tcp_send_segment(t)
  \/ FlushBegin \/ FlushOne \/ FlushEnd
  \/ Time

Spec == Init /\ [][Next]_vars

(* The worker polls forever and time passes. *)
Fairness ==
  /\ WF_vars(FlushBegin) /\ WF_vars(FlushOne) /\ WF_vars(FlushEnd)
  /\ SF_vars(Time)

FairSpec == Spec /\ Fairness

-----------------------------------------------------------------------------
(* Properties.                                                             *)

(* A deferred ACK is eventually sent, or the connection is gone, unless    *)
(* data keeps deferring it.                                                *)
AckIsSent ==
  \A t \in Tcbs : (pending_ack[t] /\ wait[t] = 0) ~> ~pending_ack[t] \/ wait[t] > 0

(* The walk over the list comes to an end: the tick takes the worker no    *)
(* longer than the number of entries.                                      *)
FlushEnds == Flushing ~> ~Flushing
=============================================================================
