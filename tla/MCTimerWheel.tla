---------------------------- MODULE MCTimerWheel ----------------------------
(* Instances of TimerWheel. *)
EXTENDS TimerWheel

(* Chains with a middle. Deadlines are not followed into the past, so that *)
(* this load says nothing of LateByARevolution.                            *)
Chains == [perSlot |-> 1, rtos |-> {1, 2}, thinks |-> {},
           active |-> FALSE, streams |-> FALSE, stall |-> 2, late |-> 0, tcbs |-> N]

(* Everything that arms a timer, on two TCBs. *)
Mixed == [Chains EXCEPT !.thinks = {1}, !.active = TRUE, !.streams = TRUE, !.tcbs = 2]

(* One connection, time finer than a slot, and ticks that are delayed by   *)
(* more than a revolution.                                                 *)
Stalled == [Chains EXCEPT !.perSlot = 2, !.rtos = {1, 2 * Slots + 1}, !.active = TRUE,
                          !.streams = TRUE, !.stall = 2 * Slots + 2, !.late = 6 * Slots + 5,
                          !.tcbs = 1]

MCLoads == {Chains, Mixed, Stalled}
=============================================================================
