----------------------------- MODULE TimerWheel -----------------------------
(***************************************************************************)
(* The timer wheel of one worker (vaigAI/src/net/tcp_timer.c): chains of   *)
(* TCBs, one for each slot of the wheel and one for the timers beyond its  *)
(* range, linked through the TCBs themselves, and the tick that advances   *)
(* the wheel, fires the TCBs of the slots it passes and schedules them     *)
(* again by their earliest deadline.                                       *)
(*                                                                         *)
(* Time is relative: a deadline is the time left until it, a negative one  *)
(* has passed; it stays at -load.late once it is that far in the past. A     *)
(* deadline field of a TCB is the empty set while it is 0 (not armed).     *)
(* The fields http_req_sent_tsc and think_deadline_tsc both stand for a    *)
(* later moment of an established connection: they are one field, think.   *)
(***************************************************************************)
EXTENDS Integers, FiniteSets, FiniteSetsExt

CONSTANTS
  N,         \* TCBs at most
  Slots,     \* TIMER_WHEEL_SLOTS
  Idle,      \* the 60 s a connection may stay in FIN_WAIT_2
  Loads      \* the loads the wheel is put under, of LoadType

(* tcbs: TCBs of the store; perSlot: tsc_per_slot; rtos, thinks: lengths   *)
(* of retransmission timeouts and think times; active: connections are     *)
(* also opened actively; streams: responses are streamed; stall: two ticks *)
(* are at most this far apart; late: how far into the past a deadline is   *)
(* followed.                                                               *)
LoadType ==
  [perSlot : Nat, rtos : SUBSET (Nat \ {0}), thinks : SUBSET (Nat \ {0}),
   active : BOOLEAN, streams : BOOLEAN, stall : Nat, late : Nat, tcbs : 0..N]

ASSUME WheelAssumption ==
  /\ N \in Nat \ {0} /\ Slots \in Nat \ {0}
  /\ Idle \in Nat \ {0}
  /\ \A l \in Loads : l \in LoadType /\ l.perSlot > 0 /\ l.stall >= l.perSlot

Tcbs  == 0..(N - 1)
Nil   == -1                       \* UINT32_MAX as the index of a TCB
None  == -1                       \* TIMER_SLOT_NONE
Chain == 0..Slots                 \* the slots and, last, the overflow list

VARIABLES
  load,      \* the load; never changes
  conn,      \* "free", "open" or "fin_wait_2"; the TCB is in use unless free
  dl,        \* the deadlines of a TCB: rto, timewait, think; stream: app_state 12
  wheel,     \* slot, next, prev of each TCB and the head of each chain
  current,   \* the slot the wheel is at
  since,     \* time since last_tick_tsc
  tick       \* the tick in progress

vars == <<load, conn, dl, wheel, current, since, tick>>

Clock == -load.late..Max(load.rtos \cup load.thinks \cup {Idle})

NoTimer == [rto |-> {}, timewait |-> {}, think |-> {}, stream |-> FALSE]
ZeroLinks == [slot |-> [t \in Tcbs |-> 0], next |-> [t \in Tcbs |-> 0],
              prev |-> [t \in Tcbs |-> 0], head |-> [c \in Chain |-> Nil]]
InTick  == tick.pc # "idle"
Resting == [pc |-> "idle", adv |-> 0, left |-> 0, idx |-> Nil]

-----------------------------------------------------------------------------
(* The chains. L is a value of the variable wheel.                         *)

(* wheel_remove. Mutant: the TCB behind keeps its tw_prev. *)
wheel_remove_half(L, t) ==
  IF L.slot[t] = None THEN L
  ELSE [(IF L.prev[t] = Nil
           THEN [L EXCEPT !.head[L.slot[t]] = L.next[t]]
           ELSE [L EXCEPT !.next[L.prev[t]] = L.next[t]])
        EXCEPT !.slot[t] = None, !.next[t] = Nil, !.prev[t] = Nil]

wheel_remove(L, t) ==
  IF L.slot[t] = None THEN L
  ELSE LET A == IF L.prev[t] = Nil
                  THEN [L EXCEPT !.head[L.slot[t]] = L.next[t]]
                  ELSE [L EXCEPT !.next[L.prev[t]] = L.next[t]]
           B == IF L.next[t] # Nil THEN [A EXCEPT !.prev[L.next[t]] = L.prev[t]] ELSE A
       IN  [B EXCEPT !.slot[t] = None, !.next[t] = Nil, !.prev[t] = Nil]

wheel_insert_slot(L, t, s) ==
  LET h == L.head[s]
      A == IF h # Nil THEN [L EXCEPT !.prev[h] = t] ELSE L
  IN  [A EXCEPT !.prev[t] = Nil, !.next[t] = h, !.head[s] = t, !.slot[t] = s]

(* The chain a TCB with this deadline goes to when the wheel is at slot c. *)
SlotFor(c, deadline) ==
  LET ahead == IF deadline > 0 THEN deadline \div load.perSlot ELSE 0
  IN  IF ahead >= Slots THEN Slots ELSE (c + ahead) % Slots

tcp_timer_schedule(L, c, t, deadline) ==
  wheel_insert_slot(wheel_remove(L, t), t, SlotFor(c, deadline))

(* The deadlines tcb_earliest_deadline takes the least of. The time-out of *)
(* a TLS handshake is timewait_deadline_tsc plus 5 s, never the least.     *)
Deadlines(d) == d.rto \cup d.timewait \cup d.think \cup (IF d.stream THEN {0} ELSE {})

(* tcp_timer_resched. *)
tcp_timer_resched(L, c, t, d) ==
  IF Deadlines(d) = {} THEN wheel_remove(L, t)
  ELSE tcp_timer_schedule(L, c, t, Min(Deadlines(d)))

(* The links after the TCB was taken from the free stack. *)
Allocated(L, t) == [L EXCEPT !.slot[t] = None, !.next[t] = Nil, !.prev[t] = Nil]

(* The links of a TCB after tcb_free: off the wheel, then set to zero. *)
Zeroed(L, t) ==
  [wheel_remove(L, t) EXCEPT !.slot[t] = 0, !.next[t] = 0, !.prev[t] = 0]

-----------------------------------------------------------------------------
(* What the TCP state machine does to a TCB between ticks.                 *)

Init ==
  /\ load \in Loads
  /\ conn = [t \in Tcbs |-> "free"]
  /\ dl = [t \in Tcbs |-> NoTimer]
  /\ wheel = ZeroLinks
  /\ current = 0
  /\ since = 0
  /\ tick = Resting

(* The TCB gets the deadlines d and is scheduled by them. *)
Rearm(t, d) ==
  /\ dl' = [dl EXCEPT ![t] = d]
  /\ wheel' = tcp_timer_resched(wheel, current, t, d)
  /\ UNCHANGED <<load, current, since, tick>>

(* An active open stores the time of creation in timewait_deadline_tsc. *)
Open(t, r, active) ==
  LET d == [NoTimer EXCEPT !.rto = {r}, !.timewait = IF active THEN {0} ELSE {}]
  IN  /\ ~InTick /\ conn[t] = "free" /\ t < load.tcbs
      /\ conn' = [conn EXCEPT ![t] = "open"]
      /\ dl' = [dl EXCEPT ![t] = d]
      /\ wheel' = tcp_timer_resched(Allocated(wheel, t), current, t, d)
      /\ UNCHANGED <<load, current, since, tick>>

tcp_fsm_connect(t, r) == load.active /\ Open(t, r, TRUE)
PassiveOpen(t, r)     == Open(t, r, FALSE)

(* Something is sent that must be acknowledged. *)
arm_rto(t, r) ==
  /\ ~InTick /\ conn[t] = "open"
  /\ Rearm(t, [dl[t] EXCEPT !.rto = {r}])
  /\ UNCHANGED conn

(* Everything sent was acknowledged. *)
Acknowledged(t) ==
  /\ ~InTick /\ conn[t] = "open" /\ dl[t].rto # {}
  /\ Rearm(t, [dl[t] EXCEPT !.rto = {}])
  /\ UNCHANGED conn

(* http_next_txn: the connection waits before its next request. *)
ThinkTime(t, r) ==
  /\ ~InTick /\ conn[t] = "open" /\ dl[t].think = {}
  /\ Rearm(t, [dl[t] EXCEPT !.think = {r}])
  /\ UNCHANGED conn

(* A server connection sends the headers of a response, which arms the RTO *)
(* unless it is armed, and streams from then on.                           *)
StartStream(t, r) ==
  LET d == [dl[t] EXCEPT !.rto = IF @ = {} THEN {r} ELSE @]
  IN  /\ load.streams /\ ~InTick /\ conn[t] = "open" /\ ~dl[t].stream
      /\ dl' = [dl EXCEPT ![t] = [d EXCEPT !.stream = TRUE]]
      /\ wheel' = IF dl[t].rto = {} THEN tcp_timer_resched(wheel, current, t, d) ELSE wheel
      /\ UNCHANGED <<load, conn, current, since, tick>>

(* FIN_WAIT_1 to FIN_WAIT_2: the RTO deadline of the FIN stays set. *)
EnterFinWait2(t) ==
  /\ ~InTick /\ conn[t] = "open" /\ dl[t].rto # {}
  /\ conn' = [conn EXCEPT ![t] = "fin_wait_2"]
  /\ Rearm(t, [dl[t] EXCEPT !.timewait = {Idle}, !.stream = FALSE])

tcb_free(t) ==
  /\ ~InTick /\ conn[t] # "free"
  /\ conn' = [conn EXCEPT ![t] = "free"]
  /\ dl' = [dl EXCEPT ![t] = NoTimer]
  /\ wheel' = Zeroed(wheel, t)
  /\ UNCHANGED <<load, current, since, tick>>

(* tcb_store_reset empties every chain; the wheel stays at its slot. *)
tcb_store_reset ==
  /\ ~InTick
  /\ conn' = [t \in Tcbs |-> "free"]
  /\ dl' = [t \in Tcbs |-> NoTimer]
  /\ wheel' = ZeroLinks
  /\ UNCHANGED <<load, current, since, tick>>

-----------------------------------------------------------------------------
(* tcp_timer_tick, a step for each slot and each TCB.                      *)

(* At most one revolution is made up for. *)
TickBegin ==
  /\ ~InTick /\ since >= load.perSlot
  /\ LET adv == Min({since \div load.perSlot, Slots})
     IN  /\ since' = since - adv * load.perSlot
         /\ tick' = [pc |-> "slot", adv |-> adv, left |-> adv, idx |-> Nil]
  /\ UNCHANGED <<load, conn, dl, wheel, current>>

(* The wheel moves to the next slot, whose chain is detached. *)
TickSlot ==
  LET c == (current + 1) % Slots
  IN  /\ tick.pc = "slot" /\ tick.idx = Nil /\ tick.left > 0
      /\ current' = c
      /\ tick' = [tick EXCEPT !.left = @ - 1, !.idx = wheel.head[c]]
      /\ wheel' = [wheel EXCEPT !.head[c] = Nil]
      /\ UNCHANGED <<load, conn, dl, since>>

Due(S) == \E d \in S : d <= 0

(* What timer_fire makes of a TCB: its deadlines afterwards, or that it is *)
(* freed. In FIN_WAIT_2 the idle time-out frees the TCB. In the other      *)
(* states an expired RTO retransmits and arms it again or, after too many, *)
(* resets the connection; an expired think time sends the next request,    *)
(* which arms the RTO unless it is armed; a stream is pumped and may end.  *)
Fired(c, d) ==
  IF c = "fin_wait_2" THEN {[free |-> Due(d.timewait), dl |-> d]}
  ELSE LET afterRto == IF Due(d.rto) THEN {[d EXCEPT !.rto = {r}] : r \in load.rtos} ELSE {d}
           afterThink == UNION {IF ~Due(e.think) THEN {e}
                                ELSE IF e.rto # {} THEN {[e EXCEPT !.think = {}]}
                                ELSE {[e EXCEPT !.think = {}, !.rto = {r}] : r \in load.rtos}
                                : e \in afterRto}
           afterPump == afterThink \cup {[e EXCEPT !.stream = FALSE] : e \in afterThink}
       IN  {[free |-> FALSE, dl |-> e] : e \in afterPump}
             \cup (IF Due(d.rto) THEN {[free |-> TRUE, dl |-> d]} ELSE {})

(* The next TCB of the detached chain is unlinked, fired and scheduled. *)
TickFire ==
  LET t == tick.idx
      L == Allocated(wheel, t)
  IN  /\ tick.pc = "slot" /\ t # Nil
      /\ \E f \in Fired(conn[t], dl[t]) :
           /\ conn' = [conn EXCEPT ![t] = IF f.free THEN "free" ELSE @]
           /\ dl' = [dl EXCEPT ![t] = IF f.free THEN NoTimer ELSE f.dl]
           /\ wheel' = IF f.free THEN Zeroed(L, t) ELSE tcp_timer_resched(L, current, t, f.dl)
      /\ tick' = [tick EXCEPT !.idx = wheel.next[t]]
      /\ UNCHANGED <<load, current, since>>


TickWrap ==
  /\ tick.pc = "slot" /\ tick.idx = Nil /\ tick.left = 0
  /\ IF current < tick.adv
       THEN /\ tick' = [tick EXCEPT !.pc = "overflow", !.idx = wheel.head[Slots]]
            /\ wheel' = [wheel EXCEPT !.head[Slots] = Nil]
       ELSE tick' = Resting /\ wheel' = wheel
  /\ UNCHANGED <<load, conn, dl, current, since>>

(* The next TCB of the overflow list is unlinked and scheduled. *)
TickOverflow ==
  LET t == tick.idx
  IN  /\ tick.pc = "overflow" /\ t # Nil
      /\ wheel' = tcp_timer_resched(Allocated(wheel, t), current, t, dl[t])
      /\ tick' = [tick EXCEPT !.idx = wheel.next[t]]
      /\ UNCHANGED <<load, conn, dl, current, since>>

TickEnd ==
  /\ tick.pc = "overflow" /\ tick.idx = Nil
  /\ tick' = Resting
  /\ UNCHANGED <<load, conn, dl, wheel, current, since>>

(* Time passes between ticks. Of a timewait_deadline_tsc, and of an RTO in *)
(* FIN_WAIT_2, it only matters whether they have passed.                   *)
Sooner(S, low) == {IF d > low THEN d - 1 ELSE d : d \in S}

Time ==
  /\ ~InTick /\ since < load.stall
  /\ since' = since + 1
  /\ dl' = [t \in Tcbs |->
              [dl[t] EXCEPT !.rto = Sooner(@, IF conn[t] = "open" THEN -load.late ELSE 0),
                            !.timewait = Sooner(@, 0),
                            !.think = Sooner(@, IF conn[t] = "open" THEN -load.late ELSE 0)]]
  /\ UNCHANGED <<load, conn, wheel, current, tick>>

Next ==
  \/ \E t \in Tcbs, r \in load.rtos : tcp_fsm_connect(t, r)
  \/ \E t \in Tcbs, r \in load.rtos : PassiveOpen(t, r)
  \/ \E t \in Tcbs, r \in load.rtos : arm_rto(t, r)
  \/ \E t \in Tcbs, r \in load.thinks : ThinkTime(t, r)
  \/ \E t \in Tcbs, r \in load.rtos : StartStream(t, r)
  \/ \E t \in Tcbs : Acknowledged(t) \/ EnterFinWait2(t) \/ tcb_free(t)
  \/ tcb_store_reset
  \/ TickBegin \/ TickSlot \/ TickFire \/ TickWrap \/ TickOverflow \/ TickEnd
  \/ Time

Spec == Init /\ [][Next]_vars

-----------------------------------------------------------------------------
(* Properties.                                                             *)

(* The types of the wheel and of a tick (tcp_timer_tick). *)
TypeOK ==
  /\ load \in Loads
  /\ conn \in [Tcbs -> {"free", "open", "fin_wait_2"}]
  /\ dl \in [Tcbs -> [rto : SUBSET Clock, timewait : SUBSET Clock,
                      think : SUBSET Clock, stream : BOOLEAN]]
  /\ wheel \in [slot : [Tcbs -> Chain \cup {None}], next : [Tcbs -> Tcbs \cup {Nil}],
                prev : [Tcbs -> Tcbs \cup {Nil}], head : [Chain -> Tcbs \cup {Nil}]]
  /\ current \in 0..(Slots - 1)
  /\ since \in 0..load.stall
  /\ tick \in [pc : {"idle", "slot", "overflow"}, adv : 0..Slots, left : 0..Slots,
               idx : Tcbs \cup {Nil}]

(* The TCBs that are reached from TCB h along tw_next. *)
From(h) ==
  LET Within[n \in 0..N] ==
        IF n = 0 THEN {h} \ {Nil}
        ELSE Within[n - 1] \cup ({wheel.next[t] : t \in Within[n - 1]} \ {Nil})
  IN  Within[N]

(* The chain whose TCBs the tick in progress has detached. *)
Detached == IF tick.pc = "overflow" THEN Slots ELSE current

(* The chains hold exactly the TCBs that say so: each TCB in use whose     *)
(* tw_slot names a chain is reached from its head (or is still to be       *)
(* visited by the tick), no free TCB is on a chain, and tw_prev and        *)
(* tw_next of neighbours agree, so that wheel_remove unlinks what it is    *)
(* meant to (wheel_remove, wheel_insert_slot, tcp_timer_tick, tcb_free).   *)
(* Between ticks every connection with a timer armed is on one of them.    *)
WheelChains ==
  /\ TypeOK
  /\ \A c \in Chain :
       LET members == {t \in Tcbs : conn[t] # "free" /\ wheel.slot[t] = c}
       IN  IF c = Detached /\ tick.idx # Nil
             THEN /\ members = From(wheel.head[c]) \cup From(tick.idx)
                  /\ From(wheel.head[c]) \cap From(tick.idx) = {}
             ELSE members = From(wheel.head[c])
  /\ \A t \in Tcbs : conn[t] # "free" /\ t \notin From(tick.idx) =>
       /\ wheel.slot[t] # None /\ wheel.prev[t] = Nil => wheel.head[wheel.slot[t]] = t
       /\ wheel.prev[t] # Nil => wheel.next[wheel.prev[t]] = t
       /\ wheel.next[t] # Nil => wheel.prev[wheel.next[t]] = t
  /\ ~InTick => \A t \in Tcbs : Deadlines(dl[t]) # {} => wheel.slot[t] # None

=============================================================================
