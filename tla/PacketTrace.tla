----------------------------- MODULE PacketTrace ------------------------------
(***************************************************************************)
(* The packet capture (telemetry/pktrace.c) as `trace start` and `trace    *)
(* stop` use it: without a packet limit, and streaming into a file. The    *)
(* callbacks run on the workers, start, stop and flush on the management   *)
(* thread; nothing waits for a callback that is running when it is         *)
(* removed. A packet in the ring or in a file is the number of the capture *)
(* whose callback took it; RX and TX callbacks do the same.                *)
(***************************************************************************)
EXTENDS Integers, Sequences, FiniteSets, SequencesExt

CONSTANTS
  Lcores,       \* workers, each with a queue of its own
  TraceSlots,   \* PKTRACE_RING_SZ
  CountMod,     \* 2^32, at which the counters wrap
  MaxCaptures,  \* captures in a behaviour
  MaxBursts,    \* callbacks that see packets in a behaviour
  MaxBurst      \* packets in one burst

ASSUME TraceAssumption ==
  /\ TraceSlots \in Nat \ {0} /\ CountMod \in Nat \ {0} /\ MaxCaptures \in Nat
  /\ MaxBursts \in Nat /\ MaxBurst \in Nat \ {0}

VARIABLES
  g_active, g_captured, g_dropped, g_written,
  installed,   \* the worker with the callbacks g_rx_cb and g_tx_cb, or Nobody
  g_writer,    \* the file is open
  file,        \* the packets in the file of the last capture
  pring,       \* g_ring
  capture,     \* captures started so far
  tstep,       \* where the management thread is in start or stop
  call,        \* the callback each worker runs
  bursts,      \* callbacks so far
  late,        \* a callback was running while a capture was started (history)
  failed       \* a write failed (history)

tvars == <<g_active, g_captured, g_dropped, g_written, installed, g_writer, file, pring,
           capture, tstep, call, bursts, late, failed>>

Nobody == "nobody"
Idle == [at |-> "idle", of |-> 0, left |-> 0, clones |-> 0, lost |-> 0]

TInit ==
  /\ g_active = FALSE
  /\ g_captured = 0 /\ g_dropped = 0 /\ g_written = 0
  /\ installed = Nobody
  /\ g_writer = FALSE
  /\ file = <<>> /\ pring = <<>>
  /\ capture = 0
  /\ tstep = "idle"
  /\ call = [w \in Lcores |-> Idle]
  /\ bursts = 0
  /\ late = FALSE /\ failed = FALSE

-----------------------------------------------------------------------------
(* pktrace_rx_cb, pktrace_tx_cb.                                           *)

At(w, at) == call[w].at = at

(* The driver finds the callback, *)
CallEnter(w) ==
  /\ At(w, "idle") /\ installed = w /\ bursts < MaxBursts
  /\ bursts' = bursts + 1
  /\ \E n \in 1..MaxBurst :
       call' = [call EXCEPT ![w] = [Idle EXCEPT !.at = "entered", !.of = capture, !.left = n]]
  /\ UNCHANGED <<g_active, g_captured, g_dropped, g_written, installed, g_writer, file, pring,
                 capture, tstep, late, failed>>

(* and the callback looks at g_active once. *)
CallCheck(w) ==
  /\ At(w, "entered")
  /\ call' = [call EXCEPT ![w] = IF g_active THEN [@ EXCEPT !.at = "copy"] ELSE Idle]
  /\ UNCHANGED <<g_active, g_captured, g_dropped, g_written, installed, g_writer, file, pring,
                 capture, tstep, bursts, late, failed>>

(* Every packet is counted and copied; *)
CallCopy(w) ==
  /\ At(w, "copy") /\ call[w].left > 0
  /\ g_captured' = (g_captured + 1) % CountMod
  /\ \/ call' = [call EXCEPT ![w].left = @ - 1, ![w].clones = @ + 1]
     \/ call' = [call EXCEPT ![w].left = @ - 1, ![w].at = "nomem"]
  /\ UNCHANGED <<g_active, g_dropped, g_written, installed, g_writer, file, pring, capture,
                 tstep, bursts, late, failed>>

(* without memory for the copy it is counted as dropped instead. *)
CallNoMemory(w) ==
  /\ At(w, "nomem")
  /\ g_dropped' = (g_dropped + 1) % CountMod
  /\ g_captured' = (g_captured - 1) % CountMod
  /\ call' = [call EXCEPT ![w].at = "copy"]
  /\ UNCHANGED <<g_active, g_written, installed, g_writer, file, pring, capture, tstep, bursts,
                 late, failed>>

(* The copies that fit are enqueued. *)
CallEnqueue(w) ==
  LET sent == IF call[w].clones < TraceSlots - Len(pring) THEN call[w].clones
              ELSE TraceSlots - Len(pring)
  IN  /\ At(w, "copy") /\ call[w].left = 0
      /\ pring' = pring \o [n \in 1..sent |-> call[w].of]
      /\ call' = [call EXCEPT ![w] = IF sent = @.clones THEN Idle
                                     ELSE [@ EXCEPT !.at = "lost", !.lost = call[w].clones - sent]]
      /\ UNCHANGED <<g_active, g_captured, g_dropped, g_written, installed, g_writer, file,
                     capture, tstep, bursts, late, failed>>

(* Mutant: the packets that did not fit stay counted as captured. *)
CallLoseCounted(w) ==
  /\ At(w, "lost")
  /\ g_dropped' = (g_dropped + call[w].lost) % CountMod
  /\ call' = [call EXCEPT ![w] = Idle]
  /\ UNCHANGED <<g_active, g_captured, g_written, installed, g_writer, file, pring, capture,
                 tstep, bursts, late, failed>>

(* The others are counted as dropped, not as captured. *)
CallLose(w) ==
  /\ At(w, "lost")
  /\ g_dropped' = (g_dropped + call[w].lost) % CountMod
  /\ g_captured' = (g_captured - call[w].lost) % CountMod
  /\ call' = [call EXCEPT ![w] = Idle]
  /\ UNCHANGED <<g_active, g_written, installed, g_writer, file, pring, capture, tstep, bursts,
                 late, failed>>

-----------------------------------------------------------------------------
(* pktrace_start.                                                          *)

(* "Drain any stale packets from a previous capture". *)
StaleDrained(s) == <<>>

(* The file, which may be that of an earlier capture, begins empty. *)
Truncated(f) == <<>>

Running == \E w \in Lcores : call[w] # Idle

(* The ring is emptied and the file opened, if it can be. *)
StartOpen(opens) ==
  /\ tstep = "idle" /\ ~g_active /\ capture < MaxCaptures
  /\ pring' = StaleDrained(pring)
  /\ g_written' = 0
  /\ late' = (late \/ Running)
  /\ IF opens
       THEN /\ g_writer' = TRUE /\ file' = Truncated(file)
            /\ capture' = capture + 1
            /\ tstep' = "opened"
       ELSE UNCHANGED <<g_writer, file, capture, tstep>>
  /\ UNCHANGED <<g_active, g_captured, g_dropped, installed, call, bursts, failed>>

StartCount ==
  /\ tstep = "opened"
  /\ g_captured' = 0 /\ g_dropped' = 0
  /\ g_active' = TRUE
  /\ tstep' = "counting"
  /\ UNCHANGED <<g_written, installed, g_writer, file, pring, capture, call, bursts, late, failed>>

(* The callbacks are installed; if one cannot be, the capture is stopped.  *)
StartInstall(w, ok) ==
  /\ tstep = "counting"
  /\ installed' = w
  /\ tstep' = IF ok THEN "idle" ELSE "stop"
  /\ UNCHANGED <<g_active, g_captured, g_dropped, g_written, g_writer, file, pring, capture,
                 call, bursts, late, failed>>

-----------------------------------------------------------------------------
(* pktrace_flush and pktrace_stop.                                         *)

(* The packets go to the file, or are lost when it cannot be written. *)
Flush(written) ==
  /\ pring' = <<>>
  /\ IF written
       THEN /\ file' = file \o pring
            /\ g_written' = g_written + Len(pring)
            /\ UNCHANGED failed
       ELSE /\ pring # <<>>
            /\ failed' = TRUE
            /\ UNCHANGED <<file, g_written>>

pktrace_flush(written) ==
  /\ tstep = "idle" /\ g_writer /\ pring # <<>>
  /\ Flush(written)
  /\ UNCHANGED <<g_active, g_captured, g_dropped, installed, g_writer, capture, tstep, call,
                 bursts, late>>

StopFlag ==
  /\ tstep = "stop" \/ (tstep = "idle" /\ g_active)
  /\ g_active' = FALSE
  /\ tstep' = "remove"
  /\ UNCHANGED <<g_captured, g_dropped, g_written, installed, g_writer, file, pring, capture,
                 call, bursts, late, failed>>

StopRemove ==
  /\ tstep = "remove"
  /\ installed' = Nobody
  /\ tstep' = "close"
  /\ UNCHANGED <<g_active, g_captured, g_dropped, g_written, g_writer, file, pring, capture,
                 call, bursts, late, failed>>

StopClose(written) ==
  /\ tstep = "close"
  /\ Flush(written)
  /\ g_writer' = FALSE
  /\ tstep' = "idle"
  /\ UNCHANGED <<g_active, g_captured, g_dropped, installed, capture, call, bursts, late>>

-----------------------------------------------------------------------------
TNext ==
  \/ \E w \in Lcores : CallEnter(w) \/ CallCheck(w) \/ CallCopy(w) \/ CallNoMemory(w)
  \/ \E w \in Lcores : CallEnqueue(w) \/ CallLose(w)
  \/ \E b \in BOOLEAN : StartOpen(b) \/ pktrace_flush(b) \/ StopClose(b)
  \/ StartCount
  \/ \E w \in Lcores, ok \in BOOLEAN : StartInstall(w, ok)
  \/ StopFlag \/ StopRemove

TSpec == TInit /\ [][TNext]_tvars

-----------------------------------------------------------------------------
(* Properties.                                                             *)

(* The types; the ring keeps its bound.                                    *)
TTypeOK ==
  /\ {g_active, g_writer, late, failed} \subseteq BOOLEAN
  /\ {g_captured, g_dropped} \subseteq 0..(CountMod - 1)
  /\ installed \in Lcores \cup {Nobody}
  /\ Len(pring) <= TraceSlots

(* A file holds packets of its own capture only: what a callback of the    *)
(* last capture enqueues after it pktrace_start drains. And while the file *)
(* is open and no callback runs, g_captured, which `trace stop` and the    *)
(* statistics of the file report, is the number of packets written or      *)
(* waiting in the ring, unless a write failed. Neither is so when a        *)
(* callback outlives the start of the next capture (its subtraction then   *)
(* takes the new count below zero).                                        *)
CaptureExact ==
  /\ TTypeOK
  /\ ~late => \A n \in DOMAIN file : file[n] = capture
  /\ g_writer /\ tstep # "opened" /\ ~Running /\ ~late /\ ~failed =>
       g_captured = g_written + Len(pring)
=============================================================================
