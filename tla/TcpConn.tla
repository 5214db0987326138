------------------------------ MODULE TcpConn ------------------------------
(***************************************************************************)
(* The TCP state machine (vaigAI/src/net/tcp_fsm.c) at both ends of a      *)
(* connection: a client C that connects, sends a request and closes when   *)
(* it has the response, and a server S that answers (app/server.c, HTTP    *)
(* handler). Between them a network that reorders segments and may lose    *)
(* and duplicate some.                                                     *)
(*                                                                         *)
(* The unit of data is one full segment. A request is one unit, a response *)
(* is client.response of them; the value of a unit is its place in it.     *)
(* TLS, keep-alive and the throughput mode are left out.                   *)
(* Initial sequence numbers are drawn 10 apart and never wrap around. An   *)
(* armed RTO may expire at any time, which covers every estimate of the    *)
(* round-trip time and every delay of the timer wheel.                     *)
(* The ends are those of one tuple of addresses and ports: connections of  *)
(* other tuples have TCBs of their own, and the hold-off of the port pool  *)
(* keeps a tuple from being used again while segments are under way.       *)
(***************************************************************************)
EXTENDS Integers, Sequences, FiniteSets, SequencesExt

CONSTANTS
  Clients,     \* kinds of client, of ClientType
  Wnd,         \* 65535 bytes: the first window, and the window of the peer
  Retries,     \* TCP_MAX_RETRANSMITS
  SynRetries,  \* the 3 of SYN_SENT
  MaxOpens,    \* how often an end opens a connection
  MaxLoss,     \* segments the network loses
  MaxDup       \* segments the network duplicates

Ends == {"C", "S"}

(* mode: connect only, or send a request; graceful: tcb->graceful_close,   *)
(* end with a FIN and not with a RST; response: length of the response.    *)
ClientType == [mode : {"syn", "http"}, graceful : BOOLEAN, response : 1..8]

ASSUME TcpAssumption ==
  /\ Clients \subseteq ClientType /\ Wnd \in Nat \ {0}
  /\ Retries \in Nat /\ SynRetries \in Nat
  /\ MaxOpens \in [Ends -> Nat] /\ MaxLoss \in Nat /\ MaxDup \in Nat

Peer(e) == IF e = "C" THEN "S" ELSE "C"
Gap == 10                                  \* between initial sequence numbers
Unlimited == 99                            \* ssthresh = UINT32_MAX
Flags == {"SYN", "ACK", "FIN", "RST"}
Synchronized == {"ESTABLISHED", "FIN_WAIT_1", "FIN_WAIT_2", "CLOSE_WAIT",
                 "CLOSING", "LAST_ACK"}

VARIABLES
  client,   \* the kind of client; never changes
  tcb,      \* the TCB of each end
  net,      \* the segments under way
  got,      \* the data the client got, in its last connection
  opens,    \* connections each end opened so far
  faults    \* segments lost and duplicated so far

vars == <<client, tcb, net, got, opens, faults>>

(* A TCB that is not in use. buf: the data in snd_buf; rto, pend: the      *)
(* timer and the delayed ACK; body: units of the response received.        *)
Closed == [st |-> "CLOSED", isn |-> 0, una |-> 0, nxt |-> 0, rcv |-> 0, buf |-> <<>>,
           rto |-> FALSE, retr |-> 0, cwnd |-> 0, ssth |-> Unlimited, fast |-> FALSE,
           dup |-> 0, pend |-> FALSE, app |-> 0, body |-> 0]

Lesser(a, b)  == IF a < b THEN a ELSE b
Greater(a, b) == IF a > b THEN a ELSE b

-----------------------------------------------------------------------------
(* The operations of the state machine, on a record h that a handler       *)
(* carries along: the end, its TCB, the segments sent so far and the data  *)
(* given to the application. The metrics counters are left out.            *)

Handler(e) == [e |-> e, c |-> tcb[e], out |-> {}, got |-> got]

tcp_send_segment(h, flags, data, seq) ==
  [h EXCEPT !.out = @ \cup {[to |-> Peer(h.e), flags |-> flags, seq |-> seq,
                             ack |-> IF "ACK" \in flags THEN h.c.rcv ELSE 0, data |-> data]},
            !.c.pend = @ /\ ~("ACK" \in flags /\ "SYN" \notin flags)]

SendAck(h) == tcp_send_segment(h, {"ACK"}, <<>>, h.c.nxt)

(* The loop sends what the window allows of the data not sent yet. *)
snd_buf_drain(h) ==
  LET c    == h.c
      from == c.nxt - c.una
      upto == Lesser(Len(c.buf), Lesser(c.cwnd, Wnd))
      n    == Greater(upto - from, 0)
  IN  [h EXCEPT !.out = @ \cup {[to |-> Peer(h.e), flags |-> {"ACK"}, seq |-> c.una + i - 1,
                                 ack |-> c.rcv, data |-> <<c.buf[i]>>] : i \in (from + 1)..(from + n)},
                !.c.nxt = @ + n,
                !.c.pend = @ /\ n = 0]

tcp_fsm_send(h, data) ==
  IF h.c.st \notin {"ESTABLISHED", "CLOSE_WAIT"} THEN h
  ELSE LET d == snd_buf_drain([h EXCEPT !.c.buf = @ \o data])
       IN  [d EXCEPT !.c.rto = @ \/ d.c.nxt # d.c.una]

(* Mutant: no timer is set for the FIN. *)
tcp_fsm_close_unarmed(h) ==
  IF h.c.st \notin {"ESTABLISHED", "CLOSE_WAIT"} THEN h
  ELSE [tcp_send_segment(h, {"FIN", "ACK"}, <<>>, h.c.nxt)
        EXCEPT !.c.nxt = @ + 1,
               !.c.st = IF @ = "ESTABLISHED" THEN "FIN_WAIT_1" ELSE "LAST_ACK"]

tcp_fsm_close(h) ==
  IF h.c.st \notin {"ESTABLISHED", "CLOSE_WAIT"} THEN h
  ELSE [tcp_send_segment(h, {"FIN", "ACK"}, <<>>, h.c.nxt)
        EXCEPT !.c.nxt = @ + 1,
               !.c.st = IF @ = "ESTABLISHED" THEN "FIN_WAIT_1" ELSE "LAST_ACK",
               !.c.rto = TRUE]

(* tcp_port_free or tcp_port_free_immediate, then tcb_free. *)
Free(h) == [h EXCEPT !.c = Closed]

tcp_fsm_reset(h) ==
  Free(tcp_send_segment(h, {"RST", "ACK"}, <<>>, h.c.nxt))

-----------------------------------------------------------------------------
(* Congestion control, New Reno (tcp_congestion.c). In congestion          *)
(* avoidance the window grows by less than a segment: grow says whether    *)
(* it has become a whole one.                                              *)

congestion_on_ack(c, grow) ==
  IF c.fast THEN [c EXCEPT !.cwnd = c.ssth, !.fast = FALSE]
  ELSE IF c.cwnd < c.ssth \/ grow THEN [c EXCEPT !.cwnd = Lesser(@ + 1, Wnd)]
  ELSE c

congestion_fast_retransmit(c) ==
  LET ss == Greater((c.nxt - c.una) \div 2, 2)
  IN  [c EXCEPT !.ssth = ss, !.cwnd = Lesser(ss + 3, Wnd), !.fast = TRUE]

congestion_on_rto(c) ==
  [c EXCEPT !.ssth = Greater((c.nxt - c.una) \div 2, 2), !.cwnd = 1,
            !.fast = FALSE, !.dup = 0]
-----------------------------------------------------------------------------
(* tcp_fsm_input, state by state, for a segment s.                         *)

Has(s, f) == f \in s.flags

(* The ACK of new data: the window opens, the acknowledged data is         *)
(* trimmed, the RTO is disarmed or restarted and more data is sent.        *)
(* Mutant: the whole send buffer is dropped.                               *)
NewAckTrimsAll(h, s, grow) ==
  LET nxt == Greater(h.c.nxt, s.ack)
      c   == congestion_on_ack([h.c EXCEPT !.una = s.ack, !.nxt = nxt, !.dup = 0], grow)
  IN  snd_buf_drain([h EXCEPT !.c = [c EXCEPT !.retr = 0, !.buf = <<>>, !.rto = nxt # s.ack]])

NewAck(h, s, grow) ==
  LET nxt == Greater(h.c.nxt, s.ack)
      c   == congestion_on_ack([h.c EXCEPT !.una = s.ack, !.nxt = nxt, !.dup = 0], grow)
      buf == SubSeq(c.buf, Lesser(s.ack - h.c.una, Len(c.buf)) + 1, Len(c.buf))
  IN  snd_buf_drain([h EXCEPT !.c = [c EXCEPT !.retr = 0, !.buf = buf, !.rto = nxt # s.ack]])

(* An ACK of nothing new; the third one in a row repeats the first unit. *)
DupAck(h) ==
  LET d == [h EXCEPT !.c.dup = @ + 1]
      f == [d EXCEPT !.c = congestion_fast_retransmit(@)]
  IN  IF d.c.dup # 3 THEN d
      ELSE IF h.c.buf = <<>> THEN f
      ELSE tcp_send_segment(f, {"ACK"}, <<h.c.buf[1]>>, h.c.una)

ProcessAck(h, s, grow) ==
  IF ~Has(s, "ACK") THEN h
  ELSE IF s.ack > h.c.una THEN NewAck(h, s, grow)
  ELSE IF s.ack = h.c.una THEN DupAck(h)
  ELSE h

(* The response began or went on; when it is complete the connection is    *)
(* closed (http_rsp_body_start, http_rsp_body_recv).                       *)
http_rsp_body(h) ==
  LET b == [h EXCEPT !.c.body = @ + 1]
  IN  IF b.c.body >= client.response THEN tcp_fsm_close([b EXCEPT !.c.app = 0])
      ELSE [b EXCEPT !.c.app = 6]

(* A client without keep-alive gets a segment of its response. *)
HttpResponse(h) ==
  IF h.c.app = 5 /\ ~client.graceful THEN tcp_fsm_reset(h)
  ELSE IF h.c.app \in {5, 6} THEN http_rsp_body(h)
  ELSE h

(* Data in order is taken, and its ACK deferred. A server answers every    *)
(* request at once (srv_on_data) and acknowledges it. Mutant: data ahead   *)
(* of a gap is taken too.                                                  *)
ProcessDataAhead(h, s) ==
  IF s.data = <<>> \/ s.seq < h.c.rcv THEN h
  ELSE LET d == [h EXCEPT !.c.rcv = @ + 1, !.c.pend = TRUE,
                          !.got = IF h.e = "C" THEN @ \o s.data ELSE @]
       IN  IF d.c.app >= 10 THEN SendAck(tcp_fsm_send(d, [i \in 1..client.response |-> i]))
           ELSE HttpResponse(d)

ProcessData(h, s) ==
  IF s.data = <<>> \/ s.seq # h.c.rcv THEN h
  ELSE LET d == [h EXCEPT !.c.rcv = @ + 1, !.c.pend = TRUE,
                          !.got = IF h.e = "C" THEN @ \o s.data ELSE @]
       IN  IF d.c.app >= 10 THEN SendAck(tcp_fsm_send(d, [i \in 1..client.response |-> i]))
           ELSE HttpResponse(d)

(* A FIN is taken whatever its sequence number; CLOSE_WAIT is left at once. *)
ProcessFin(h, s) ==
  IF ~Has(s, "FIN") \/ h.c.st # "ESTABLISHED" THEN h
  ELSE tcp_fsm_close(SendAck([h EXCEPT !.c.rcv = @ + 1, !.c.st = "CLOSE_WAIT"]))

InEstablished(h, s, grow) == ProcessFin(ProcessData(ProcessAck(h, s, grow), s), s)

InSynSent(h, s) ==
  IF {"SYN", "ACK"} \subseteq s.flags THEN
    IF s.ack # h.c.nxt THEN tcp_fsm_reset(h)
    ELSE LET a == SendAck([h EXCEPT !.c.rcv = s.seq + 1, !.c.una = s.ack, !.c.cwnd = Wnd,
                                    !.c.st = "ESTABLISHED", !.c.retr = 0, !.c.rto = FALSE])
         IN  IF client.mode = "http" THEN [tcp_fsm_send(a, <<1>>) EXCEPT !.c.app = 5]
             ELSE IF client.graceful THEN tcp_fsm_close(a) ELSE tcp_fsm_reset(a)
  ELSE IF Has(s, "ACK") /\ ~Has(s, "RST") /\ s.ack = h.c.nxt THEN tcp_fsm_reset(h)
  ELSE h

(* The data or FIN of the segment is not looked at; the RTO stays armed.   *)
(* srv_on_established sets app_state to 11.                                *)
InSynReceived(h, s) ==
  IF Has(s, "ACK") /\ s.seq = h.c.rcv
    THEN [h EXCEPT !.c.una = s.ack, !.c.st = "ESTABLISHED", !.c.app = 11]
    ELSE h

InFinWait1(h, s) ==
  LET new   == Has(s, "ACK") /\ s.ack > h.c.una
      acked == new /\ s.ack = h.c.nxt
      data  == s.data # <<>> /\ s.seq = h.c.rcv
      d     == [h EXCEPT !.c.una = IF new THEN s.ack ELSE @, !.c.rcv = IF data THEN @ + 1 ELSE @]
      f     == SendAck([d EXCEPT !.c.rcv = @ + 1])
      w     == IF acked THEN [d EXCEPT !.c.st = "FIN_WAIT_2"] ELSE d
  IN  IF Has(s, "FIN")
        THEN IF acked THEN Free(f) ELSE [f EXCEPT !.c.st = "CLOSING", !.c.rto = TRUE]
        ELSE IF s.data # <<>> THEN SendAck(w) ELSE w

InFinWait2(h, s) ==
  LET data == s.data # <<>> /\ s.seq = h.c.rcv
      d    == [h EXCEPT !.c.rcv = IF data THEN @ + 1 ELSE @]
  IN  IF Has(s, "FIN") THEN Free(SendAck([d EXCEPT !.c.rcv = @ + 1]))
      ELSE IF s.data # <<>> THEN SendAck(d) ELSE d

InClosing(h, s) == IF Has(s, "ACK") /\ s.ack >= h.c.nxt THEN Free(h) ELSE h

InLastAck(h, s) == IF Has(s, "ACK") THEN Free(h) ELSE h

ByState(h, s, grow) ==
  CASE h.c.st = "SYN_SENT"     -> InSynSent(h, s)
    [] h.c.st = "SYN_RECEIVED" -> InSynReceived(h, s)
    [] h.c.st = "ESTABLISHED"  -> InEstablished(h, s, grow)
    [] h.c.st = "FIN_WAIT_1"   -> InFinWait1(h, s)
    [] h.c.st = "FIN_WAIT_2"   -> InFinWait2(h, s)
    [] h.c.st = "CLOSING"      -> InClosing(h, s)
    [] h.c.st = "LAST_ACK"     -> InLastAck(h, s)

(* The receive window is larger than any connection. *)
ProcessRst(h, s) ==
  LET valid == IF h.c.st = "SYN_SENT" THEN Has(s, "ACK") /\ s.ack = h.c.nxt
               ELSE s.seq \in h.c.rcv..(h.c.rcv + Gap - 1)
  IN  IF Has(s, "RST") /\ h.c.st # "CLOSED" /\ valid THEN Free(h) ELSE h
-----------------------------------------------------------------------------
(* The actions.                                                            *)

Init ==
  /\ client \in Clients
  /\ tcb = [e \in Ends |-> Closed]
  /\ net = {}
  /\ got = <<>>
  /\ opens = [e \in Ends |-> 0]
  /\ faults = [lost |-> 0, dup |-> 0]

(* What a handler did takes effect; the segment it was given is in used. *)
Return(h, used) ==
  /\ tcb' = [tcb EXCEPT ![h.e] = h.c]
  /\ net' = (net \ used) \cup h.out
  /\ got' = h.got
  /\ UNCHANGED client

(* The next initial sequence number: one not used before. *)
isn_generate == Gap * (opens["C"] + opens["S"])

Opened(e) == opens[e] < MaxOpens[e] /\ opens' = [opens EXCEPT ![e] = @ + 1]

tcp_fsm_connect ==
  LET c == [Closed EXCEPT !.st = "SYN_SENT", !.isn = isn_generate,
                          !.una = isn_generate, !.nxt = isn_generate + 1,
                          !.cwnd = Lesser(3, Wnd), !.rto = TRUE]
      h == [Handler("C") EXCEPT !.c = c, !.got = <<>>]
  IN  /\ tcb["C"].st = "CLOSED" /\ Opened("C")
      /\ Return(tcp_send_segment(h, {"SYN"}, <<>>, c.isn), {})
      /\ UNCHANGED faults

(* The segment may stay under way: it was duplicated. *)
Consumed(s, again) ==
  /\ again => faults.dup < MaxDup
  /\ faults' = [faults EXCEPT !.dup = @ + (IF again THEN 1 ELSE 0)]

(* A SYN for a port with a listener and no TCB. *)
PassiveOpen(s, again) ==
  LET c == [Closed EXCEPT !.st = "SYN_RECEIVED", !.isn = isn_generate,
                          !.una = isn_generate, !.nxt = isn_generate + 1,
                          !.rcv = s.seq + 1, !.cwnd = Wnd, !.rto = TRUE]
      h == [Handler("S") EXCEPT !.c = c]
  IN  /\ s.to = "S" /\ tcb["S"].st = "CLOSED" /\ s.flags = {"SYN"} /\ Opened("S")
      /\ Return(tcp_send_segment(h, {"SYN", "ACK"}, <<>>, c.isn), IF again THEN {} ELSE {s})
      /\ Consumed(s, again)

(* A segment without a TCB is dropped silently. *)
Dropped(s, again) ==
  /\ tcb[s.to].st = "CLOSED" /\ (s.flags = {"SYN"} => s.to = "C" \/ opens["S"] = MaxOpens["S"])
  /\ net' = IF again THEN net ELSE net \ {s}
  /\ UNCHANGED <<client, tcb, got, opens>>
  /\ Consumed(s, again)

Received(s, again) ==
  /\ tcb[s.to].st # "CLOSED"
  /\ \E grow \in BOOLEAN :
       Return(ProcessRst(ByState(Handler(s.to), s, grow), s), IF again THEN {} ELSE {s})
  /\ UNCHANGED opens
  /\ Consumed(s, again)

tcp_fsm_input(s, again) == PassiveOpen(s, again) \/ Dropped(s, again) \/ Received(s, again)

(* Go-back-N; a FIN is sent with the sequence number of the oldest data. *)
Retransmit(h) ==
  CASE h.c.st = "SYN_SENT" -> tcp_send_segment(h, {"SYN"}, <<>>, h.c.una)
    [] h.c.st = "SYN_RECEIVED" -> tcp_send_segment(h, {"SYN", "ACK"}, <<>>, h.c.una)
    [] h.c.st \in {"FIN_WAIT_1", "LAST_ACK"} ->
         tcp_send_segment(h, {"FIN", "ACK"}, <<>>, h.c.una)
    [] h.c.st = "ESTABLISHED" /\ h.c.buf # <<>> -> snd_buf_drain([h EXCEPT !.c.nxt = h.c.una])
    [] OTHER -> h

(* The RTO. Nothing expires in FIN_WAIT_2 or, in timer_fire, CLOSE_WAIT.   *)
tcp_fsm_rto_expired(e) ==
  LET h == [Handler(e) EXCEPT !.c.retr = @ + 1]
      n == IF h.c.st = "SYN_SENT" THEN SynRetries ELSE Retries
  IN  /\ tcb[e].rto /\ tcb[e].st # "FIN_WAIT_2"
      /\ Return(IF h.c.retr > n THEN tcp_fsm_reset(h)
                ELSE Retransmit([h EXCEPT !.c = congestion_on_rto(@)]), {})
      /\ UNCHANGED <<opens, faults>>

(* The other cases of timer_fire, and the flush of delayed ACKs. *)
HttpTimeout(e) ==
  /\ tcb[e].st = "ESTABLISHED" /\ tcb[e].app = 5
  /\ Return(tcp_fsm_reset(Handler(e)), {})
  /\ UNCHANGED <<opens, faults>>

FinWait2Timeout(e) ==
  /\ tcb[e].st = "FIN_WAIT_2"
  /\ Return(Free(Handler(e)), {})
  /\ UNCHANGED <<opens, faults>>

FlushAck(e) ==
  /\ tcb[e].pend
  /\ Return(SendAck(Handler(e)), {})
  /\ UNCHANGED <<opens, faults>>

TimerTick(e) ==
  tcp_fsm_rto_expired(e) \/ HttpTimeout(e) \/ FinWait2Timeout(e) \/ FlushAck(e)

Lose(s) ==
  /\ faults.lost < MaxLoss
  /\ net' = net \ {s}
  /\ faults' = [faults EXCEPT !.lost = @ + 1]
  /\ UNCHANGED <<client, tcb, got, opens>>

Next ==
  \/ tcp_fsm_connect
  \/ \E s \in net, again \in BOOLEAN : tcp_fsm_input(s, again)
  \/ \E e \in Ends : TimerTick(e)
  \/ \E s \in net : Lose(s)

Spec == Init /\ [][Next]_vars

(* The client's worker polls: while timers of the client are to be acted   *)
(* upon, one of them is.                                                   *)
Fairness == WF_vars(TimerTick("C"))

FairSpec == Spec /\ Fairness

-----------------------------------------------------------------------------
(* Properties.                                                             *)

(* The types of both ends and of the segments; retries keep their bound (tcp_fsm_rto_expired). *)
TypeOK ==
  /\ \A e \in Ends :
       /\ tcb[e].st \in {"CLOSED", "SYN_SENT", "SYN_RECEIVED"} \cup (Synchronized \ {"CLOSE_WAIT"})
       /\ tcb[e].una \in Nat /\ tcb[e].nxt \in Nat /\ tcb[e].rcv \in Nat
       /\ tcb[e].buf \in Seq(1..client.response)
       /\ tcb[e].retr \in 0..Greater(Retries, SynRetries) /\ tcb[e].cwnd \in 0..Greater(Wnd, 5)
       /\ tcb[e].app \in {0, 5, 6, 11} /\ tcb[e].body \in 0..client.response
  /\ \A s \in net : s.to \in Ends /\ s.flags \subseteq Flags /\ s.seq \in Nat /\ s.ack \in Nat
  /\ \A e \in Ends : opens[e] \in 0..MaxOpens[e]

(* Whatever the network does, the data a client gets is the beginning of   *)
(* the response: nothing is missing, doubled or out of place (the trimming *)
(* and go-back-N of the send buffer, the test seq == rcv_nxt).             *)
InOrder == \A i \in DOMAIN got : got[i] = i

(* The send buffer starts at the oldest unacknowledged byte (NewAck,       *)
(* go-back-N after a timeout, tcp_snd_buf_ack): the units of a server's    *)
(* buffer are the ones behind snd_una, and snd_nxt is within them.         *)
BufferAligned ==
  LET c == tcb["S"]
  IN  /\ TypeOK
      /\ c.st = "ESTABLISHED" =>
        /\ \A i \in DOMAIN c.buf : c.buf[i] = c.una - c.isn - 1 + i
        /\ c.una <= c.nxt /\ c.nxt <= c.una + Len(c.buf)

(* The RTO is armed while an established end has unacknowledged data       *)
(* (tcp_fsm_send, the ACK of part of the data, go-back-N).                 *)
InFlightIsArmed ==
  \A e \in Ends : tcb[e].st = "ESTABLISHED" /\ tcb[e].una # tcb[e].nxt => tcb[e].rto

(* Whatever the network does, the connection of a client that waits for a  *)
(* response of one segment comes to an end: each state it can be in has a  *)
(* timer that leads on (timer_fire, tcp_fsm_rto_expired), so that its port *)
(* and its TCB come back.                                                  *)
ClientEnds == client.response = 1 /\ tcb["C"].st # "CLOSED" ~> tcb["C"].st = "CLOSED"
=============================================================================
