------------------------------- MODULE Server -------------------------------
(***************************************************************************)
(* Server mode (app/server.c): the commands serve and stop of the          *)
(* management thread, the listener table of every worker, and the life of  *)
(* the connections that the workers accept: the dispatch of the TCP state  *)
(* machine to the handlers, the TLS sessions of the connections, and the   *)
(* response that is streamed in chunks.                                    *)
(*                                                                         *)
(* One client, whose segments the RSS of the card brings to one worker,    *)
(* opens one connection after another. The unit of data is a chunk: a      *)
(* send is one unit, and a send to a full buffer is lost. What the client  *)
(* has been sent of a response is counted in pieces (headers, chunks, the  *)
(* last chunk). The TCP state machine is that of TcpConn with its windows  *)
(* and retransmissions left out: data in the buffer is acknowledged sooner *)
(* or later, or the connection is given up.                                *)
(***************************************************************************)
EXTENDS Ipc

CONSTANTS
  Workers,      \* 0..n-1; the command stop reads the table of worker 0
  Ports,
  Nobody,       \* no worker: no client comes
  Scenes,       \* what may happen in a behaviour
  Chunks,       \* chunks of a large body
  PumpLimit,    \* SRV_CHUNK_SIZE * 4, in chunks
  BufCap        \* TCP_SND_BUF_DEFAULT_CAP, in chunks

Handlers == {"echo", "discard", "chargen", "http", "https", "tls_echo"}
TlsHandlers == {"https", "tls_echo"}
ConfigType == [specs : UNION {[1..n -> [port : Ports, handler : Handlers]] : n \in 1..2},
               large : BOOLEAN]

(* A scene: rss, the worker the client's segments arrive at; configs, what *)
(* serve may be asked for; commands, how many are typed.                   *)
ASSUME ServerAssumption ==
  /\ 0 \in Workers /\ Nobody \notin Workers
  /\ \A s \in Scenes : /\ s.rss \in Workers \cup {Nobody} /\ s.commands \in Nat
                       /\ \A cfg \in s.configs : cfg \in ConfigType
  /\ Chunks \in Nat \ {0}
  /\ PumpLimit \in Nat \ {0} /\ BufCap \in Nat /\ PumpLimit < BufCap

VARIABLES
  mgmt,    \* the management thread: [active, cfg, loading, typed]
  ctx,     \* ssl_ctx of g_server_ctx: "none" or "loaded"
  rings,   \* the commands on their way to each worker
  lost,    \* some command found a ring full (history)
  astray,  \* a stop by spec ended another listener, by no fault of its own (history)
  srv,     \* g_srv_tables
  scene,   \* never changes
  conn,    \* the TCB of the client's connection at that worker
  sess     \* g_sessions has a session for that TCB

vars == <<mgmt, ctx, rings, lost, astray, srv, scene, conn, sess>>

rss == scene.rss

Idle == <<>>         \* no serve is being carried out
Garbled == -1        \* the client cannot make out its response any more

(* buf: units in snd_buf; total, sent: of the streamed body; view: pieces  *)
(* of the response the client has been sent; early: it asked again before  *)
(* it had all of an answer; unheard: the worker was not serving when the   *)
(* connection was opened or established (the last three are history).      *)
Closed == [st |-> "CLOSED", port |-> 0, app |-> 0, buf |-> 0, total |-> 0, sent |-> 0,
           view |-> 0, early |-> FALSE, unheard |-> FALSE]

ConnType == [st : {"CLOSED", "SYN_RECEIVED", "ESTABLISHED", "LAST_ACK"}, port : Ports \cup {0},
             app : {0, 10, 11, 12, 20, 21}, buf : 0..BufCap, total : {0, Chunks},
             sent : 0..Chunks, view : {Garbled} \cup 0..Chunks + 1,
             early : BOOLEAN, unheard : BOOLEAN]

Init ==
  /\ mgmt = [active |-> FALSE, cfg |-> [specs |-> <<>>, large |-> FALSE],
             loading |-> Idle, typed |-> 0]
  /\ ctx = "none"
  /\ rings = tgen_ipc_init(Workers)
  /\ lost = FALSE
  /\ astray = FALSE
  /\ srv = [w \in Workers |-> [listeners |-> <<>>, serving |-> FALSE, large |-> FALSE]]
  /\ scene \in Scenes
  /\ conn = Closed
  /\ sess = FALSE

-----------------------------------------------------------------------------
(* The listener table.                                                     *)

srv_table_configure(cfg) ==
  [listeners |-> [i \in DOMAIN cfg.specs |->
                    [port |-> cfg.specs[i].port, handler |-> cfg.specs[i].handler, active |-> TRUE]],
   serving |-> cfg.specs # <<>>, large |-> cfg.large]

srv_table_stop_all(t) ==
  [t EXCEPT !.listeners = [i \in DOMAIN @ |-> [@[i] EXCEPT !.active = FALSE]], !.serving = FALSE]

srv_table_stop_one(t, li) ==
  LET ls == [i \in DOMAIN t.listeners |->
               [t.listeners[i] EXCEPT !.active = @ /\ i # li]]
  IN  [t EXCEPT !.listeners = ls, !.serving = \E i \in DOMAIN ls : ls[i].active]

(* srv_lookup_port: some listener of the port is active. *)
srv_lookup_port(t, port) ==
  \E i \in DOMAIN t.listeners : t.listeners[i].port = port /\ t.listeners[i].active

First(S) == CHOOSE i \in S : \A j \in S : i <= j

(* Mutant: only a listener that is active is found. *)
FindActive(t, port) ==
  LET S == {i \in DOMAIN t.listeners : t.listeners[i].port = port /\ t.listeners[i].active}
  IN  IF S = {} THEN 0 ELSE First(S)

(* srv_find_listener: the first listener of the port, active or not; 0 for *)
(* none.                                                                   *)
srv_find_listener(t, port) ==
  LET S == {i \in DOMAIN t.listeners : t.listeners[i].port = port}
  IN  IF S = {} THEN 0 ELSE First(S)

-----------------------------------------------------------------------------
(* The commands serve and stop.                                            *)

NeedsTls(cfg) == \E i \in DOMAIN cfg.specs : cfg.specs[i].handler \in TlsHandlers

Typed == mgmt.loading = Idle /\ mgmt.typed < scene.commands

(* tgen_ipc_broadcast, whose result nobody looks at. *)
Broadcast(msg) ==
  /\ rings' = tgen_ipc_broadcast(rings, msg)
  /\ lost' = (lost \/ Full(rings) # {})

Serving(cfg, typed) ==
  /\ mgmt' = [active |-> TRUE, cfg |-> cfg, loading |-> Idle, typed |-> typed]
  /\ Broadcast([cmd |-> "SERVE", cfg |-> cfg])

(* cmd_serve. A listener with TLS first needs the certificate:             *)
(* tls_server_ctx_load begins by dropping the context in use.              *)
cmd_serve(cfg) ==
  /\ Typed
  /\ IF NeedsTls(cfg)
       THEN /\ ctx' = "none"
            /\ mgmt' = [mgmt EXCEPT !.loading = <<cfg>>, !.typed = @ + 1]
            /\ UNCHANGED <<rings, lost>>
       ELSE /\ Serving(cfg, mgmt.typed + 1)
            /\ UNCHANGED ctx
  /\ UNCHANGED <<astray, srv, scene, conn, sess>>

ServeLoaded ==
  /\ mgmt.loading # Idle
  /\ ctx' = "loaded"
  /\ Serving(Head(mgmt.loading), mgmt.typed)
  /\ UNCHANGED <<astray, srv, scene, conn, sess>>

(* The certificate cannot be loaded, or it can and the ciphers are wrong.  *)
ServeRefused(left) ==
  /\ mgmt.loading # Idle
  /\ mgmt' = [mgmt EXCEPT !.loading = Idle]
  /\ ctx' = left
  /\ UNCHANGED <<rings, lost, astray, srv, scene, conn, sess>>

AllListeners == 0    \* UINT32_MAX

StopMessage(li, port) ==
  [cmd |-> "STOP_LISTENER", li |-> li, port |-> port,
   sure |-> ~lost /\ \A k \in DOMAIN rings[0] : rings[0][k].cmd # "SERVE"]

(* cmd_stop_gated: all listeners, *)
cmd_stop_all ==
  /\ Typed
  /\ mgmt' = [mgmt EXCEPT !.active = FALSE, !.typed = @ + 1]
  /\ Broadcast(StopMessage(AllListeners, 0))
  /\ UNCHANGED <<ctx, astray, srv, scene, conn, sess>>

(* the listener of a number, *)
cmd_stop_index(li) ==
  /\ Typed
  /\ mgmt' = [mgmt EXCEPT !.typed = @ + 1]
  /\ Broadcast(StopMessage(li, 0))
  /\ UNCHANGED <<ctx, astray, srv, scene, conn, sess>>

(* or that of a spec, by its place in the table of worker 0. *)
cmd_stop_spec(port) ==
  LET li == srv_find_listener(srv[0], port)
  IN  /\ Typed
      /\ mgmt' = [mgmt EXCEPT !.typed = @ + 1]
      /\ IF li = 0 THEN UNCHANGED <<rings, lost>> ELSE Broadcast(StopMessage(li, port))
      /\ UNCHANGED <<ctx, astray, srv, scene, conn, sess>>

-----------------------------------------------------------------------------
(* The handlers, on a record h that the worker carries along: its table t, *)
(* the TCB c, and whether the TCB has a TLS session.                       *)

Handler == [t |-> srv[rss], c |-> conn, sess |-> sess]

(* tls_detach_if_needed *)
Detached(h) == h.sess /\ h.c.app < 2

(* tcp_fsm_reset, and every other end of a connection: the session is      *)
(* detached and the TCB freed.                                             *)
Freed(h) == [h EXCEPT !.c = Closed, !.sess = Detached(h)]

(* Mutant: the sessions stay. *)
FreedAlone(h) == [h EXCEPT !.c = Closed]

(* tcp_fsm_reset_all *)
tcp_fsm_reset_all(h) == Freed(h)

(* What the client makes of the next piece of a response. *)
Piece(c, piece) ==
  CASE c.view = Garbled -> Garbled
    [] piece = "headers" -> IF c.view = 0 THEN 1 ELSE Garbled
    [] piece = "chunk"   -> IF c.view \in 1..Chunks THEN c.view + 1 ELSE Garbled
    [] piece = "last"    -> IF c.view = Chunks + 1 THEN 0 ELSE Garbled
    [] piece = "whole"   -> IF c.view = 0 THEN 0 ELSE Garbled
    [] OTHER             -> c.view

(* tcp_fsm_send, with tcp_snd_buf_append: what does not fit is lost, and   *)
(* no caller looks at the result.                                          *)
tcp_fsm_send(h, piece) ==
  IF h.c.buf < BufCap
    THEN [h EXCEPT !.c.buf = @ + 1, !.c.view = Piece(h.c, piece)]
    ELSE [h EXCEPT !.c.view = IF piece = "data" THEN @ ELSE Garbled]

(* Mutant: chunks are sent whatever waits in the buffer. *)
PumpAlways(h) ==
  IF h.c.app # 12 \/ h.c.total = 0 THEN h
  ELSE IF h.c.sent = h.c.total
    THEN [tcp_fsm_send(h, "last") EXCEPT !.c.app = 11, !.c.total = 0, !.c.sent = 0]
    ELSE [tcp_fsm_send(h, "chunk") EXCEPT !.c.sent = @ + 1]


srv_stream_pump(h) ==
  IF h.c.app # 12 \/ h.c.total = 0 \/ h.c.buf > PumpLimit THEN h
  ELSE IF h.c.sent = h.c.total
    THEN [tcp_fsm_send(h, "last") EXCEPT !.c.app = 11, !.c.total = 0, !.c.sent = 0]
    ELSE [tcp_fsm_send(h, "chunk") EXCEPT !.c.sent = @ + 1]

(* tls_session_attach, for a TCB that has become ESTABLISHED. *)
tls_session_attach(h) ==
  IF ctx = "none" THEN Freed(h) ELSE [h EXCEPT !.c.app = 20, !.sess = TRUE]

srv_on_established(h) ==
  LET li == srv_find_listener(h.t, h.c.port)
      handler == h.t.listeners[li].handler
  IN  IF li = 0 THEN h
      ELSE CASE handler = "chargen"      -> tcp_fsm_send([h EXCEPT !.c.app = 10], "data")
             [] handler \in TlsHandlers  -> tls_session_attach(h)
             [] OTHER                    -> [h EXCEPT !.c.app = 11]

(* The HTTP handler: a request is seen if it comes in one segment.         *)
OnRequest(h) ==
  LET asked == [h EXCEPT !.c.early = @ \/ h.c.buf > 0 \/ h.c.app = 12]
  IN  IF h.t.large
        THEN srv_stream_pump([tcp_fsm_send(asked, "headers")
                              EXCEPT !.c.total = Chunks, !.c.sent = 0, !.c.app = 12])
        ELSE tcp_fsm_send(asked, "whole")

(* A TLS session: the handshake, then data. Of a large body HTTPS sends    *)
(* the headers and no chunk. The answer to a request that fails the        *)
(* handshake is an alert and a reset.                                      *)
OnTls(h, handler, data) ==
  CASE h.c.app = 20 /\ data = "finish" -> tcp_fsm_send([h EXCEPT !.c.app = 21], "data")
    [] h.c.app = 20 /\ data = "bad"    -> Freed(h)
    [] h.c.app = 20                    -> tcp_fsm_send(h, "data")
    [] h.c.app = 21 /\ (handler = "tls_echo" \/ data = "request") -> tcp_fsm_send(h, "data")
    [] OTHER                           -> h

srv_on_data(h, data) ==
  LET li == srv_find_listener(h.t, h.c.port)
      handler == h.t.listeners[li].handler
  IN  IF li = 0 THEN h
      ELSE CASE handler \in {"echo", "chargen"} -> tcp_fsm_send(h, "data")
             [] handler = "http" /\ data = "request" -> OnRequest(h)
             [] handler \in TlsHandlers -> IF h.sess THEN OnTls(h, handler, data) ELSE h
             [] OTHER -> h

-----------------------------------------------------------------------------
(* The worker: commands.                                                   *)

Receives(w, cmd) == rings[w] # <<>> /\ Head(rings[w]).cmd = cmd /\ rings' = tgen_ipc_recv(rings, w)

Becomes(w, table) == srv' = [srv EXCEPT ![w] = table]

(* The connection, if it is at this worker. *)
Handled(h) == conn' = h.c /\ sess' = h.sess
ResetAll(w) == IF w = rss THEN Handled(tcp_fsm_reset_all(Handler)) ELSE UNCHANGED <<conn, sess>>

RecvServe(w) ==
  /\ Receives(w, "SERVE")
  /\ ResetAll(w)
  /\ Becomes(w, srv_table_configure(Head(rings[w]).cfg))
  /\ UNCHANGED <<mgmt, ctx, lost, astray, scene>>

(* The table after a stop. *)
Listening(t, li) == IF li = AllListeners THEN srv_table_stop_all(t) ELSE srv_table_stop_one(t, li)

(* A stop by spec that was sure of its listener finds another one here. *)
Misses(t, msg) ==
  /\ msg.port # 0 /\ msg.sure
  /\ ~(msg.li \in DOMAIN t.listeners /\ t.listeners[msg.li].port = msg.port)

RecvStopListener(w) ==
  LET msg == Head(rings[w])
  IN  /\ Receives(w, "STOP_LISTENER")
      /\ IF msg.li = AllListeners THEN ResetAll(w) ELSE UNCHANGED <<conn, sess>>
      /\ Becomes(w, Listening(srv[w], msg.li))
      /\ astray' = (astray \/ Misses(srv[w], msg))
      /\ UNCHANGED <<mgmt, ctx, lost, scene>>

-----------------------------------------------------------------------------
(* The worker: segments of the client.                                     *)

Input(h) == Handled(h) /\ UNCHANGED <<mgmt, ctx, rings, lost, astray, srv, scene>>

(* A SYN without a TCB: a worker that serves looks for a listener. *)
Syn(port) ==
  /\ rss # Nobody
  /\ conn.st = "CLOSED"
  /\ srv[rss].serving => srv_lookup_port(srv[rss], port)
  /\ Input([Handler EXCEPT !.c.st = "SYN_RECEIVED", !.c.port = port,
                           !.c.unheard = ~srv[rss].serving])

(* The ACK of the SYN-ACK. *)
Establish ==
  LET serving == srv[rss].serving
      h == [Handler EXCEPT !.c.st = "ESTABLISHED", !.c.unheard = @ \/ ~serving]
  IN  /\ conn.st = "SYN_RECEIVED"
      /\ Input(IF serving THEN srv_on_established(h) ELSE h)

(* Part of a request, a whole one, and messages of a TLS handshake. *)
Data == {"none", "part", "request", "finish", "bad"}

(* New data acknowledged: room in the buffer, and for the stream. *)
Acknowledged(h, n) == IF n = 0 THEN h ELSE srv_stream_pump([h EXCEPT !.c.buf = @ - n])

Dispatched(h, data) == IF data # "none" /\ h.c.app >= 10 THEN srv_on_data(h, data) ELSE h

(* A FIN is answered with a FIN, whatever the buffer still holds. *)
Finished(h, fin) ==
  IF fin /\ h.c.st = "ESTABLISHED" THEN [h EXCEPT !.c.st = "LAST_ACK"] ELSE h

(* A segment in ESTABLISHED: its ACK, its data, its FIN. *)
Segment(n, data, fin) ==
  /\ conn.st = "ESTABLISHED" /\ n <= conn.buf
  /\ n > 0 \/ data # "none" \/ fin
  /\ data \in {"finish", "bad"} => conn.app = 20
  /\ Input(Finished(Dispatched(Acknowledged(Handler, n), data), fin))

(* The end: the ACK of the FIN, a RST of the client, or too many           *)
(* retransmissions of what it does not acknowledge.                        *)
Unacknowledged == conn.st \in {"SYN_RECEIVED", "LAST_ACK"} \/ conn.buf > 0
Ended == conn.st # "CLOSED" /\ Input(Freed(Handler))

(* tcp_timer_tick: the stream goes on. *)
TickPump ==
  /\ conn.st = "ESTABLISHED" /\ conn.app = 12
  /\ Input(srv_stream_pump(Handler))

-----------------------------------------------------------------------------
Command ==
  \/ \E cfg \in scene.configs : cmd_serve(cfg)
  \/ cmd_stop_all
  \/ \E li \in 1..2 : cmd_stop_index(li)
  \/ \E port \in Ports : cmd_stop_spec(port)

Client ==
  \/ \E port \in Ports : Syn(port)
  \/ Establish
  \/ \E n \in 0..BufCap, data \in Data, fin \in BOOLEAN : Segment(n, data, fin)
  \/ Ended

Next ==
  \/ Command
  \/ ServeLoaded
  \/ \E left \in {"none", "loaded"} : ServeRefused(left)
  \/ \E w \in Workers : RecvServe(w) \/ RecvStopListener(w)
  \/ Client
  \/ TickPump

(* The workers poll their rings and tick their timers; what the client is  *)
(* sent it acknowledges, or its connection is given up.                    *)
Fairness ==
  /\ \A w \in Workers : WF_vars(RecvServe(w) \/ RecvStopListener(w))
  /\ WF_vars(TickPump)
  /\ WF_vars((Unacknowledged /\ Ended) \/ \E n \in 1..BufCap : Segment(n, "none", FALSE))

Spec == Init /\ [][Next]_vars /\ Fairness

-----------------------------------------------------------------------------
(* Properties.                                                             *)

(* The types; rings and send buffers keep their bounds.                    *)
TypeOK ==
  /\ mgmt.active \in BOOLEAN /\ mgmt.typed \in 0..scene.commands
  /\ mgmt.loading = Idle \/ Head(mgmt.loading) \in scene.configs
  /\ ctx \in {"none", "loaded"} /\ scene \in Scenes
  /\ \A w \in Workers : Len(rings[w]) <= RingSize /\ srv[w].serving \in BOOLEAN
  /\ conn \in ConnType /\ sess \in BOOLEAN /\ astray \in BOOLEAN

(* Workers that have no command left to handle have the same listeners,    *)
(* those of the last serve, and agree on which are active, unless a        *)
(* command found a ring full (tgen_ipc_broadcast). A stop by spec, which   *)
(* is sent as a place in worker 0's table (cmd_stop_gated), ends at each   *)
(* the listener of that port, unless a serve was on its way to worker 0    *)
(* when it was typed.                                                      *)
WorkersAgree ==
  /\ TypeOK
  /\ ~lost => \A v, w \in Workers : rings[v] = <<>> /\ rings[w] = <<>> =>
       /\ srv[v] = srv[w]
       /\ srv_table_configure(mgmt.cfg).listeners =
            [i \in DOMAIN srv[w].listeners |-> [srv[w].listeners[i] EXCEPT !.active = TRUE]]
  /\ ~astray

(* An established connection has its listener's handler, also when the     *)
(* listener was stopped while the connection was being opened              *)
(* (srv_find_listener), unless the worker did not serve at that time.      *)
AcceptedAreServed ==
  LET t  == srv[rss]
      li == srv_find_listener(t, conn.port)
  IN  conn.st = "ESTABLISHED" /\ ~conn.unheard =>
        /\ li \in DOMAIN t.listeners
        /\ conn.app \in CASE t.listeners[li].handler = "chargen"     -> {10}
                          [] t.listeners[li].handler \in TlsHandlers -> {20, 21}
                          [] t.listeners[li].handler = "http"        -> {11, 12}
                          [] OTHER                                   -> {11}

(* A TCB has a TLS session exactly while it is one of a TLS connection: no *)
(* session outlives its connection to be met by the next one               *)
(* (tls_detach_if_needed).                                                 *)
SessionsOwned == sess <=> conn.app \in {20, 21}

(* The client of the HTTP handler is sent well-formed responses: headers,  *)
(* every chunk and the last one, none lost to a full buffer                *)
(* (srv_stream_pump), unless it asks again before it has the answer.       *)
ResponsesWhole == conn.view = Garbled => conn.early

Streaming == conn.st = "ESTABLISHED" /\ conn.app = 12


(* A comment of tcp_fsm_input on its SYNs: "In server mode, only accept    *)
(* SYNs on ports with listeners". Stated of a worker that was given        *)
(* listeners.                                                              *)
OnlyListenersAccept ==
  [][conn.st = "CLOSED" /\ conn'.st = "SYN_RECEIVED" /\ srv[rss].listeners # <<>> =>
       srv_lookup_port(srv[rss], conn'.port)]_vars
=============================================================================
