----------------------------- MODULE FlowControl -----------------------------
(***************************************************************************)
(* Client flows: the management thread starts, stops and resets them and   *)
(* watches the ones started with --one (mgmt/cli.c, mgmt/mgmt_loop.c); the *)
(* workers handle its commands between their bursts (core/worker_loop.c)   *)
(* and generate traffic for the flows they know (core/tx_gen.c); the two   *)
(* share the counters (telemetry/metrics.c).                               *)
(*                                                                         *)
(* A command that waits (--one) polls the remote command line while it     *)
(* waits, so a remote client's command runs inside it: the blocked         *)
(* commands form a stack.                                                  *)
(*                                                                         *)
(* A connection is what TcpConn shows it to be: a TCB that is in the       *)
(* handshake, established, and then gone, by a close or by a reset; its    *)
(* segments are left out. A duration or timeout may have passed at any     *)
(* time after it began.                                                    *)
(***************************************************************************)
EXTENDS Ipc, FiniteSets, TLC

CONSTANTS
  NWorkers,   \* the most workers there are
  NSlots,     \* TGEN_MAX_CLIENT_FLOWS
  NTcbs,      \* the most TCBs a worker has
  MaxBurst,   \* TX_GEN_MAX_BURST
  Scenes      \* what the environment may do, see SceneType

ASSUME FlowAssumption ==
  /\ NWorkers \in Nat \ {0} /\ NSlots \in Nat \ {0} /\ NTcbs \in Nat \ {0}
  /\ MaxBurst \in Nat \ {0, 1}

AllWorkers == 0..(NWorkers - 1)
Slots == 0..(NSlots - 1)
Tcbs  == 1..NTcbs
All   == -1                                          \* UINT32_MAX as a slot
Kinds == {"dgram", "tcp", "http", "tput"}            \* tput: --reuse

(* flows: the flows that may be started, as a set of [kind, one];          *)
(* starts: how many; workers: the workers; owners: those that have a queue *)
(* of the egress port; tcbs: the TCBs of a worker (and TCP_MAX_INFLIGHT);  *)
(* prompt: a worker handles its commands within the delays of the          *)
(* management thread; remote: there is a remote client; rates: whether     *)
(* `set rate` sets a limit or none; stray: segments of unknown connections *)
(* arrive; reset, quit: these commands may be given.                       *)
SceneType ==
  [flows : SUBSET [kind : Kinds, one : BOOLEAN], starts : Nat,
   workers : {0..n : n \in AllWorkers}, owners : SUBSET AllWorkers,
   tcbs : SUBSET Tcbs, prompt : BOOLEAN, remote : BOOLEAN, rates : SUBSET BOOLEAN,
   stray : BOOLEAN, reset : BOOLEAN, quit : BOOLEAN]

ASSUME SceneAssumption == Scenes \subseteq SceneType

VARIABLES
  scene,    \* what the environment does
  run,      \* g_run
  exited,   \* the workers that have left their loop
  down,     \* tgen_cleanup has released the rings
  starts,   \* the flows started so far: flow i was started as starts[i]
  flow,     \* g_client_flows: a slot's flow and whether it is active
  stack,    \* the --one commands that wait, the innermost last
  wait,     \* what mgmt_traffic_stop_flow or cmd_reset does after its delay
  ring,     \* g_ipc_rings
  gen,      \* tx_gen of every worker
  tcb,      \* the TCBs of every worker: the flow and state of a connection
  req,      \* g_http_req: the flow whose request is prebuilt, 0 if none
  metrics,  \* g_metrics: the events counted, summed over workers and flows
  hist      \* history, see Init

mvars == <<run, down, starts, flow, stack, wait>>
wvars == <<exited, gen, tcb, req>>
vars  == <<scene, mvars, wvars, ring, metrics, hist>>

Workers == scene.workers

Idle   == [active |-> FALSE, id |-> 0, limited |-> FALSE, tokens |-> 0,
           sent |-> 0, phase |-> 0, streams |-> {}]
NoConn == [id |-> 0, st |-> "free"]
NoFlow == [active |-> FALSE, id |-> 0]
NoWait == [then |-> "none", one |-> FALSE]

Init ==
  /\ scene \in Scenes
  /\ run = TRUE /\ exited = {} /\ down = FALSE
  /\ starts = <<>>
  /\ flow = [s \in Slots |-> NoFlow]
  /\ stack = <<>>
  /\ wait = NoWait
  /\ ring = tgen_ipc_init(Workers)
  /\ gen = [w \in Workers |-> [s \in Slots |-> Idle]]
  /\ tcb = [w \in Workers |-> [k \in Tcbs |-> NoConn]]
  /\ req = [w \in Workers |-> 0]
  /\ metrics = {}
  /\ hist = [lost    |-> {},      \* <<worker, slot>> whose command was dropped
             quiet   |-> {},      \* --one flows that have had vaigAI to themselves
             sent    |-> 0,       \* connections or packets of the quiet flow, up to 2
             own     |-> {},      \* <<event, flow>> of the active --one flows
             early   |-> {},      \* --one flows found done without one
             ended   |-> {},      \* flows a connection of which the peer ended
             raced   |-> FALSE,   \* a reset was let through with a START on its way
             mixed   |-> FALSE,   \* a START for HTTP met another HTTP flow
             found   |-> FALSE,   \* a RESET met an active generator
             strayed |-> {},      \* throughput flows that wrote to others' connections
             wrong   |-> FALSE]   \* a request was not the one of its flow

Cfg(i) == starts[i]
client_any_active == \E s \in Slots : flow[s].active
Conns(w) == {k \in Tcbs : tcb[w][k] # NoConn}

-----------------------------------------------------------------------------
(* Counters.                                                               *)

(* The events some --one flow of the scene waits for; no other counter is  *)
(* read.                                                                   *)
Events ==
  LET Reads(k) == CASE k = "dgram" -> {"tx"}
                    [] k = "http"  -> {"rsp", "close", "reset"}
                    [] OTHER       -> {"close", "reset"}
  IN  UNION {Reads(f.kind) : f \in {g \in scene.flows : g.one}}

(* What traffic_gen_tick_flow and the loop of cmd_start take for the end   *)
(* of a --one flow: the totals of all workers and of all flows.            *)
Done(kind, counted) ==
  CASE kind = "dgram" -> "tx" \in counted
    [] kind = "http"  -> {"rsp", "close"} \subseteq counted \/ "reset" \in counted
    [] OTHER          -> "close" \in counted \/ "reset" \in counted

Busy(w) == w \notin exited /\ (Conns(w) # {} \/ \E s \in Slots : gen[w][s].active)


(* metrics_reset clears the counters of running workers without a lock. A  *)
(* worker that has just loaded a counter stores it back, incremented.      *)
MetricsReset ==
  \E e \in (IF \E w \in Workers : Busy(w) THEN Events ELSE {}) \cup {"none"} :
    metrics' = metrics \cap {e}

-----------------------------------------------------------------------------
(* The management thread.                                                  *)

Msg(cmd, s, i) == [cmd |-> cmd, slot |-> s, id |-> i, limited |-> FALSE]

(* A command can be given: from standard input in the main loop, from a    *)
(* remote client also while --one waits.                                   *)
AtPrompt == run /\ wait = NoWait /\ (stack = <<>> \/ scene.remote)

FreeSlots == {s \in Slots : ~flow[s].active}

Quiet ==
  /\ ~client_any_active
  /\ \A w \in Workers : ring[w] = <<>> /\ ~Busy(w)

(* A --one flow goes to worker 0 only. *)
SendStart(one, msg) ==
  IF one THEN tgen_ipc_send(ring, 0, msg) ELSE tgen_ipc_broadcast(ring, msg)

(* cmd_start, once its arguments are accepted and the next hop is          *)
(* resolved, with mgmt_traffic_start. The first flow clears the counters.  *)
cmd_start(c) ==
  LET s    == CHOOSE t \in FreeSlots : \A u \in FreeSlots : t <= u
      i    == Len(starts) + 1
      dest == IF c.one THEN {0} ELSE Workers
  IN  /\ AtPrompt
      /\ Len(starts) < scene.starts
      /\ FreeSlots # {}
      /\ IF client_any_active THEN UNCHANGED metrics ELSE MetricsReset
      /\ starts' = Append(starts, c)
      /\ flow' = [flow EXCEPT ![s] = [active |-> TRUE, id |-> i]]
      /\ ring' = SendStart(c.one, Msg("START", s, i))
      /\ stack' = IF c.one THEN Append(stack, [slot |-> s, id |-> i]) ELSE stack
      /\ hist' = [hist EXCEPT !.lost = @ \cup ((Full(ring) \cap dest) \X {s}),
                              !.quiet = IF c.one /\ Quiet THEN {i} ELSE {},
                              !.sent = 0]
      /\ UNCHANGED <<run, down, wait, wvars>>

(* mgmt_traffic_stop_flow up to its delay. *)
mgmt_traffic_stop_flow(s) ==
  /\ flow' = [flow EXCEPT ![s] = NoFlow]
  /\ wait' = [then |-> "summary", one |-> Cfg(flow[s].id).one]
  /\ ring' = tgen_ipc_broadcast(ring, Msg("STOP_FLOW", s, 0))

Stopped(ss) ==
  [hist EXCEPT !.lost = @ \cup (Full(ring) \X ss),
               !.own = {o \in @ : \A s \in ss : flow[s].id # o[2]}]

(* The delays of 100, 300 and 1000 ms. *)
DelayOver == scene.prompt => \A w \in Workers \ exited : ring[w] = <<>>

(* The rest of mgmt_traffic_stop_flow: the end of the last --one flow      *)
(* resets the workers,                                                     *)
StopSummary ==
  /\ wait.then = "summary" /\ DelayOver
  /\ IF wait.one /\ ~client_any_active
       THEN /\ ring' = tgen_ipc_broadcast(ring, Msg("RESET", All, 0))
            /\ wait' = [wait EXCEPT !.then = "metrics"]
       ELSE wait' = NoWait /\ UNCHANGED ring
  /\ UNCHANGED <<run, down, starts, flow, stack, wvars, metrics, hist>>

(* and then, as in cmd_reset, the counters.                                *)
ResetMetrics ==
  /\ wait.then = "metrics" /\ DelayOver
  /\ wait' = NoWait
  /\ MetricsReset
  /\ UNCHANGED <<run, down, starts, flow, stack, wvars, ring, hist>>

(* stop <id>. *)
cmd_stop_client(s) ==
  /\ AtPrompt /\ flow[s].active
  /\ mgmt_traffic_stop_flow(s)
  /\ hist' = Stopped({s})
  /\ UNCHANGED <<run, down, starts, stack, wvars, metrics>>

(* stop, stop all. *)
mgmt_traffic_stop_all ==
  /\ AtPrompt /\ client_any_active
  /\ ring' = tgen_ipc_broadcast(ring, Msg("STOP_FLOW", All, 0))
  /\ hist' = Stopped(Slots)
  /\ flow' = [s \in Slots |-> NoFlow]
  /\ wait' = [then |-> "return", one |-> FALSE]
  /\ UNCHANGED <<run, down, starts, stack, wvars, metrics>>

StopAllReturns ==
  /\ wait.then = "return" /\ DelayOver
  /\ wait' = NoWait
  /\ UNCHANGED <<run, down, starts, flow, stack, wvars, ring, metrics, hist>>

(* reset is refused while a worker generates. *)
ResetRefused == \E w \in Workers, s \in Slots : gen[w][s].active

cmd_reset ==
  /\ AtPrompt /\ scene.reset /\ ~ResetRefused
  /\ ring' = tgen_ipc_broadcast(ring, Msg("RESET", All, 0))
  /\ hist' = [hist EXCEPT !.raced = @ \/ \E w \in Workers, n \in 1..RingSize :
                                           n <= Len(ring[w]) /\ ring[w][n].cmd = "START"]
  /\ wait' = [then |-> "metrics", one |-> FALSE]
  /\ UNCHANGED <<run, down, starts, flow, stack, wvars, metrics>>

(* set rate: a limit, or none. One such command is on its way at a time    *)
(* (a bound of the model).                                                 *)
cmd_set_rate(limited) ==
  /\ AtPrompt /\ client_any_active
  /\ \A w \in Workers, n \in 1..RingSize : n <= Len(ring[w]) => ring[w][n].cmd # "SET_RATE"
  /\ ring' = tgen_ipc_broadcast(ring, [Msg("SET_RATE", All, 0) EXCEPT !.limited = limited])
  /\ UNCHANGED <<mvars, wvars, metrics, hist>>

(* A flow is stopped because it is found done, or its time has passed.     *)
Own(i) == {e \in Events : <<e, i>> \in hist.own}

FoundDone(s, kind) ==
  /\ Cfg(flow[s].id).one /\ Done(kind, metrics)
  /\ mgmt_traffic_stop_flow(s)
  /\ hist' = [Stopped({s}) EXCEPT
                !.early = IF Done(Cfg(flow[s].id).kind, Own(flow[s].id)) THEN @
                          ELSE @ \cup {flow[s].id}]

TimePassed(s) == mgmt_traffic_stop_flow(s) /\ hist' = Stopped({s})

(* The main loop: traffic_gen_tick_flow. A --one flow whose command waits  *)
(* is watched by that command, and the main loop does not run.             *)
traffic_gen_tick_flow(s) ==
  /\ run /\ wait = NoWait /\ stack = <<>> /\ flow[s].active
  /\ FoundDone(s, Cfg(flow[s].id).kind) \/ TimePassed(s)
  /\ UNCHANGED <<run, down, starts, stack, wvars, metrics>>

traffic_gen_tick == \E s \in Slots : traffic_gen_tick_flow(s)

(* The loop of cmd_start with --one. It watches the slot, which a remote   *)
(* client may have stopped and started anew meanwhile; the protocol is the *)
(* one of its own arguments.                                               *)
Top == stack[Len(stack)]
Popped == SubSeq(stack, 1, Len(stack) - 1)

OneWatches ==
  /\ run /\ wait = NoWait /\ stack # <<>> /\ flow[Top.slot].active
  /\ FoundDone(Top.slot, Cfg(Top.id).kind) \/ TimePassed(Top.slot)
  /\ stack' = Popped
  /\ UNCHANGED <<run, down, starts, wvars, metrics>>

(* Mutant: the loop does not look at g_run. *)
OneReturnsStopped ==
  /\ wait = NoWait /\ stack # <<>>
  /\ ~flow[Top.slot].active
  /\ stack' = Popped
  /\ UNCHANGED <<run, down, starts, flow, wait, wvars, ring, metrics, hist>>

OneReturns ==
  /\ wait = NoWait /\ stack # <<>>
  /\ ~flow[Top.slot].active \/ ~run
  /\ stack' = Popped
  /\ UNCHANGED <<run, down, starts, flow, wait, wvars, ring, metrics, hist>>

(* SIGINT, SIGTERM; quit or the end of standard input in the main loop.    *)
Stop ==
  /\ scene.quit /\ run
  /\ run' = FALSE
  /\ UNCHANGED <<down, starts, flow, stack, wait, wvars, ring, metrics, hist>>

tgen_cleanup ==
  /\ ~run /\ ~down /\ wait = NoWait /\ stack = <<>>
  /\ exited = Workers
  /\ down' = TRUE
  /\ UNCHANGED <<run, starts, flow, stack, wait, wvars, ring, metrics, hist>>

-----------------------------------------------------------------------------
(* The worker's commands.                                                  *)

Recv(w, cmd) ==
  /\ w \in Workers \ exited /\ ring[w] # <<>> /\ Head(ring[w]).cmd = cmd
  /\ ring' = tgen_ipc_recv(ring, w)

(* es are counted for flow i. *)
Watched(i) == Cfg(i).one /\ \E s \in Slots : flow[s] = [active |-> TRUE, id |-> i]
Counts(es, i) == hist.own \cup IF Watched(i) THEN (es \cap Events) \X {i} ELSE {}

Count(es, i) ==
  /\ metrics' = metrics \cup (es \cap Events)
  /\ hist' = [hist EXCEPT !.own = Counts(es, i)]

(* tcp_fsm_reset_all: every connection gets an RST and is gone. *)
ResetAll(w) == [tcb EXCEPT ![w] = [k \in Tcbs |-> NoConn]]
Rsts(w)     == IF Conns(w) = {} THEN {} ELSE {"tx"}

(* tx_gen_configure and tx_gen_start. --one has a rate of 1, and a first   *)
(* burst of 1.                                                             *)
Generator(i, one) ==
  [Idle EXCEPT !.active = TRUE, !.id = i, !.limited = one,
               !.tokens = IF one THEN 1 ELSE MaxBurst]

(* Mutant: every START resets the connections. *)
OthersActive0(w, s) == FALSE

OthersActive(w, s) == \E t \in Slots \ {s} : gen[w][t].active

(* Another HTTP flow generates in worker w, or one has a connection that   *)
(* another flow keeps START from resetting.                                *)
HttpMeets(w, s) ==
  LET others == {t \in Slots \ {s} : gen[w][t].active}
  IN  /\ others # {}
      /\ \/ \E t \in others : Cfg(gen[w][t].id).kind = "http"
         \/ \E k \in Conns(w) : Cfg(tcb[w][k].id).kind = "http"

(* The request built for an earlier HTTP flow is dropped. *)
ClearRequest(w, i) == IF Cfg(i).kind = "http" THEN [req EXCEPT ![w] = 0] ELSE req

(* CFG_CMD_START. The connections of earlier flows are reset when no other *)
(* flow is active; only a worker that has the egress port generates.       *)
RecvStart(w) ==
  LET m == Head(ring[w])
  IN  /\ Recv(w, "START")
      /\ tcb' = IF OthersActive(w, m.slot) THEN tcb ELSE ResetAll(w)
      /\ metrics' = IF OthersActive(w, m.slot) THEN metrics ELSE metrics \cup (Rsts(w) \cap Events)
      /\ req' = ClearRequest(w, m.id)
      /\ gen' = IF w \in scene.owners THEN [gen EXCEPT ![w][m.slot] = Generator(m.id, Cfg(m.id).one)]
                ELSE gen
      /\ hist' = [hist EXCEPT !.mixed = @ \/ (Cfg(m.id).kind = "http" /\ HttpMeets(w, m.slot))]
      /\ UNCHANGED <<mvars, exited>>

(* CFG_CMD_STOP_FLOW. The connections go on. Nothing reads the fields of   *)
(* an inactive generator; they are forgotten.                              *)
RecvStopFlow(w) ==
  LET m == Head(ring[w])
  IN  /\ Recv(w, "STOP_FLOW")
      /\ gen' = [gen EXCEPT ![w] = [s \in Slots |->
                   IF m.slot \in {s, All} THEN Idle ELSE @[s]]]
      /\ UNCHANGED <<mvars, exited, tcb, req, metrics, hist>>

RecvSetRate(w) ==
  /\ Recv(w, "SET_RATE")
  /\ gen' = [gen EXCEPT ![w] = [s \in Slots |->
               IF @[s].active THEN [@[s] EXCEPT !.limited = Head(ring[w]).limited] ELSE Idle]]
  /\ UNCHANGED <<mvars, exited, tcb, req, metrics, hist>>

(* CFG_CMD_RESET. The port pool, which is reset too, is in FlowPorts. *)
RecvReset(w) ==
  /\ Recv(w, "RESET")
  /\ tcb' = ResetAll(w)
  /\ metrics' = metrics \cup (Rsts(w) \cap Events)
  /\ hist' = [hist EXCEPT !.found = @ \/ \E s \in Slots : gen[w][s].active]
  /\ UNCHANGED <<mvars, exited, gen, req>>

WorkerExit(w) ==
  /\ ~run /\ w \in Workers \ exited
  /\ exited' = exited \cup {w}
  /\ UNCHANGED <<mvars, gen, tcb, req, ring, metrics, hist>>

-----------------------------------------------------------------------------
(* The generator: tx_gen_burst, one disjunct per branch.                   *)

Generates(w, s) == w \in Workers \ exited /\ gen[w][s].active
Kind(w, s) == Cfg(gen[w][s].id).kind
Enough(w, s) == Cfg(gen[w][s].id).one /\ gen[w][s].sent >= 1
Free(w) == scene.tcbs \ Conns(w)
Lowest(n, ks) == {k \in ks : Cardinality({j \in ks : j < k}) < n}
Least(a, b) == IF a <= b THEN a ELSE b

ToSend(g) == IF g.limited THEN g.tokens ELSE MaxBurst

(* n packets or connections; a failed attempt costs a connection flow a    *)
(* token as well.                                                          *)
Spend(g, n, atLeast) ==
  [g EXCEPT !.sent = IF Cfg(g.id).one THEN Least(2, @ + n) ELSE 0,
            !.tokens = IF g.limited THEN @ - Least(@, IF n < atLeast THEN atLeast ELSE n) ELSE @]

(* Mutant: the deadline is not looked at. *)
BurstNoDeadline(w, s) == FALSE /\ UNCHANGED <<gen, tcb, hist>>

Closing(w, ks) ==
  [tcb EXCEPT ![w] = [k \in Tcbs |->
     IF k \in ks /\ @[k].st \in {"est", "rsp"} THEN [@[k] EXCEPT !.st = "fin"] ELSE @[k]]]

(* Streams of generator g whose TCB is now another flow's connection. *)
Foreign(w, g) == {k \in g.streams : tcb[w][k].st \in {"est", "rsp"} /\ tcb[w][k].id # g.id}
Strays(w, s) ==
  hist' = IF Foreign(w, gen[w][s]) # {}
            THEN [hist EXCEPT !.strayed = @ \cup {gen[w][s].id}] ELSE hist

(* The deadline: a throughput flow closes its streams. *)
BurstDeadline(w, s) ==
  /\ gen' = [gen EXCEPT ![w][s] = Idle]
  /\ tcb' = Closing(w, gen[w][s].streams)
  /\ Strays(w, s)

Deadline(w, s) ==
  /\ Generates(w, s)
  /\ BurstDeadline(w, s)
  /\ UNCHANGED <<mvars, exited, req, ring, metrics>>

MaxInitiations(w, s) ==
  /\ Generates(w, s) /\ Enough(w, s)
  /\ gen' = [gen EXCEPT ![w][s] = Idle]
  /\ UNCHANGED <<mvars, exited, tcb, req, ring, metrics, hist>>

(* Time refills the bucket of a limited flow. The worker's loop is faster  *)
(* than that: a generator that can send does so before the next token.     *)
Refill(w, s) ==
  /\ Generates(w, s) /\ gen[w][s].limited /\ gen[w][s].tokens < MaxBurst
  /\ gen[w][s].tokens = 0 \/ (Kind(w, s) # "dgram" /\ Free(w) = {})
  /\ gen' = [gen EXCEPT ![w][s].tokens = @ + 1]
  /\ UNCHANGED <<mvars, exited, tcb, req, ring, metrics, hist>>

Sends(n, i) ==
  /\ metrics' = metrics \cup ({"tx"} \cap Events)
  /\ hist' = [hist EXCEPT !.own = Counts({"tx"}, i),
                          !.sent = IF i \in hist.quiet THEN Least(2, @ + n) ELSE @]

(* TCP and HTTP: connections are opened as far as tokens, TCBs and ports   *)
(* go. The first burst of an HTTP flow builds the request, if none is      *)
(* there.                                                                  *)
BurstConnect(w, s) ==
  LET g == gen[w][s]
  IN  /\ Generates(w, s) /\ ~Enough(w, s)
      /\ Kind(w, s) \in {"tcp", "http"}
      /\ ToSend(g) > 0 /\ Free(w) # {}
      /\ req' = IF Kind(w, s) = "http" /\ req[w] = 0 THEN [req EXCEPT ![w] = g.id] ELSE req
      /\ \E n \in 0..Least(ToSend(g), Cardinality(Free(w))) :
           /\ tcb' = [tcb EXCEPT ![w] = [k \in Tcbs |->
                        IF k \in Lowest(n, Free(w)) THEN [id |-> g.id, st |-> "syn"] ELSE @[k]]]
           /\ gen' = [gen EXCEPT ![w][s] = Spend(g, n, 1)]
           /\ IF n > 0 THEN Sends(n, g.id) ELSE UNCHANGED <<metrics, hist>>
      /\ UNCHANGED <<mvars, exited, ring>>

(* Throughput: the stream is opened once, *)
BurstOpen(w, s) ==
  LET g == gen[w][s]
  IN  /\ Generates(w, s) /\ ~Enough(w, s)
      /\ Kind(w, s) = "tput" /\ g.phase = 0 /\ ToSend(g) > 0
      /\ \E ks \in {{}, Lowest(1, Free(w))} :
           /\ tcb' = [tcb EXCEPT ![w] = [k \in Tcbs |->
                        IF k \in ks THEN [id |-> g.id, st |-> "syn"] ELSE @[k]]]
           /\ gen' = [gen EXCEPT ![w][s] = [g EXCEPT !.phase = 1, !.streams = ks]]
           /\ IF ks # {} THEN Count({"tx"}, g.id) ELSE UNCHANGED <<metrics, hist>>
      /\ UNCHANGED <<mvars, exited, req, ring>>

(* and then data is sent on whatever connection its TCB holds. *)
BurstPump(w, s) ==
  LET g == gen[w][s]
  IN  /\ Generates(w, s) /\ ~Enough(w, s)
      /\ Kind(w, s) = "tput" /\ g.phase = 1 /\ ToSend(g) > 0
      /\ \E k \in g.streams : tcb[w][k].st \in {"est", "rsp"}
      /\ gen' = [gen EXCEPT ![w][s].sent = IF Cfg(g.id).one THEN 1 ELSE 0]
      /\ metrics' = metrics \cup ({"tx"} \cap Events)
      /\ Strays(w, s)
      /\ UNCHANGED <<mvars, exited, tcb, req, ring>>

BurstPackets(w, s) ==
  LET g == gen[w][s]
  IN  /\ Generates(w, s) /\ ~Enough(w, s)
      /\ Kind(w, s) = "dgram"
      /\ \E n \in 1..ToSend(g) :
           /\ gen' = [gen EXCEPT ![w][s] = Spend(g, n, 0)]
           /\ Sends(n, g.id)
      /\ UNCHANGED <<mvars, exited, tcb, req, ring>>

-----------------------------------------------------------------------------
(* The connections, and the peer.                                          *)

Conn(w, k, sts) == w \notin exited /\ tcb[w][k].st \in sts
Frees(w, k) == tcb' = [tcb EXCEPT ![w][k] = NoConn]
Becomes(w, k, st) == tcb' = [tcb EXCEPT ![w][k].st = st]

(* The handshake completes. A TCP flow without data resets the connection  *)
(* at once, or closes it with --one; an HTTP flow sends the request        *)
(* prebuilt in its worker; without one the connection waits.               *)
Established(w, k) ==
  LET c == tcb[w][k]
      f == Cfg(c.id)
  IN  /\ Conn(w, k, {"syn"})
      /\ CASE f.kind = "tcp" /\ ~f.one -> Frees(w, k) /\ Count({"tx", "close", "reset"}, c.id)
           [] f.kind = "tcp" /\ f.one  -> Becomes(w, k, "fin") /\ Count({"tx"}, c.id)
           [] f.kind = "tput"          -> Becomes(w, k, "est") /\ Count({"tx"}, c.id)
           [] f.kind = "http"          ->
                /\ Becomes(w, k, IF req[w] = 0 THEN "est" ELSE "asked")
                /\ metrics' = metrics \cup ({"tx"} \cap Events)
                /\ hist' = [hist EXCEPT !.wrong = @ \/ req[w] # c.id]
      /\ UNCHANGED <<mvars, exited, gen, req, ring>>

(* An HTTP response is complete; without --one the connection is closed.   *)
Response(w, k) ==
  /\ Conn(w, k, {"asked"})
  /\ Becomes(w, k, IF Cfg(tcb[w][k].id).one THEN "rsp" ELSE "fin")
  /\ Count({"tx", "rsp"}, tcb[w][k].id)
  /\ UNCHANGED <<mvars, exited, gen, req, ring>>

(* The throughput flow that has lost its connection k. *)
Streams(w, k) == {i \in {tcb[w][k].id} : Cfg(i).kind = "tput" /\ tcb[w][k].st # "fin"}

(* The peer closes, or its acknowledgement of our FIN arrives. *)
Closed(w, k) ==
  /\ Conn(w, k, {"est", "asked", "rsp", "fin"})
  /\ Frees(w, k)
  /\ metrics' = metrics \cup ({"tx", "close"} \cap Events)
  /\ hist' = [hist EXCEPT !.own = Counts({"close"}, tcb[w][k].id),
                          !.ended = @ \cup Streams(w, k)]
  /\ UNCHANGED <<mvars, exited, gen, req, ring>>

(* The peer's RST, or ours after too many retransmissions. *)
Reset(w, k) ==
  /\ Conn(w, k, {"syn", "est", "asked", "rsp", "fin"})
  /\ Frees(w, k)
  /\ metrics' = metrics \cup ({"reset"} \cap Events)
  /\ hist' = [hist EXCEPT !.own = Counts({"reset"}, tcb[w][k].id),
                          !.ended = @ \cup Streams(w, k)]
  /\ UNCHANGED <<mvars, exited, gen, req, ring>>

(* A segment of no connection (tcp_send_rst_no_tcb). *)
Stray(w) ==
  /\ scene.stray /\ w \notin exited
  /\ metrics' = metrics \cup ({"tx", "reset"} \cap Events)
  /\ hist' = [hist EXCEPT !.quiet = {}]
  /\ UNCHANGED <<mvars, wvars, ring>>

-----------------------------------------------------------------------------
Management ==
  \/ \E c \in scene.flows : cmd_start(c)
  \/ \E s \in Slots : cmd_stop_client(s)
  \/ traffic_gen_tick
  \/ mgmt_traffic_stop_all \/ StopAllReturns
  \/ StopSummary \/ ResetMetrics
  \/ cmd_reset
  \/ \E limited \in scene.rates : cmd_set_rate(limited)
  \/ OneWatches \/ OneReturns
  \/ Stop \/ tgen_cleanup

Commands(w) == RecvStart(w) \/ RecvStopFlow(w) \/ RecvSetRate(w) \/ RecvReset(w)

tx_gen_burst(w, s) ==
  \/ Deadline(w, s) \/ MaxInitiations(w, s) \/ Refill(w, s)
  \/ BurstConnect(w, s) \/ BurstOpen(w, s) \/ BurstPump(w, s) \/ BurstPackets(w, s)

Network(w, k) == Established(w, k) \/ Response(w, k) \/ Closed(w, k) \/ Reset(w, k)

Next ==
  /\ \/ Management
     \/ \E w \in Workers :
          \/ Commands(w) \/ WorkerExit(w) \/ Stray(w)
          \/ \E s \in Slots : tx_gen_burst(w, s)
          \/ \E k \in Tcbs : Network(w, k)
  /\ UNCHANGED scene

Spec == Init /\ [][Next]_vars

(* The workers poll their rings, durations and timeouts pass, and a delay  *)
(* ends. The main loop calls traffic_gen_tick in every iteration, and the  *)
(* loop of --one looks at its flow in every iteration, after at most one   *)
(* command: a flow that is looked at again and again is found due (strong  *)
(* fairness). Nothing is assumed of the network or of who types commands.  *)
In(A) == A /\ UNCHANGED scene

AfterDelay == StopSummary \/ ResetMetrics \/ StopAllReturns

Fairness ==
  /\ \A w \in AllWorkers : WF_vars(In(Commands(w))) /\ WF_vars(In(WorkerExit(w)))
  /\ \A w \in AllWorkers : WF_vars(In(\E s \in Slots : Deadline(w, s)))
  /\ SF_vars(In(traffic_gen_tick))
  /\ SF_vars(In(OneWatches)) /\ WF_vars(In(OneReturns))
  /\ WF_vars(In(AfterDelay)) /\ WF_vars(In(tgen_cleanup))

FairSpec == Spec /\ Fairness

-----------------------------------------------------------------------------
(* Properties.                                                             *)

Ids == 0..Len(starts)

(* The types; rings and token buckets keep their bounds.                   *)
TypeOK ==
  /\ run \in BOOLEAN /\ exited \subseteq Workers /\ down \in BOOLEAN
  /\ \A s \in Slots : flow[s].active \in BOOLEAN /\ flow[s].id \in Ids
  /\ \A n \in DOMAIN stack : stack[n].slot \in Slots /\ stack[n].id \in Ids
  /\ wait \in [then : {"none", "summary", "metrics", "return"}, one : BOOLEAN]
  /\ \A w \in Workers : Len(ring[w]) <= RingSize /\ req[w] \in Ids
  /\ \A w \in Workers, s \in Slots :
       /\ gen[w][s].id \in Ids /\ gen[w][s].tokens \in 0..MaxBurst
       /\ gen[w][s].streams \subseteq Tcbs
  /\ \A w \in Workers, k \in Tcbs :
       tcb[w][k] = NoConn \/ (tcb[w][k].id \in Ids \ {0}
                              /\ tcb[w][k].st \in {"syn", "est", "asked", "rsp", "fin"})
  /\ metrics \subseteq Events

(* A worker has a command of the given kinds for slot s before it. *)
OnItsWay(w, s, cmds) ==
  \E n \in 1..Len(ring[w]) : ring[w][n].cmd \in cmds /\ ring[w][n].slot \in {s, All}

(* No generator runs unknown to the management thread: a worker generates  *)
(* for slot s only while that flow is active in g_client_flows, or a       *)
(* command that ends it is in the worker's ring, unless such a command was *)
(* dropped; and a worker that has handled its commands generates for no    *)
(* other flow than the one the slot now holds (cmd_start, the stops,       *)
(* tgen_ipc_broadcast and the worker's drain). So a reset finds a worker   *)
(* that generates for no flow, unless a START was on its way when          *)
(* cmd_reset looked at the generators or a stop was dropped.               *)
GeneratorsKnown ==
  /\ TypeOK
  /\ \A w \in Workers, s \in Slots :
       gen[w][s].active /\ <<w, s>> \notin hist.lost =>
         \/ flow[s].active /\ flow[s].id = gen[w][s].id
         \/ OnItsWay(w, s, {"START", "STOP_FLOW"})
  /\ hist.found => hist.raced \/ hist.lost # {}


(* A flow uses what is its own, whatever flows are started and stopped     *)
(* around it. A throughput flow writes to and closes, through the TCB      *)
(* pointers it keeps, connections of its own only, as long as the peer     *)
(* ended none of them and reset was not let through beside a START on its  *)
(* way. An HTTP connection sends the request of its own flow, unless a     *)
(* START met another HTTP flow in the worker: they share one prebuilt      *)
(* request.                                                                *)
FlowUsesOwn ==
  /\ hist.strayed \subseteq hist.ended \/ hist.raced
  /\ hist.wrong => hist.mixed

(* Whatever is dropped or blocked, every flow ends: it becomes inactive in *)
(* g_client_flows and in every worker, by a stop, its result or the        *)
(* deadline of tx_gen_burst (as a scene starts finitely many flows, it     *)
(* comes back to having none).                                             *)
FlowsEnd ==
  []<>(\/ ~run
       \/ /\ ~client_any_active
          /\ \A w \in Workers, s \in Slots : ~gen[w][s].active)

(* Once g_run is cleared everything stops: blocked commands return, every  *)
(* worker leaves its loop and the rings are released (signal_handler, the  *)
(* loops of --one and of the workers, tgen_cleanup).                       *)
StopStops == ~run ~> down /\ exited = Workers
=============================================================================
