----------------------------- MODULE Scheduler ------------------------------
(***************************************************************************)
(* asuran's scheduler (scheduler/scheduler.py) and random chaos            *)
(* (scheduler/random_chaos.py): two services, each with a background       *)
(* thread that start() creates and stop() signals and joins.  The          *)
(* scheduler's thread runs experiments (Experiment), random chaos injects  *)
(* single faults, both through the one executor.                           *)
(*                                                                         *)
(* Time is counted in half minutes, the scheduler's check interval: clock  *)
(* \div 2 is the minute a cron expression looks at.  A runner of           *)
(* Experiment is one generation of the scheduler's thread.                 *)
(***************************************************************************)
EXTENDS Experiment

CONSTANTS
  Jobs,        \* job ids
  Scenarios,   \* the circumstances, see Init
  None

VARIABLES
  env,      \* the scenario
  running,  \* _running of each service
  stopped,  \* _stop_event
  joining,  \* the thread that stop() waits for
  loop,     \* each background thread
  job,      \* each ScheduledJob; reg: in _jobs
  clock,
  ops,      \* calls of the public interface so far
  whole,    \* ghost: the cron job was due to be looked at all through this minute
  served    \* ghost: the cron job was started in this minute

schedVars == <<env, running, stopped, joining, loop, job, clock, ops, whole, served>>
vars == <<engineVars, schedVars>>

Services == {"scheduler", "chaos"}
Gens(s) == IF s = "scheduler" THEN Runners ELSE Others
Loops == Runners \cup Others
ServiceOf(t) == IF t \in Runners THEN "scheduler" ELSE "chaos"

(* _CHECK_INTERVAL, 30 s. Mutant: 90 s. *)
CheckIntervalLong == 3
CheckInterval == 1

NoLoop == [pc |-> "none", snap |-> {}, job |-> None, wake |-> 0]

(* plans; kind: what triggers the jobs, "interval" (of env.every half minutes)
   or "cron" (at minute env.minute); long: runs may take longer than the
   timeout of join(); chaos: whether random chaos is used; nops, ticks, runs:
   bounds on calls, on time and on the runs of a thread. *)
Init ==
  /\ env \in Scenarios
  /\ EngineInit(env.plans)
  /\ running = [s \in Services |-> FALSE] /\ stopped = [s \in Services |-> FALSE]
  /\ joining = [s \in Services |-> None]
  /\ loop = [t \in Loops |-> NoLoop]
  /\ job = [j \in Jobs |-> [reg |-> TRUE, enabled |-> TRUE, next |-> env.every, last |-> 0, runs |-> 0]]
  /\ clock = 0 /\ ops = 0 /\ whole = FALSE /\ served = FALSE

-----------------------------------------------------------------------------
(* The public interface, called by the main thread.                        *)

Call == ops < env.nops /\ ops' = ops + 1 /\ \A s \in Services : joining[s] = None
Live(t) == loop[t].pc \notin {"none", "ended"}

Start(s) ==
  /\ Call /\ ~running[s] /\ (s = "chaos" => env.chaos)
  /\ \E t \in Gens(s) :
       /\ loop[t].pc = "none"
       /\ loop' = [loop EXCEPT ![t].pc = "top"]
  /\ stopped' = [stopped EXCEPT ![s] = FALSE] /\ running' = [running EXCEPT ![s] = TRUE]
  /\ UNCHANGED <<engineVars, env, joining, job, clock, whole, served>>

(* The thread of the running service is the one started last. *)
Signal(s) ==
  /\ Call /\ running[s]
  /\ \E t \in Gens(s) :
       /\ loop[t].pc # "none" /\ \A u \in Gens(s) : loop[u].pc # "none" => u <= t
       /\ joining' = [joining EXCEPT ![s] = t]
  /\ stopped' = [stopped EXCEPT ![s] = TRUE] /\ running' = [running EXCEPT ![s] = FALSE]
  /\ whole' = FALSE
  /\ UNCHANGED <<engineVars, env, loop, job, clock, served>>

(* join(timeout) returns: the thread has ended or, when a run takes longer than
   the timeout, has not. *)
Joined(s) ==
  /\ joining[s] # None
  /\ \/ loop[joining[s]].pc = "ended"
     \/ env.long /\ loop[joining[s]].pc \in {"run", "execute"}
  /\ joining' = [joining EXCEPT ![s] = None]
  /\ UNCHANGED <<engineVars, env, running, stopped, loop, job, clock, ops, whole, served>>

AddJob(j) ==
  /\ Call /\ ~job[j].reg
  /\ job' = [job EXCEPT ![j] = [reg |-> TRUE, enabled |-> TRUE, next |-> clock + env.every, last |-> 0, runs |-> 0]]
  /\ UNCHANGED <<engineVars, env, running, stopped, joining, loop, clock, whole, served>>

RemoveJob(j) ==
  /\ Call /\ job[j].reg /\ job' = [job EXCEPT ![j].reg = FALSE]
  /\ whole' = FALSE
  /\ UNCHANGED <<engineVars, env, running, stopped, joining, loop, clock, served>>

Pause(j) ==
  /\ Call /\ job[j].reg /\ job[j].enabled /\ job' = [job EXCEPT ![j].enabled = FALSE]
  /\ whole' = FALSE
  /\ UNCHANGED <<engineVars, env, running, stopped, joining, loop, clock, served>>

Resume(j) ==
  /\ Call /\ job[j].reg /\ ~job[j].enabled /\ job' = [job EXCEPT ![j].enabled = TRUE]
  /\ UNCHANGED <<engineVars, env, running, stopped, joining, loop, clock, whole, served>>

-----------------------------------------------------------------------------
(* The background threads.                                                 *)

Goto(t, pc) == loop' = [loop EXCEPT ![t].pc = pc]

(* while not stop_event.is_set(); _check_jobs takes a snapshot of the jobs.
   Mutant: the event is not looked at here. *)
LoopTopForever(t) ==
  /\ loop[t].pc = "top"
  /\ loop' = [loop EXCEPT ![t] =
       IF t \in Runners THEN [@ EXCEPT !.pc = "check", !.snap = {j \in Jobs : job[j].reg}]
       ELSE [@ EXCEPT !.pc = "wait"]]
  /\ UNCHANGED <<engineVars, env, running, stopped, joining, job, clock, ops, whole, served>>

LoopTop(t) ==
  /\ loop[t].pc = "top"
  /\ loop' = [loop EXCEPT ![t] =
       IF stopped[ServiceOf(t)] THEN [NoLoop EXCEPT !.pc = "ended"]
       ELSE IF t \in Runners THEN [@ EXCEPT !.pc = "check", !.snap = {j \in Jobs : job[j].reg}]
       ELSE [@ EXCEPT !.pc = "wait"]]
  /\ UNCHANGED <<engineVars, env, running, stopped, joining, job, clock, ops, whole, served>>

(* _cron_matches on the minute. *)
CronMatches == clock \div 2 = env.minute

(* _should_run. *)
ShouldRun(j) == IF env.kind = "interval" THEN clock >= job[j].next ELSE CronMatches

(* The next job of the snapshot: enabled and due it is run; a job removed since
   the snapshot still is. *)
CheckJob(t) ==
  /\ loop[t].pc = "check"
  /\ IF loop[t].snap = {}
     THEN /\ loop' = [loop EXCEPT ![t].pc = "wait", ![t].wake = clock + CheckInterval]
          /\ UNCHANGED <<engineVars, served>>
     ELSE \E j \in loop[t].snap :
            IF job[j].enabled /\ ShouldRun(j) /\ eng[t].n < env.runs
            THEN /\ loop' = [loop EXCEPT ![t].pc = "run", ![t].job = j, ![t].snap = @ \ {j}]
                 /\ RunBegins(t) /\ UNCHANGED <<plan, exe, active, on>>
                 /\ served' = TRUE
            ELSE /\ loop' = [loop EXCEPT ![t].snap = @ \ {j}]
                 /\ UNCHANGED <<engineVars, served>>
  /\ UNCHANGED <<env, running, stopped, joining, job, clock, ops, whole>>

(* _execute_job after the run has returned or raised: the book-keeping. *)
JobDone(t) ==
  /\ loop[t].pc = "run" /\ ~Busy(t)
  /\ LET j == loop[t].job IN
       job' = [job EXCEPT ![j].last = clock, ![j].runs = @ + 1, ![j].next = clock + env.every]
  /\ loop' = [loop EXCEPT ![t].pc = "check", ![t].job = None]
  /\ UNCHANGED <<engineVars, env, running, stopped, joining, clock, ops, whole, served>>

(* stop_event.wait(_CHECK_INTERVAL). *)
SchedWait(t) ==
  /\ t \in Runners /\ loop[t].pc = "wait"
  /\ stopped["scheduler"] \/ clock >= loop[t].wake
  /\ Goto(t, "top")
  /\ UNCHANGED <<engineVars, env, running, stopped, joining, job, clock, ops, whole, served>>

(* RandomChaos._run_loop: a random delay that the event cuts short; then, when
   a fault type is eligible, execute. *)
ChaosWait(t) ==
  /\ t \in Others /\ loop[t].pc = "wait"
  /\ IF stopped["chaos"] THEN loop' = [loop EXCEPT ![t] = [NoLoop EXCEPT !.pc = "ended"]] /\ UNCHANGED exe
     ELSE \/ Goto(t, "top") /\ UNCHANGED exe
          \/ /\ exe[<<t, 1, 1>>] = "none"
             /\ Goto(t, "execute") /\ exe' = [exe EXCEPT ![<<t, 1, 1>>] = "check"]
  /\ UNCHANGED <<plan, eng, active, on, env, running, stopped, joining, job, clock, ops, whole, served>>

ChaosDone(t) ==
  /\ t \in Others /\ loop[t].pc = "execute"
  /\ exe[<<t, 1, 1>>] \in {"ok", "failed", "raised"}
  /\ Goto(t, "top")
  /\ UNCHANGED <<engineVars, env, running, stopped, joining, job, clock, ops, whole, served>>

(* Time passes while the threads wait, and during runs that are long. *)
Tick ==
  /\ clock < env.ticks /\ clock' = clock + 1
  /\ \A r \in Runners : loop[r].pc \in {"none", "ended"} \/ (loop[r].pc = "wait" /\ loop[r].wake > clock)
                          \/ (loop[r].pc = "run" /\ env.long)
  /\ IF clock' % 2 = 0
     THEN /\ served' = FALSE
          /\ whole' = (/\ running["scheduler"] /\ \E r \in Runners : loop[r].pc = "wait"
                       /\ \A j \in Jobs : job[j].reg /\ job[j].enabled)
     ELSE served' = served /\ whole' = (whole /\ \A r \in Runners : loop[r].pc # "run")
  /\ UNCHANGED <<engineVars, env, running, stopped, joining, loop, job, ops>>

LoopStep(t) ==
  \/ LoopTop(t) \/ CheckJob(t) \/ JobDone(t) \/ SchedWait(t) \/ ChaosWait(t) \/ ChaosDone(t)
  \/ t \in Runners /\ EngineStep(t) /\ UNCHANGED schedVars
  \/ t \in Others /\ Execute(<<t, 1, 1>>, FALSE) /\ UNCHANGED schedVars

Next ==
  \/ \E s \in Services : Start(s) \/ Signal(s) \/ Joined(s)
  \/ \E j \in Jobs : AddJob(j) \/ RemoveJob(j) \/ Pause(j) \/ Resume(j)
  \/ \E t \in Loops : LoopStep(t)
  \/ \E f \in Faults : Expire(f) /\ UNCHANGED schedVars
  \/ Tick

Spec == Init /\ [][Next]_vars

(* Every thread is scheduled; waits end. *)
FairSpec == Spec /\ \A t \in Loops : WF_vars(LoopStep(t))

-----------------------------------------------------------------------------
(* A cron job is started in its minute, if nobody intervenes in that minute and
   no run keeps the thread from looking (_run_loop, _CHECK_INTERVAL,
   _cron_matches). *)
CronServed ==
  [][/\ env.kind = "cron" /\ clock' # clock /\ clock' % 2 = 0 /\ CronMatches /\ whole
     /\ \A r \in Runners : eng[r].n < env.runs
     => served]_vars

(* stop() ends the thread, unless start() is called before it has ended
   (_stop_event, the two waits). *)
StopEnds ==
  \A s \in Services : stopped[s] ~> (~stopped[s] \/ \A t \in Gens(s) : ~Live(t))
=============================================================================
