----------------------------- MODULE MCScheduler ----------------------------
(* Experiments and services (Scheduler), and in behaviours of its own a session
   with timers and a signal whose operator types no rollback (FaultSession). *)
EXTENDS Scheduler, FaultScenarios

Step(g, p, x) == [group |-> g, parallel |-> p, raises |-> x]

(* A group of two after a single step; a group in which one step raises; a
   single step that raises. *)
StepLists ==
  { <<Step(NoGroup, FALSE, FALSE), Step("g", TRUE, FALSE), Step("g", TRUE, FALSE)>>,
    <<Step("g", FALSE, FALSE), Step("g", FALSE, TRUE)>>,
    <<Step(NoGroup, FALSE, FALSE), Step(NoGroup, FALSE, TRUE)>> }

PlansOf(lists) ==
  [steps : lists, on_failure : {"abort", "continue"}, rollback : {"end"}, checks : {TRUE}]
    \cup [steps : lists, on_failure : {"abort"}, rollback : {"manual"}, checks : {FALSE}]

NoSteps == {[steps |-> <<>>, on_failure |-> "abort", rollback |-> "end", checks |-> FALSE]}

MCScenarios ==
  { \* one run of a plan in every way, random chaos beside it
    [plans |-> PlansOf(StepLists), kind |-> "interval", every |-> 0, minute |-> 0,
     long |-> FALSE, chaos |-> TRUE, nops |-> 2, ticks |-> 0, runs |-> 1],
    \* restarts while runs are long: two threads run plans at once
    [plans |-> PlansOf({<<Step("g", TRUE, FALSE), Step("g", TRUE, FALSE)>>}), kind |-> "interval", every |-> 0,
     minute |-> 0, long |-> TRUE, chaos |-> FALSE, nops |-> 3, ticks |-> 0, runs |-> 1],
    \* time: intervals, cron, calls, short and long runs
    [plans |-> NoSteps, kind |-> "interval", every |-> 2, minute |-> 0,
     long |-> FALSE, chaos |-> FALSE, nops |-> 4, ticks |-> 6, runs |-> 2],
    \* random chaos by itself, restarted
    [plans |-> NoSteps, kind |-> "cron", every |-> 2, minute |-> 9,
     long |-> TRUE, chaos |-> TRUE, nops |-> 3, ticks |-> 0, runs |-> 1],
    [plans |-> NoSteps, kind |-> "interval", every |-> 2, minute |-> 0,
     long |-> TRUE, chaos |-> FALSE, nops |-> 3, ticks |-> 5, runs |-> 2],
    [plans |-> NoSteps, kind |-> "cron", every |-> 2, minute |-> 1,
     long |-> TRUE, chaos |-> FALSE, nops |-> 3, ticks |-> 5, runs |-> 2],
    [plans |-> NoSteps, kind |-> "cron", every |-> 2, minute |-> 2,
     long |-> FALSE, chaos |-> FALSE, nops |-> 4, ticks |-> 7, runs |-> 2] }

-----------------------------------------------------------------------------
CONSTANTS Main, Sig, NoFault

VARIABLES
  s_env, qdisc, setting, original, stack, rolled, file, s_active, timers, thr, up, used, faults

sessionVars == <<s_env, qdisc, setting, original, stack, rolled, file, s_active, timers, thr,
                 up, used, faults>>

FS == INSTANCE FaultSession WITH
  FaultIds <- {f1, f2, f3}, Scenarios <- MCUnattended, env <- s_env, active <- s_active

VARIABLE part

allVars == <<part, vars, sessionVars>>

InServices(A) == part = "services" /\ A /\ UNCHANGED <<part, sessionVars>>
InSession(A)  == part = "session" /\ A /\ UNCHANGED <<part, vars>>

UnattendedInit ==
  /\ Init /\ FS!Init
  /\ \/ part = "services"
     \/ part = "session" /\ env.chaos /\ env.ticks = 0 /\ env.long /\ plan.steps = <<>>

UnattendedNext == InServices(Next) \/ InSession(FS!Next)

(* The fairness of Scheduler and of FaultSession: threads are scheduled, waits
   end, and timers expire. *)
UnattendedFairness ==
  /\ \A t \in Loops : WF_allVars(InServices(LoopStep(t)))
  /\ WF_allVars(InSession(FS!Execute)) /\ WF_allVars(InSession(FS!Exit))
  /\ \A t \in FS!Threads : WF_allVars(InSession(FS!Step(t)))
  /\ \A f \in {f1, f2, f3} : WF_allVars(InSession(FS!AutoRollback(f)))

UnattendedSpec == UnattendedInit /\ [][UnattendedNext]_allVars /\ UnattendedFairness

=============================================================================
