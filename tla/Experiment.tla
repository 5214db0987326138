----------------------------- MODULE Experiment -----------------------------
(***************************************************************************)
(* asuran's experiment engine (engine/experiment.py, engine/step.py,       *)
(* engine/hypothesis.py) on top of the fault executor.  A runner is a      *)
(* thread inside ExperimentEngine.run; the steps of a parallel group run   *)
(* in threads of their own; all of them share one executor, and the        *)
(* durations of faults expire meanwhile.                                   *)
(***************************************************************************)
EXTENDS Naturals, Sequences, SequencesExt, FiniteSetsExt

CONSTANTS
  Runners,      \* threads that run experiments
  Others,       \* further threads that call FaultExecutor.execute
  NoGroup,      \* a step without "group"
  MaxRuns,      \* bound on the runs of a runner
  Limit         \* max_concurrent_faults

ASSUME ExperimentAssumption ==
  Runners \cap Others = {} /\ MaxRuns \in Nat \ {0} /\ Limit \in Nat \ {0}

VARIABLES
  plan,    \* the plan: steps, groups, on_failure, rollback_strategy, checks
  eng,     \* each runner in ExperimentEngine.run
  exe,     \* each call of FaultExecutor.execute, by its fault
  active,  \* FaultExecutor._active, in insertion order
  on       \* the faults in effect on the host

engineVars == <<plan, eng, exe, active, on>>

(* group; parallel; raises: the guard refuses the severity or the duration. *)
Steps == plan.steps
Faults == (Runners \X (1 .. MaxRuns) \X (1 .. Len(Steps))) \cup (Others \X {1} \X {1})

NoRun == [pc |-> "none", n |-> 0, grp |-> 0, failed |-> 0, completed |-> 0,
          status |-> "pending", ids |-> <<>>]

(* _group_steps: consecutive steps of one group together, as step numbers. *)
GroupSteps(steps) ==
  FoldLeft(LAMBDA gs, i :
             IF i > 1 /\ steps[i].group # NoGroup /\ steps[i].group = steps[i-1].group
             THEN Front(gs) \o << Append(Last(gs), i) >>
             ELSE Append(gs, <<i>>),
           <<>>, [i \in 1 .. Len(steps) |-> i])

Groups == plan.groups
Parallel(g) == Len(g) > 1 \/ Steps[Head(g)].parallel

EngineInit(plans) ==
  /\ \E p \in plans : plan = [groups |-> GroupSteps(p.steps)] @@ p
  /\ eng = [r \in Runners |-> NoRun]
  /\ exe = [f \in Faults |-> "none"]
  /\ active = <<>> /\ on = {}

Busy(r) == eng[r].pc \notin {"none", "done", "raised"}
ThisRun(r) == {<<r, eng[r].n, i>> : i \in 1 .. Len(Steps)}
GroupOf(r) == Groups[eng[r].grp]
GroupFaults(r) == {<<r, eng[r].n, i>> : i \in Range(GroupOf(r))}

-----------------------------------------------------------------------------

(* First disjunct: an unknown fault type, or arguments that do not validate. *)
Check(f, raises) ==
  /\ exe[f] = "check"
  /\ \/ exe' = [exe EXCEPT ![f] = "failed"]
     \/ /\ Len(active) >= Limit
        /\ exe' = [exe EXCEPT ![f] = "failed"]
     \/ /\ Len(active) < Limit
        /\ exe' = [exe EXCEPT ![f] = IF raises THEN "raised" ELSE "inject"]
  /\ UNCHANGED <<plan, eng, active, on>>

Inject(f) ==
  /\ exe[f] = "inject"
  /\ \/ exe' = [exe EXCEPT ![f] = "track"] /\ on' = on \cup {f}
     \/ exe' = [exe EXCEPT ![f] = "failed"] /\ UNCHANGED on
  /\ UNCHANGED <<plan, eng, active>>

Track(f) ==
  /\ exe[f] = "track"
  /\ exe' = [exe EXCEPT ![f] = "ok"] /\ active' = Append(active, f)
  /\ UNCHANGED <<plan, eng, on>>

Execute(f, raises) == Check(f, raises) \/ Inject(f) \/ Track(f)

(* FaultExecutor.rollback_one. *)
RollBack(f) ==
  IF f \in Range(active)
  THEN active' = SelectSeq(active, LAMBDA g : g # f) /\ on' = on \ {f}
  ELSE UNCHANGED <<active, on>>

(* A duration expires. *)
Expire(f) == f \in Range(active) /\ RollBack(f) /\ UNCHANGED <<plan, eng, exe>>

-----------------------------------------------------------------------------
(* ExperimentEngine.run.                                                   *)

RunBegins(r) ==
  /\ ~Busy(r)
  /\ eng' = [eng EXCEPT ![r] = [NoRun EXCEPT !.pc = "pre", !.n = eng[r].n + 1,
                                             !.status = "running"]]

(* check_steady_state: whether all checks of the plan pass; each one asks the
   world outside. *)
SteadyState == IF plan.checks THEN BOOLEAN ELSE {TRUE}

Pre(r) ==
  /\ eng[r].pc = "pre"
  /\ \E passed \in SteadyState :
       eng' = [eng EXCEPT ![r].pc = IF passed THEN "group" ELSE "done",
                          ![r].status = IF passed THEN @ ELSE "failed"]
  /\ UNCHANGED <<plan, exe, active, on>>

(* _execute_steps: the next group; all threads of a parallel group start. *)
StartGroup(r) ==
  /\ eng[r].pc = "group"
  /\ IF eng[r].grp = Len(Groups)
     THEN eng' = [eng EXCEPT ![r].pc = "post"] /\ UNCHANGED exe
     ELSE /\ eng' = [eng EXCEPT ![r].pc = "steps", ![r].grp = @ + 1]
          /\ exe' = [f \in Faults |->
                       IF \E i \in Range(Groups[eng[r].grp + 1]) : f = <<r, eng[r].n, i>>
                       THEN "check" ELSE exe[f]]
  /\ UNCHANGED <<plan, active, on>>

(* _apply_failure_strategy. With rollback-and-continue the engine asks for the
   rollback of the failed faults, none of which is active: it only continues. *)
Strategy(e, bad) ==
  IF bad # {} /\ plan.on_failure = "abort"
  THEN [e EXCEPT !.pc = "rollback", !.status = "aborted"]
  ELSE [e EXCEPT !.pc = "group"]

(* The results of a group. In a parallel group an exception is a failed
   result; a step of its own lets it out of run(), which does not roll back.
   Mutant: failures are not counted. *)
EndGroupLosing(r) ==
  /\ eng[r].pc = "steps"
  /\ \A f \in GroupFaults(r) : exe[f] \in {"ok", "failed", "raised"}
  /\ LET bad == {f \in GroupFaults(r) : exe[f] # "ok"}
         done == [eng[r] EXCEPT !.completed = @ + Cardinality(GroupFaults(r) \ bad)]
     IN eng' = [eng EXCEPT ![r] =
          IF ~Parallel(GroupOf(r)) /\ \E f \in bad : exe[f] = "raised"
          THEN [eng[r] EXCEPT !.pc = "raised"]
          ELSE Strategy(done, bad)]
  /\ UNCHANGED <<plan, exe, active, on>>

EndGroup(r) ==
  /\ eng[r].pc = "steps"
  /\ \A f \in GroupFaults(r) : exe[f] \in {"ok", "failed", "raised"}
  /\ LET bad == {f \in GroupFaults(r) : exe[f] # "ok"}
         done == [eng[r] EXCEPT !.failed = @ + Cardinality(bad),
                                !.completed = @ + Cardinality(GroupFaults(r) \ bad)]
     IN eng' = [eng EXCEPT ![r] =
          IF ~Parallel(GroupOf(r)) /\ \E f \in bad : exe[f] = "raised"
          THEN [eng[r] EXCEPT !.pc = "raised"]
          ELSE Strategy(done, bad)]
  /\ UNCHANGED <<plan, exe, active, on>>

(* The steady-state checks after the steps change nothing but a field of the
   result. *)
Post(r) ==
  /\ eng[r].pc = "post"
  /\ eng' = [eng EXCEPT ![r].pc = "rollback"]
  /\ UNCHANGED <<plan, exe, active, on>>

(* The status, once _handle_rollback has returned. *)
Finished(e) ==
  [e EXCEPT !.pc = "done",
            !.status = IF @ = "aborted" THEN @ ELSE IF e.failed > 0 THEN "failed" ELSE "completed"]


HandleRollback(r) ==
  /\ eng[r].pc = "rollback"
  /\ eng' = [eng EXCEPT ![r] =
       IF plan.rollback = "manual" THEN Finished(@)
       ELSE [@ EXCEPT !.pc = "undo", !.ids = Reverse(active)]]
  /\ UNCHANGED <<plan, exe, active, on>>

UndoNext(r) ==
  /\ eng[r].pc = "undo"
  /\ IF eng[r].ids = <<>>
     THEN eng' = [eng EXCEPT ![r] = Finished(@)] /\ UNCHANGED <<active, on>>
     ELSE RollBack(Head(eng[r].ids)) /\ eng' = [eng EXCEPT ![r].ids = Tail(@)]
  /\ UNCHANGED <<plan, exe>>

RunStep(r) ==
  /\ eng[r].pc = "steps"
  /\ \E i \in Range(GroupOf(r)) : Execute(<<r, eng[r].n, i>>, Steps[i].raises)

EngineStep(r) ==
  \/ Pre(r) \/ StartGroup(r) \/ EndGroup(r) \/ Post(r) \/ HandleRollback(r) \/ UndoNext(r)
  \/ RunStep(r)

-----------------------------------------------------------------------------
(* Threads that have called the executor so far. *)
Callers ==
  Cardinality({r \in Runners : eng[r].n > 0}) * Max({Len(g) : g \in Range(Groups)} \cup {0})
  + Cardinality({o \in Others : exe[<<o, 1, 1>>] # "none"})


(* The result tells the truth: "completed" is reported of a run in which every
   step of the plan was injected, and no step of a later group starts once a
   failure has aborted the run (run, _execute_steps, _apply_failure_strategy). *)
ResultIsTrue ==
  \A r \in Runners :
    /\ eng[r].status = "completed" => \A f \in ThisRun(r) : exe[f] = "ok"
    /\ eng[r].status = "aborted" =>
         /\ \E f \in GroupFaults(r) : exe[f] # "ok"
         /\ \A k \in eng[r].grp + 1 .. Len(Groups) : \A i \in Range(Groups[k]) :
              exe[<<r, eng[r].n, i>>] = "none"

=============================================================================
