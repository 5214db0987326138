---------------------------- MODULE FaultSession ----------------------------
(***************************************************************************)
(* One interactive session of asuran: the prompt (cli/repl.py), the fault  *)
(* executor (core/executor.py), the rollback manager (safety/rollback.py)  *)
(* and the two shapes a fault type takes in asuran/domains:                *)
(*   - "tc" delegates its rollback to the rollback manager and undoes what *)
(*     occupies a shared place on the host (the netem rule of the one      *)
(*     interface, of which the kernel accepts one at a time);              *)
(*   - "setting" saves the value it overwrites and restores it itself,     *)
(*     which leaves it on the rollback manager's stack (swappiness).       *)
(*                                                                         *)
(* Threads: the main thread, the signal handler that Python runs on top of *)
(* it, and one daemon timer thread per fault.  None of the code takes a    *)
(* lock; a step of the model is one access to a shared structure.          *)
(***************************************************************************)
EXTENDS Naturals, Sequences, SequencesExt

CONSTANTS
  FaultIds,       \* fault ids; every injection draws a new one
  NoFault,
  Main, Sig,      \* the main thread and the signal handler
  Scenarios       \* the circumstances of a session

(* kind: the shape of the fault that uses an id; limit: max_concurrent_faults;
   timers: whether durations expire during the session; recover: whether the
   operator types "recover"; signals: those that may arrive, nsignals of them
   at most; nfails: bound on the undo commands that fail; ncrashes: bound on
   the kills of the process; overlap: whether two threads may be in the middle
   of an operation. *)
ScenarioType ==
  [kind : [FaultIds -> {"tc", "setting"}], limit : Nat,
   timers : BOOLEAN, recover : BOOLEAN, overlap : BOOLEAN,
   signals : SUBSET {"INT", "TERM"}, nsignals : Nat, nfails : Nat, ncrashes : Nat]

SessionAssumption ==
  /\ NoFault \notin FaultIds /\ Main \notin FaultIds /\ Sig \notin FaultIds
  /\ Main # Sig
  /\ \A s \in Scenarios : s \in ScenarioType

VARIABLES
  env,       \* the scenario of this session
  qdisc,     \* the fault whose rule is on the interface
  setting,   \* the fault whose value the setting has; NoFault: the host's own
  original,  \* plugin._original_swappiness: what each fault overwrote
  stack,     \* RollbackManager._stack, as fault ids
  rolled,    \* RollbackManager._rolled_back
  file,      \* active_faults.json
  active,    \* FaultExecutor._active, in insertion order
  timers,    \* the faults whose timer is running
  thr,       \* what each thread is doing
  up,        \* the process: "up", "exited", "crashed"
  used,      \* the fault ids drawn so far
  faults     \* signals, failures and crashes so far

vars == <<env, qdisc, setting, original, stack, rolled, file, active, timers, thr,
          up, used, faults>>
host == <<qdisc, setting>>
manager == <<stack, rolled>>
executor == <<active, timers>>
process == <<env, up, used, faults>>

Threads == FaultIds \cup {Main, Sig}
Saved == FaultIds \cup {NoFault}

\* op: the operation; via: whether faults are undone through the executor or
\* the manager; ids: the faults still to undo; f: the fault at hand; snap: the
\* list the thread has computed; val: the value the plugin is about to write.
Idle == [op |-> "idle", via |-> "exec", pc |-> "idle", f |-> NoFault,
         ids |-> <<>>, snap |-> <<>>, val |-> NoFault]

Without(s, f) == SelectSeq(s, LAMBDA g : g # f)

Init ==
  /\ env \in Scenarios
  /\ qdisc = NoFault /\ setting = NoFault
  /\ original = [f \in {} |-> NoFault]
  /\ stack = <<>> /\ rolled = {} /\ file = <<>>
  /\ active = <<>> /\ timers = {}
  /\ thr = [t \in Threads |-> Idle]
  /\ up = "up" /\ used = {}
  /\ faults = [signals |-> 0, fails |-> 0, crashes |-> 0]

-----------------------------------------------------------------------------
(* The handler runs on the main thread, which waits for it. *)
CanRun(t) ==
  /\ up = "up"
  /\ t = Main => thr[Sig].op = "idle"
  /\ \/ env.overlap
     \/ \A u \in Threads \ {t} :
          thr[u].op = "idle" \/ (t = Sig /\ u = Main)

At(t, pc) == CanRun(t) /\ thr[t].pc = pc

Goto(t, pc) == thr' = [thr EXCEPT ![t].pc = pc]

(* Where a thread goes on when the manager or the plugin has returned.  The
   plugin ignores what the manager returns. *)
Return(t) == IF thr[t].via = "exec" THEN "del" ELSE "next"

Undo(op, via, ids) == [Idle EXCEPT !.op = op, !.via = via, !.pc = "next",
                                   !.ids = ids]

(* The atexit handler undoes what is left on the manager's stack. *)
AtExit == Undo("atexit", "mgr", Reverse(stack))

-----------------------------------------------------------------------------
(* Injecting a fault: FaultExecutor.execute, on the main thread.           *)

(* The operator types a command with the parameters of a new fault. *)
Command ==
  /\ CanRun(Main) /\ thr[Main].op = "idle"
  /\ \E f \in FaultIds \ used :
       /\ used' = used \cup {f}
       /\ thr' = [thr EXCEPT ![Main] = [Idle EXCEPT !.op = "inject", !.pc = "check", !.f = f]]
  /\ UNCHANGED <<host, original, manager, file, executor, env, up, faults>>

(* BlastRadiusGuard.check.  Only its first error is caught: the others leave
   execute and the prompt's loop, and end the process. *)
Check ==
  /\ At(Main, "check")
  /\ IF Len(active) >= env.limit
       THEN thr' = [thr EXCEPT ![Main] = Idle]
       ELSE Goto(Main, "inject") \/ thr' = [thr EXCEPT ![Main] = AtExit]
  /\ UNCHANGED <<host, original, manager, file, executor, process>>

(* DelayFault.inject: the kernel refuses a second rule. SwapFault.inject:
   the value to be overwritten is read and saved first. *)
Inject ==
  /\ At(Main, "inject")
  /\ LET f == thr[Main].f
     IN  IF env.kind[f] = "setting"
           THEN /\ original' = [g \in DOMAIN original \cup {f} |->
                                  IF g = f THEN setting ELSE original[g]]
                /\ Goto(Main, "apply")
                /\ UNCHANGED host
           ELSE /\ IF qdisc = NoFault THEN qdisc' = f /\ Goto(Main, "push")
                   ELSE thr' = [thr EXCEPT ![Main] = Idle] /\ UNCHANGED qdisc
                /\ UNCHANGED <<setting, original>>
  /\ UNCHANGED <<manager, file, executor, process>>

Apply ==
  /\ At(Main, "apply")
  /\ setting' = thr[Main].f
  /\ Goto(Main, "push")
  /\ UNCHANGED <<qdisc, original, manager, file, executor, process>>


Push ==
  /\ At(Main, "push")
  /\ stack' = Append(stack, thr[Main].f)
  /\ Goto(Main, "dump")
  /\ UNCHANGED <<host, original, rolled, file, executor, process>>

Track ==
  /\ At(Main, "track")
  /\ active' = Append(active, thr[Main].f)
  /\ Goto(Main, "timer")
  /\ UNCHANGED <<host, original, manager, file, timers, process>>

(* Every fault has a duration: the guard gives it a default one. *)
StartTimer ==
  /\ At(Main, "timer")
  /\ timers' = timers \cup {thr[Main].f}
  /\ thr' = [thr EXCEPT ![Main] = Idle]
  /\ UNCHANGED <<host, original, manager, file, active, process>>

-----------------------------------------------------------------------------
(* Undoing faults. Every thread runs the same code: rollback_all over the  *)
(* ids it holds, of the executor or of the manager.                        *)

(* "recover <id>", "recover" and "exit": FaultExecutor.rollback_one and
   rollback_all, newest fault first. *)
Request ==
  /\ CanRun(Main) /\ thr[Main].op = "idle"
  /\ \/ /\ env.recover
        /\ \E f \in used : thr' = [thr EXCEPT ![Main] = Undo("recover", "exec", <<f>>)]
     \/ /\ env.recover
        /\ thr' = [thr EXCEPT ![Main] = Undo("recover", "exec", Reverse(active))]
     \/ thr' = [thr EXCEPT ![Main] = Undo("exit", "exec", Reverse(active))]
  /\ UNCHANGED <<host, original, manager, file, executor, process>>


AutoRollback(f) ==
  /\ env.timers /\ CanRun(f) /\ f \in timers
  /\ timers' = timers \ {f}
  /\ thr' = [thr EXCEPT ![f] = Undo("auto", "exec", <<f>>)]
  /\ UNCHANGED <<host, original, manager, file, active, process>>

(* RollbackManager._signal_handler. Ctrl-C at the prompt is the prompt's
   own, and a second signal waits. *)
Signal(sig) ==
  /\ CanRun(Sig) /\ thr[Sig].op = "idle"
  /\ sig \in env.signals /\ faults.signals < env.nsignals
  /\ sig = "INT" => thr[Main].op \in {"inject", "recover", "exit"}
  /\ faults' = [faults EXCEPT !.signals = @ + 1]
  /\ thr' = [thr EXCEPT ![Sig] = Undo(sig, "mgr", Reverse(stack))]
  /\ UNCHANGED <<host, original, manager, file, executor, env, up, used>>

(* The next fault of rollback_all. *)
NextFault(t) ==
  /\ At(t, "next") /\ thr[t].ids # <<>>
  /\ thr' = [thr EXCEPT ![t].f = Head(thr[t].ids), ![t].ids = Tail(@),
                        ![t].pc = IF thr[t].via = "exec" THEN "get" ELSE "look"]
  /\ UNCHANGED <<host, original, manager, file, executor, process>>

(* FaultExecutor.rollback_one: the fault is looked up and its timer cancelled;
   the plugin then delegates to the manager or undoes the fault itself. *)
GetActive(t) ==
  /\ At(t, "get")
  /\ LET f == thr[t].f
     IN  IF f \notin Range(active) THEN Goto(t, "next") /\ UNCHANGED timers
         ELSE /\ timers' = timers \ {f}
              /\ Goto(t, IF env.kind[f] = "tc" THEN "look" ELSE "undo")
  /\ UNCHANGED <<host, original, manager, file, active, process>>

(* RollbackManager.rollback_one: nothing is done twice. Mutant: it is. *)
LookUpAgain(t) ==
  /\ At(t, "look")
  /\ Goto(t, "undo")
  /\ UNCHANGED <<host, original, manager, file, executor, process>>

LookUp(t) ==
  /\ At(t, "look")
  /\ LET f == thr[t].f
     IN  Goto(t, IF f \in rolled \/ f \notin Range(stack) THEN Return(t) ELSE "undo")
  /\ UNCHANGED <<host, original, manager, file, executor, process>>

(* rollback_fn of the "tc" kind: the rule of the interface is deleted,
   whichever it is. The command may fail, and fails when there is no rule. *)
UndoRule(t) ==
  /\ At(t, "undo") /\ env.kind[thr[t].f] = "tc"
  /\ \/ qdisc # NoFault /\ qdisc' = NoFault /\ Goto(t, "filter") /\ UNCHANGED faults
     \/ qdisc = NoFault /\ Goto(t, Return(t)) /\ UNCHANGED <<qdisc, faults>>
     \/ /\ qdisc # NoFault /\ faults.fails < env.nfails
        /\ faults' = [faults EXCEPT !.fails = @ + 1]
        /\ Goto(t, Return(t))
        /\ UNCHANGED qdisc
  /\ UNCHANGED <<setting, original, manager, file, executor, env, up, used>>

(* SwapFault.rollback: the saved value is taken, then written; its errors are
   ignored. The executor calls it directly, the manager as rollback_fn. *)
AfterRestore(t) == IF thr[t].via = "exec" THEN "del" ELSE "filter"

UndoSetting(t) ==
  /\ At(t, "undo") /\ env.kind[thr[t].f] = "setting"
  /\ LET f == thr[t].f
     IN  IF f \notin DOMAIN original THEN Goto(t, AfterRestore(t)) /\ UNCHANGED original
         ELSE /\ original' = [g \in DOMAIN original \ {f} |-> original[g]]
              /\ thr' = [thr EXCEPT ![t].val = original[f], ![t].pc = "write"]
  /\ UNCHANGED <<host, manager, file, executor, process>>

WriteSetting(t) ==
  /\ At(t, "write")
  /\ setting' = thr[t].val
  /\ Goto(t, AfterRestore(t))
  /\ UNCHANGED <<qdisc, original, manager, file, executor, process>>

(* The list without the fault is built, and replaces the stack. *)
Filter(t) ==
  /\ At(t, "filter")
  /\ rolled' = rolled \cup {thr[t].f}
  /\ thr' = [thr EXCEPT ![t].snap = Without(stack, thr[t].f), ![t].pc = "store"]
  /\ UNCHANGED <<host, original, stack, file, executor, process>>

Store(t) ==
  /\ At(t, "store")
  /\ stack' = thr[t].snap
  /\ Goto(t, "dump")
  /\ UNCHANGED <<host, original, rolled, file, executor, process>>

(* _save_state: the list is dumped, and the file replaced by the dump. *)
Dump(t) ==
  /\ At(t, "dump")
  /\ thr' = [thr EXCEPT ![t].snap = stack, ![t].pc = "replace"]
  /\ UNCHANGED <<host, original, manager, file, executor, process>>

Replace(t) ==
  /\ At(t, "replace")
  /\ file' = thr[t].snap
  /\ Goto(t, IF thr[t].op = "inject" THEN "track" ELSE Return(t))
  /\ UNCHANGED <<host, original, manager, executor, process>>

(* del self._active[f]; the KeyError of a second del is caught. *)
DelActive(t) ==
  /\ At(t, "del")
  /\ active' = Without(active, thr[t].f)
  /\ Goto(t, "next")
  /\ UNCHANGED <<host, original, manager, file, timers, process>>

(* rollback_all has returned. The default handler of SIGINT raises
   KeyboardInterrupt, which takes the main thread back to the prompt; SIGTERM
   has none, and the session goes on. *)
Done(t) ==
  /\ At(t, "next") /\ thr[t].ids = <<>> /\ thr[t].op # "atexit"
  /\ thr' = CASE thr[t].op = "exit" -> [thr EXCEPT ![t] = AtExit]
              [] thr[t].op = "INT"  -> [thr EXCEPT ![t] = Idle, ![Main] = Idle]
              [] OTHER              -> [thr EXCEPT ![t] = Idle]
  /\ UNCHANGED <<host, original, manager, file, executor, process>>

-----------------------------------------------------------------------------
(* The process ends, with its daemon threads, and is started again.        *)

Forget ==
  /\ original' = [f \in {} |-> NoFault]
  /\ stack' = <<>> /\ rolled' = {} /\ active' = <<>> /\ timers' = {}
  /\ thr' = [t \in Threads |-> Idle]

Exit ==
  /\ At(Main, "next") /\ thr[Main].ids = <<>> /\ thr[Main].op = "atexit"
  /\ up' = "exited"
  /\ Forget
  /\ UNCHANGED <<host, file, env, used, faults>>

Crash ==
  /\ up = "up" /\ faults.crashes < env.ncrashes
  /\ up' = "crashed"
  /\ faults' = [faults EXCEPT !.crashes = @ + 1]
  /\ Forget
  /\ UNCHANGED <<host, file, env, used>>

(* main(): the orphaned faults are printed, and their file deleted. *)
Start ==
  /\ up # "up"
  /\ up' = "up"
  /\ file' = <<>>
  /\ UNCHANGED <<host, original, manager, executor, thr, env, used, faults>>

Step(t) ==
  \/ NextFault(t) \/ GetActive(t) \/ LookUp(t) \/ UndoRule(t) \/ UndoSetting(t)
  \/ WriteSetting(t) \/ Filter(t) \/ Store(t) \/ Dump(t) \/ Replace(t)
  \/ DelActive(t) \/ Done(t)

Execute == Check \/ Inject \/ Apply \/ Push \/ Track \/ StartTimer

Next ==
  \/ Command \/ Execute \/ Request
  \/ \E f \in FaultIds : AutoRollback(f)
  \/ \E sig \in {"INT", "TERM"} : Signal(sig)
  \/ \E t \in Threads : Step(t)
  \/ Exit \/ Crash \/ Start

Spec == Init /\ [][Next]_vars

(* Threads are scheduled, and a timer that runs expires; the operator need
   not type anything. *)
Fairness ==
  /\ WF_vars(Execute) /\ WF_vars(Exit)
  /\ \A t \in Threads : WF_vars(Step(t))
  /\ \A f \in FaultIds : WF_vars(AutoRollback(f))

FairSpec == Spec /\ Fairness

-----------------------------------------------------------------------------
InEffect(f) == IF env.kind[f] = "tc" THEN qdisc = f ELSE setting = f

Injecting(f) == thr[Main].op = "inject" /\ thr[Main].f = f

(* The types; no fault is twice on the stack, in the table or in the file (execute, push). *)
TypeOK ==
  /\ {qdisc, setting} \subseteq Saved
  /\ DOMAIN original \subseteq FaultIds /\ Range(original) \subseteq Saved
  /\ Range(stack) \cup Range(file) \cup Range(active) \cup rolled \cup timers \subseteq used
  /\ used \subseteq FaultIds
  /\ \A f \in FaultIds : \A s \in {stack, active, file} : Len(SelectSeq(s, LAMBDA g : g = f)) <= 1
  /\ \A t \in Threads :
       /\ thr[t].f \in Saved /\ thr[t].val \in Saved
       /\ thr[t].op = "idle" <=> thr[t].pc = "idle"
  /\ up \in {"up", "exited", "crashed"}

(* Threads do not overlap, and Ctrl-C does not cut an operation short. *)
OneAtATime == ~env.overlap /\ "INT" \notin env.signals

(* Besides, every undo command works and nobody kills the process. *)
Undisturbed == OneAtATime /\ env.nfails = 0 /\ env.ncrashes = 0

(* Whatever asuran has done to the host it can undo: the fault is on the
   manager's stack, or in the file once the process has gone, or is just
   being injected or undone (inject, push, rollback_one, _save_state). *)
FaultIsRecorded ==
  \A f \in FaultIds :
    InEffect(f) =>
      \/ Injecting(f)
      \/ \E t \in Threads : thr[t].f = f /\ thr[t].pc = "write"
      \/ f \in Range(IF up = "up" THEN stack ELSE file)


(* Rolling back a fault touches no other fault's rule, however often and from
   wherever it is requested, and whether undo commands fail or not: the rule
   of a fault on the stack is in place unless that fault is just being undone
   (the checks in rollback_one). *)
RuleInPlace ==
  OneAtATime =>
    \A f \in Range(stack) :
      \/ env.kind[f] # "tc" \/ qdisc = f
      \/ \E t \in Threads : thr[t].f = f /\ thr[t].pc \in {"filter", "store"}

=============================================================================
