----------------------------- MODULE FaultTypes -----------------------------
(***************************************************************************)
(* The fault types of asuran/domains: what each one's inject does to the   *)
(* host, command by command, what it keeps to undo it, and what its        *)
(* rollback does.  Faults of a session, of any types and on the same       *)
(* target, are injected one after the other; each command may fail; they   *)
(* are undone in any order (durations, "recover") and at exit.             *)
(*                                                                         *)
(* FaultSession models the threads of the same session with two abstract   *)
(* types.  Here one thread runs, and the types are those of the code.      *)
(***************************************************************************)
EXTENDS Integers, Sequences, SequencesExt, FiniteSetsExt

CONSTANTS
  Faults,     \* the faults of a session
  NoFault,    \* the host's own value; no qdisc; no cgroup
  MaxFails    \* bound on the commands that fail

ASSUME TypesAssumption == NoFault \notin Faults /\ MaxFails \in Nat

-----------------------------------------------------------------------------
(* A type: the host resource it is about; the commands of inject in order;
   the command that undoes them; "own" when the type keeps a table of its own
   (filled after "at" commands) that its rollback pops, not "own" when rollback
   is RollbackManager.rollback_one; what inject does in a dry run: "returns" an
   id only, "pushes" an undo, "records" and pushes, or "runs" its commands
   through context.run_cmd; "py" when they are calls of Python itself, which do
   not go through run_cmd. *)
Managed(res, cmds, undo) ==
  [res |-> res, cmds |-> cmds, undo |-> undo, own |-> FALSE, at |-> 0,
   dry |-> "returns", py |-> FALSE]

Keeping(res, cmds, undo, at, dry, py) ==
  [res |-> res, cmds |-> cmds, undo |-> undo, own |-> TRUE, at |-> at,
   dry |-> dry, py |-> py]

\* domains/network: no look at config.dry_run.
Runs(t) == [t EXCEPT !.dry = "runs"]
DelayFault == Runs(Managed("qdisc", <<"add">>, "del"))
LossFault == Runs(Managed("qdisc", <<"add">>, "del"))
CorruptFault == Runs(Managed("qdisc", <<"add">>, "del"))
BandwidthFault == Runs(Managed("qdisc", <<"add">>, "del"))
BlackholeFault == Runs(Managed("drops", <<"append">>, "delete rule"))
NetDnsFailFault == Runs(Managed("drops 53", <<"append">>, "delete rule"))

\* domains/disk.  Fill is fallocate, or else dd.
FillFault == Keeping("", <<"make">>, "remove", 1, "records", FALSE)
IoLatencyFault == Keeping("", <<>>, "nothing", 0, "records", TRUE)
IopsFault == Keeping("", <<"read", "make", "limit", "limit">>, "rmdir", 4, "records", FALSE)

\* domains/memory.
PressureFault == Keeping("", <<"make">>, "remove", 1, "pushes", TRUE)
OomFault == Keeping("oom", <<"read", "write">>, "restore", 1, "pushes", FALSE)
SwapFault == Keeping("sysctl", <<"read", "write">>, "restore", 1, "pushes", FALSE)

\* domains/process.  Kill is with SIGKILL.
(* Mutant: the dry run is not looked at. *)
KillDespiteDryRun == Keeping("proc", <<"SIGKILL">>, "nothing", 1, "runs", TRUE)
KillFault == Keeping("proc", <<"SIGKILL">>, "nothing", 1, "records", TRUE)
FreezeFault == Keeping("proc", <<"SIGSTOP">>, "SIGCONT", 1, "records", TRUE)
ZombieFault == Keeping("", <<"make">>, "reap", 1, "records", TRUE)

\* domains/cpu.  Throttle without and with the parameter pid.
StressFault == Keeping("", <<"make">>, "remove", 1, "records", TRUE)
ThrottleFault == Keeping("", <<"make", "limit", "limit">>, "rmdir", 3, "records", FALSE)
ThrottlePid == Keeping("", <<"make", "limit", "limit", "join">>, "rmdir", 4, "records", FALSE)

\* domains/filesystem, kernel, time.
PermissionsFault == Managed("mode", <<"read", "write">>, "restore")
InodesFault == Managed("", <<"make", "touch">>, "remove")
SysctlFault == Managed("sysctl", <<"read", "write">>, "restore")
ModuleFault == Managed("module", <<"rmmod">>, "set")
SkewFault == Managed("clock", <<"append">>, "back")
NtpFault == Managed("ntp", <<"detect", "stop">>, "start")

\* domains/dns_domain, services, boot, software, crypto, hardware.
DnsFailFault == Managed("resolv", <<"backup", "write">>, "mv")
DnsSlowFault == Managed("qdisc", <<"add">>, "del")
StopServiceFault == Managed("unit", <<"clear">>, "start unit")
MaskServiceFault == Managed("mask", <<"set">>, "clear")
KparamFault == Managed("grub", <<"backup">>, "mv")
PreloadFault == Managed("", <<>>, "nothing")
(* Mutant: the backup is copied back and left. *)
CertCopiedBack == Managed("cert", <<"backup", "write">>, "restore")
CertCorruptFault == Managed("cert", <<"backup", "write">>, "mv")
NicDownFault == Managed("nic", <<"clear">>, "set")

Types ==
  [delay |-> DelayFault, loss |-> LossFault, corrupt |-> CorruptFault,
   bandwidth |-> BandwidthFault, blackhole |-> BlackholeFault, net_dns |-> NetDnsFailFault,
   fill |-> FillFault, latency |-> IoLatencyFault, iops |-> IopsFault,
   pressure |-> PressureFault, oom |-> OomFault, swap |-> SwapFault,
   kill |-> KillFault, freeze |-> FreezeFault, zombie |-> ZombieFault,
   stress |-> StressFault, throttle |-> ThrottleFault, throttle_pid |-> ThrottlePid,
   permissions |-> PermissionsFault, inodes |-> InodesFault, sysctl |-> SysctlFault,
   module |-> ModuleFault, skew |-> SkewFault, ntp |-> NtpFault,
   dns_fail |-> DnsFailFault, dns_slow |-> DnsSlowFault,
   stop |-> StopServiceFault, mask |-> MaskServiceFault, kparam |-> KparamFault,
   preload |-> PreloadFault, cert |-> CertCorruptFault, nic |-> NicDownFault]

TypeNames == DOMAIN Types

(* What the end of asuran's process ends too: memory, children. *)
InProcess == {"pressure", "stress", "zombie"}

-----------------------------------------------------------------------------
VARIABLES
  env,     \* type of each fault, dry run (no, --dry-run on the command, in a
           \* dry session, in a dry session of a single command), host at the start
  host,    \* v: the shared resources; own: faults with a private object (a file,
           \* directory, cgroup, process...); member: whose cgroup the process is in
  saved,   \* what each fault's inject has read
  kept,    \* the faults in their types' own tables
  stack,   \* RollbackManager._stack
  active,  \* FaultExecutor._active, in insertion order
  pos,     \* number of commands done by each inject; -1: not in an inject
  out,     \* "new", "active", "failed", "undone"
  up,      \* "up", "exiting", "exited"
  todo,    \* what the atexit handler has still to undo
  fails,   \* commands that failed so far
  lifo,    \* no fault was undone before a newer one
  excused  \* faults for which a command failed and had its effect all the same;
           \* every fault, once an undo command has failed

vars == <<env, host, saved, kept, stack, active, pos, out, up, todo,
          fails, lifo, excused>>

T(f) == Types[env.type[f]]
DryCommand == env.dry \in {"command", "session"}  \* config.dry_run
DrySession == env.dry \in {"session", "single"}   \* context.dry_run

(* The two hosts a session starts on: everything on, or everything off. *)
HostWith(on, proc) ==
  [v |-> [qdisc |-> NoFault, oom |-> NoFault, sysctl |-> NoFault, mode |-> NoFault,
          resolv |-> NoFault, grub |-> NoFault, cert |-> NoFault, proc |-> proc,
          module |-> on, nic |-> on, unit |-> on, mask |-> ~on, chronyd |-> FALSE,
          ntpd |-> on, clock |-> 0] @@ ("drops" :> 0) @@ ("drops 53" :> 0),
   own |-> {}, member |-> NoFault]

Init ==
  /\ env \in [type : [Faults -> TypeNames], dry : {"no", "command", "session", "single"},
              host : {HostWith(TRUE, "running"), HostWith(FALSE, "stopped")}]
  /\ host = env.host
  /\ saved = [f \in Faults |-> NoFault] /\ kept = {} /\ stack = <<>> /\ active = <<>>
  /\ pos = [f \in Faults |-> -1] /\ out = [f \in Faults |-> "new"]
  /\ up = "up" /\ todo = <<>> /\ fails = 0 /\ lifo = TRUE /\ excused = {}

-----------------------------------------------------------------------------
(* The commands: when one succeeds, and what it does.                      *)

Res(f) == IF T(f).res = "ntp" THEN saved[f] ELSE T(f).res

Works(cmd, f) ==
  CASE cmd = "add" -> host.v.qdisc = NoFault
    [] cmd = "del" -> host.v.qdisc # NoFault
    [] cmd = "delete rule" -> host.v[Res(f)] > 0
    [] cmd = "rmmod" -> host.v.module
    [] cmd = "start unit" -> ~host.v.mask
    [] cmd \in {"SIGSTOP", "SIGCONT", "SIGKILL"} -> host.v.proc # "gone"
    [] cmd = "join" -> host.v.proc # "gone"
    [] cmd = "mv" -> f \in host.own
    [] cmd = "rmdir" -> f \in host.own /\ host.member # f
    [] OTHER -> TRUE

Put(f, val) == [host EXCEPT !.v[Res(f)] = val]

(* NtpFault._detect_service: the active one of chronyd and ntpd, or chronyd. *)
Detected == IF ~host.v.chronyd /\ host.v.ntpd THEN "ntpd" ELSE "chronyd"

(* The hosts a command may leave. A child that has not exited yet is not
   reaped by waitpid(WNOHANG). *)
After(cmd, f) ==
  CASE cmd \in {"add", "write"} -> {Put(f, f)}
    [] cmd = "del" -> {Put(f, NoFault)}
    [] cmd = "append" -> {Put(f, host.v[Res(f)] + 1)}
    [] cmd \in {"delete rule", "back"} -> {Put(f, host.v[Res(f)] - 1)}
    [] cmd = "restore" -> {Put(f, saved[f])}
    [] cmd \in {"set", "start", "start unit"} -> {Put(f, TRUE)}
    [] cmd \in {"clear", "stop", "rmmod"} -> {Put(f, FALSE)}
    [] cmd = "SIGSTOP" -> {Put(f, "stopped")}
    [] cmd = "SIGCONT" -> {Put(f, "running")}
    [] cmd = "SIGKILL" -> {[Put(f, "gone") EXCEPT !.member = NoFault]}
    [] cmd \in {"make", "backup"} -> {[host EXCEPT !.own = @ \cup {f}]}
    [] cmd \in {"remove", "rmdir"} -> {[host EXCEPT !.own = @ \ {f}]}
    [] cmd = "mv" -> {[Put(f, saved[f]) EXCEPT !.own = @ \ {f}]}
    [] cmd = "join" -> {[host EXCEPT !.member = f]}
    [] cmd = "reap" -> {host, [host EXCEPT !.own = @ \ {f}]}
    [] OTHER -> {host}

Read(cmd, f) ==
  CASE cmd \in {"read", "backup"} /\ Res(f) # "" -> [saved EXCEPT ![f] = host.v[Res(f)]]
    [] cmd = "detect" -> [saved EXCEPT ![f] = Detected]
    [] OTHER -> saved

(* A command that runs: it works; or it fails, without or with its effect (a
   timeout of run_cmd, a write that was cut short). *)
Succeeds(cmd, f) == Works(cmd, f) /\ host' \in After(cmd, f) /\ UNCHANGED <<fails, excused>>

Fails(cmd, f, hit) ==
  \/ /\ ~Works(cmd, f) /\ UNCHANGED <<host, fails>>
     /\ excused' = excused \cup hit
  \/ /\ fails < MaxFails /\ fails' = fails + 1
     /\ \/ host' = host /\ excused' = excused \cup hit
        \/ Works(cmd, f) /\ ~T(f).py /\ host' \in After(cmd, f) /\ excused' = excused \cup hit \cup {f}

-----------------------------------------------------------------------------
Idle == \A f \in Faults : pos[f] = -1

(* FaultExecutor.execute has passed validation and the guard; inject begins. *)
Begin(f) ==
  /\ up = "up" /\ Idle /\ out[f] = "new"
  /\ LET t == T(f)
         dry == \/ DryCommand /\ t.dry # "runs"
                \/ DrySession /\ t.dry \in {"records", "pushes"}
     IN IF dry
        THEN /\ out' = [out EXCEPT ![f] = "active"] /\ active' = Append(active, f)
             /\ kept' = IF t.dry = "records" THEN kept \cup {f} ELSE kept
             /\ stack' = IF t.dry = "returns" THEN stack ELSE Append(stack, f)
             /\ UNCHANGED pos
        ELSE pos' = [pos EXCEPT ![f] = 0] /\ UNCHANGED <<out, active, kept, stack>>
  /\ UNCHANGED <<env, host, saved, up, todo, fails, lifo, excused>>

(* The next command of the inject at hand. An exception leaves inject. *)
Command(f) ==
  /\ pos[f] >= 0 /\ pos[f] < Len(T(f).cmds)
  /\ LET cmd == T(f).cmds[pos[f] + 1]
         real == ~DrySession \/ T(f).py
     IN \/ /\ IF real THEN Succeeds(cmd, f) ELSE UNCHANGED <<host, fails, excused>>
           /\ saved' = IF real THEN Read(cmd, f) ELSE saved
           /\ pos' = [pos EXCEPT ![f] = @ + 1]
           /\ kept' = IF T(f).own /\ pos[f] + 1 = T(f).at THEN kept \cup {f} ELSE kept
           /\ UNCHANGED out
        \/ /\ real /\ Fails(cmd, f, {})
           /\ pos' = [pos EXCEPT ![f] = -1] /\ out' = [out EXCEPT ![f] = "failed"]
           /\ UNCHANGED <<saved, kept>>
  /\ UNCHANGED <<env, stack, active, up, todo, lifo>>

(* inject pushes the undo and returns; execute enters the fault in _active. *)
Finish(f) ==
  /\ pos[f] = Len(T(f).cmds)
  /\ pos' = [pos EXCEPT ![f] = -1] /\ out' = [out EXCEPT ![f] = "active"]
  /\ kept' = IF T(f).own /\ T(f).cmds = <<>> THEN kept \cup {f} ELSE kept
  /\ stack' = Append(stack, f) /\ active' = Append(active, f)
  /\ UNCHANGED <<env, host, saved, up, todo, fails, lifo, excused>>

-----------------------------------------------------------------------------
Without(s, f) == SelectSeq(s, LAMBDA g : g # f)

(* The rollback of a type with a table of its own: pop, then undo; a failing
   command is logged. Of the undo commands only rmdir and restore go through
   run_cmd, which does nothing in a dry session. *)
OwnRollback(f) ==
  IF f \notin kept THEN UNCHANGED <<host, kept, fails, excused>>
  ELSE /\ kept' = kept \ {f}
       /\ IF DrySession /\ T(f).undo \in {"rmdir", "restore"}
          THEN UNCHANGED <<host, fails, excused>>
          ELSE Succeeds(T(f).undo, f) \/ Fails(T(f).undo, f, Faults)

(* RollbackManager.rollback_one: the function of the action; when it raises,
   the action stays on the stack. *)
ManagerRollback(f) ==
  IF f \notin Range(stack) THEN UNCHANGED <<host, kept, stack, fails, excused>>
  ELSE \/ /\ IF T(f).own THEN OwnRollback(f)
             ELSE /\ IF DrySession THEN UNCHANGED <<host, fails, excused>>
                     ELSE Succeeds(T(f).undo, f)
                  /\ UNCHANGED kept
          /\ stack' = Without(stack, f)
       \/ ~T(f).own /\ ~DrySession /\ Fails(T(f).undo, f, Faults) /\ UNCHANGED <<kept, stack>>

(* FaultExecutor.rollback_one: the type's rollback; the fault is no longer
   active, whether the undo worked or not. *)
Rollback(f) ==
  /\ IF T(f).own THEN OwnRollback(f) /\ UNCHANGED stack ELSE ManagerRollback(f)
  /\ active' = Without(active, f)
  /\ out' = [out EXCEPT ![f] = "undone"]
  /\ lifo' = (lifo /\ f = Last(active))
  /\ UNCHANGED <<env, saved, pos>>

(* A duration expires, or the operator types "recover" with an id. *)
Recover(f) ==
  /\ up = "up" /\ Idle /\ f \in Range(active)
  /\ Rollback(f)
  /\ UNCHANGED <<up, todo>>

(* "exit": FaultExecutor.rollback_all, newest first; then the atexit handler
   takes what is left on the manager's stack. *)
Exit ==
  /\ up \in {"up", "exiting"} /\ Idle
  /\ IF active # <<>>
     THEN Rollback(Last(active)) /\ up' = "exiting" /\ UNCHANGED todo
     ELSE /\ up' = "leaving" /\ todo' = Reverse(stack)
          /\ UNCHANGED <<env, host, saved, kept, stack, active, pos, out, fails, lifo, excused>>

(* The atexit handler: each action once; then the process and what lived in it
   are gone. *)
AtExit ==
  /\ up = "leaving"
  /\ IF todo # <<>>
     THEN ManagerRollback(Head(todo)) /\ todo' = Tail(todo) /\ UNCHANGED up
     ELSE /\ up' = "exited" /\ UNCHANGED <<todo, kept, stack, fails, excused>>
          /\ host' = [host EXCEPT !.own = {f \in @ : env.type[f] \notin InProcess}]
  /\ UNCHANGED <<env, saved, active, pos, out, lifo>>

Ended == up = "exited" /\ UNCHANGED vars

Next ==
  \/ \E f \in Faults : Begin(f) \/ Command(f) \/ Finish(f) \/ Recover(f)
  \/ Exit \/ AtExit \/ Ended

Spec == Init /\ [][Next]_vars

-----------------------------------------------------------------------------
(* The types; no fault is twice on the stack or in the table (execute, push). *)
TypeOK ==
  /\ kept \cup Range(stack) \cup Range(active) \cup Range(todo) \subseteq {f \in Faults : out[f] # "new" \/ pos[f] >= 0}
  /\ host.own \subseteq Faults /\ host.member \in Faults \cup {NoFault}
  /\ \A f \in Faults : pos[f] \in -1 .. Len(T(f).cmds)
  /\ \A s \in {stack, active} : Cardinality(Range(s)) = Len(s)
  /\ host.v["drops"] >= 0 /\ host.v["drops 53"] >= 0
  /\ up \in {"up", "exiting", "leaving", "exited"} /\ fails \in 0 .. MaxFails

(* What undoes a fault is still there: its type's table, or its action. *)
CanUndo(f) == IF T(f).own THEN f \in kept ELSE f \in Range(stack)

(* Whatever a fault has changed in the host's shared state (a qdisc, a setting,
   a file) can be undone, however its inject ended: an inject that fails half
   way leaves at most objects of its own, a cgroup, a directory, a backup, and
   nothing else (the order of commands, table and push in every inject). It is
   about commands that do nothing when they fail, undo commands that work and
   faults undone newest first. *)
NothingChangedUnrecorded ==
  lifo => \A f \in Faults \ excused :
    f \in {host.v[r] : r \in {"qdisc", "oom", "sysctl", "mode", "resolv", "cert"}}
      => CanUndo(f) \/ pos[f] >= 0

(* An active fault is in effect, where types do not overwrite each other: the
   root qdisc is that fault's own, the drop rules are as many as the faults
   that added them, its files, cgroups, children and memory are there (inject
   and rollback of those types, in any order and with failing commands). *)
ActiveIsInEffect ==
  env.dry = "no" => \A f \in Range(active) :
    /\ T(f).res = "qdisc" => host.v.qdisc = f
    /\ T(f).res \in {"drops", "drops 53"} =>
         host.v[T(f).res] >= Cardinality({g \in Range(active) : T(g).res = T(f).res})
    /\ "make" \in Range(T(f).cmds) => f \in host.own
    /\ T(f).res = "module" => ~host.v.module


(* What rollback puts back is what the type presumes it found: a unit that
   runs, an interface that is up, a process that is not stopped, a time service
   that no other fault has stopped. A kill is not undone, and a cgroup with a
   process in it cannot be removed. *)
Restorable(f) ==
  /\ env.type[f] \notin {"kill", "throttle_pid"}
  /\ env.type[f] \in {"freeze", "ntp", "stop", "mask", "nic"} => env.host = HostWith(TRUE, "running")
  /\ env.type[f] = "ntp" => \A g \in Faults \ {f} : env.type[g] # "ntp"

(* Types that put back a value or a state, so that the order matters. *)
Ordered == {"oom", "swap", "sysctl", "permissions", "dns_fail", "cert"}

(* After exit the host is what it was before the first fault, private objects
   included, if no command failed, faults were undone newest first or are of
   types for which the order does not matter, whatever the types and however
   many share a target (rollback, rollback_one, rollback_all, the atexit
   handler, which repeats the undo commands that could not work). *)
ExitRestores ==
  /\ up = "exited" /\ fails = 0 /\ env.dry = "no"
  /\ \A f \in Faults : out[f] = "undone" => Restorable(f)
  /\ lifo \/ \A f \in Faults : env.type[f] \notin Ordered
  => host = env.host

(* A dry run changes nothing on the host: in a dry session none does, and with
   --dry-run on the command none outside the network domain does (the branches
   on dry_run in every inject, ExecutionContext.run_cmd). A dry run of freeze
   on a process that is stopped already is the exception: its rollback sends
   SIGCONT. *)
DryRunIsDry ==
  (DrySession \/ (env.dry = "command" /\ \A f \in Faults : T(f).dry # "runs"))
  /\ (\A f \in Faults : env.type[f] = "freeze" => env.host.v.proc = "running")
  => host = env.host
=============================================================================
