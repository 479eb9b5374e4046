------------------------------- MODULE Tracer -------------------------------
(***************************************************************************)
(* trace() of ptrace_syscalls.py: one thread that waits for a stop of any  *)
(* traced task, does what the stop asks for and resumes the task.          *)
(*                                                                         *)
(* ptrace does not say whether a syscall stop is an entry or an exit: the  *)
(* tracer alternates (in_syscall) and keeps the record of the entry for    *)
(* the exit.  The tables by pid (here the virtual credentials) are filled  *)
(* by the parent's fork event.  The tasks run on their own: the first stop *)
(* of a child and its parent's event are reported in either order, a task  *)
(* may be killed at any point, also between waitpid and the ptrace call,   *)
(* and a thread that calls execve takes over the pid of its process.       *)
(***************************************************************************)
EXTENDS VirtualIds, FiniteSets

CONSTANTS
  Pids,        \* of tasks: processes and threads
  First,       \* the task launch_tracee forked
  Calls,       \* the calls tasks make
  InitialUid,  \* --uid and --gid
  MaxCalls,    \* bound on the calls of all tasks together
  MaxKills,    \* bound on the SIGKILLs
  NoPid, NoCall, NoCred, Running

Executables == [suid : BOOLEAN, sgid : BOOLEAN, uid : Ids, gid : Ids]
Call == IdCalls
        \cup [name : {"fork", "clone"}]          \* clone: with CLONE_THREAD
        \cup [name : {"exec"}, exe : Executables]
        \cup [name : {"exit"}, code : {0, 1}]
Status == {0, 1, 137}                            \* 137: killed by SIGKILL

ASSUME TracerAssumption ==
  /\ First \in Pids /\ NoPid \notin Pids
  /\ Calls \subseteq Call /\ NoCall \notin Call
  /\ InitialUid \in Ids /\ NoCred \notin Credentials
  /\ MaxCalls \in Nat /\ MaxKills \in Nat
  /\ Running \notin Status

VARIABLES
  task,      \* the kernel's view of each task
  group,     \* the pid of the process a task is a thread of
  ideal,     \* the credentials the program may rely on
  budget,    \* calls and kills that are left
  alive,     \* the tracer's set of pids
  inSyscall, \* in_syscall; FALSE also for pids that are no key of it
  active,    \* active_syscalls
  cred,      \* VIRTUAL_IDS.credentials_by_pid
  exitCode,
  result,    \* what trace returned, or Running
  followed   \* history: the tasks known from their first stop on

kernelVars == <<task, group, ideal, budget>>
tracerVars == <<alive, inSyscall, active, cred, exitCode, result>>
vars == <<kernelVars, tracerVars, followed>>

EventStops == {"fork", "exec", "exiting"}        \* PTRACE_EVENT_*
Stops == {"starting", "entry", "exit"} \cup EventStops
Task == [at   : {"unborn", "running", "insys", "execing", "zombie", "reaped"} \cup Stops,
         call : Call \cup {NoCall},
         ok   : BOOLEAN,                         \* the call succeeded
         msg  : Pids \cup {NoPid},               \* PTRACE_GETEVENTMSG: the child
         status : Status]

TypeOK ==
  /\ task \in [Pids -> Task] /\ group \in [Pids -> Pids]
  /\ ideal \in [Pids -> Credentials]
  /\ budget \in [calls : 0..MaxCalls, kills : 0..MaxKills]
  /\ alive \subseteq Pids
  /\ inSyscall \in [Pids -> BOOLEAN]
  /\ active \in [Pids -> Call \cup {NoCall}]
  /\ cred \in [Pids -> Credentials \cup {NoCred}]
  /\ exitCode \in Status /\ result \in Status \cup {Running}
  /\ followed \subseteq Pids

Initial == FromIds(InitialUid, InitialUid)
Unborn == [at |-> "unborn", call |-> NoCall, ok |-> TRUE, msg |-> NoPid, status |-> 0]

(* run_tracee forks the first task, which stops itself, and trace registers*)
(* it.                                                                     *)
Init ==
  /\ task = [p \in Pids |-> IF p = First THEN [Unborn EXCEPT !.at = "starting"] ELSE Unborn]
  /\ group = [p \in Pids |-> p]
  /\ ideal = [p \in Pids |-> Initial]
  /\ budget = [calls |-> MaxCalls, kills |-> MaxKills]
  /\ alive = {First}
  /\ inSyscall = [p \in Pids |-> FALSE]
  /\ active = [p \in Pids |-> NoCall]
  /\ cred = [p \in Pids |-> IF p = First THEN Initial ELSE NoCred]
  /\ exitCode = 0 /\ result = Running
  /\ followed = {First}

At(p, where) == task[p].at \in where
Live(p) == ~At(p, {"unborn", "exiting", "zombie", "reaped"})
Threads(p) == {t \in Pids : group[t] = group[p] /\ ~At(t, {"unborn", "reaped"})}

(* The last steps of the tasks in T; some are seen at PTRACE_EVENT_EXIT.   *)
Ending(T, status) ==
  \E silent \in SUBSET {t \in T : status = 137} :
    LET ended(t) == IF t \in T /\ Live(t)
                    THEN [Unborn EXCEPT !.at = IF t \in silent THEN "zombie" ELSE "exiting",
                                        !.status = status]
                    ELSE task[t]
    IN task' = [t \in Pids |-> ended(t)]

-----------------------------------------------------------------------------
(* The tasks.                                                              *)

Enter(p, call) ==
  /\ At(p, {"running"}) /\ budget.calls > 0
  /\ task' = [task EXCEPT ![p] = [@ EXCEPT !.at = "entry", !.call = call, !.ok = TRUE]]
  /\ budget' = [budget EXCEPT !.calls = @ - 1]
  /\ UNCHANGED <<group, ideal, tracerVars, followed>>

(* A call that is done; the virtual calls were replaced by getpid.         *)
Return(p) ==
  /\ At(p, {"insys"}) /\ task[p].call.name \notin {"fork", "clone", "exec", "exit"}
  /\ task' = [task EXCEPT ![p] = [@ EXCEPT !.at = "exit"]]
  /\ UNCHANGED <<group, ideal, budget, tracerVars, followed>>

Fail(p) ==
  /\ At(p, {"insys"}) /\ task[p].call.name \in {"fork", "clone", "exec"}
  /\ task' = [task EXCEPT ![p] = [@ EXCEPT !.at = "exit", !.ok = FALSE]]
  /\ UNCHANGED <<group, ideal, budget, tracerVars, followed>>

Fork(p, child) ==
  /\ At(p, {"insys"}) /\ task[p].call.name \in {"fork", "clone"}
  /\ At(child, {"unborn"})
  /\ task' = [task EXCEPT ![p] = [@ EXCEPT !.at = "fork", !.msg = child],
                          ![child] = [Unborn EXCEPT !.at = "starting"]]
  /\ group' = [group EXCEPT ![child] = IF task[p].call.name = "clone" THEN group[p] ELSE child]
  /\ ideal' = [ideal EXCEPT ![child] = ideal[p]]
  /\ UNCHANGED <<budget, tracerVars, followed>>

(* execve ends the other threads, and has to wait for them ...             *)
ExecBegin(p) ==
  /\ At(p, {"insys"}) /\ task[p].call.name = "exec"
  /\ LET others == {t \in Threads(p) \ {p} : Live(t)} IN
       task' = [t \in Pids |-> CASE t = p -> [task[p] EXCEPT !.at = "execing"]
                                 [] t \in others -> [Unborn EXCEPT !.at = "exiting"]
                                 [] OTHER -> task[t]]
  /\ UNCHANGED <<group, ideal, budget, tracerVars, followed>>

(* ... and then goes on under the pid of the process, whichever thread     *)
(* called it.  The pid the thread had disappears without a report.         *)
ExecEnd(p) ==
  LET leader == group[p] IN
  /\ At(p, {"execing"})
  /\ \A t \in Threads(p) \ {p} : t = leader /\ At(t, {"zombie"})
  /\ task' = [t \in Pids |-> CASE t = leader -> [task[p] EXCEPT !.at = "exec"]
                               [] t = p /\ p # leader -> [Unborn EXCEPT !.at = "reaped"]
                               [] OTHER -> task[t]]
  /\ ideal' = [ideal EXCEPT ![leader] = ideal[p]]
  /\ followed' = IF p = leader THEN followed ELSE followed \ {p, leader}
  /\ UNCHANGED <<group, budget, tracerVars>>

(* exit_group of a process, exit of a thread.                              *)
Exit(p) ==
  /\ At(p, {"insys"}) /\ task[p].call.name = "exit"
  /\ Ending(IF p = group[p] THEN Threads(p) ELSE {p}, task[p].call.code)
  /\ UNCHANGED <<group, ideal, budget, tracerVars, followed>>

Kill(p) ==
  /\ Live(p) /\ budget.kills > 0
  /\ Ending(Threads(p), 137)
  /\ budget' = [budget EXCEPT !.kills = @ - 1]
  /\ UNCHANGED <<group, ideal, tracerVars, followed>>

(* What a task does once it was resumed from a stop.                       *)
ResumedAt(t) ==
  CASE t.at = "entry" -> "insys"
    [] t.at = "starting" -> "running"
    [] t.at \in {"fork", "exec"} -> "exit"
    [] t.at = "exiting" -> "zombie"

(* The credentials its call gives a program, when it has returned.         *)
AfterCall(c, t) ==
  CASE t.call = NoCall \/ ~t.ok -> c
    [] t.call # NoCall /\ t.ok /\ t.call.name = "exec" -> ExecIds(c, t.call.exe)
    [] t.call # NoCall /\ t.ok /\ t.call.name \in {"fork", "clone", "exit"} -> c
    [] OTHER -> ApplyIds(c, t.call).cred

-----------------------------------------------------------------------------
(* The tracer.                                                             *)

Tracing == result = Running /\ alive # {}

(* waitpid(-1, __WALL): the zombie of a process comes after its threads.   *)
Reportable(p) ==
  \/ At(p, Stops)
  \/ At(p, {"zombie"}) /\ (p # group[p] \/ Threads(p) = {p})

(* try_resume *)
Resume(p) ==
  /\ task' = [task EXCEPT ![p] =
       IF @.at = "exit" THEN [Unborn EXCEPT !.at = "running"]
                        ELSE [@ EXCEPT !.at = ResumedAt(task[p])]]
  /\ ideal' = IF task[p].at = "exit"
              THEN [ideal EXCEPT ![p] = AfterCall(@, task[p])] ELSE ideal

(* VirtualIds.credentials: a pid without an entry gets the initial ones.   *)
CredentialsOf(p) == IF cred[p] = NoCred THEN Initial ELSE cred[p]

(* VIRTUAL_IDS.handle_syscall_exit, for the record of a call.              *)
HandledIds(p, call) ==
  CASE call.name = "exec" /\ task[p].at = "exit" /\ task[p].ok ->
         [cred EXCEPT ![p] = ExecIds(CredentialsOf(p), call.exe)]
    [] call \in IdCalls -> [cred EXCEPT ![p] = ApplyIds(CredentialsOf(p), call).cred]
    [] OTHER -> cred

(* A syscall stop of a pid the tracer takes to be outside a call:          *)
(* syscall_entry.                                                          *)
SyscallEntry(p) ==
  /\ Tracing /\ At(p, {"entry", "exit"}) /\ ~inSyscall[p]
  /\ alive' = alive \cup {p}
  /\ active' = [active EXCEPT ![p] = task[p].call]
  /\ inSyscall' = [inSyscall EXCEPT ![p] = TRUE]
  /\ Resume(p)
  /\ UNCHANGED <<group, budget, cred, exitCode, result, followed>>

(* And of one inside a call: syscall_exit.                                 *)
SyscallExit(p) ==
  /\ Tracing /\ At(p, {"entry", "exit"}) /\ inSyscall[p]
  /\ cred' = IF active[p] = NoCall THEN cred ELSE HandledIds(p, active[p])
  /\ active' = [active EXCEPT ![p] = NoCall]
  /\ inSyscall' = [inSyscall EXCEPT ![p] = FALSE]
  /\ Resume(p)
  /\ UNCHANGED <<group, budget, alive, exitCode, result, followed>>

(* Mutant: a child gets the credentials the container started with.        *)
InheritsInitial(p, child) ==
  /\ inSyscall' = [inSyscall EXCEPT ![child] = FALSE]
  /\ cred' = [cred EXCEPT ![child] = Initial]
  /\ followed' = IF p \in followed /\ At(child, {"starting"})
                 THEN followed \cup {child} ELSE followed

(* inherit_pid, and the other tables of a child.                           *)
Inherits(p, child) ==
  /\ inSyscall' = [inSyscall EXCEPT ![child] = FALSE]
  /\ cred' = [cred EXCEPT ![child] = CredentialsOf(p)]
  /\ followed' = IF p \in followed /\ At(child, {"starting"})
                 THEN followed \cup {child} ELSE followed

(* PTRACE_EVENT_FORK, VFORK and CLONE.                                     *)
ForkEvent(p) ==
  LET child == task[p].msg IN
  /\ Tracing /\ At(p, {"fork"})
  /\ alive' = alive \cup {p, child}
  /\ Inherits(p, child)
  /\ Resume(p)
  /\ UNCHANGED <<group, budget, active, exitCode, result>>

(* Mutant: the exec event is taken for the end of the call.                *)
OtherStopEndsCall(p) ==
  /\ Tracing /\ At(p, {"starting", "exec", "exiting"})
  /\ alive' = alive \cup {p}
  /\ inSyscall' = [inSyscall EXCEPT ![p] = FALSE]
  /\ Resume(p)
  /\ UNCHANGED <<group, budget, active, cred, exitCode, result, followed>>

(* Mutant: a task that is about to end is not resumed.                     *)
OtherStopHolds(p) ==
  /\ Tracing /\ At(p, {"starting", "exec"})
  /\ alive' = alive \cup {p}
  /\ Resume(p)
  /\ UNCHANGED <<group, budget, inSyscall, active, cred, exitCode, result, followed>>

(* The SIGSTOP a task starts with, and the other events.                   *)
OtherStop(p) ==
  /\ Tracing /\ At(p, {"starting", "exec", "exiting"})
  /\ alive' = alive \cup {p}
  /\ Resume(p)
  /\ UNCHANGED <<group, budget, inSyscall, active, cred, exitCode, result, followed>>

(* forget_pid, of a task that was added to the set `known`                 *)
Forget(p, known) ==
  /\ alive' = known \ {p}
  /\ active' = [active EXCEPT ![p] = NoCall]

(* The task was killed after its stop was reported: a ptrace call fails    *)
(* with ESRCH and the pid is forgotten.  At a fork event the child may have*)
(* been read by then.                                                      *)
Disappeared(p) ==
  /\ Tracing /\ At(p, Stops) /\ budget.kills > 0
  /\ budget' = [budget EXCEPT !.kills = @ - 1]
  /\ Ending(Threads(p), 137)
  /\ \/ /\ Forget(p, alive)
        /\ inSyscall' = [inSyscall EXCEPT ![p] = FALSE]
        /\ cred' = [cred EXCEPT ![p] = NoCred]
        /\ UNCHANGED followed
     \/ /\ At(p, {"fork"})
        /\ Forget(p, alive \cup {task[p].msg})
        /\ inSyscall' = [inSyscall EXCEPT ![p] = FALSE, ![task[p].msg] = FALSE]
        /\ cred' = [cred EXCEPT ![p] = NoCred, ![task[p].msg] = CredentialsOf(p)]
        /\ followed' = IF p \in followed /\ At(task[p].msg, {"starting"})
                       THEN followed \cup {task[p].msg} ELSE followed
  /\ UNCHANGED <<group, ideal, exitCode, result>>

(* Of the tasks that are gone only the command's status is of interest.    *)
Gone(p) == [Unborn EXCEPT !.at = "reaped", !.status = IF p = First THEN task[p].status ELSE 0]

(* WIFEXITED, WIFSIGNALED.                                                 *)
Reap(p) ==
  /\ Tracing /\ At(p, {"zombie"}) /\ Reportable(p)
  /\ task' = [task EXCEPT ![p] = Gone(p)]
  /\ Forget(p, alive)
  /\ inSyscall' = [inSyscall EXCEPT ![p] = FALSE]
  /\ cred' = [cred EXCEPT ![p] = NoCred]
  /\ exitCode' = IF alive \subseteq {p} THEN task[p].status ELSE exitCode
  /\ UNCHANGED <<group, ideal, budget, result, followed>>

(* No pid is left, or ChildProcessError.  The supervisor ends and with it, *)
(* by PTRACE_O_EXITKILL, every task that is still there.                   *)
TraceReturns ==
  /\ result = Running
  /\ alive = {} \/ \A p \in Pids : At(p, {"unborn", "reaped"})
  /\ result' = exitCode
  /\ task' = [p \in Pids |-> IF At(p, {"unborn"}) THEN task[p] ELSE Gone(p)]
  /\ UNCHANGED <<group, ideal, budget, alive, inSyscall, active, cred, exitCode, followed>>

TaskStep(p) ==
  \/ \E call \in Calls : Enter(p, call)
  \/ \E child \in Pids : Fork(p, child)
  \/ Return(p) \/ Fail(p) \/ ExecBegin(p) \/ ExecEnd(p) \/ Exit(p)

TracerStep ==
  \/ \E p \in Pids : \/ SyscallEntry(p) \/ SyscallExit(p) \/ ForkEvent(p)
                     \/ OtherStop(p) \/ Reap(p)
  \/ TraceReturns

Next == TracerStep \/ \E p \in Pids : TaskStep(p) \/ Kill(p) \/ Disappeared(p)

Spec == Init /\ [][Next]_vars

(* The tracer goes on, and the kernel brings an execve that has to wait for*)
(* the other threads to its end.                                           *)
FairSpec == Spec /\ WF_vars(TracerStep) /\ \A p \in Pids : WF_vars(ExecEnd(p))

-----------------------------------------------------------------------------
(* Properties.                                                             *)

InStep(p) == inSyscall[p] <=> At(p, {"insys", "execing", "fork", "exec", "exit"})
Present(p) == At(p, {"starting", "running", "insys", "entry", "exit", "execing", "fork", "exec"})

(* The tracer never takes the exit of a call for the entry of the next one,*)
(* and the record it holds is of the call the task is in: of every task it *)
(* was told of by the parent's event (followed).  Such a task is in its    *)
(* tables as long as it runs: trace cannot return and take it down.        *)
PairsCalls == \A p \in followed : Present(p) =>
  /\ p \in alive
  /\ InStep(p)
  /\ inSyscall[p] => active[p] = task[p].call

(* The same of every task, whatever the order of the first stops.  This    *)
(* does not hold: a child's tables are reset by a late event of its parent.*)
FollowsChildren == \A p \in alive : Present(p) => InStep(p)

(* What a followed task is told of its ids is what its own calls, and those*)
(* of its parent before the fork, made of them.                            *)
IdsAreThePrograms == \A p \in followed : Present(p) => cred[p] = ideal[p]

(* trace returns how the command ended, as ExecSync and the state of a     *)
(* container report it.                                                    *)
ReturnsCommandStatus == result # Running => result = task[First].status

(* No task is left in a stop.                                              *)
StopsAnswered == \A p \in Pids : At(p, Stops) ~> ~At(p, Stops)
=============================================================================
