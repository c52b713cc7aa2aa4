------------------------- MODULE ProcessController -------------------------
(***************************************************************************)
(* The ptrace loop of ProcessController (process_controller.cpp), which    *)
(* learns of new and exiting threads and hands them to ProcessMonitor, and *)
(* the table of ExecutionScopeGroup that says in which process a thread    *)
(* lives.                                                                  *)
(*                                                                         *)
(* The tracees and ptrace itself are external.  A task that forks or       *)
(* clones stops with an event that names the new task, and the new task    *)
(* starts in a stop of its own (SIGSTOP).  Both stops wait to be fetched   *)
(* and waitpid(-1) may return either first.  A task that exits stops once  *)
(* with an event and, after it is continued, reports its death; the leader *)
(* of a thread group reports it when all other threads are gone.  Then the *)
(* number of the task is free.                                             *)
(***************************************************************************)
EXTENDS Integers

CONSTANTS
  Tids,          \* thread numbers
  FirstChild,    \* first_child_
  Attached,      \* attached to a running process (as opposed to spawned)?
  Reuse,         \* are the numbers of dead tasks given out again?
  MaxStops       \* bound: signals and execs

Unknown == 0     \* Process(0), for a thread whose process is not known

ASSUME ConstantsAssumption ==
  /\ FirstChild \in Tids
  /\ Unknown \notin Tids
  /\ Attached \in BOOLEAN /\ Reuse \in BOOLEAN /\ MaxStops \in Nat

VARIABLES
  task,        \* state of each task
  proc,        \* the process each task really belongs to
  report,      \* what waitpid can fetch from a task
  used,        \* numbers that have been given out
  stops,       \* signals and execs so far
  groups,      \* ExecutionScopeGroup::groups_: thread -> process
  monitored,   \* ProcessMonitor::threads_
  wanted,      \* the global `running', cleared by the handler of SIGINT
  sigstop,     \* SIGSTOP is pending for the attached process
  controller   \* "running" until run() returns

vars == <<task, proc, report, used, stops, groups, monitored, wanted, sigstop, controller>>

NoReport == [kind |-> "none", new |-> Unknown]
Rep(kind) == [kind |-> kind, new |-> Unknown]
Names(kind, n) == [kind |-> kind, new |-> n]

(* process_monitor_main and the constructor: the child has stopped itself  *)
(* or is being stopped by PTRACE_ATTACH; it is registered and monitored.   *)
Init ==
  /\ task = [t \in Tids |-> IF t = FirstChild THEN "stopped" ELSE "none"]
  /\ proc = [t \in Tids |-> IF t = FirstChild THEN FirstChild ELSE Unknown]
  /\ report = [t \in Tids |-> IF t = FirstChild THEN Rep("SIGSTOP") ELSE NoReport]
  /\ used = {FirstChild}
  /\ stops = 0
  /\ groups = [t \in {FirstChild} |-> FirstChild]
  /\ monitored = {FirstChild}
  /\ wanted = TRUE
  /\ sigstop = FALSE
  /\ controller = "running"

-----------------------------------------------------------------------------
(* The tracees                                                             *)

Free(n) == task[n] = "none" /\ (Reuse \/ n \notin used)

Create(t, n, process, kind) ==
  /\ task[t] = "running"
  /\ Free(n)
  /\ task' = [task EXCEPT ![t] = "stopped", ![n] = "stopped"]
  /\ proc' = [proc EXCEPT ![n] = process]
  /\ report' = [report EXCEPT ![t] = Names(kind, n), ![n] = Rep("SIGSTOP")]
  /\ used' = used \cup {n}
  /\ UNCHANGED <<stops, groups, monitored, wanted, sigstop, controller>>

Fork(t, n)  == Create(t, n, n, "FORK")
Clone(t, n) == Create(t, n, proc[t], "CLONE")

Stop(t, kind) ==
  /\ task[t] = "running"
  /\ task' = [task EXCEPT ![t] = "stopped"]
  /\ report' = [report EXCEPT ![t] = Rep(kind)]

(* A signal to be delivered, or an exec: the tracer only has to let it go. *)
Signal(t) ==
  /\ stops < MaxStops
  /\ stops' = stops + 1
  /\ \E kind \in {"SIGNAL", "EXEC"} : Stop(t, kind)
  /\ UNCHANGED <<proc, used, groups, monitored, wanted, sigstop, controller>>

Exit(t) ==
  /\ Stop(t, "EXIT")
  /\ UNCHANGED <<proc, used, stops, groups, monitored, wanted, sigstop, controller>>

Die(t) ==
  /\ task[t] = "exiting"
  /\ t = proc[t] => \A u \in Tids \ {t} : proc[u] # t \/ task[u] = "none"
  /\ task' = [task EXCEPT ![t] = "dead"]
  /\ report' = [report EXCEPT ![t] = Rep("EXITED")]
  /\ UNCHANGED <<proc, used, stops, groups, monitored, wanted, sigstop, controller>>

(* The SIGSTOP of sig_handler reaches the attached process.                *)
Stopped ==
  /\ sigstop
  /\ sigstop' = FALSE
  /\ Stop(FirstChild, "SIGSTOP")
  /\ UNCHANGED <<proc, used, stops, groups, monitored, wanted, controller>>

-----------------------------------------------------------------------------
(* ExecutionScopeGroup                                                     *)

get_process(t) == IF t \in DOMAIN groups THEN groups[t] ELSE Unknown

(* add_thread and add_process: emplace keeps what is there.                *)
Emplaced(t, process) ==
  [u \in DOMAIN groups \cup {t} |->
     IF u \in DOMAIN groups THEN groups[u] ELSE process]

(* ProcessMonitor::insert_thread: a ScopeMonitor, if the thread can still  *)
(* be measured.  A task past its exit stop may or may not be.              *)
InsertThread(n) ==
  \/ task[n] \in {"running", "stopped", "exiting"} /\ monitored' = monitored \cup {n}
  \/ task[n] \in {"exiting", "dead", "none"} /\ UNCHANGED monitored

-----------------------------------------------------------------------------
(* ProcessController::run, one fetched report                              *)

(* ptrace_cont                                                             *)
Continue(t, to) ==
  /\ task' = [task EXCEPT ![t] = to]
  /\ report' = [report EXCEPT ![t] = NoReport]

attached_pid == IF Attached THEN FirstChild ELSE -1

(* The condition at the head of handle_stop_signal under which a stopped   *)
(* task is detached.  It asks for !attached_pid, so it is never met and    *)
(* the detaching has no action here.                                       *)
Detaching == attached_pid = 0 /\ ~wanted

(* waitpid returns a stop of a task.                                       *)
Fetch(t, kind) ==
  /\ controller = "running"
  /\ report[t].kind = kind
  /\ ~Detaching

OnForkUnregistered(t) ==
  /\ Fetch(t, "FORK")
  /\ Continue(t, "running")
  /\ UNCHANGED <<proc, used, stops, groups, monitored, wanted, sigstop, controller>>

OnFork(t) ==
  /\ Fetch(t, "FORK")
  /\ LET n == report[t].new IN groups' = Emplaced(n, n) /\ InsertThread(n)
  /\ Continue(t, "running")
  /\ UNCHANGED <<proc, used, stops, wanted, sigstop, controller>>

OnCloneOfParent(t) ==
  /\ Fetch(t, "CLONE")
  /\ LET n == report[t].new IN groups' = Emplaced(n, t) /\ InsertThread(n)
  /\ Continue(t, "running")
  /\ UNCHANGED <<proc, used, stops, wanted, sigstop, controller>>

OnClone(t) ==
  /\ Fetch(t, "CLONE")
  /\ LET n == report[t].new IN groups' = Emplaced(n, get_process(t)) /\ InsertThread(n)
  /\ Continue(t, "running")
  /\ UNCHANGED <<proc, used, stops, wanted, sigstop, controller>>

(* ProcessMonitor::exit_thread stops and drops the monitor, if there is one. *)
OnExit(t) ==
  /\ Fetch(t, "EXIT")
  /\ monitored' = monitored \ {t}
  /\ Continue(t, "exiting")
  /\ UNCHANGED <<proc, used, stops, groups, wanted, sigstop, controller>>

OnStopNotContinued(t) ==
  /\ Fetch(t, "SIGSTOP")
  /\ report' = [report EXCEPT ![t] = NoReport]
  /\ UNCHANGED <<task, proc, used, stops, groups, monitored, wanted, sigstop, controller>>

(* case SIGSTOP: set the options and go on, registered or not.             *)
OnStop(t) ==
  /\ Fetch(t, "SIGSTOP")
  /\ Continue(t, "running")
  /\ UNCHANGED <<proc, used, stops, groups, monitored, wanted, sigstop, controller>>

(* PTRACE_EVENT_EXEC updates names; other signals are forwarded.           *)
OnSignal(t) ==
  /\ Fetch(t, "SIGNAL") \/ Fetch(t, "EXEC")
  /\ Continue(t, "running")
  /\ UNCHANGED <<proc, used, stops, groups, monitored, wanted, sigstop, controller>>

StopWhenEmpty(t) == \A u \in Tids \ {t} : task[u] = "none"

(* Only the death of the first child ends the measurement.                 *)
IsLast(t) == t = FirstChild

(* WIFEXITED or WIFSIGNALED                                                *)
OnExited(t) ==
  /\ controller = "running"
  /\ report[t].kind = "EXITED"
  /\ Continue(t, "none")
  /\ controller' = IF IsLast(t) THEN "stopped" ELSE controller
  /\ UNCHANGED <<proc, used, stops, groups, monitored, wanted, sigstop>>

(* sig_handler on SIGINT when attached                                     *)
Sigint ==
  /\ Attached
  /\ controller = "running"
  /\ wanted
  /\ wanted' = FALSE
  /\ sigstop' = TRUE
  /\ UNCHANGED <<task, proc, report, used, stops, groups, monitored, controller>>

Controller(t) ==
  OnFork(t) \/ OnClone(t) \/ OnExit(t) \/ OnStop(t) \/ OnSignal(t) \/ OnExited(t)

Next ==
  \/ \E t, n \in Tids : Fork(t, n)
  \/ \E t, n \in Tids : Clone(t, n)
  \/ \E t \in Tids : Signal(t)
  \/ \E t \in Tids : Exit(t)
  \/ \E t \in Tids : Die(t)
  \/ Stopped
  \/ \E t \in Tids : OnFork(t)
  \/ \E t \in Tids : OnClone(t)
  \/ \E t \in Tids : OnExit(t)
  \/ \E t \in Tids : OnStop(t)
  \/ \E t \in Tids : OnSignal(t)
  \/ \E t \in Tids : OnExited(t)
  \/ Sigint

Spec == Init /\ [][Next]_vars

(* lo2s calls waitpid again and again, a task that was let go exits, and a *)
(* signal is delivered.  Nothing is assumed of when tasks fork or exit.    *)
FairSpec ==
  /\ Spec
  /\ WF_vars(\E t \in Tids : Controller(t))
  /\ \A t \in Tids : WF_vars(Die(t))
  /\ WF_vars(Stopped)

-----------------------------------------------------------------------------
(* A fork or clone event that has not been handled yet names the task.     *)
Announced(n) == \E t \in Tids : report[t].kind \in {"FORK", "CLONE"} /\ report[t].new = n

(* NeverWrongProcess: whatever order the stops of parent and child are     *)
(* fetched in, once the event that announces a thread is handled groups_   *)
(* has it under its own process or under the unknown process 0, never      *)
(* under another.                                                          *)
NeverWrongProcess ==
  \A t \in DOMAIN groups :
    task[t] # "none" /\ ~Announced(t) => groups[t] \in {proc[t], Unknown}

(* EveryoneMonitored: a task that has not begun to exit is registered in   *)
(* groups_ and has a monitor, or the event that announces it is still to   *)
(* be handled: no order of stops makes lo2s miss a task.                   *)
EveryoneMonitored ==
  \A t \in Tids : task[t] \in {"running", "stopped"} /\ report[t].kind # "EXIT" =>
    \/ t \in DOMAIN groups /\ t \in monitored
    \/ Announced(t)

(* StopsAnswered: no tracee waits in a stop for ever while lo2s measures:  *)
(* every path through handle_stop_signal continues the task.               *)
StopsAnswered ==
  \A t \in Tids : task[t] = "stopped" ~> (task[t] # "stopped" \/ controller = "stopped")

(* StopsWithChild: when the first child has died, run() returns, whatever  *)
(* other tasks are still doing.                                            *)
StopsWithChild == task[FirstChild] = "dead" ~> controller = "stopped"

=============================================================================
