----------------------------- MODULE TraceThreads -----------------------------
(***************************************************************************)
(* Who defines what in a trace, and in which order.                        *)
(*                                                                         *)
(* "process": lo2s follows a command with ptrace; the controller thread    *)
(* registers each task and gives it a ScopeMonitor, whose thread renames   *)
(* the task when it reads a COMM record.  "system": lo2s measures CPUs;    *)
(* their monitors define the tasks the COMM records name, if process       *)
(* activity is recorded, and the controller only follows the threads of    *)
(* the command.  In both, other monitors (POSIX I/O, block I/O, GPU and    *)
(* OpenMP) ask for locations and handles.  A call of Trace is one step:    *)
(* most calls hold its recursive mutex; the ones that do not are a hazard  *)
(* of their own (README).                                                  *)
(***************************************************************************)
EXTENDS TraceRegistry

CONSTANTS
  FirstChild,       (* the command: process and main thread              *)
  NewTasks,         (* ids for the tasks it creates                      *)
  Others,           (* processes that run beside it                      *)
  OldName, NewName, (* a task changes its name once                      *)
  Fds,
  Configs,          (* mode and what is recorded of each scope: sampling, *)
                    (* syscall, group, userspace, posix                  *)
  MaxRenamed,       (* bound: tasks that have the new name               *)
  MonitorIds        (* thread -> thread id of its monitor                *)

VARIABLES
  mode, enabled,
  task,        (* kernel: the tasks, [process, name]                     *)
  gone,        (* kernel: tasks that have exited                         *)
  events,      (* ptrace stops not handled yet                           *)
  todo,        (* calls the controller's handler still makes             *)
  comms,       (* threads whose COMM record is not handled yet           *)
  registered,  (* threads whose POSIX I/O is recorded                    *)
  monitored,   (* threads with a ScopeMonitor                            *)
  told,        (* history: threads some call named with their process    *)
  phase, reg

vars == <<mode, enabled, task, gone, events, todo, comms, registered, monitored, told, phase, reg>>
config == <<mode, enabled>>
kernel == <<task, gone, events, comms>>

Tasks == DOMAIN task
(* What is first said of a thread counts: groups_ keeps it. *)
Told(S) == told \cup {t \in S : get_process(reg, t) = task[t].process \/ ~has(reg.groups, thread(t))}

Entry(t) == [process |-> task[t].process, thread |-> t, name |-> task[t].name]

(***************************************************************************)
(* Calls                                                                   *)
(***************************************************************************)
Call(op, p, t, name) == [op |-> op, p |-> p, t |-> t, name |-> name]

(* ScopeMonitor(): what its writers ask the trace for *)
Writers ==
  [sampling  |-> <<"sample", "cpuid">>,
   syscall   |-> <<"syscall">>,
   group     |-> <<"group_metric", "group", "sample">>,
   userspace |-> <<"userspace_metric", "userspace", "sample">>]

Ask(r, what, scope) ==
  IF what \in {"sample", "syscall"} THEN sample_writer(r, what, scope)
  ELSE IF what \in {"cpuid", "group", "userspace"} THEN metric_class(r, what)
  ELSE metric_writer(r, what, scope)

ScopeWriter(w, scope, r) == FoldLeft(LAMBDA q, what : Ask(q, what, scope), r, Writers[w])

Apply(r, c) ==
  CASE c.op = "add_process"     -> add_process(r, c.p)
    [] c.op = "add_thread"      -> add_thread(r, c.t, c.p)
    [] c.op = "emplace_process" -> emplace_process(r, c.p, c.t, c.name)
    [] c.op = "emplace_thread"  -> emplace_thread(r, c.p, c.t, c.name)
    [] c.op \in DOMAIN Writers  -> ScopeWriter(c.op, thread(c.t), r)
    [] c.op = "posix"           -> r
    [] c.op = "start"           -> emplace_monitoring_thread(r, MonitorIds[c.t])
    [] c.op = "fork"            -> fork(r, c.p, c.t)

(* ProcessMonitor and SystemProcessMonitor.  With counters of both kinds   *)
(* and no samples, a thread gets no ScopeMonitor.                          *)
Monitors == "sampling" \in enabled \/ ~({"group", "userspace"} \subseteq enabled)

InsertThread(p, t, name) ==
  LET call(op) == Call(op, p, t, name)
      writers == SelectSeq(<<"sampling", "syscall", "group", "userspace">>, LAMBDA w : w \in enabled)
      monitor == IF Monitors THEN [i \in DOMAIN writers |-> call(writers[i])] \o <<call("start")>> ELSE <<>>
  IN IF mode = "system" THEN <<call("emplace_thread")>>
     ELSE (IF "posix" \in enabled THEN <<call("posix")>> ELSE <<>>)
            \o <<call("emplace_thread")>> \o monitor \o <<call("emplace_thread")>>

InsertProcess(parent, p, name) ==
  IF mode = "system" THEN <<>>
  ELSE <<Call("emplace_process", parent, p, name)>> \o InsertThread(p, p, name) \o <<Call("fork", parent, p, name)>>

(* handle_ptrace_event *)
OnFork(e) ==
  <<Call("add_process", e.new, e.new, NoName)>> \o InsertProcess(get_process(reg, e.by), e.new, task[e.new].name)
OnClone(e) ==
  LET p == get_process(reg, e.by)
  IN <<Call("add_thread", p, e.new, NoName)>> \o InsertThread(p, e.new, task[e.new].name)
OnExec(e) ==
  IF mode = "system" THEN <<>> ELSE <<Call("emplace_process", no_parent, e.by, task[e.by].name)>>

(* sampling.enabled, or sampling.process_recording alone *)
Sampling == "sampling" \in enabled

(* The constructors make a TracepointMonitor for each CPU and, in system   *)
(* mode, a ScopeMonitor.                                                   *)
CpuWriters(r) ==
  LET tracepoints(c, s) == metric_class(create_metric_writer(s, c), "tracepoint")
      writers(c, s) == FoldSet(LAMBDA w, q : ScopeWriter(w, cpu(c), q), s, enabled \cap DOMAIN Writers)
  IN FoldSet(writers, FoldSet(tracepoints, r, Cpus), IF mode = "system" THEN Cpus ELSE {})

Init ==
  /\ \E c \in Configs : mode = c[1] /\ enabled = c[2]
  /\ task = [t \in {FirstChild} \cup Others |-> [process |-> t, name |-> OldName]]
  /\ gone = {} /\ events = {} /\ comms = {} /\ registered = {} /\ monitored = {}
  /\ todo = <<Call("add_process", FirstChild, FirstChild, NoName)>>
              \o InsertProcess(no_parent, FirstChild, task[FirstChild].name)
  /\ phase = "run"
  /\ LET start == WithDisks(NewTrace)
     IN IF mode = "system" /\ Sampling
          THEN /\ told = Others
               /\ reg = CpuWriters(emplace_threads(start, {Entry(t) : t \in Others}))
          ELSE /\ told = {}
               /\ reg = CpuWriters(start)

(***************************************************************************)
(* The kernel                                                              *)
(***************************************************************************)
Runs(t) == t \in Tasks \ (gone \cup Others) /\ \A e \in events : e.by # t

Create(t, n, type) ==
  /\ phase = "run" /\ Runs(t) /\ n \notin Tasks
  /\ \A k \in NewTasks \ Tasks : n <= k  (* ids are given out in order *)
  /\ task' = task @@ (n :> [process |-> IF type = "FORK" THEN n ELSE task[t].process, name |-> task[t].name])
  /\ events' = events \cup {[type |-> type, by |-> t, new |-> n]}
  /\ UNCHANGED <<config, gone, todo, comms, registered, monitored, told, phase, reg>>

(* once per task: exec in a main thread, prctl(PR_SET_NAME) in the others *)
Renames(t) ==
  /\ phase = "run" /\ Runs(t)
  /\ task[t].name = OldName
  /\ Cardinality({u \in Tasks : task[u].name = NewName}) < MaxRenamed
  /\ task' = [task EXCEPT ![t].name = NewName]
  /\ events' = IF task[t].process = t THEN events \cup {[type |-> "EXEC", by |-> t, new |-> t]} ELSE events
  /\ comms' = IF Sampling /\ (t \in monitored \/ mode = "system") THEN comms \cup {t} ELSE comms
  /\ UNCHANGED <<config, gone, todo, registered, monitored, told, phase, reg>>

(* in process mode an exit changes no definition *)
Exits(t) ==
  /\ mode = "system"
  /\ phase = "run" /\ Runs(t)
  /\ task[t].process = t => \A u \in Tasks : task[u].process = t => u \in gone \cup {t}
  /\ gone' = gone \cup {t}
  /\ UNCHANGED <<config, task, events, todo, comms, registered, monitored, told, phase, reg>>

(***************************************************************************)
(* The controller                                                          *)
(***************************************************************************)
HandleEvent(e) ==
  /\ phase = "run" /\ todo = <<>>
  /\ todo' = CASE e.type = "FORK" -> OnFork(e) [] e.type = "CLONE" -> OnClone(e) [] e.type = "EXEC" -> OnExec(e)
  /\ events' = events \ {e}
  /\ UNCHANGED <<config, task, gone, comms, registered, monitored, told, phase, reg>>

DoCall ==
  /\ todo # <<>>
  /\ reg' = Apply(reg, Head(todo))
  /\ todo' = Tail(todo)
  /\ registered' = IF Head(todo).op = "posix" THEN registered \cup {Head(todo).t} ELSE registered
  /\ monitored' = IF Head(todo).op = "start" THEN monitored \cup {Head(todo).t} ELSE monitored
  /\ told' = IF Head(todo).p = task[Head(todo).t].process THEN Told({Head(todo).t}) ELSE told
  /\ UNCHANGED <<config, phase, kernel>>

(***************************************************************************)
(* The other threads                                                       *)
(***************************************************************************)
(* perf::sample::Writer::handle(RecordCommType) *)
Comm(t) ==
  /\ phase = "run" /\ t \in comms
  /\ comms' = comms \ {t}
  /\ reg' = IF task[t].process = t THEN emplace_process(reg, no_parent, t, task[t].name)
                                   ELSE emplace_thread(reg, task[t].process, t, task[t].name)
  /\ told' = IF task[t].process = t THEN told ELSE Told({t})
  /\ UNCHANGED <<config, task, gone, events, todo, registered, monitored, phase>>

(* Bound: of POSIX I/O, GPU and block I/O one is used, once.               *)
FirstUse == \A l \in DOMAIN reg.loc : l[1] \notin {"posix_io", "gpu"}

(* PosixMonitor: it is told of a thread before the trace is *)
Posix(t, fd) ==
  /\ phase = "run" /\ t \in registered /\ FirstUse
  /\ reg' = posix_io_writer(posix_io_handle(reg, t, fd, 0), t)
  /\ UNCHANGED <<config, todo, registered, monitored, told, phase, kernel>>

(* perf::bio::Writer; its definitions and the tasks' are independent, so   *)
(* it is enough to look at the last records, read when IoMonitor stops.    *)
BlockIo(d) ==
  /\ phase = "drained" /\ FirstUse
  /\ reg' = block_io_handle(bio_writer(reg, d), d)
  /\ reg' # reg
  /\ UNCHANGED <<config, todo, registered, monitored, told, phase, kernel>>

(* CpuSetMonitor::run and ~ProcessMonitor: what runs is defined once more, *)
(* the monitors stop and hand over their mappings.                         *)
EndRun ==
  /\ phase = "run" /\ todo = <<>>
  /\ phase' = "end"
  /\ IF mode = "system" /\ Sampling
       THEN /\ reg' = emplace_threads(reg, {Entry(t) : t \in Tasks \ gone})
            /\ told' = Told(Tasks \ gone)
       ELSE /\ reg' = FoldSet(LAMBDA t, r : emplace_resolvers(process_comm(r, t), task[t].process), reg,
                               IF Sampling THEN monitored ELSE {})
            /\ told' = told
  /\ UNCHANGED <<config, task, gone, events, todo, comms, registered, monitored>>

(* GPUMonitor(), when a process of the program connects, known or not *)
GpuConnects(t) ==
  /\ phase = "run" /\ t \in Tasks \ (gone \cup Others) /\ task[t].process = t /\ FirstUse
  /\ reg' = sample_writer(reg, "gpu", thread(t))
  /\ UNCHANGED <<config, todo, registered, monitored, told, phase, kernel>>

(* OpenMPMonitor drains its ring when it is stopped; a thread's first      *)
(* event there asks for its writer                                         *)
Injected ==
  /\ phase = "end" /\ phase' = "drained"
  /\ \E S \in {{}, Tasks \ Others} :
       reg' = FoldSet(LAMBDA t, r : sample_writer(r, "openmp", thread(t)), reg, S)
  /\ UNCHANGED <<config, todo, registered, monitored, told, kernel>>

Leaf == [address |-> 10, kernel |-> 11, openmp |-> 12, syscall |-> 1]

Recorder == [address |-> "sampling", syscall |-> "syscall"]

Path(p, t, kind) == [process |-> p, thread |-> t, kind |-> kind, leaf |-> Leaf[kind]]

(* Trace::finalize: the tasks that samples were taken of; on a CPU also idle *)
Finalize ==
  /\ phase = "drained" /\ phase' = "merged"
  /\ \E sampled \in {{}, Tasks} :
       LET kinds == {"kernel", "openmp"} \cup {k \in {"address", "syscall"} : Recorder[k] \in enabled}
           paths == {Path(task[t].process, t, kind) : t \in sampled, kind \in kinds}
                      \cup (IF mode = "system" /\ Sampling THEN {Path(0, 0, "address")} ELSE {})
       IN reg' = finalize(reg, paths) /\ told' = Told(sampled)
  /\ UNCHANGED <<config, todo, registered, monitored, kernel>>

Close ==
  /\ phase = "merged" /\ phase' = "closed"
  /\ reg' = CloseTrace(reg)
  /\ UNCHANGED <<config, todo, registered, monitored, told, kernel>>

Next ==
  \/ \E t \in Tasks, n \in NewTasks, type \in {"FORK", "CLONE"} : Create(t, n, type)
  \/ \E t \in Tasks : Renames(t)
  \/ \E t \in Tasks : Exits(t)
  \/ \E e \in events : HandleEvent(e)
  \/ DoCall
  \/ \E t \in Tasks : Comm(t)
  \/ \E t \in Tasks, fd \in Fds : Posix(t, fd)
  \/ \E d \in Disks \cup DOMAIN PartitionOf : BlockIo(d)
  \/ \E t \in Tasks : GpuConnects(t)
  \/ EndRun
  \/ Injected
  \/ Finalize
  \/ Close

Spec == Init /\ [][Next]_vars

(***************************************************************************)
(* Properties                                                              *)
(***************************************************************************)
(* NoLookupFails: whatever order controller, monitors and finalisation     *)
(* call Trace in, no call looks up a definition that is not there (the     *)
(* std::out_of_range of registry_.get and of groups_.at).  This needs a    *)
(* monitor that asks for a writer beside POSIX I/O: without, process 0,    *)
(* which clones of unknown tasks are taken to be in, is not defined when   *)
(* PosixMonitor looks for it (Configs leaves this out).                    *)
NoLookupFails == reg.ok

LocationsAtHome ==
  \A l \in DOMAIN reg.loc : l[1] \in {"sample", "syscall", "gpu", "openmp"} /\ l[2][1] = "thread" =>
    LET t == l[2][2]
    IN /\ reg.loc[l].group \in {process(task[t].process), process(no_parent)}
       /\ t \in told => reg.loc[l].group = process(task[t].process)
       /\ \A p \in DOMAIN reg.comm_group : l \in reg.comm_group[p].members <=> reg.loc[l].group = process(p)

RegionsAtHome ==
  phase = "closed" =>
    \A t \in Tasks : thread(t) \in DOMAIN reg.region =>
      LET in == {k \in DOMAIN reg.rgroup : k[1] = "process" /\ thread(t) \in reg.rgroup[k].members}
      IN in = {process(get_process(reg, t))} /\ (t \in told => in = {process(task[t].process)})

(* AtHome: the locations of a thread lie in the location group of its own  *)
(* process and in that one's communicator, and in the closed trace its     *)
(* region is in the regions group of that process alone. Threads whose     *)
(* process lo2s was not told before lie in process 0, none in another's.   *)
AtHome == LocationsAtHome /\ RegionsAtHome

(* Ancestors of a node: as many steps up as there are nodes lead to the root. *)
Up[n \in Nat, k \in DOMAIN reg.node] == IF n = 0 THEN k ELSE Up[n - 1, reg.node[k].parent]

(* TreeRooted: whatever order parents and children become known in, the    *)
(* system tree stays a tree: from each node the parents lead to the        *)
(* machine.                                                                *)
TreeRooted == \A k \in DOMAIN reg.node : Up[Cardinality(DOMAIN reg.node), k] = Root
=============================================================================
