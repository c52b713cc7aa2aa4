------------------------------ MODULE Lifecycle ------------------------------
(***************************************************************************)
(* lo2s from main() to the closed trace: the main thread constructs the    *)
(* MainMonitor and its subclass, which make and start the monitors, runs   *)
(* the measurement, and destroys everything in the order C++ and the       *)
(* destructors say; each monitor is a thread of its own.  Constructors may *)
(* throw: some exceptions are caught and warned of, others unwind.         *)
(*                                                                         *)
(* A monitor is <<kind, index>>.  What the main thread still has to do is  *)
(* the sequence todo of operations, so that a constructor or destructor is *)
(* written down as the sequence of its calls.                              *)
(***************************************************************************)
EXTENDS Naturals, SequencesExt

CONSTANTS
  Cpus, Packages, Counters,  (* monitors of a kind: one per CPU, package, energy counter *)
  Tasks,                     (* threads of the command: process mode                     *)
  Modes,                     (* "process", "cpu_set"                                     *)
  Features,                  (* the sets of optional kinds that are looked at            *)
  MayFail,                   (* kinds whose constructor or start() may throw, "attach"   *)
                             (* and "attach_system": PTRACE_ATTACH may, in each mode     *)
  MaxClock                   (* bound: instants                                          *)

ASSUME CountsAssumption == Cpus \in Nat /\ Packages \in Nat /\ Counters \in Nat /\ Tasks \in Nat

VARIABLES
  mode, enabled, how,   (* config: how is "spawn", "attach" or "sigint"  *)
  todo, phase,
  state,                (* monitor -> none, made, started, looping, spinning, ended, joined *)
  requested,            (* monitors whose eventfd (or stop_) is set      *)
  crashed,              (* std::terminate or a null pointer ends lo2s    *)
  child,                (* the forked child                              *)
  plugin,               (* the metric plugin                             *)
  clock, to,            (* to: stopping_time_                            *)
  last                  (* history: time of the last event of a monitor  *)

vars == <<mode, enabled, how, todo, phase, state, requested, crashed, child, plugin, clock, to, last>>
config == <<mode, enabled, how>>
times == <<clock, to, last>>

Monitors ==
  {<<k, i>> : k \in {"tracepoint", "adapt", "scope"}, i \in 1 .. Cpus} \cup {<<"node", i>> : i \in 1 .. Packages}
    \cup {<<"energy", i>> : i \in 1 .. Counters} \cup {<<k, 1>> : k \in {"bio", "sensors", "socket", "posix"}}
    \cup {<<"scope", i>> : i \in 1 .. Tasks}

(***************************************************************************)
(* Operations of the main thread                                           *)
(***************************************************************************)
Op(do, m) == [do |-> do, m |-> m]
Do(what) == Op(what, <<"", 0>>)

Each(do, kind, n) == [i \in 1 .. n |-> Op(do, <<kind, i>>)]
(* each monitor is started before the next one is made *)
MakeAndStart(kind, n) ==
  [i \in 1 .. 2 * n |-> Op(IF i % 2 = 1 THEN "make" ELSE "start", <<kind, (i + 1) \div 2>>)]
If(kind, ops) == IF kind \in enabled THEN ops ELSE <<>>

(* x86_adapt::Metrics and x86_energy::Metrics hold several monitors *)
MakeAdapt == Each("make", "adapt", Cpus) \o Each("make", "node", Packages)
StartAdapt == Each("start", "adapt", Cpus) \o Each("start", "node", Packages)
StopAdaptCpus == Each("stop", "adapt", Cpus)   (* mutant: the nodes are forgotten *)
StopAdapt == Each("stop", "adapt", Cpus) \o Each("stop", "node", Packages)
MakeEnergy == Each("make", "energy", Counters)
StartEnergy == Each("start", "energy", Counters)
StopEnergy == Each("stop", "energy", Counters)
MakeSensors == MakeAndStart("sensors", 1)

MainConstructor ==
  <<Do("metrics_start"), Do("begin_record")>>
    \o If("tracepoint", MakeAndStart("tracepoint", Cpus))
    \o If("bio", MakeAndStart("bio", 1))
    \o If("adapt", MakeAdapt \o StartAdapt)
    \o If("energy", MakeEnergy \o StartEnergy)
    \o If("sensors", MakeSensors)
    \o MakeAndStart("socket", 1)

CpuSetConstructor == MakeAndStart("scope", Cpus)
ProcessConstructor == If("posix", MakeAndStart("posix", 1))

(* the members of MainMonitor in reverse order; the plugins deliver what   *)
(* they recorded when Metrics is destroyed, and the trace is closed last   *)
Members ==
  Each("destroy", "sensors", 1) \o Each("destroy", "energy", Counters)
    \o Each("destroy", "adapt", Cpus) \o Each("destroy", "node", Packages)
    \o Each("destroy", "bio", 1) \o Each("destroy", "socket", 1) \o Each("destroy", "tracepoint", Cpus)
    \o <<Do("metrics_destroy"), Do("close")>>

StopMonitors ==
  If("sensors", Each("stop", "sensors", 1)) \o Each("stop", "socket", 1) \o StopEnergy \o StopAdapt
    \o If("bio", Each("stop", "bio", 1)) \o Each("stop", "tracepoint", Cpus)

(* mutant: the end of the recording is noted first *)
MainDestructorEndFirst ==
  <<Do("end_record")>> \o StopMonitors \o <<Do("metrics_stop"), Do("finalize")>> \o Members

MainDestructor ==
  StopMonitors \o <<Do("end_record"), Do("metrics_stop"), Do("finalize")>> \o Members

Scopes == IF mode = "process" THEN Tasks ELSE Cpus
StopScopes == Each("stop", "scope", Scopes)
DestroyScopes == Each("destroy", "scope", Scopes)

(* ~ProcessMonitor, and the end of CpuSetMonitor::run *)
Finish ==
  StopScopes \o (IF mode = "process" THEN Each("stop", "posix", 1) ELSE <<>>)
    \o DestroyScopes \o Each("destroy", "posix", 1) \o MainDestructor

(***************************************************************************)
(* Exceptions                                                              *)
(***************************************************************************)
Group(kind) == IF kind = "node" THEN "adapt" ELSE kind
Caught ==
  {"tracepoint", "adapt", "energy", "sensors", "socket"} \cup (IF mode = "process" THEN {"scope"} ELSE {})

(* mutant: CpuSetMonitor() rethrows without stopping what it has started *)
UnwindRethrow(kind) ==
  CASE kind = "bio"   -> Members
    [] kind = "posix" -> Each("destroy", "posix", 1) \o MainDestructor
    [] kind = "scope" -> DestroyScopes \o MainDestructor

(* the constructor of MainMonitor is left by an exception of bio, so its   *)
(* destructor does not run; those of its subclasses leave it to run        *)
Unwind(kind) ==
  CASE kind = "bio"   -> Members
    [] kind = "posix" -> Each("destroy", "posix", 1) \o MainDestructor
    [] kind = "scope" -> StopScopes \o DestroyScopes \o MainDestructor

(* where to go on behind the try block: at the first operation on others *)
Behind(op) ==
  Min({i \in 1 .. Len(todo) + 1 : i <= Len(todo) => Group(todo[i].m[1]) # Group(op.m[1])})

AfterFailure(op) ==
  IF Group(op.m[1]) \in Caught
    THEN SubSeq(todo, Behind(op), Len(todo))
    ELSE Unwind(op.m[1])

(* an object whose constructor throws takes its monitors with it *)
Undone(op) ==
  [m \in Monitors |-> IF op.do = "make" /\ Group(m[1]) = Group(op.m[1]) /\ Group(op.m[1]) \in {"adapt", "energy"}
                        THEN "none" ELSE state[m]]

Joinable(m) == state[m] \in {"started", "looping", "spinning", "ended"}

(***************************************************************************)
(* The main thread                                                         *)
(***************************************************************************)
Construct == MainConstructor \o (IF mode = "process" THEN ProcessConstructor ELSE CpuSetConstructor) \o <<Do("run")>>

(* Plugin(): throws for a plugin of another interface or one that fails    *)
PluginInfo ==
  [plugin_version : 1 .. 2, sync : {"ASYNC", "SYNC"}, run_per : {"ONCE", "HOST", "THREAD"}, initialize : 0 .. 1]
Loads(info) ==
  info.plugin_version = 1 /\ info.sync = "ASYNC" /\ info.run_per \in {"ONCE", "HOST"} /\ info.initialize = 0

(* add_counter() may fail for the channel of a plugin: its id stays -1 *)
Channel(loaded, id_given) == loaded /\ id_given

(* plugin::Metrics(): a plugin whose constructor throws is skipped *)
Skipped == [loaded |-> FALSE, channel |-> FALSE, recording |-> FALSE, values |-> {}, written |-> {}]
Plugin(info, given) == [Skipped EXCEPT !.loaded = Loads(info), !.channel = Channel(Loads(info), given)]
Metrics == IF "plugin" \in enabled THEN {Plugin(i, given) : i \in PluginInfo, given \in BOOLEAN} ELSE {Skipped}

Init ==
  /\ mode \in Modes /\ enabled \in Features
  /\ how \in IF mode = "process" THEN {"spawn", "attach"} ELSE {"spawn", "attach", "sigint"}
  /\ todo = Construct /\ phase = "construct"
  /\ state = [m \in Monitors |-> "none"]
  /\ requested = {} /\ crashed = FALSE /\ child = "none"
  /\ plugin \in Metrics
  /\ clock = 0 /\ to = 0 /\ last = 0

Running == ~crashed /\ todo # <<>>
This == Head(todo)
Went(s) == todo' = Tail(todo) /\ state' = s

Make ==
  /\ Running /\ This.do = "make"
  /\ Went([state EXCEPT ![This.m] = "made"])
  /\ UNCHANGED <<config, phase, requested, crashed, child, plugin, times>>

Start ==
  /\ Running /\ This.do = "start"
  /\ Went([state EXCEPT ![This.m] = "started"])
  /\ UNCHANGED <<config, phase, requested, crashed, child, plugin, times>>

Throw ==
  /\ Running /\ This.do \in {"make", "start"} /\ This.m[1] \in MayFail
  /\ todo' = AfterFailure(This)
  /\ state' = Undone(This)
  /\ phase' = IF Group(This.m[1]) \in Caught THEN phase ELSE "destruct"
  /\ UNCHANGED <<config, requested, crashed, child, plugin, times>>

(* stop(): a warning if the thread does not run; sensors_recorder_ and     *)
(* bio_monitor_ are used without being looked at                           *)
StopMonitor ==
  /\ Running /\ This.do = "stop"
  /\ todo' = IF Joinable(This.m) THEN <<Op("join", This.m)>> \o Tail(todo) ELSE Tail(todo)
  /\ requested' = IF Joinable(This.m) THEN requested \cup {This.m} ELSE requested
  /\ crashed' = (state[This.m] = "none" /\ This.m[1] \in {"sensors", "bio"})
  /\ UNCHANGED <<config, phase, state, child, plugin, times>>

Join ==
  /\ Running /\ This.do = "join" /\ state[This.m] = "ended"
  /\ Went([state EXCEPT ![This.m] = "joined"])
  /\ UNCHANGED <<config, phase, requested, crashed, child, plugin, times>>

(* ~ThreadedMonitor: "assert(!thread_.joinable())", then ~thread *)
Destroy ==
  /\ Running /\ This.do = "destroy"
  /\ Went([state EXCEPT ![This.m] = "none"])
  /\ crashed' = Joinable(This.m)
  /\ requested' = requested \ {This.m}
  /\ UNCHANGED <<config, phase, child, plugin, times>>

(* record_from(): nothing assigns starting_time_, which stays the epoch *)
starting_time == 0

fetch_data(from, until) == {t \in plugin.values : plugin.channel /\ from <= t /\ t <= until}

(* plugin::Metrics: start, stop and the destructor, which fetches the      *)
(* values within the recorded interval                                     *)
PluginCall ==
  /\ Running /\ This.do \in {"metrics_start", "metrics_stop", "metrics_destroy"}
  /\ plugin' = IF This.do = "metrics_destroy"
                 THEN [plugin EXCEPT !.recording = FALSE,
                                     !.written = fetch_data(starting_time, to)]
                 ELSE [plugin EXCEPT !.recording = (This.do = "metrics_start" /\ plugin.loaded)]
  /\ Went(state)
  /\ UNCHANGED <<config, phase, requested, crashed, child, times>>

(* end_record() sets stopping_time_; begin_record() notes the time in a    *)
(* property of the trace and leaves starting_time_ alone.                  *)
Record ==
  /\ Running /\ This.do \in {"begin_record", "end_record"}
  /\ to' = IF This.do = "end_record" THEN clock ELSE to
  /\ Went(state)
  /\ UNCHANGED <<config, phase, requested, crashed, child, plugin, clock, last>>

Proceed ==
  /\ Running /\ This.do \in {"run", "finalize", "close"}
  /\ phase' = This.do
  /\ Went(state)
  /\ UNCHANGED <<config, requested, crashed, child, plugin, times>>

(***************************************************************************)
(* The measurement                                                         *)
(***************************************************************************)
Measuring == ~crashed /\ phase = "run" /\ todo = <<>>

(* drop_privileges(): the test of the user name is the wrong way round *)
drop_privileges(user, sudo) == IF user = "" THEN "throws" ELSE IF sudo THEN "dropped" ELSE "throws"

Fork ==
  /\ Measuring /\ how = "spawn" /\ child = "none"
  /\ child' = "stopped"
  /\ UNCHANGED <<config, todo, phase, state, requested, crashed, plugin, times>>

RunCommand ==
  /\ child = "stopped" /\ Measuring
  /\ \E drop \in BOOLEAN, user \in {"", "user"}, sudo \in BOOLEAN, found \in BOOLEAN :
       child' = IF (drop /\ drop_privileges(user, sudo) = "throws") \/ ~found THEN "failed" ELSE "command"
  /\ UNCHANGED <<config, todo, phase, state, requested, crashed, plugin, times>>

(* The exception of a command that can not be run unwinds the child's copy *)
(* of main(): in process mode its stop() calls write to the eventfds it    *)
(* shares with lo2s; how many it makes depends on what joining a thread    *)
(* that does not exist in the child does.  In cpu_set mode the destructors *)
(* of the ScopeMonitors end the child before.                              *)
ChildUnwinds ==
  /\ child = "failed" /\ ~crashed
  /\ \E n \in IF mode = "process" THEN {1, Len(StopMonitors)} ELSE {0} :
       requested' = requested \cup {StopMonitors[i].m : i \in {j \in 1 .. n : Joinable(StopMonitors[j].m)}}
  /\ child' = "exited"
  /\ UNCHANGED <<config, todo, phase, state, crashed, plugin, times>>

(* process_monitor_main() with -p: PTRACE_ATTACH; in cpu_set mode its      *)
(* exception passes run(), which has not stopped the monitors yet          *)
Attach ==
  /\ Measuring /\ how = "attach" /\ child = "none"
  /\ \/ /\ child' = "attached" /\ UNCHANGED <<todo, phase>>
     \/ /\ (IF mode = "process" THEN "attach" ELSE "attach_system") \in MayFail
        /\ child' = "gone"
        /\ todo' = IF mode = "process" THEN Finish ELSE DestroyScopes \o MainDestructor
        /\ phase' = "destruct"
  /\ UNCHANGED <<config, state, requested, crashed, plugin, times>>

(* ProcessMonitor::insert_thread and exit_thread *)
InsertThread(t) ==
  /\ Measuring /\ mode = "process" /\ child \in {"command", "attached"} /\ state[<<"scope", t>>] = "none"
  /\ todo' = <<Op("make", <<"scope", t>>), Op("start", <<"scope", t>>)>>
  /\ UNCHANGED <<config, phase, state, requested, crashed, child, plugin, times>>

ExitThread(t) ==
  /\ Measuring /\ mode = "process" /\ state[<<"scope", t>>] # "none"
  /\ todo' = <<Op("stop", <<"scope", t>>), Op("destroy", <<"scope", t>>)>>
  /\ UNCHANGED <<config, phase, state, requested, crashed, child, plugin, times>>

(* SIGINT, or the command or process has ended *)
EndRun ==
  /\ Measuring /\ (how = "sigint" \/ child \in {"command", "attached", "exited"})
  /\ child' = "gone"
  /\ phase' = "destruct"
  /\ todo' = Finish
  /\ UNCHANGED <<config, state, requested, crashed, plugin, times>>

(***************************************************************************)
(* The threads of the monitors: ThreadedMonitor::thread_main               *)
(***************************************************************************)
Thread(m, s, t) ==
  /\ ~crashed /\ state[m] = s
  /\ state' = [state EXCEPT ![m] = t]
  /\ UNCHANGED <<config, todo, phase, requested, crashed, child, plugin, clock, to>>

Begin(m) == Thread(m, "started", "looping") /\ UNCHANGED last

(* Monitors of metrics have no descriptor besides the eventfd: they read   *)
(* once, when they are stopped.                                            *)
HasFds(m) == m[1] \in {"scope", "tracepoint", "bio", "socket", "posix"}

Round(m) == HasFds(m) /\ Thread(m, "looping", "looping") /\ last' = clock /\ last # clock

(* mutant: the eventfd is polled together with other descriptors only *)
LastRoundWithFds(m) ==
  /\ m \in requested /\ HasFds(m)
  /\ Thread(m, "looping", "ended")
  /\ last' = IF m[1] = "posix" THEN last ELSE clock

(* The round that finds the eventfd readable, and finalize_thread();       *)
(* PosixMonitor has neither.                                               *)
LastRound(m) ==
  /\ m \in requested
  /\ Thread(m, "looping", "ended")
  /\ last' = IF m[1] = "posix" THEN last ELSE clock

(* the thread of the scope has exited: POLLHUP *)
Panic(m) == m[1] = "scope" /\ mode = "process" /\ Thread(m, "looping", "ended") /\ last' = clock

(* SocketMonitor::monitor() waits for the type that the client writes into *)
(* the header of its ring: one that has died never does                    *)
Spin(m) == m[1] = "socket" /\ Thread(m, "looping", "spinning") /\ UNCHANGED last

(***************************************************************************)
(* The environment                                                         *)
(***************************************************************************)
Tick ==
  /\ ~crashed /\ clock < MaxClock /\ phase # "close"
  /\ clock' = clock + 1
  /\ UNCHANGED <<config, todo, phase, state, requested, crashed, child, plugin, to, last>>

PluginSamples ==
  /\ ~crashed /\ plugin.recording /\ clock \notin plugin.values
  /\ plugin' = [plugin EXCEPT !.values = @ \cup {clock}]
  /\ UNCHANGED <<config, todo, phase, state, requested, crashed, child, times>>

Main ==
  Make \/ Start \/ Throw \/ StopMonitor \/ Join \/ Destroy \/ PluginCall \/ Record \/ Proceed

ThreadStep(m) == Begin(m) \/ LastRound(m)

Next ==
  \/ Main
  \/ Fork \/ RunCommand \/ ChildUnwinds \/ Attach \/ EndRun
  \/ \E t \in 1 .. Tasks : InsertThread(t) \/ ExitThread(t)
  \/ \E m \in Monitors : ThreadStep(m) \/ Round(m) \/ Panic(m) \/ Spin(m)
  \/ Tick \/ PluginSamples

(* main() and the threads of lo2s are scheduled: a thread that waits in    *)
(* poll() returns from it once it is told to stop; one that spins does not *)
Spec == Init /\ [][Next]_vars /\ WF_vars(Main) /\ \A m \in Monitors : WF_vars(ThreadStep(m))

(***************************************************************************)
(* Properties                                                              *)
(***************************************************************************)
(* NeverTerminated: no failure of the kinds in MayFail while monitors are  *)
(* made, caught or not, leads to the destruction of a monitor whose thread *)
(* runs ("assert(!thread_.joinable())" in ~ThreadedMonitor) or to the use  *)
(* of a monitor that was not made.  It is false with "sensors" or          *)
(* "attach_system" in MayFail, and with "bio" in it when there are         *)
(* tracepoints: against the assert, these failures do end lo2s.            *)
NeverTerminated == ~crashed

(* FinalizedAlone: when the trace is finalized and closed, no thread of a  *)
(* monitor is left that could still write to it.                           *)
FinalizedAlone == phase \in {"finalize", "close"} => \A m \in Monitors : ~Joinable(m)

(* RecordedInterval: "get_time() of this call will be the last possible    *)
(* timestamp in the trace" (~MainMonitor about end_record): no event of a  *)
(* monitor and no value of the plugin is later, and all values taken until *)
(* the last event are in the trace.  There is no bound from below: as      *)
(* nothing assigns starting_time_, the values that the plugin takes before *)
(* begin_record() are written, too, although plugin::Metrics is to "stick  *)
(* to the interval [trace_begin_, trace_end]".                             *)
RecordedInterval ==
  phase = "close" =>
    /\ last <= to
    /\ \A t \in plugin.written : t <= to
    /\ plugin.channel => {t \in plugin.values : t <= last} \subseteq plugin.written

(* StopReturns: once the measurement ends or a constructor has thrown, all *)
(* stop() calls return and the trace is closed, unless the thread of the   *)
(* SocketMonitor spins on the ring of a client that died in the handshake: *)
(* then it is joined for ever.                                             *)
StopReturns == phase = "destruct" ~> (phase = "close" \/ state[<<"socket", 1>>] = "spinning")
=============================================================================
