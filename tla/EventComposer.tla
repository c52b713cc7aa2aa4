---------------------------- MODULE EventComposer ----------------------------
(***************************************************************************)
(* From the command line to the events that the monitor of a scope opens:  *)
(* the configuration and its check, perf::EventComposer with what it       *)
(* composes once and filters for each scope, the readers and writers that  *)
(* a ScopeMonitor constructs, and the metric classes of the trace.         *)
(*                                                                         *)
(* The reader of a scope asks the composer for its counters, and so does   *)
(* the trace for the metric class: the values that the writer lays out     *)
(* after the one answer are read after the other.                          *)
(***************************************************************************)
EXTENDS EventResolver, SequencesExt

CONSTANT Options    \* the command lines that are tried

VARIABLES
    options,        \* nitro::options::arguments
    config,         \* the configuration, once parsed
    phase,          \* "parse", "check", "run", "exit", "abort"
    composer,       \* EventResolver::event_map_ and the members of EventComposer
    monitors,       \* the scopes that were tried, with what was opened
    classes         \* the registry's metric classes, by counter collection

vars == <<paranoid, options, config, phase, composer, monitors, classes>>

\* std::optional<T>: a sequence of at most one element
nullopt == <<>>

\* counter::CounterCollection
NoCounters == [leader |-> NoEvent, counters |-> <<>>]

NoConfig == [cpu_set |-> FALSE]

Init ==
    /\ paranoid \in -1..3
    /\ options \in Options
    /\ config = NoConfig
    /\ phase = "parse"
    /\ composer = [map |-> InitialMap, sampling |-> nullopt, group |-> nullopt, userspace |-> nullopt]
    /\ monitors = <<>>
    /\ classes = <<>>

----------------------------------------------------------------------------
\* The constructors of the configuration: GeneralConfig, SamplingConfig,
\* GroupConfig, UserspaceConfig, PosixIOConfig and perf::Config
SystemWide == options.all_cpus \/ options.all_cpus_sampling

Sampling == IF options.sampling = "default"
            THEN options.all_cpus_sampling \/ ~options.all_cpus
            ELSE options.sampling = "yes"

ProcessRecording == IF options.process_recording = "default" THEN SystemWide
                    ELSE options.process_recording = "yes"

GroupCounters == options.metric_event \o
                 (IF options.standard_metrics THEN <<"instructions", "cpu-cycles">> ELSE <<>>)

Config ==
    [cpu_set           |-> SystemWide,
     sampling          |-> Sampling,
     process_recording |-> ProcessRecording,
     event             |-> options.event,
     leader            |-> options.metric_leader,
     counters          |-> GroupCounters,
     group_enabled     |-> options.metric_leader # "" \/ GroupCounters # <<>>,
     userspace         |-> options.userspace_event,
     cgroup            |-> options.cgroup,
     posix_io          |-> options.posix_io]

\* perf::Config::any_perf() without block I/O
any_perf(c) == c.group_enabled \/ c.userspace # <<>> \/ c.sampling \/ c.process_recording

\* parse_program_options() up to the configuration. A leader without a
\* --metric-count ends lo2s in the constructor of GroupConfig.
Parse ==
    /\ phase = "parse"
    /\ IF options.metric_leader # "" /\ ~options.metric_count
       THEN phase' = "exit" /\ UNCHANGED config
       ELSE phase' = "check" /\ config' = Config
    /\ UNCHANGED <<paranoid, options, composer, monitors, classes>>

\* Config::check(). The check() of perf::Config, of the sampling, group and
\* DWARF configurations is called by nobody and is no part of it. That lo2s
\* is root shows in the paranoid level.
Rejected ==
    \/ config.posix_io /\ paranoid # -1
    \/ config.cgroup /\ ~config.cpu_set
    \/ any_perf(config) /\ config.cpu_set /\ paranoid > 0
    \/ ~config.cpu_set /\ ~options.command
    \/ config.cpu_set /\ config.posix_io

Check ==
    /\ phase = "check"
    /\ phase' = IF Rejected THEN "exit" ELSE "run"
    /\ UNCHANGED <<paranoid, options, config, composer, monitors, classes>>

----------------------------------------------------------------------------
(***************************************************************************)
(* EventComposer. Each operation yields the composer it leaves, its result *)
(* and whether an exception left it.                                       *)
(***************************************************************************)
Returns(c, res) == [composer |-> c, res |-> res, threw |-> FALSE]
Throws(c) == [composer |-> c, res |-> NoCounters, threw |-> TRUE]

\* EventComposer::create_sampling_event() and set_precision(): the event
\* must open for the calling thread. "dummy", the event without sampling, is
\* in the tables, so that asking for it first has no effect. exclude_kernel_ is a member of a static
\* object that nothing assigns, so --no-kernel does not reach the event.
SamplingEvent(c, got) ==
    IF got.thrown # "none" \/ (config.sampling /\ ~can_open(got.event, Self))
    THEN Throws([c EXCEPT !.map = got.map])
    ELSE Returns([c EXCEPT !.map = got.map, !.sampling = <<got.event>>], got.event)

create_sampling_event(c) ==
    IF c.sampling # nullopt THEN Returns(c, c.sampling[1])
    ELSE SamplingEvent(c, get_event_by_name(c.map, IF config.sampling THEN config.event ELSE "dummy"))

\* The loop over the names of the counters: an InvalidEvent is ignored, any
\* other exception leaves the loop.
Added(counters, got) ==
    [map      |-> got.map,
     counters |-> IF got.thrown = "none" THEN Append(counters, got.event) ELSE counters,
     threw    |-> got.thrown = "runtime_error"]

AddCounter(found, name) ==
    IF found.threw THEN found ELSE Added(found.counters, get_event_by_name(found.map, name))

AddCounters(map, names) ==
    FoldLeft(AddCounter, [map |-> map, counters |-> <<>>, threw |-> FALSE], names)

\* EventComposer::emplace_group_counters(): a counter that is the leader as
\* well is only the leader.
Collection(leader, found) == [leader |-> leader, counters |-> found.counters]

GroupCollected(c, leader, found) ==
    IF found.threw THEN Throws([c EXCEPT !.map = found.map])
    ELSE Returns([c EXCEPT !.map = found.map, !.group = <<Collection(leader, found)>>],
                 Collection(leader, found))

GroupLed(c, lead) ==
    IF lead.thrown # "none" THEN Throws([c EXCEPT !.map = lead.map])
    ELSE GroupCollected(c, lead.event,
             AddCounters(lead.map, SelectSeq(config.counters, LAMBDA e : e # lead.event.name)))

emplace_group_counters(c) ==
    IF c.group # nullopt THEN Returns(c, c.group[1])
    ELSE IF ~config.group_enabled THEN Returns([c EXCEPT !.group = <<NoCounters>>], NoCounters)
    ELSE GroupLed(c, get_metric_leader(c.map, config.leader))

\* EventComposer::emplace_userspace_counters()
UserspaceCollected(c, found) ==
    IF found.threw THEN Throws([c EXCEPT !.map = found.map])
    ELSE Returns([c EXCEPT !.map = found.map, !.userspace = <<Collection(NoEvent, found)>>],
                 Collection(NoEvent, found))

emplace_userspace_counters(c) ==
    IF c.userspace # nullopt THEN Returns(c, c.userspace[1])
    ELSE UserspaceCollected(c, AddCounters(c.map, config.userspace))

AvailableOf(counters, s) == SelectSeq(counters, LAMBDA ev : is_available_in(ev, s))

\* EventComposer::group_counters_for() and userspace_counters_for(). The
\* counters are those of the scope, and none when it lacks the leader.
GroupOf(all, s) ==
    IF all.leader # NoEvent /\ is_available_in(all.leader, s)
    THEN [all EXCEPT !.counters = AvailableOf(all.counters, s)]
    ELSE NoCounters

UserspaceOf(all, s) == [all EXCEPT !.counters = AvailableOf(all.counters, s)]

\* EventComposer::counters_for()
ForScope(made, type, s) ==
    IF made.threw THEN made
    ELSE [made EXCEPT !.res = IF type = "group" THEN GroupOf(@, s) ELSE UserspaceOf(@, s)]

counters_for(c, type, s) ==
    ForScope(IF type = "group" THEN emplace_group_counters(c) ELSE emplace_userspace_counters(c),
             type, s)

\* EventComposer::has_counters_for()
has_counters_for(c, type, s) == [counters_for(c, type, s) EXCEPT !.res = @.counters # <<>>]

----------------------------------------------------------------------------
(***************************************************************************)
(* The readers of a scope and the metric classes                           *)
(***************************************************************************)
Names(evs) == [i \in DOMAIN evs |-> evs[i].name]

\* group::Reader: the leader and its children in one group. The kernel
\* keeps no group that mixes the counters of two hardware PMUs.
GroupOpens(cc, s) ==
    LET evs == <<cc.leader>> \o cc.counters
    IN  /\ cc.leader # NoEvent
        /\ \A i \in DOMAIN evs : KernelOpens(evs[i], s)
        /\ Cardinality({Pmu[evs[i].name] : i \in DOMAIN evs} \ {"software"}) <= 1

\* userspace::Reader: every counter on its own
UserspaceOpens(cc, s) == \A i \in DOMAIN cc.counters : KernelOpens(cc.counters[i], s)

\* What group::Writer::handle() and userspace::Writer::handle() write for
\* the counters of their reader, value by value
Values(type, cc) ==
    IF type = "group" THEN <<cc.leader.name>> \o Names(cc.counters) \o <<"time_enabled", "time_running">>
                      ELSE Names(cc.counters)

\* Trace::perf_metric_class(): the members of a class that the registry does
\* not have yet
Members(type, cc) ==
    IF type = "group" THEN <<cc.leader.name>> \o Names(cc.counters) \o <<"time_enabled", "time_running">>
                      ELSE Names(cc.counters)

\* EventAttr::operator<: the bytes of perf_event_attr, not the name
Attr(ev) == IF ev = NoEvent THEN nullopt ELSE <<Encoding[ev.name], ev.exclude_kernel>>

\* A key that leaves out the counters below the leader
ClassKeyLeader(cc) == [leader |-> Attr(cc.leader), counters |-> <<>>]

\* ByCounterCollection: the key of a metric class
ClassKey(cc) == [leader |-> Attr(cc.leader), counters |-> [i \in DOMAIN cc.counters |-> Attr(cc.counters[i])]]

perf_metric_class(known, type, cc) ==
    LET key == ClassKey(cc)
    IN  IF key \in DOMAIN known THEN known
        ELSE [k \in DOMAIN known \cup {key} |-> IF k = key THEN Members(type, cc) ELSE known[k]]

\* The constructors of the two counter writers: first the reader, which
\* asks for the counters and opens them, then the MetricWriter, which asks
\* for the metric class.
MetricWriter(st, type, mine, again) ==
    [composer |-> again.composer,
     threw    |-> FALSE,
     classes  |-> perf_metric_class(st.classes, type, again.res),
     opened   |-> st.opened \cup {[type |-> type, class |-> ClassKey(again.res),
                                   values |-> Values(type, mine.res)]}]

Reader(st, type, s, mine) ==
    IF mine.threw \/ ~(IF type = "group" THEN GroupOpens(mine.res, s) ELSE UserspaceOpens(mine.res, s))
    THEN [st EXCEPT !.composer = mine.composer, !.threw = TRUE]
    ELSE MetricWriter(st, type, mine, counters_for(mine.composer, type, s))

Writer(st, type, s) ==
    IF st.threw THEN st ELSE Reader(st, type, s, counters_for(st.composer, type, s))

SampleReader(st, s, ev) ==
    [st EXCEPT !.composer = ev.composer, !.threw = ev.threw \/ ~KernelOpens(ev.res, s)]

SampleWriter(st, s) == SampleReader(st, s, create_sampling_event(st.composer))

\* ScopeMonitor::ScopeMonitor() for scope s: the state it leaves. What was
\* opened is closed when an exception leaves the constructor.
Sampled(st, s) == IF config.sampling \/ config.process_recording THEN SampleWriter(st, s) ELSE st
Grouped(st, s) == IF config.group_enabled THEN Writer(st, "group", s) ELSE st
Userspaced(st, s) == IF config.userspace # <<>> THEN Writer(st, "userspace", s) ELSE st
Unwound(st) == IF st.threw THEN [st EXCEPT !.opened = {}] ELSE st

ScopeMonitor(c, s) ==
    LET start == [composer |-> c, threw |-> FALSE, classes |-> classes, opened |-> {}]
    IN  Unwound(Userspaced(Grouped(Sampled(start, s), s), s))

Tried(s, st) ==
    /\ composer' = st.composer
    /\ classes' = st.classes
    /\ monitors' = [t \in DOMAIN monitors \cup {s} |-> IF t = s THEN st.opened ELSE monitors[t]]
    /\ UNCHANGED <<paranoid, options, config>>

\* CpuSetMonitor::CpuSetMonitor(): one monitor after the other; the first
\* exception ends lo2s.
MonitorCpu ==
    /\ phase = "run" /\ config.cpu_set
    /\ Cpus \ DOMAIN monitors # {}
    /\ LET cpu == Min(Cpus \ DOMAIN monitors)
       IN  \E st \in {ScopeMonitor(composer, cpu)} :
             /\ Tried(cpu, st)
             /\ phase' = IF st.threw THEN "abort" ELSE "run"

\* The condition of ProcessMonitor::insert_thread(), read from left to
\* right. It stands outside of the try block.
WantedBeside(group, s) ==
    IF group.threw \/ ~group.res THEN [group EXCEPT !.res = TRUE]
    ELSE [has_counters_for(group.composer, "userspace", s) EXCEPT !.res = ~@]

Wanted(s) ==
    IF config.sampling THEN Returns(composer, TRUE)
    ELSE WantedBeside(has_counters_for(composer, "group", s), s)

\* ProcessMonitor::insert_thread(): a thread that cannot be measured is
\* reported, and the others go on.
MonitorThread(t) ==
    /\ phase = "run" /\ ~config.cpu_set
    /\ t \notin DOMAIN monitors
    /\ \E wanted \in {Wanted(t)} :
         IF wanted.threw
         THEN /\ phase' = "abort"
              /\ composer' = wanted.composer
              /\ UNCHANGED <<paranoid, options, config, monitors, classes>>
         ELSE /\ \E st \in {IF wanted.res THEN ScopeMonitor(wanted.composer, t)
                             ELSE [composer |-> wanted.composer, classes |-> classes, opened |-> {}]} :
                    Tried(t, st)
              /\ UNCHANGED phase

Next == Parse \/ Check \/ MonitorCpu \/ \E t \in Threads : MonitorThread(t)

Spec == Init /\ [][Next]_vars

----------------------------------------------------------------------------
\* The values that a writer puts into a metric event are the members of the
\* class that the event refers to, in their order, whatever scopes came
\* before and share the class: readers of a trace tell the values apart by
\* their position alone.
LayoutMatches ==
    \A s \in DOMAIN monitors : \A w \in monitors[s] :
        w.class \in DOMAIN classes /\ classes[w.class] = w.values

\* What the composer hands out for a scope can be opened there: the probes
\* that EventAttr made once, for the calling thread and for the first CPU of
\* the event, speak for every scope that is monitored later.
AvailableIsOpenable ==
    phase = "run" =>
        \A s \in IF config.cpu_set THEN Cpus ELSE Threads :
            /\ composer.group # nullopt =>
                 LET cc == GroupOf(composer.group[1], s)
                 IN  /\ cc.leader # NoEvent => KernelOpens(cc.leader, s)
                     /\ UserspaceOpens(cc, s)
            /\ composer.userspace # nullopt => UserspaceOpens(UserspaceOf(composer.userspace[1], s), s)
============================================================================
