---------------------------- MODULE EventResolver ----------------------------
(***************************************************************************)
(* perf::EventAttr and perf::EventResolver: how the name of an event       *)
(* becomes an attribute that perf_event_open() accepts, on which CPUs and  *)
(* in which monitoring mode it counts, and what the resolver remembers of  *)
(* a name it has looked up.                                                *)
(*                                                                         *)
(* The perf_event_attr of an event is its encoding (type, config and       *)
(* config1), which events of several names may share, and exclude_kernel.  *)
(***************************************************************************)
EXTENDS Integers, FiniteSetsExt

CONSTANTS
    Cpus,           \* the CPUs of the machine, by number
    Threads,        \* threads that are monitored, by numbers beyond those
    Events,         \* names of events that an option may mention
    Predefined,     \* those in the tables of the resolver
    Raw,            \* those of the form r<hex>
    Encoding,       \* Encoding[e]: what the kernel counts for e
    Pmu,            \* Pmu[e]: "software", "core", "uncore", or "none"
    CountsOn,       \* CountsOn[e]: the CPUs whose PMU counts e
    Listed          \* events of PMUs with a "cpus" or "cpumask" file

ASSUME MachineAssumption ==
    /\ 0 \in Cpus /\ Cpus \cup Threads \subseteq Nat
    /\ Cpus \cap Threads = {}
    /\ Predefined \cup Raw \subseteq Events
    /\ Pmu \in [Events -> {"software", "core", "uncore", "none"}]
    /\ CountsOn \in [Events -> SUBSET Cpus]
    /\ \A e \in Events : Pmu[e] = "software" => CountsOn[e] = Cpus
    /\ \A e \in Listed : CountsOn[e] # {}
    /\ \A e, f \in Events : Encoding[e] = Encoding[f] => Pmu[e] = Pmu[f] /\ CountsOn[e] = CountsOn[f]

\* perf::perf_event_paranoid(): the kernel's setting, -1 for root
VARIABLE paranoid

\* Thread(0): the thread that calls perf_event_open()
Self == -1

(***************************************************************************)
(* What the kernel answers to perf_event_open() (outside of src/): who may *)
(* open, kernel.perf_event_paranoid; a CPU counts the events of its own    *)
(* PMUs; an uncore PMU counts neither for a thread nor without the kernel. *)
(***************************************************************************)
KernelOpens(ev, scope) ==
    /\ Pmu[ev.name] # "none"
    /\ IF scope \in Cpus
       THEN paranoid <= 0 /\ scope \in CountsOn[ev.name]
       ELSE paranoid <= 2 /\ Pmu[ev.name] # "uncore"
    /\ IF ev.exclude_kernel THEN Pmu[ev.name] # "uncore" ELSE paranoid <= 1

----------------------------------------------------------------------------
\* EventAttr::EventAttr()
NewAttr(name) ==
    [name |-> name, exclude_kernel |-> FALSE, cpus |-> {},
     availability |-> "UNAVAILABLE"]

\* EventAttr::can_open(), a probe that closes the descriptor again
can_open(ev, scope) == KernelOpens(ev, scope)

get_cpu_set_for(ev) == {c \in Cpus : can_open(ev, c)}

\* supported_cpus().begin(): the smallest CPU. For the empty set libstdc++
\* reads the element count of the set, 0, for the number of the CPU.
FirstCpu(cpus) == IF cpus = {} THEN 0 ELSE Min(cpus)

Availability(proc, system) ==
    CASE ~proc /\ ~system -> "UNAVAILABLE"
      [] proc /\ ~system  -> "PROCESS_MODE"
      [] ~proc /\ system  -> "SYSTEM_MODE"
      [] OTHER            -> "UNIVERSAL"

update_availability(ev) ==
    [ev EXCEPT !.availability = Availability(can_open(ev, Self), can_open(ev, FirstCpu(ev.cpus)))]

\* EventAttr::event_is_openable(): a second try without the kernel. What
\* it returns is whether the result is still unavailable.
SecondTry(first) ==
    IF first.availability # "UNAVAILABLE" THEN first
    ELSE update_availability([first EXCEPT !.exclude_kernel = TRUE])

event_is_openable(ev) == SecondTry(update_availability(ev))

\* Without the test of the CPUs that the event counts on
is_available_in_mode(ev, scope) ==
    /\ ev.availability # "UNAVAILABLE"
    /\ IF scope \in Cpus
       THEN ev.availability # "PROCESS_MODE"
       ELSE ev.availability # "SYSTEM_MODE"

\* EventAttr::is_available_in()
is_available_in(ev, scope) ==
    /\ ev.availability # "UNAVAILABLE"
    /\ IF scope \in Cpus
       THEN ev.availability # "PROCESS_MODE" /\ (ev.cpus = {} \/ scope \in ev.cpus)
       ELSE ev.availability # "SYSTEM_MODE"

\* PredefinedEventAttr and RawEventAttr: what event_is_openable() returns is
\* dropped, an event that cannot be opened is an attribute all the same.
PredefinedEventAttr(name) ==
    LET ev == NewAttr(name)
    IN  event_is_openable([ev EXCEPT !.cpus = get_cpu_set_for(ev)])

RawEventAttr(name) == PredefinedEventAttr(name)

\* SysfsEventAttr: the CPUs come from sysfs when it has them. The constructor
\* throws InvalidEvent when the PMU or the event is unknown or the event
\* cannot be opened: NoEvent.
NoEvent == NewAttr("")

OrThrow(ev) == IF ev.availability = "UNAVAILABLE" THEN NoEvent ELSE ev

SysfsEventAttr(name) ==
    LET ev == NewAttr(name)
        cpus == IF name \in Listed THEN CountsOn[name] ELSE get_cpu_set_for(ev)
    IN  IF Pmu[name] = "none" THEN NoEvent ELSE OrThrow(event_is_openable([ev EXCEPT !.cpus = cpus]))

----------------------------------------------------------------------------
\* EventResolver::EventResolver(): event_map_ is filled from the tables
InitialMap == [e \in Predefined |-> PredefinedEventAttr(e)]

\* A lookup yields the map it leaves, the event and the exception, if any.
Found(map, ev) == [map |-> map, event |-> ev, thrown |-> "none"]
Threw(map, what) == [map |-> map, event |-> NoEvent, thrown |-> what]

Remember(map, name, ev) == [e \in DOMAIN map \cup {name} |-> IF e = name THEN ev ELSE map[e]]

\* EventResolver::cache_event(): libpfm4 and the pmu-events tables, which are
\* asked in between, know none of the names here. A name without an event is
\* remembered as such, and the exception is a plain std::runtime_error.
CacheAs(map, name, ev) ==
    IF ev = NoEvent THEN Threw(Remember(map, name, ev), "runtime_error")
    ELSE Found(Remember(map, name, ev), ev)

cache_event(map, name) ==
    CacheAs(map, name, IF name \in Raw THEN RawEventAttr(name) ELSE SysfsEventAttr(name))

\* EventResolver::get_event_by_name()
get_event_by_name(map, name) ==
    IF name \notin DOMAIN map THEN cache_event(map, name)
    ELSE IF map[name] = NoEvent THEN Threw(map, "InvalidEvent")
    ELSE Found(map, map[name])

\* EventResolver::fallback_metric_leader_event() is reached only when
\* cpu-clock is a name without an event. It is in the tables, so never.
CpuClock == "cpu-clock"

\* EventResolver::get_metric_leader(): an InvalidEvent is reported and
\* leader.value() of the empty optional throws in its turn.
ValueOf(got) ==
    IF got.thrown = "InvalidEvent" THEN Threw(got.map, "bad_optional_access") ELSE got

get_metric_leader(map, leader) ==
    ValueOf(get_event_by_name(map, IF leader = "" THEN CpuClock ELSE leader))
============================================================================
