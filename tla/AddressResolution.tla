-------------------------- MODULE AddressResolution --------------------------
(***************************************************************************)
(* From the mmap records that the kernel reports to the function that a    *)
(* sampled address belongs to. The writer of every scope keeps the records *)
(* it reads; they enter the memory map of their process when the scope is  *)
(* no longer monitored, and addresses are looked up when the trace is      *)
(* finalized. Until then a fork copies what the map of the parent holds.   *)
(***************************************************************************)
EXTENDS FunctionResolvers

CONSTANTS
    Processes,      \* processes
    Parent,         \* the one that is there at the start
    Threads,        \* their threads
    Home,           \* Home[t]: the process of thread t
    Cpus,           \* the CPUs, in system-wide monitoring
    MaxMmaps,       \* bound: mmap records of a run
    MaxResolved     \* bound: mmap records of a run whose addresses are looked up

VARIABLES
    cpu_set,        \* general.monitor_type == CPU_SET
    alive,          \* processes that run
    forks,          \* forks [by, child] that are not handled yet: the thread is stopped
    scopes,         \* scopes that are monitored
    cached,         \* cached[s]: Writer::cached_mmap_events_ of scope s
    maps,           \* Resolvers::function_resolvers
    space,          \* space[p]: every mapping that p made or inherited (history)
    between,        \* between[p]: what p's parent mapped from the fork until it was handled (history)
    given,          \* given[p]: what was emplaced into maps[p], in order (history)
    caches,         \* caches[f]: DwarfFunctionResolver::cache_ of file f
    mmaps           \* number of mmap records so far

Scopes == Threads \cup Cpus

vars == <<cpu_set, alive, forks, scopes, cached, maps, space, between, given, caches, mmaps>>

\* ProcessFunctionMap: the kernel's symbols, then the perf map of the process
Kernel == Entry(KallsymsStart, MaxAddress, 0, "[kernel]")
Initially(p) == IF has_perf_map(p) THEN <<Kernel, PerfMapMapping(p)>> ELSE <<Kernel>>
ProcessFunctionMap(p) == FoldLeft(emplace, {}, Initially(p))

UserAddresses == 0..KallsymsStart

ThreadsOf(p) == {t \in Threads : Home[t] = p}

Init ==
    /\ cpu_set \in BOOLEAN
    /\ alive = {Parent} /\ forks = {}
    /\ scopes = IF cpu_set THEN Cpus ELSE ThreadsOf(Parent)
    /\ cached = [s \in Scopes |-> <<>>]
    /\ maps = <<>>
    /\ space = [p \in Processes |-> Range(Initially(p))]
    /\ between = [p \in Processes |-> {}]
    /\ given = [p \in Processes |-> Initially(p)]
    /\ caches = <<>>
    /\ mmaps = 0

----------------------------------------------------------------------------
\* What a process may map next: a file of its own at any place; over all its
\* addresses, a file that does not open or one that known_non_executable()
\* knows by its name, "//anon". Bounds: the place decides whether it is the
\* first or the second page that the file is mapped from; "//anon", which is
\* never applied, comes first.
Places == {Entry(start, end, start % 2, ToString(mmaps)) : start, end \in UserAddresses}
Mappings ==
    {Entry(0, KallsymsStart, 0, f) : f \in Unreadable \cup (IF mmaps = 0 THEN {"//anon"} ELSE {})} \cup
    {m \in Places : m.start < m.end /\ m.end - m.start < KallsymsStart}

\* Threads in the stop of PTRACE_EVENT_FORK
Forking == {f.by : f \in forks}

\* The kernel reports an mmap of an executable file by p, to the scope where
\* it happens (Writer::handle(RecordMmapType) keeps the record).
Mmap(p, s) ==
    /\ mmaps < MaxMmaps
    /\ p \in alive /\ s \in scopes
    /\ cpu_set \/ (s \in ThreadsOf(p) /\ s \notin Forking)
    /\ \E m \in Mappings :
         /\ cached' = [cached EXCEPT ![s] = Append(@, [p |-> p, m |-> m])]
         /\ space' = [space EXCEPT ![p] = @ \cup {m}]
         /\ between' = [c \in Processes |->
                          IF \E f \in forks : f.child = c /\ Home[f.by] = p THEN between[c] \cup {m} ELSE between[c]]
    /\ mmaps' = mmaps + 1
    /\ UNCHANGED <<cpu_set, alive, forks, scopes, maps, given, caches>>

\* function_resolvers.emplace(p, p): a map for p if it has none
WithMap(known, p) == IF p \in DOMAIN known THEN known ELSE known @@ (p :> ProcessFunctionMap(p))

\* The map of the first process, whoever made the mapping
ApplyToParent(st, record) ==
    LET known == WithMap(st.maps, Parent)
    IN  IF record.m.file = "//anon" THEN [st EXCEPT !.maps = known]
        ELSE [maps  |-> [known EXCEPT ![Parent] = emplace(@, record.m)],
              given |-> [st.given EXCEPT ![Parent] = Append(@, record.m)]]

\* One record in Writer::emplace_resolvers(). function_resolver_for() has no
\* resolver for a file that cannot hold code.
Apply(st, record) ==
    LET known == WithMap(st.maps, record.p)
    IN  IF record.m.file = "//anon" THEN [st EXCEPT !.maps = known]
        ELSE [maps  |-> [known EXCEPT ![record.p] = emplace(@, record.m)],
              given |-> [st.given EXCEPT ![record.p] = Append(@, record.m)]]

\* Writer::emplace_resolvers() of a scope that is no longer read
StopScope(s) ==
    LET st == FoldLeft(Apply, [maps |-> maps, given |-> given], cached[s])
    IN  /\ s \in scopes
        /\ scopes' = scopes \ {s}
        /\ cached' = [cached EXCEPT ![s] = <<>>]
        /\ maps' = st.maps
        /\ given' = st.given
        /\ forks' = {f \in forks : f.by # s}
        /\ UNCHANGED <<cpu_set, alive, space, between, caches, mmaps>>

\* ProcessMonitor::exit_thread(), and ~ProcessMonitor() at the end, when forks
\* are no longer handled
StopThread(t) == t \in Threads /\ StopScope(t)

\* the end of CpuSetMonitor::run()
StopCpu(c) == c \in Cpus /\ StopScope(c)

\* CpuSetMonitor::CpuSetMonitor() reads the mappings of the processes that
\* run already, before it starts a monitor.
Prefill ==
    /\ cpu_set /\ mmaps = 0 /\ scopes = Cpus
    /\ \E m \in Mappings :
         LET st == Apply([maps |-> maps, given |-> given], [p |-> Parent, m |-> m])
         IN  /\ maps' = st.maps
             /\ given' = st.given
             /\ space' = [space EXCEPT ![Parent] = @ \cup {m}]
    /\ mmaps' = mmaps + 1
    /\ UNCHANGED <<cpu_set, alive, forks, scopes, cached, between, caches>>

\* A process forks, in the kernel: the child has the address space of its
\* parent. A thread that lo2s traces stops until the fork is handled.
Fork(p, child) ==
    /\ p \in alive /\ child \notin alive
    /\ \/ cpu_set /\ UNCHANGED forks
       \/ \E t \in (ThreadsOf(p) \cap scopes) \ Forking : ~cpu_set /\ forks' = forks \cup {[by |-> t, child |-> child]}
    /\ alive' = alive \cup {child}
    /\ space' = [space EXCEPT ![child] = @ \cup space[p]]
    /\ UNCHANGED <<cpu_set, scopes, cached, maps, between, given, caches, mmaps>>

\* ProcessMonitor::insert_process(), when waitpid() returns the event: starts
\* the child's thread and calls Resolvers::fork(), which copies the parent's
\* map as it is by then.
InsertProcess(f) ==
    LET p == Home[f.by]
    IN  /\ f \in forks
        /\ forks' = forks \ {f}
        /\ scopes' = scopes \cup ThreadsOf(f.child)
        /\ IF p \in DOMAIN maps /\ f.child \notin DOMAIN maps
           THEN /\ maps' = maps @@ (f.child :> maps[p])
                /\ given' = [given EXCEPT ![f.child] = given[p]]
           ELSE UNCHANGED <<maps, given>>
        /\ UNCHANGED <<cpu_set, alive, cached, space, between, caches, mmaps>>

\* Trace::cctx_for_address(), in the finalisation: the address of a sample of
\* p, where p's map has an entry for it
FileCache(f) == IF f \in DOMAIN caches THEN caches[f] ELSE {}
Offset(e, a) == a - e.start + e.pgoff
Resolve(p, a) ==
    LET known == WithMap(maps, p)
    IN  /\ scopes = {} /\ p \in alive /\ mmaps <= MaxResolved
        /\ maps' = known
        /\ IF find(known[p], a) = {} THEN UNCHANGED caches
           ELSE LET e == CHOOSE h \in find(known[p], a) : TRUE
                IN  caches' = (e.file :> Remembered(FileCache(e.file), e.file, Offset(e, a))) @@ caches
        /\ UNCHANGED <<cpu_set, alive, forks, scopes, cached, space, between, given, mmaps>>

Next ==
    \/ Prefill
    \/ \E p \in Processes, s \in Scopes : Mmap(p, s)
    \/ \E t \in Threads : StopThread(t)
    \/ \E c \in Cpus : StopCpu(c)
    \/ \E p, child \in Processes : Fork(p, child)
    \/ \E f \in forks : InsertProcess(f)
    \/ \E p \in Processes, a \in Addresses : Resolve(p, a)

Spec == Init /\ [][Next]_vars

----------------------------------------------------------------------------
\* Trace::cctx_for_address(): the file, if the map of p has an entry
FilesAt(p, a) == {e.file : e \in find(maps[p], a)}

\* The last of the mappings given to p's map that covers an address
Covering(p, a) == {i \in DOMAIN given[p] : given[p][i].start <= a /\ a < given[p][i].end}
LastAt(p, a) == Max(Covering(p, a))

\* MemoryMap against its reference, the sequence of mappings it was given:
\* when addresses are looked up, an address is in at most one entry, and it
\* belongs to the file of the mapping that was applied last of those there.
\* After any overlaps, none of the files applied before is found.
NeverStale ==
    scopes = {} => \A p \in DOMAIN maps : \A a \in Addresses \ {MaxAddress} :
        LET found == find(maps[p], a)
        IN  /\ Cardinality(found) <= 1
            /\ \A e \in found : Covering(p, a) # {} /\ e.file = given[p][LastAt(p, a)].file

\* A process's addresses are resolved with files that this process mapped
\* there, or that it has from its parent, on whatever CPU or thread the
\* records were read and whenever they were applied. A child may also be
\* given what other threads of its parent mapped after the fork, but before
\* lo2s handled it: Resolvers::fork() copies the map as it is then.
OwnAddressSpace ==
    scopes = {} => \A p \in DOMAIN maps : \A a \in Addresses \ {MaxAddress} :
        \A f \in FilesAt(p, a) : \E m \in space[p] \cup between[p] : m.file = f /\ m.start <= a /\ a < m.end

\* What the kernel, the perf map and the object files say about an address,
\* as an offset into the whole mapping: the last kernel symbol that does not
\* lie behind it, a line of the perf map around it, the function of the debug
\* information and otherwise of the symbol table.
NotBehind(a) == {s \in Range(KernelSymbols) : s.address <= a}
Closest(a) == {s \in NotBehind(a) : \A r \in NotBehind(a) : r.address <= s.address}
ByTables(name, a) ==
    CASE Kind(name) = "kernel" -> {for_function(s.name, "[kernel]") : s \in Closest(a + KallsymsStart)}
      [] Kind(name) = "jit" ->
            LET p == CHOOSE q \in Processes : name = JitName(q)
            IN  {for_function(l.name, l.dso) :
                   l \in {k \in Range(PerfMapFile[p]) : k.start <= a + PerfMapStart(p) /\ a + PerfMapStart(p) < k.start + k.size}}
      [] Kind(name) = "name" -> {for_binary(name)}
      [] Kind(name) = "dwarf" ->
            LET said == {for_function(d.name, name) : d \in {d \in UNION {Range(u) : u \in Range(DebugInfo[name])} : Covers(d, a) /\ d.name # ""}}
                symbols == {for_function(s.name, name) : s \in {s \in Range(SymbolTable[name]) : Covers(s, a)}}
            IN  IF said # {} /\ DwarfUsage THEN said ELSE IF symbols # {} THEN symbols ELSE {for_binary(name)}

\* Whatever addresses were looked up before, and in which order, an address
\* gets a function that the mapping applied last there has at it: the ranges
\* and points that overlap in DwarfFunctionResolver::cache_ never answer for
\* a neighbour, where debug information and symbols agree. It is not so for
\* an entry whose first addresses were cut off: MemoryMap keeps its page
\* offset, and its functions are those of addresses further down.
NamedByTables ==
    scopes = {} => \A p \in DOMAIN maps : \A a \in Addresses \ {MaxAddress} : \A e \in find(maps[p], a) :
        LET m == given[p][LastAt(p, a)]
        IN  e.start = m.start =>
              lookup_line_info(FileCache(e.file), e.file, Offset(e, a)) \in ByTables(m.file, Offset(m, a))

\* "Check for partial overlaps, truncating the beginning/ending of existing
\* mappings": what a new mapping does not cover of an old one is kept.
NothingLost ==
    \A p \in DOMAIN maps : \A a \in Addresses \ {MaxAddress} :
        Covering(p, a) # {} => find(maps[p], a) # {}
============================================================================
