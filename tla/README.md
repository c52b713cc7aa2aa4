# lo2s, verified

TLA+ models of [lo2s](https://github.com/tud-zih-energy/lo2s), a sampling and
tracing tool that writes OTF2 traces.  lo2s runs beside the program it measures:
it follows its processes with ptrace, reads the kernel's perf buffers, receives
events of OpenMP, CUDA and HIP runtimes through shared memory, and at the end
merges what its threads recorded into one archive.  Nearly all that can go wrong
goes wrong *between* these parts: in the order in which the kernel reports
things, in buffers that fill up, in processes that die half way, in threads that
are told to stop.  That is what the modules are about.

Paths below are relative to the repository root; `src/...` and `include/...` are
its C++ directories.

## 1. Inventory

| Component | State | Operations | Talks to |
|---|---|---|---|
| Shared-memory ring (`src/rb`, `include/lo2s/rb`, `ompt/ringbuf.hpp`, `gpu/ringbuf.hpp`) | `head`, `tail`, bytes of the ring, `reserved_size_`, `mutex_` of the OpenMP writer | `reserve`, fill in place, `commit`; `empty`, `get_top_event_type`, `get`, `pop` | injected library → monitor thread |
| Ring monitors (`src/monitor/socket_monitor.cpp`, `poll_monitor.cpp`, `openmp_monitor.cpp`, `gpu_monitor.cpp`) | poll sets, stop descriptors, maps of monitors, `type` and `pid` of each ring | accept, `sendmsg` of the ring, wait for the type, dispatch, drain, stop, join | monitored process over a UNIX socket and the ring; `MainMonitor` |
| Calling-context trees (`include/lo2s/local_cctx_tree.hpp`, `src/local_cctx_tree.cpp`, `calling_context.hpp`) | tree, call stack, next reference, published number of references | `cctx_enter` (two forms), `cctx_leave`, `cctx_sample`, `finalize` | OTF2 event stream of the location; merge in `Trace` |
| Writers of calling contexts (`src/perf/sample/writer.cpp`, `src/perf/syscall/writer.cpp`, both ring monitors) | current thread, last switch | samples, switches in and out, system calls, kernels, OpenMP regions | perf reader → tree |
| Merge of contexts (`src/trace/trace.cpp`) | global tree, mapping tables | `merge_nodes`, `merge_calling_contexts` | all local trees, after their threads have ended |
| Process controller (`src/process_controller.cpp`) | number of live tasks, first child, attached process, `running` | fork, clone, exit, stop, signal, death, SIGINT | kernel (ptrace, waitpid), `ProcessMonitor` |
| Process monitor and scope groups (`src/monitor/process_monitor.cpp`, `include/lo2s/execution_scope_group.hpp`) | one `ScopeMonitor` per thread, `groups_` | `insert_process`, `insert_thread`, `exit_thread`, `get_process` | process controller, trace |
| Block I/O (`include/lo2s/perf/multi_reader.hpp`, `io_reader.hpp`, `src/perf/bio/writer.cpp`) | perf buffers per CPU and tracepoint, `highest_written_`, `sector_cache_` | `read`, `finalize`, `write` of queue, issue and complete | kernel, OTF2 locations of devices |
| perf event reader (`include/lo2s/perf/event_reader.hpp`) | `data_head`, `data_tail`, copy for records across the wrap, `lost_samples` | `read`, `get`, `pop` | kernel |
| Sample writer time (`src/perf/sample/writer.cpp`) | `first_time_point_`, `last_time_point_`, cpuid metric | `adjust_timepoints`, `thread_begin`, `thread_end` | OTF2 |
| Trace registry (`src/trace/trace.cpp`, `include/lo2s/trace/reg_keys.hpp`) | definitions by key, thread names, groups | `emplace_*`, `update_*`, `add_*` | every thread |
| POSIX I/O (`src/monitor/posix_monitor.cpp`, `posix_io.bpf.c`) | open calls per thread, BPF ring, filter | probes at entry and exit, ring callback | kernel (BPF) |
| Counters (`src/perf/counter`, `include/lo2s/perf/counter`) | double buffers, accumulated values | `update_buffer`, read, write | perf reader, metrics |
| Monitors of CPUs and the main monitor (`cpu_set_monitor.cpp`, `scope_monitor.cpp`, `main_monitor.cpp`) | set of monitors | start, stop, order of both | everything above |
| Event attributes and configuration (`event_attr.cpp`, `event_composer.cpp`, `event_resolver.cpp`, `src/config`) | options, `event_map_`, composed groups, metric classes | resolve a name, probe, compose once, filter per scope, open | kernel, trace, monitors |
| Address resolution (`resolvers.cpp`, `memory_map.hpp`, `function_resolver.cpp`, `dwarf_resolve.cpp`, `src/resolvers`) | an interval map per process, caches of look-ups, `cached_mmap_events_` of each writer | `emplace`, `find`, `fork`, `lookup_line_info` | sample writers, merge of contexts |
| Metrics (`src/metric`) | plugins with channels, recorders of sensors, x86_adapt, x86_energy | load, start, stop, fetch data | main monitor |
| Time conversion (`src/perf/time`) | the offset between clocks | synchronise once, convert | all perf writers |
| Injected libraries (`src/ompt`, `src/cuda`, `src/hip`) | HIP reorder buffer, kernel names | runtime callbacks | ring |
| Utilities, logging, summary | caches of topology | formatting, files | everyone |

Hard behaviours, and what makes the components correct under them:

- **Concurrency.** Runtime threads write a ring while a monitor reads it in place
  (no torn, lost, doubled or reordered event); the kernel fills perf buffers while
  `read()` merges them (times never decrease, nothing dropped without need); the
  type of a ring is read while the client writes it.
- **Order.** `waitpid` reports the stop of a new task before or after the event of
  its parent (every task is monitored, under its own process); exit events of
  OpenMP regions come without their enter.
- **Loss.** Rings, perf and BPF buffers overflow; what is left must still nest, match
  and be accounted for.
- **Death and reuse.** Clients die inside the handshake, tracees inside their
  first stop; numbers of dead tasks are given out again.
- **Stopping and failing.** Threads are told to stop while clients connect and records
  wait; constructors throw when other monitors run already; drained rings, flushed
  buffers and joined threads before the trace is finalized; no tracee left stopped.
- **Staleness.** What was probed once is relied on for every scope; what was said first
  of a thread is kept; mmap records are applied long after they happened; caches answer
  for ranges.

The list in `PROJECT.json` under `hazards` gives the line where each of them bites
and the property that watches it.

## 2. Modules

| Module | Models | State ↔ code |
|---|---|---|
| `EventQueue` | what a ring promises: events go in at the end and come out at the front, once each | `put` = events committed, `got` = events delivered |
| `ShmRingbuf` | the ring, step by step | `head`, `tail` in bytes; `mem` = the ring by 8-byte word, each word saying which event it is part of; `reserved_size` = `reserved_size_`; `mutex` = `mutex_`; `wpc`, `wev`, `wat` per callback, `rpc`, `rev` for the monitor; histories `vhead`, `vtail`, `log`, `delivered` |
| `RingMonitors` | socket thread, clients, GPU and OpenMP monitor threads, main thread | `main`, `sock`, `mon`, `cl` = where each thread and process is; `type`, `pid` = the ring's header; `backlog`, `revents`, `stop_pfd`, `mon_stop`; `committed`, `taken`; `owed` (history) |
| `LocalCctxTree` | one local tree as operators on a record | `nodes` (path ↦ reference), `cur` = `cur_`, `next` reference, `count` = what `finalize` published; `open`, `log`, `broken` follow the event stream |
| `CctxRecording` | five kinds of locations recording, and the merge | `tree` per location, `asked`, `finished`, `running` thread per CPU, `lost` records, `global` = `calling_context_tree_`, `mapping` tables |
| `ProcessController` | ptrace loop and the tracees | kernel: `task`, `proc`, `report` (what `waitpid` can fetch), `used` numbers, `sigstop`; lo2s: `groups` = `groups_`, `monitored` = `threads_`, `wanted` = `running`, `controller` |
| `BioWriter` | `perf::bio::Writer::write` as operators | `known`, `cached`, `bytes` = `sector_cache_`; `out` |
| `MultiReader` | `MultiReader<Writer>` in its `IoMonitor` thread, and the kernel | `buf`, `pending` per reader; `pq` = `earliest_available`; `cur` = `state.identity`; `highest` = `highest_written_` |
| `EventReader` | `perf::EventReader`: the mmap buffer of one event and the kernel that fills it | `cells` = the data area by 8 bytes, each cell saying which part of which record it is; `data_head`, `data_tail`; `current` = what `get()` returned, in place or as a copy; `lost_samples`; histories `written`, `handled`, `dropped` |
| `CounterBuffer` | `CounterBuffer` and its two users as operators | `accumulated`, `previous` |
| `PerfRecording` | one reader of each kind from the synchronisation of clocks to its destruction; extends both | `kind`, `pc` = where the monitor thread is, `offset` = the converter's, `w` = members of the writers, `buffer` = `counter_buffer_`, `out` = events of the location |
| `TraceRegistry` | the registry of `Trace` as operators on a record `reg` | system tree, groups, locations, regions, contexts, `groups` = `groups_`, `names` = `thread_names_`; `ok` is false once a look-up failed |
| `TraceThreads` | who calls it: ptrace loop, COMM records, POSIX and block I/O, injected runtimes, finalisation; extends it | `mode`, `enabled` = what is recorded; kernel: `task`, `gone`, `events`, `comms`; lo2s: `todo` = calls the current handler still makes, `registered` = threads PosixMonitor records, `monitored` = threads with a `ScopeMonitor`, `phase` |
| `Lifecycle` | `main()` to the closed trace: construction, start, run, stop and destruction of all monitors, plugins, exceptions | `todo` = calls the main thread still makes, `state` per monitor thread (one that spins is "spinning"), `requested` = its stop descriptor, `plugin`, `to` = `stopping_time_`, `crashed` = `std::terminate` or a null pointer |
| `PosixIo` | BPF programs, ring, `PosixMonitor` | kernel: `files`, `sys`; BPF maps `pids`, `open_cache`, ring `rb`; lo2s: `inserting` = the thread between the two statements of `insert_thread`, `last` = `last_fd_`, `last_buf_`, `instance_`, `handles`, `out`; histories `lost`, `silent` |
| `EventResolver` | `EventAttr`, `EventResolver` | `paranoid` = the kernel's setting; attributes are records; `Encoding` = the `type` and `config` an event name stands for |
| `EventComposer` | configuration, `EventComposer`, what a `ScopeMonitor` opens, metric classes; extends it | `config`, `composer` (`event_map_` and the composed members), `monitors`, `classes` |
| `AddressMap` | `MemoryMap::emplace` and `find` as operators on sets of entries | |
| `FunctionResolvers` | kallsyms, perf maps, `DwarfFunctionResolver` with its cache | |
| `AddressResolution` | who enters which mapping when, and look-ups; extends both | `cached` = `cached_mmap_events_`, `maps` = `function_resolvers`, `caches` = `cache_` per file; `forks` = forks not handled yet; histories `space`, `between`, `given` |
| `MC...` | instances of the above | |
| `ShmRingbufProofs`, `MultiReaderProofs`, `RingMonitorsProofs`, `ProcessControllerProofs`, `PerfRecordingProofs`, `CctxRecordingProofs`, `PosixIoProofs`, `LifecycleProofs` | inductive invariants and theorems about the module of that name | |

How the code is cut into steps:

- *Ring.* Each access to `head` or `tail` that another thread can interfere with is
  a step: time stamp, lock, reservation (which reads `tail`), filling, commit; for
  the monitor wake-up, `empty()`, `get_top_event_type()`, `get()`, work in place,
  `pop()`.  The atomics are sequentially consistent, so interleaving is the right
  semantics.  The ring is mapped twice, hence addresses modulo the size.
- *Monitors.* One round of a poll loop is poll, one step per descriptor, end of
  round.  The handshake has a step per system call or shared-memory store.  The
  empty loop `while (type == UNSET);` of `monitor(fd)` is a blocking wait in the run
  `mon` and absent where `LoopKept = FALSE`: the loop has no side effect and reads a
  plain variable, so a compiler may remove it.
- *Calling contexts.* The operation on the tree and the event written to the stream
  are one step, as a location is only used by its thread.  `CallingContext`'s
  `operator!=` is modelled as it is (`Unequal`): false for any two contexts of the
  same kind.
- *Process controller.* One handler is one step (the loop has one thread); between
  handlers the kernel lets tasks run, stop and die in any order.
- *Block I/O.* One round of the inner loop of `read()` is a step: only this thread
  removes events, and the kernel only appends behind the event looked at.  Which of
  two queue entries with equal time comes first depends on the bytes of the event
  attributes and is left open.  Perf times are converted by the constant `Offset`,
  which may be negative; how it is measured is in `PerfRecording`.
- *perf readers.* `get()`, `handle()` and `pop()` are steps of their own: the kernel
  writes between them, and the record is looked at in place.  A record is stamped
  before it is committed, so samples may come after later ones.  `stop()` and
  unexpected poll flags may come at any time.
- *Trace.* What is recorded decides which writers a `ScopeMonitor` asks for, and whether
  there is one.  A thread is known to `PosixMonitor` before it is to the trace, and a
  process with a GPU connects whenever it likes.  A call of `Trace` is one
  step; the calls of one handler of the ptrace loop are separate steps, between which
  other threads call.  Most calls hold the mutex of
  the trace; those that do not (`groups_` in the ptrace loop, `metric_writer`,
  `posix_io_*`) could be interrupted in the middle, which is not modelled.
- *Life cycle.* A constructor or destructor is the sequence of the calls it makes;
  each call is a step of the main thread, each monitor a thread that loops until its
  stop descriptor is set or it ends on its own.  A constructor that throws is followed
  by what the handler, or the unwinding, does.
  The socket thread may get into the loop of `socket_monitor.cpp:131` for ever (`Spin`).
- *POSIX I/O.* Entry and exit of a system call are steps, as are the two statements of
  `insert_thread`, the removal of a thread and the callback for one record.  Calls may
  fail, and calls without a BPF program open, replace and close descriptors (`OtherCall`).
- *Set-up.* Parsing, checking and the monitor of one scope are steps; monitors of
  scopes are made in any order.
- *Addresses.* Recording an mmap, applying a scope's records, a fork in the kernel, its
  handling by lo2s and a look-up are steps; between the fork and its handling the other
  threads of the process go on.  Files have tables of debug information and symbols, which
  are consistent: symbols do not overlap, and debug information that covers part of a
  symbol has its name or none.

Data are reduced to what properties tell apart: an event is its size, its thread and
its time; a call path is a sequence of contexts; an event attribute is its encoding, which two names may share;
an address is a small number; names, log lines and formatting are left out.

## 3. Runs

All runs finish within four minutes with two workers.

| Run | Shows |
|---|---|
| `rb` | With the locked OpenMP writer the ring implements `EventQueue` (`IsQueue`); `empty()` is right; the reader meets neither the exception of `get_top_event_type` nor a null event; nobody writes to an event that is unread or in use; events of one thread stay in time order. |
| `mon` | Dispatch only on a type the client wrote, and monitors know the process (`MonitorMatchesClient`); at the end all monitors are joined and nothing committed before the stop is lost; `stop()` returns and connected clients are answered. |
| `cctx` | Event streams nest, below a process; samples lie below their thread unless switch records were lost; after the merge every reference in a stream maps to the definition of the call path it was written for, and each path has one definition. |
| `pc` | Every task of the program gets a monitor, none is put under a process other than its own; no tracee stays stopped; the death of the first child ends the measurement. |
| `bio` | Times written never decrease; an event that was visible when `read()` began and not late then is not dropped; `finalize()` returns and leaves nothing, and bytes begun are bytes completed plus bytes still cached (`FinalizeReturns`). |
| `perf` | Six kinds of readers: records are handled as they were written, in order, across the wrap (`DeliveredIntact`); what was lost is what is counted (`LossAccounted`); what was committed before `stop()` is handled (`StopDrains`); events of a location do not go back in time and none lies in the future (`TimesInOrder`); counters never lose a count and are exact when not multiplexed (`CounterFaithful`). |
| `trace` | In whatever order the callers come, and whichever of five configurations is recorded, no look-up fails (`NoLookupFails`), each thread a call has named with its process is in the groups of that process (`AtHome`), and the system tree hangs together (`TreeRooted`). |
| `life` | lo2s is not ended by an exception or a thread that is not joined (`NeverTerminated`); no monitor runs when the trace is finalized (`FinalizedAlone`); no event and no value of a plugin is later than the end of the trace, and what plugins measured until its last event is written (`RecordedInterval`); once it begins to stop, lo2s closes the trace, unless the socket thread spins on the ring of a client that died in the handshake (`StopReturns`). |
| `posix` | Each completion follows a begin of the same operation of its thread, even when records are lost; the one exception is a completion handled inside `insert_thread` (`CompletesMatch`).  When no record is lost and no call without a record replaces or closes a recorded file, a handle stands for one file from its first event about a file to its destruction (`HandleIsFile`). |
| `setup` | The values of a metric event are the members of its class, in order, for all scopes that share it (`LayoutMatches`); what the composer hands out for a scope can be opened there (`AvailableIsOpenable`). |
| `addr` | An address is given to the file of the mapping that was *applied* last there (`NeverStale`); to a file its process mapped or inherited, or that its parent mapped between the fork and its handling (`OwnAddressSpace`); and to a function that the tables of this mapping have there, whatever was looked up before, unless the first addresses of the mapping were cut off (`NamedByTables`). |
| `addr_truncate` | **Violation.** A mapping that overlaps the end of an older one makes all of the older one disappear, where the comment says it is truncated (`findings` in `PROJECT.json`). |

### Bounds

- `rb`: 2 threads, events of 56 bytes in a ring of 128, 5 callbacks: the ring wraps,
  fills up and refuses.  For other sizes see the theorems.
- `mon`: one GPU and one OpenMP client, which connect, commit and die at any point.
  More clients only repeat what two do in the two maps.
- `cctx`: two threads of one process and one of another; one location of each kind
  and two of OpenMP, four events: enough for two threads to alternate on a CPU with a
  lost record in between, and for two locations to share a path before the merge.
- `pc`: three tasks, so that a new process can clone before its own fork is handled.
- `bio`: three buffers of two CPUs, one per tracepoint, two sectors, three events with
  equal or increasing times.  Three events are the least for an event to be overtaken
  by one of another buffer while a third keeps its reader in the queue.
- `perf`: a data area of 5 cells, records of 1 to 3, three records: the second or third
  lies across the end, or does not fit and is reported by the next.  Three instants, two
  differences of clocks, on either side of the converter's tolerance.
- `trace`: the command with two more tasks, a kernel thread, one CPU, a disk with a
  partition.  Two tasks are the least for a task to be created by one whose
  own creation is not handled yet.  At most two tasks have a new name
  (`MaxRenamed`), and ids are given out in order.  Five configurations: samples with POSIX I/O,
  system calls, counters and POSIX I/O without samples, and both kinds of counters without samples, when a thread gets no `ScopeMonitor`
  at all; CPUs with samples and without.  In a behaviour one of POSIX I/O, GPU and block
  I/O is used, once (`FirstUse`): they share no definitions but those of the tasks.
- `life`: two CPUs, one package, one energy counter, one thread of the command, four sets
  of features that together have all of them; all failures but those listed under
  observations.
- `posix`: two threads with one descriptor each, a ring of two records, four system
  calls: open, use, close and reuse.  One thread with six calls passes as well (7.5 million
  states), and the theorems have no bound.
- `setup`: two CPUs of different kinds, two threads, nine events of all classes
  (software, core, one kind of core only, uncore, raw, unknown), two of them names of one
  encoding, over a thousand command
  lines, five paranoid levels.
- `addr`: addresses 0 to 6, three mmaps at every position, two processes with three
  threads, or one CPU; three mappings are the least for one to be split and cut again.
  Functions are up to two addresses wide, so that ranges and points overlap in `cache_`;
  a mapping begins in the first or the second page of its file.
  The properties are about maps whose scopes have all ended, which is when addresses are
  looked up; a scope that ends without records leaves the maps as they are, so every map
  that arises on the way is among them.  Addresses are looked up in
  behaviours of one mmap record (`MaxResolved`).  The two threads of the parent are
  symmetric.

### Fairness

- `RingMonitors!FairSpec`: weak fairness of the socket thread as a whole (`SockStep`), of
  the main thread (`MainStep`), of the monitor thread of each ring (`MonStep(c)`) and of the
  handshake of each client (`Handshake(c)`, which is not enabled any more when the client
  was killed): the scheduler runs every thread that can run.  Nothing makes a client
  connect, commit or exit, or lo2s stop.  A socket thread that waits for the type of a dead
  client has no step.
- `ProcessController!FairSpec`: the ptrace loop is weakly fair as a whole (which stop
  `waitpid` returns next is left open; a task stays stopped until it is answered, so none
  is passed over for ever while the others are finite), a task that is exiting does die,
  and a SIGSTOP that was sent is delivered.  Tasks may run for ever.
- `MultiReader!FairSpec`: the monitor thread is weakly fair, and an event the kernel has
  stamped becomes visible.  Nothing makes tracepoints fire.
- `Lifecycle!Spec`: the main thread and each monitor thread (its start and its last round)
  are weakly fair.  A socket thread that spins has no further step, so `stop()` need not
  return then.  Nothing makes the command exit or the user interrupt: `StopReturns` begins
  when `run()` is over.

## 4. Proofs

`tlapm` checks the proof modules for every value of the constants that the assumptions below
allow: any number of processes, locations, records and steps.  Each invariant was checked
with TLC on the instance of its run before it was proved; of *LossInv*, which speaks of all
functions, TLC checks the consequence `LossAccounted` only.

**`ShmRingbufProofs`.**  Assumptions: the ring size is a positive multiple of 8
(`ShmRingbuf`'s constructor works in pages), event structs are at least as large as
their header; for the reader's side also that the aligned event sizes are multiples of
some n and the ring size is not (`NoExactFill(n)`, n = 56 for OpenMP events; GPU events
break it) and that either the writer locks or there is one thread (`Serial`, which
the HIP library lacks).  Types need neither.  The inductive invariant has parts: *Exclusion*
(who is between lock and commit holds the mutex and the one reservation), *Positions*
(`head` and `tail` are the bytes ever committed and ever popped modulo the ring size, and
these are less than the size apart), *Framing* (committed events lie end to end, the
popped ones are a prefix), *Contents* (each of these regions holds what was committed) and
*Reading* (what the monitor saw in an earlier step still holds).  `head` and `tail` alone
cannot tell full from empty, which is why the byte counts are needed.  From it follow
`TypeCorrect`, `ReservationsAreExclusive`, `EmptyIsSound`, `ReaderIsSafe`,
`EventsAreStable`, `ThreadsKeepOrder`, and the refinement `RingIsQueue`.

**`MultiReaderProofs`.**  Assumptions: there is a reader; its tracepoint is one of the
three; the clock offset is an integer.  The invariant: buffers are sorted and precede what
is not yet visible (*Stamps*), a queue entry is the time of its reader's first event
(*Entries*), `highest_written_` bounds what was written (*Written*), and every reader with
an event `read()` knows of is unscanned, queued or current (*Covered*, in *Merging* and
*Flushing*).  The write of an event that is no later than the queue's minimum therefore
overtakes none of these.  Theorems: `TypeCorrect`, `MergeIsOrdered`, `DropsOnlyLate`,
`FinalizeFlushes`.

**`RingMonitorsProofs`.**  Assumptions: the sets of GPU and OpenMP processes are disjoint
(`MonitorsAssumption`).  An owed event is followed backwards: it was committed to a ring whose
type is set, so the ring's descriptor was sent, so the socket thread has started a monitor or
is still inside `monitor(fd)`, which it leaves before it looks at the stop flag.  The invariant
says this part by part: the header is written in order (*HeaderInOrder*), what `monitor(fd)`
knows of its client (*InMonitor*), every ring handed out has a monitor or is about to get one
(*EveryRingMonitored*), monitors are told to stop inside `finalize_thread()` only and joined
one by one (*StopInOrder*).  `StopLosesNothing` needs nothing else; `MonitorsMatch` has the
hypothesis `LoopKept`, without which it is false (section 5).

**`ProcessControllerProofs`.**  `NoTaskMissed` is nearly inductive, given that a report fits the
state of its task (*ReportsMatch*), and holds even if task numbers are reused.
`ProcessesAreRight` has the hypothesis `~Reuse`: only then is a task announced by one event,
before it is registered (*AnnouncedOnce*), so the first process a number is registered under
is its own or unknown (*Registered*).  With reuse it is false (section 5).

**`PerfRecordingProofs`.**  Hypothesis `PositiveSizes`: a record takes at least one cell, as it has a
header.  `ClockAssumption`: differences of clocks are integers.  The kernel and the reader only
have positions; which record lies where follows from all records before it.  Instead of adding
sizes up, the invariant says that *there is* a function giving every record its start, such that
the unread ones lie end to end and whole between `data_tail` and `data_head` (*LaidOut*), that
what was handled is what was written (*Delivered*), and that what `get()` returned stands for the
next record (*Held*).  *Drains* ties the phases of the poll loop to `stop()`.  Counters: readings
on their way are in the order they were taken (*ReadingsInOrder*) and the buffer is accurate for
the last one applied (*BufferAccurate*).  Times: a synchronised conversion never maps a stamp
into the future (*ClocksKnown*), no event is later than `last_time_point_` (*EventsInOrder*).
Losses: the sum of what the records report is a recursive function of the records written, of
which nothing can be shown by induction here; *LossInv* says instead that there is a function
with its recursion equations and that *every* such function agrees with `lost_samples` and
`dropped`, which is carried from step to step by extending or cutting the function by a record.
Theorems: `RingInOrder`, `RecordsDelivered`, `StopIsComplete`, `CountersFaithful`,
`TimesAreInOrder`, `LossesAccounted`.

**`CctxRecordingProofs`.**  Assumptions (`ConstantsAssumption`): a location has one kind of writer,
and a call chain has its first entry.  The invariant of a tree (*TreeOK*): the references of its
nodes are 0, 1, ... without gap or repetition and a node's ancestors are nodes (*Numbered*), the
references entered and not left are those of the call stack (*Stacked*), and an event carries
the reference of its node (*Logged*).  `handle_enter_cctx_node` does not replace a context by one
of the same kind, so what it leaves on the stack depends on what the kind of writer put there
before; *Shape* says that: a CPU is at level 0 or in a thread (2), system calls are at level 0
or 1, and so on.  *CpusOK*: while nothing is lost the thread on the stack is the running one.
*MergedOK*: tables are written when all writers are gone, and agree with the global tree.  That
`cctx_sample` numbers the new nodes of a chain without gaps is the lemma `SampleFacts`: the
frames that are new are an upper interval of the chain.  Theorems: `TreesInOrder`, `EventsNest`,
`SamplesAreAttributed`, `EventsDoResolve`, `DefinedOnce`.

**`PosixIoProofs`.**  `DescriptorsAssumption`: descriptors are natural numbers other than 0, 1 and 2,
and every thread has a table.  An exit record names no call, and a handle has a count that only lo2s
keeps, so both theorems follow a thread, or a descriptor, through the events written, the records
still in the ring and the kernel's table.  For `OperationsMatch`: a thread that is recorded has an
entry in `last_fd_` or is between the two statements of `insert_thread` (*Tracked*); an entry is that
of the thread's last operation, if that was begun and not completed, and -1 otherwise (*AllBegun*);
a thread without an entry has no operation yet, so that nothing comes before an early completion
(*OpsNoted*).  When nothing was dropped a thread's open record comes when its
operations are complete (*AllQuiet*), so the count of an operation's descriptor does not change under
it.  For `HandlesAreFiles`: up to a close, the records about a descriptor are about one file, once
a call that does not fail was seen (*Chained*), which is the one the kernel has at the end of the
ring (*Ends*), and those of a handle not yet destroyed go on with its file (*LiveFiles*); counts of
handles in use are never above the current one (*Counting*), so a new handle is new.  It has the
hypothesis `OwnTables` (threads that share descriptors break it), and like the property it speaks of
behaviours in which neither `lost` nor `silent` is set (section 5).  `OperationsMatch` has no such
hypothesis.

**`LifecycleProofs`.**  `CountsAssumption`: the numbers of CPUs, packages, counters and threads are
natural numbers.  The main thread is a sequence `todo` of calls, so the invariant is about
sequences of any length.  Every call has a rank, its place in the constructors and destructors,
and `todo` is ordered by rank in all phases (*TodoInv*).  A monitor that runs while the
constructor does was started by a call of lower rank (*StartedInOrder*), and whenever
`end_record`, `finalize` or `close` is still to come, so is, before it, a call that stops,
joins or destroys each monitor that runs (*AllCovered*).  *EndInv* says which calls cannot be
gone before others, *IntervalInv* which events may still come.  Both need that the handlers and
the unwinding of an exception leave an ordered `todo` that covers what runs, which is most of the
proof.  `LifeInOrder`, `TraceFinalizedAlone` and `IntervalRecorded` (nothing later than the end, nothing
missing; there is no lower bound, section 5) hold whatever fails.
`SurvivesFailures` has the hypothesis `Survivable`: the sensors, attaching in system mode, and
block I/O beside tracepoints do not fail.  It is false without each of the three (section 5).  Its
invariant adds that a monitor is destroyed only after its stop (*StoppedFirst*), that a
running measurement never has the start and the end of a scope to do at once (*OneWay*), and that
what is stopped without a test was made (*Made*).

Only model-checked: all liveness (`ClientAnswered`, `StopsAnswered`, `StopsWithChild`,
`FinalizeReturns`, `StopReturns`), which the provers cannot do; what folds over sequences
compute (the bytes of `FinalizeReturns`, `NeverStale`, `NamedByTables`), which would need
induction over data; and the modules without a proof module (`TraceThreads`, `EventComposer`,
`AddressResolution`), see section 7.

## 5. Observations

One disagreement between the code and its comments is a run (`addr_truncate`).  Others
were met while modelling; the first group shows when a constant of a passing run is changed.

| Change | Then fails | Because |
|---|---|---|
| `rb`: `EvSizes = {64}` | `EmptyMeansNothingNew` | `src/rb/shm_ringbuf.cpp:69` lets a reservation fill the ring to the last byte; `head == tail` then counts as empty (`src/rb/reader.cpp:74` takes it for "no new events"). |
| `rb`: `Locked = FALSE` | `EventInUseIsStable` | the GPU writer has no lock (`gpu/ringbuf.hpp:30`), while `rb/writer.hpp:38` says "No other reservation can be active!"; HIP calls back from several threads. |
| `mon`: `LoopKept = FALSE` | `MonitorMatchesClient` | the empty loop of `socket_monitor.cpp:131` may be removed, and the type is read before it is there. |
| `pc`: `Reuse = TRUE` | `NeverWrongProcess` | `execution_scope_group.hpp:67` keeps the first process of a thread number for ever. |
| `life`: `"sensors"` in `MayFail` | `NeverTerminated` | `main_monitor.cpp:131` uses `sensors_recorder_` although its construction may have failed with a warning. |
| `life`: `"attach_system"` in `MayFail` | `NeverTerminated` | the exception leaves `CpuSetMonitor::run` with the monitors running. |
| `life`: tracepoints and block I/O in one set of `Features` | `NeverTerminated` | an exception of block I/O (`main_monitor.cpp:63`) unwinds while the tracepoint threads are joinable. |
| `posix`: `TableOf <- MCShared` | `HandleIsFile` | handles are per thread and descriptor (`posix_monitor.cpp:128-131`), threads of a process share descriptors. |
| `trace`: `<<"process", {"posix"}>>` in `Configs` | `NoLookupFails` | without samples, system calls and counters nothing defines process 0, which a clone of an unknown task is put in; `PosixMonitor` looks it up. |

The others are visible in the definitions:

- Two contexts of the same kind are never unequal (`calling_context.hpp:199`), so a system
  call entered while another is open on its CPU is recorded as the first
  (`local_cctx_tree.hpp:153`).
- SIGINT never detaches from an attached process: the condition of
  `process_controller.cpp:249` is never true, against the comment at line 44.
- `trace.cpp:486` passes process and parent to `emplace_process` in the wrong order.
- `first_time_point_` is not before every other time stamp (`perf/sample/writer.cpp:225`):
  `thread_begin` may be written late, which `TimesInOrder` leaves out (`LateBegin`).
- `starting_time_` is never assigned (`trace.hpp:348`), so the interval of the trace has no
  lower end: values that a plugin took before `begin_record()` are written, against
  `main_monitor.cpp:38-40` and `metric/plugin/metrics.cpp:112-114` ("stick to the interval
  [trace_begin_, trace_end]").  In `Lifecycle`, `fetch_data(starting_time, to)` with
  `starting_time == 0`; a lower bound in `RecordedInterval` would be violated.
- `posix_monitor.cpp:84` switches the recording of a thread on before line 86 sets its
  `last_fd_`: if the exit of a `read()` that the thread was in already is handled in
  between, `operator[]` finds 0 and an operation on descriptor 0 is completed that was
  never begun.  The two threads also use `last_fd_`, a `std::map`, without a lock.
- "{tid, fd, reuse count} => file should be unique" (`posix_monitor.cpp:128-131`)
  holds with limits.  The count changes at `open()` only: a descriptor that
  `socket()` or `dup()` returns has the handle of the file closed there before.  `dup2()`,
  `close_range()` and close-on-exec send no record, so one handle stands for two files.
- `Resolvers::fork` copies the parent's map when lo2s handles the fork: if a sibling thread
  mapped a file after the fork and exited, and its exit was handled first, the child's
  addresses are resolved with a file it does not have.
- With both kinds of counters and no samples a thread gets no `ScopeMonitor`
  (`process_monitor.cpp:58-61`), so neither counters nor system calls are recorded.
- A name that no PMU knows throws at its first look-up (`event_resolver.cpp:316`), before
  "does not name a known event, ignoring!" (`event_composer.cpp:190`) can apply; the cgroup
  is not passed to the children of a group and to userspace counters
  (`counter/group/reader.hpp:66`, `counter/userspace/reader.cpp:39`); `--no-kernel` never
  reaches the sampling event; `process_monitor.cpp:58-61` asks `has_counters_for` the wrong
  way round; `counter_collection.hpp:43` compares leaders with `<`; `check()` of several
  configurations is never called.
- A mapping that is split, or whose beginning is cut off, keeps the page offset of the whole
  (`memory_map.hpp:104`, `:142`), so look-ups behind the cut give functions further down, those
  of a perf map included; records of different scopes are not
  applied in order of time; the map a fork copies is usually still empty.
- Where symbols overlap, or debug information covers part of a symbol, the range in
  `cache_` may answer for a neighbour (`dwarf_resolve.cpp:251`); line infos are compared
  without their dso; a perf map's first line is taken for its lowest address.
- `intern_region` does not put the first region of a dso into its group; a partition's
  node hangs below "block devices"; the second `emplace_thread` of `insert_thread`
  overwrites a newer name.
- Metric recorders add no timer to their poll set and so are read once, at the stop,
  where the manual (`man/lo2s.1.pod:175-177`) speaks of an interval; the interval of the
  sensors is read from `tracepoint-read-interval`; a channel whose id is -1 is skipped.
- When `exec` fails, the child unwinds its copy of `main()`
  (`process_monitor_main.cpp:228`).

## 6. What is not modelled

- Memory order weaker than sequential consistency (the ring's atomics use the default),
  torn accesses to plain shared variables other than the ring type, the race of two threads
  on the `std::map`s of `PosixMonitor`, and the inside of the calls of `Trace` that are made
  without its mutex.
- Thread numbers that are given out again, in `PosixIo`, `TraceThreads` and
  `AddressResolution` (`ProcessController` has them).
- A call chain without entries (`src/local_cctx_tree.cpp:30`): the kernel puts a context
  marker first, and the model assumes it.
- Tracees killed inside a handler of the ptrace loop; `ESRCH` from `PTRACE_CONT`.
- `PERF_RECORD_LOST` in the buffers of `MultiReader`, which the code reads as a sample.
- A thread created by a task that is still unknown lands in process 0
  (`src/process_controller.cpp:276`, marked FIXME there).  `NeverWrongProcess` allows it:
  it forbids another process of the program, not an unknown one.
- The callbacks of the injected libraries: what OMPT, CUPTI and rocprofiler deliver, and
  the HIP reorder buffer.  They are writers of the ring and clients of the socket only.
- What libraries compute: libdw, libpfm, libsensors, x86_adapt, x86_energy, OTF2.
- Text: formats of sysfs and proc files, the command line's syntax, logging, the summary.
- The instruction resolver, which is a table look-up in a disassembler.

## 7. What is left to prove

- `TraceThreads`: `TreeRooted`, `NoLookupFails` and `AtHome`.  The first needs that every node
  but the root was given a parent that existed, the second what each call leaves defined.
  Several calls of the registry are folds over the members of a group; what a fold over a set
  leaves defined would have to be stated for the set as a whole, as *LossInv* does for a sum.
- `EventComposer`: `LayoutMatches` and `AvailableIsOpenable`.  They compare sequences that
  filters and folds of the composer return, so both rest on induction over data.
- `AddressResolution`: `NeverStale` and `NamedByTables` rest on folds over mappings and cache
  entries.  `OwnAddressSpace` only needs that each entry of a map came from a record of its
  process or of one it was forked from, but a scope's records are applied by a fold in one
  step, so it needs the same induction unless that step is cut into one per record.
