--------------------------- MODULE CctxRecording ---------------------------
(***************************************************************************)
(* The writers of calling contexts and the merge of their trees.           *)
(*                                                                         *)
(* Each location of the trace has one writer: perf::sample::Writer (here   *)
(* of a CPU), perf::syscall::Writer, GPUMonitor, or one tree of an         *)
(* OpenMPMonitor.  The locations are recorded by different threads and     *)
(* share no state until ~MainMonitor calls Trace::finalize, which merges   *)
(* the local trees one after the other into one global tree and writes     *)
(* for each location a table from local references to OTF2 definitions.    *)
(*                                                                         *)
(* The kernel's side (which thread a CPU runs, which records are lost) and *)
(* the instrumented programs' side (which OpenMP events find room in the   *)
(* ring) are the environment.                                              *)
(***************************************************************************)
EXTENDS LocalCctxTree

CONSTANTS
  CpuLocs, SyscallLocs, GpuLocs, OmpLocs,  \* the locations, by their writer
  Threads,          \* the threads the CPUs run
  ProcessOf,        \* the process of each thread and of each GPU or OpenMP location
  Chains,           \* what cctx_sample is given: call chains, innermost first
  Markers,          \* PERF_CONTEXT_KERNEL and PERF_CONTEXT_USER
  Syscalls, Kernels, OmpRegions,
  Lossy,            \* may the kernel lose switch records?
  MaxEvents         \* bound: records handled, over all locations

Locations == CpuLocs \cup SyscallLocs \cup GpuLocs \cup OmpLocs

NoThread == "none"

(* A location has one writer, and each call chain its first entry.         *)
ASSUME ConstantsAssumption ==
  /\ CpuLocs \cap (SyscallLocs \cup GpuLocs \cup OmpLocs) = {}
  /\ SyscallLocs \cap (GpuLocs \cup OmpLocs) = {} /\ GpuLocs \cap OmpLocs = {}
  /\ NoThread \notin Threads
  /\ \A c \in Chains : Len(c) \in Nat \ {0}
  /\ Lossy \in BOOLEAN /\ MaxEvents \in Nat

VARIABLES
  tree,       \* the LocalCctxTree of each location
  asked,      \* what the last cctx_enter of each location asked for
  finished,   \* locations whose writer has gone: its tree is finalized
  running,    \* the thread each CPU runs
  lost,       \* CPUs whose buffer has lost a record
  events,     \* records handled so far
  global,     \* calling_context_tree_: path -> definition
  mapping     \* the mapping table written for each location

vars == <<tree, asked, finished, running, lost, events, global, mapping>>

Unwritten == [x \in {} |-> Root]   \* an empty table

Init ==
  /\ tree = [l \in Locations |-> EmptyTree]
  /\ asked = [l \in Locations |-> <<>>]
  /\ finished = {}
  /\ running \in [CpuLocs -> Threads]
  /\ lost = {}
  /\ events = 0
  /\ global = Unwritten
  /\ mapping = [l \in Locations |-> Unwritten]

Level1(ctx) == <<[level |-> 1, ctx |-> ctx]>>
Level12(ctx1, ctx2) == <<[level |-> 1, ctx |-> ctx1], [level |-> 2, ctx |-> ctx2]>>

(* A writer handles one record: its tree changes, and nothing shared.      *)
Handle(l, t, asks) ==
  /\ l \notin finished
  /\ events < MaxEvents
  /\ events' = events + 1
  /\ tree' = [tree EXCEPT ![l] = t]
  /\ asked' = [asked EXCEPT ![l] = asks]
  /\ UNCHANGED <<finished, lost, global, mapping>>

-----------------------------------------------------------------------------
(* perf::sample::Writer on a CPU                                           *)

SwitchOutIgnored(t) == t

(* update_calling_context(..., switch_out)                                 *)
LeaveTask(t) == cctx_leave(t, 1)
EnterTask(t, th) == cctx_enter2(t, 1, process(ProcessOf[th]), thread(th))
TaskOf(th) == Level12(process(ProcessOf[th]), thread(th))

(* handle(RecordSwitchCpuWideType): out of and into a thread.              *)
SwitchOut(l) ==
  /\ running[l] # NoThread
  /\ running' = [running EXCEPT ![l] = NoThread]
  /\ Handle(l, LeaveTask(tree[l]), <<>>)

SwitchIn(l, th) ==
  /\ running[l] = NoThread
  /\ running' = [running EXCEPT ![l] = th]
  /\ Handle(l, EnterTask(tree[l], th), TaskOf(th))

(* The kernel switches a CPU over, but the records do not fit the buffer.  *)
LostSwitch(l, th) ==
  /\ Lossy
  /\ l \notin finished
  /\ lost' = lost \cup {l}
  /\ running[l] # th
  /\ running' = [running EXCEPT ![l] = th]
  /\ UNCHANGED <<tree, asked, finished, events, global, mapping>>

(* handle(RecordSampleType): a single ip is a chain of one frame.          *)
Sample(l, chain) ==
  /\ running[l] # NoThread
  /\ Handle(l, cctx_sample(EnterTask(tree[l], running[l]), Frames(chain, Markers)),
            TaskOf(running[l]))
  /\ UNCHANGED running

-----------------------------------------------------------------------------
(* perf::syscall::Writer: on a CPU the enter and exit records of different *)
(* threads come in any order.                                              *)
SyscallEnter(l, s) ==
  /\ Handle(l, handle_enter_cctx_node(tree[l], 1, syscall(s)), Level1(syscall(s)))
  /\ UNCHANGED running

SyscallExit(l) ==
  /\ Handle(l, cctx_leave(tree[l], 1), <<>>)
  /\ UNCHANGED running

-----------------------------------------------------------------------------
(* GPUMonitor::monitor on a KERNEL event: entered and left at once.        *)
RunKernel(t, p, k) ==
  cctx_leave(cctx_enter2(t, 1, process(p), gpu_kernel(k)), 2)

Kernel(l, k) ==
  /\ Handle(l, RunKernel(tree[l], ProcessOf[l], k), <<>>)
  /\ UNCHANGED running

(* OpenMPMonitor::create_thread_writer, on a thread's first event.         *)
Created(t, p) ==
  IF DOMAIN t.nodes = {Root} THEN handle_enter_cctx_node(t, 1, process(p)) ELSE t

OmptEnter(l, r) ==
  /\ Handle(l, cctx_enter_below(Created(tree[l], ProcessOf[l]), openmp(r)), <<>>)
  /\ UNCHANGED running

(* An exit whose enter found no room in the ring leaves nothing.           *)
LeaveRegion(t) == IF cur_level(t) # 1 THEN cctx_leave(t, cur_level(t)) ELSE t

OmptExit(l) ==
  /\ Handle(l, LeaveRegion(Created(tree[l], ProcessOf[l])), <<>>)
  /\ UNCHANGED running

-----------------------------------------------------------------------------
FinishOpen(t) == finalize(t)

(* ~Writer and finalize_thread: leave what is open, publish the count.     *)
FinishTree(t) == finalize(cctx_leave(t, 1))

Finish(l) ==
  /\ l \notin finished
  /\ finished' = finished \cup {l}
  /\ tree' = [tree EXCEPT ![l] = FinishTree(@)]
  /\ asked' = [asked EXCEPT ![l] = <<>>]
  /\ UNCHANGED <<running, lost, events, global, mapping>>

(* A process, a thread and a system call have one definition each in the   *)
(* registry, whatever their place in the tree; other nodes have their own. *)
Definition(l, path) ==
  IF LastOf(path).type \in {"PROCESS", "THREAD", "SYSCALL"}
  THEN [by |-> "registry", path |-> <<LastOf(path)>>]
  ELSE [by |-> l, path |-> path]

GlobalNodeForgotten(l, path) == Definition(l, path)

(* merge_nodes: a node that is in the global tree is used, another gets a  *)
(* definition of its own.                                                  *)
GlobalNode(l, path) ==
  IF path \in DOMAIN global THEN global[path] ELSE Definition(l, path)

(* Trace::finalize and merge_calling_contexts, for one tree of the list.   *)
(* Every writer is gone by then, and a tree without nodes has no table.    *)
Merge(l) ==
  LET nodes == tree[l].nodes
      inner == DOMAIN nodes \ {Root}
  IN /\ finished = Locations
     /\ mapping[l] = Unwritten
     /\ tree[l].count > 0
     /\ global' = [p \in DOMAIN global \cup inner |->
                     IF p \in inner THEN GlobalNode(l, p) ELSE global[p]]
     /\ mapping' = [mapping EXCEPT ![l] =
          [r \in {nodes[p] : p \in inner} |->
             GlobalNode(l, CHOOSE p \in inner : nodes[p] = r)]]
     /\ UNCHANGED <<tree, asked, finished, running, lost, events>>

Next ==
  \/ \E l \in CpuLocs : SwitchOut(l)
  \/ \E l \in CpuLocs, th \in Threads : SwitchIn(l, th)
  \/ \E l \in CpuLocs, th \in Threads \cup {NoThread} : LostSwitch(l, th)
  \/ \E l \in CpuLocs, c \in Chains : Sample(l, c)
  \/ \E l \in SyscallLocs, s \in Syscalls : SyscallEnter(l, s)
  \/ \E l \in SyscallLocs : SyscallExit(l)
  \/ \E l \in GpuLocs, k \in Kernels : Kernel(l, k)
  \/ \E l \in OmpLocs, r \in OmpRegions : OmptEnter(l, r)
  \/ \E l \in OmpLocs : OmptExit(l)
  \/ \E l \in Locations : Finish(l)
  \/ \E l \in Locations : Merge(l)

Spec == Init /\ [][Next]_vars

-----------------------------------------------------------------------------

(* WellNested: in every location's event stream each leave closes the      *)
(* innermost enter that is still open, whatever order the records come in  *)
(* and whichever are lost, and once the writer is gone nothing is open.    *)
(* Every node but a system call lies below exactly one process node: the   *)
(* one in which merge_nodes resolves its address.                          *)
WellNested ==
  \A l \in Locations :
    /\ ~tree[l].broken
    /\ l \in finished => tree[l].open = <<>>
    /\ \A p \in DOMAIN tree[l].nodes \ {Root} :
         \/ Len(p) = 1 /\ p[1].type = "SYSCALL"
         \/ \A i \in DOMAIN p : p[i].type = "PROCESS" <=> i = 1

(* The call stack of a location has what its last cctx_enter asked for.    *)
AsAsked(l) ==
  \A i \in DOMAIN asked[l] : LET a == asked[l][i] IN
    /\ a.level <= cur_level(tree[l])
    /\ LastOf(tree[l].cur[a.level + 1]) = a.ctx

(* SampleAttributed: on a CPU whose buffer has lost nothing, a sample and  *)
(* a switch-in put the thread they are about, below its process, on top of *)
(* the call stack, although handle_enter_cctx_node replaces nothing.       *)
SampleAttributed == \A l \in CpuLocs \ lost : AsAsked(l)

(* EventsResolve: a location's table has an entry for each reference below *)
(* the count its tree was allocated with and for no other (the assertion   *)
(* of merge_calling_contexts, the at() of merge_nodes); when the trees are *)
(* merged, the reference of every event a location has written leads to    *)
(* the definition of the node the event was written for.                   *)
EventsResolve ==
  /\ \A l \in Locations :
       mapping[l] # Unwritten => DOMAIN mapping[l] = 0 .. tree[l].count - 1
  /\ finished = Locations =>
       \A l \in Locations : \A e \in tree[l].log :
         /\ tree[l].count > 0
         /\ mapping[l] # Unwritten =>
              /\ e.ref \in DOMAIN mapping[l]
              /\ mapping[l][e.ref].path \in {e.path, <<LastOf(e.path)>>}
              /\ LastOf(mapping[l][e.ref].path) = LastOf(e.path)

(* OneDefinition: locations that have recorded the same call path lead to  *)
(* one and the same definition of it, the one of the global tree.          *)
OneDefinition ==
  \A l \in Locations : mapping[l] # Unwritten =>
    \A p \in DOMAIN tree[l].nodes \ {Root} :
      /\ p \in DOMAIN global
      /\ mapping[l][tree[l].nodes[p]] = global[p]

=============================================================================
