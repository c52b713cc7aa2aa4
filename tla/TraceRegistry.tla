---------------------------- MODULE TraceRegistry ----------------------------
(***************************************************************************)
(* The definitions of a trace: what Trace keeps in its OTF2 registry, in   *)
(* thread_names_ and in ExecutionScopeGroup, as a record, and the          *)
(* operations of Trace as operators from one such record to the next.      *)
(* A name is a model value; the strings built from it keep the name and    *)
(* the thread they are built from.  ok turns FALSE when a lookup throws    *)
(* std::out_of_range that the operation does not catch itself.             *)
(***************************************************************************)
EXTENDS Naturals, SequencesExt, TLC

CONSTANTS
  Cpus, CoreOf, PackageOf,   (* Topology                                  *)
  Disks, PartitionOf,        (* block devices; partition -> its disk      *)
  KernelThreads,
  LineInfos,                 (* process -> address or kernel -> LineInfo, *)
                             (* function: <<OpenMP prefix, name>>         *)
  NoName, Idle, Unknown      (* "", "<idle>" and LineInfo's unknown       *)

no_parent == 0
METRIC_PID == 0

thread(t) == <<"thread", t>>
process(p) == <<"process", p>>
cpu(c) == <<"cpu", c>>
device(d) == <<"device", d>>
Root == <<"machine", 0>>
BioRoot == <<"devices", 0>>
Lo2sRegions == <<"group", "lo2s">>
SyscallRegions == <<"group", "<syscalls>">>
KernelRegions == <<"group", "<kernel threads>">>

has(f, k) == k \in DOMAIN f
emplace(f, k, v) == IF has(f, k) THEN f ELSE f @@ (k :> v)
Need(r, c) == [r EXCEPT !.ok = @ /\ c]

Node(name, parent) == [name |-> name, parent |-> parent]
Group(name, members) == [name |-> name, members |-> members]

(* Trace(): machine, packages, cores and CPUs of the system tree, a location *)
(* group for each CPU and one for the metrics, the groups of regions.        *)
Topology ==
  LET nodes == {<<"package", PackageOf[c]>> : c \in Cpus} \cup {<<"core", CoreOf[c]>> : c \in Cpus}
                 \cup {cpu(c) : c \in Cpus} \cup {Root, BioRoot}
      parent(n) == CASE n[1] = "core" -> <<"package", PackageOf[CHOOSE c \in Cpus : CoreOf[c] = n[2]]>>
                     [] n[1] = "cpu" -> <<"core", CoreOf[n[2]]>>
                     [] OTHER -> Root
  IN [n \in nodes |-> Node(n, parent(n))]

NewTrace ==
  [node |-> Topology,
   lg |-> [s \in {cpu(c) : c \in Cpus} |-> Node(s, s)] @@ (thread(METRIC_PID) :> Node("metrics", Root)),
   comm_group |-> <<>>, comm |-> <<>>, region |-> <<>>, cctx |-> <<>>, loc |-> <<>>, handle |-> <<>>,
   rgroup |-> [k \in {Lo2sRegions, SyscallRegions, KernelRegions} |-> Group(k[2], {})],
   locations |-> {}, hardware |-> {}, class |-> {},
   names |-> <<>>,
   groups |-> [s \in {cpu(c) : c \in Cpus} |-> s] @@ (thread(no_parent) :> process(no_parent)),
   resolved |-> {}, maps |-> {}, ok |-> TRUE]

(***************************************************************************)
(* ExecutionScopeGroup: the first process a thread is added to is kept     *)
(***************************************************************************)
(* mutant: the last one is kept *)
AddThreadLast(r, t, p) == [r EXCEPT !.groups = (thread(t) :> process(p)) @@ @]

add_process(r, p) == [r EXCEPT !.groups = emplace(@, thread(p), process(p))]
add_thread(r, t, p) == [r EXCEPT !.groups = emplace(@, thread(t), process(p))]
get_process(r, t) == IF has(r.groups, thread(t)) THEN r.groups[thread(t)][2] ELSE no_parent

(***************************************************************************)
(* Processes and threads                                                   *)
(***************************************************************************)
update_thread(r, t, name) ==
  IF name = NoName \/ ~has(r.region, thread(t)) THEN r
  ELSE [r EXCEPT !.region[thread(t)] = <<name, t>>,
                 !.loc = [k \in DOMAIN @ |-> IF k = <<"sample", thread(t)>>
                                               THEN [@[k] EXCEPT !.name = <<name, t>>] ELSE @[k]],
                 !.names = (t :> name) @@ @]

intern_process_node(r, p) == IF has(r.node, process(p)) THEN process(p) ELSE Root

CreateProcess(r, parent, p, name) ==
  LET node == IF parent = no_parent THEN Root ELSE intern_process_node(r, parent)
  IN [r EXCEPT !.names = emplace(@, p, name),
               !.node = @ @@ (process(p) :> Node(name, node)),
               !.lg = emplace(@, process(p), Node(name, process(p))),
               !.comm_group = emplace(@, p, Group(name, {})),
               !.comm = emplace(@, process(p), name)]

Rename(r, p, name) ==
  update_thread([r EXCEPT !.node[process(p)].name = name, !.lg[process(p)].name = name,
                          !.comm_group[p].name = name, !.comm[process(p)] = name], p, name)

(* mutant: the parent is set when none is given, too *)
UpdateProcessAlways(r, parent, p, name) ==
  LET named == IF name = NoName THEN r ELSE Rename(r, p, name)
      known == IF has(named.node, process(parent)) THEN named
               ELSE CreateProcess(named, no_parent, parent, NoName)
  IN [known EXCEPT !.node[process(p)].parent = process(parent)]

update_process(r, parent, p, name) ==
  LET named == IF name = NoName THEN r ELSE Rename(r, p, name)
      known == IF has(named.node, process(parent)) THEN named
               ELSE CreateProcess(named, no_parent, parent, NoName)
  IN IF parent = no_parent THEN named
     ELSE [known EXCEPT !.node[process(p)].parent = process(parent)]

emplace_process(r, parent, p, name) ==
  IF has(r.node, process(p)) THEN update_process(r, parent, p, name)
                             ELSE CreateProcess(r, parent, p, name)

(* mutant: the process of the thread is not defined first *)
EmplaceThreadOnly(r, p, t, name) ==
  [add_thread(r, t, p) EXCEPT !.names = emplace(@, t, name), !.region = emplace(@, thread(t), <<name, t>>),
                              !.cctx = emplace(@, thread(t), thread(t))]

emplace_thread(r, p, t, name) ==
  LET a == add_thread(emplace_process(r, no_parent, p, NoName), t, p)
      own == IF t = 0 THEN Idle ELSE name
  IN IF has(a.cctx, thread(t)) THEN update_thread(a, t, name)
     ELSE [a EXCEPT !.names = emplace(@, t, own),
                    !.region = emplace(@, thread(t), <<own, t>>),
                    !.rgroup[KernelRegions].members = @ \cup ({thread(t)} \cap {thread(k) : k \in KernelThreads}),
                    !.cctx = emplace(@, thread(t), thread(t))]

(* The running threads as a set of [process, thread, name]; each process   *)
(* is looked up under the name of its main thread.                         *)
emplace_threads(r, tasks) ==
  LET of(p)  == {k \in tasks : k.process = p}
      one(p, s) == LET main == {k \in of(p) : k.thread = p}
                       base == Need(s, main # {})
                   IN IF main = {} THEN base
                      ELSE FoldSet(LAMBDA k, q : emplace_thread(q, p, k.thread, k.name),
                                   emplace_process(base, no_parent, p, (CHOOSE k \in main : TRUE).name), of(p))
  IN FoldSet(one, r, {k.process : k \in tasks})

(* id: the thread of lo2s *)
emplace_monitoring_thread(r, id) ==
  IF has(r.region, thread(id)) THEN r
  ELSE [r EXCEPT !.region = emplace(@, thread(id), <<"lo2s", id>>),
                 !.rgroup[Lo2sRegions].members = @ \cup {thread(id)},
                 !.cctx = emplace(@, thread(id), thread(id))]

(***************************************************************************)
(* Locations                                                               *)
(***************************************************************************)
Parent(r, scope) == IF has(r.groups, scope) THEN r.groups[scope] ELSE <<"unknown", 0>>

(* metric_writer and posix_io_writer (syscall_writer is not called) *)
Writer(r, type, scope) ==
  LET group == Parent(r, scope)
  IN IF ~has(r.lg, group) THEN Need(r, FALSE)
     ELSE [r EXCEPT !.loc = emplace(@, <<type, scope>>, [name |-> <<type, scope>>, group |-> group])]

metric_writer(r, type, scope) == Writer(r, type, scope)
posix_io_writer(r, t) == Writer(r, "posix_io", thread(t))

(* A thread of which nothing is known is put into process 0; one whose     *)
(* process has no location group gets one from emplace_process, which is   *)
(* given parent and process in the wrong order.                            *)
sample_writer(r, type, scope) ==
  LET a == IF scope[1] = "thread" THEN emplace_thread(r, no_parent, scope[2], NoName) ELSE r
      b == IF has(a.lg, Parent(a, scope)) THEN a
           ELSE emplace_process(a, scope[2], no_parent, a.names[scope[2]])
      c == Writer(b, type, scope)
      l == <<type, scope>>
  IN IF ~c.ok THEN c
     ELSE [c EXCEPT !.locations = @ \cup {l},
                    !.comm_group = [p \in DOMAIN @ |->
                       IF Parent(c, scope) = process(p) /\ scope[1] = "thread"
                         THEN [@[p] EXCEPT !.members = @ \cup {l}] ELSE @[p]]]

process_comm(r, t) == Need(r, has(r.comm, process(get_process(r, t))))

create_metric_writer(r, name) ==
  IF ~has(r.lg, thread(METRIC_PID)) THEN Need(r, FALSE)
  ELSE [r EXCEPT !.loc = @ @@ (<<"metrics", name>> :> [name |-> name, group |-> thread(METRIC_PID)])]

(* cpuid_metric_class(), perf_metric_class(), tracepoint_metric_class(): one per key *)
metric_class(r, key) == [r EXCEPT !.class = @ \cup {key}]

(***************************************************************************)
(* Block devices and files                                                 *)
(***************************************************************************)
bio_parent_node(r, d) ==
  IF d \in DOMAIN PartitionOf /\ has(r.node, device(PartitionOf[d])) THEN device(PartitionOf[d]) ELSE BioRoot

block_io_handle(r, d) ==
  IF has(r.handle, device(d)) THEN r
  ELSE [r EXCEPT !.node = emplace(@, device(d), Node(d, bio_parent_node(r, d))),
                 !.comm = emplace(@, device(d), d),
                 !.handle = emplace(@, device(d), [comm |-> device(d), pre_created |-> TRUE])]

bio_writer(r, d) ==
  IF has(r.loc, device(d)) THEN r
  ELSE [r EXCEPT !.node = emplace(@, device(d), Node(d, BioRoot)),
                 !.lg = emplace(@, device(d), Node(d, device(d))),
                 !.loc = emplace(@, device(d), [name |-> d, group |-> device(d)]),
                 !.hardware = @ \cup {device(d)}]

(* Trace() does this for the disks when block I/O is recorded *)
WithDisks(r) == FoldSet(LAMBDA d, s : bio_writer(block_io_handle(s, d), d), r, Disks)

posix_io_handle(r, t, fd, instance) ==
  LET id == <<"fd", t, fd, instance>>
      p  == get_process(r, t)
  IN IF has(r.handle, id) THEN r
     ELSE IF ~has(r.comm, process(p)) THEN Need(r, FALSE)
     ELSE [r EXCEPT !.handle = emplace(@, id, [comm |-> process(p), pre_created |-> fd < 3])]

(***************************************************************************)
(* Calling contexts: merging and closing                                   *)
(***************************************************************************)
(* ByLineInfo: LineInfo::operator< compares dso with itself, so that two   *)
(* dsos with the same file and function share what the first one defined   *)
ByLineInfo(info) == <<"line", info.file, info.function>>

(* intern_region(): the first region of a dso makes the group and is not put into it *)
intern_region(r, info) ==
  LET key == ByLineInfo(info)
      dso == <<"dso", info.dso>>
  IN [r EXCEPT !.region = emplace(@, key, <<info.function, 0>>),
               !.rgroup = IF has(@, dso) THEN [@ EXCEPT ![dso].members = @ \cup {key}]
                                         ELSE @ @@ (dso :> Group(info.dso, {}))]

Context(r, key, region) == [r EXCEPT !.cctx = emplace(@, key, region)]

LineInfo(r, p, a) == IF p \in r.resolved /\ a \in DOMAIN LineInfos[p] THEN LineInfos[p][a] ELSE Unknown

cctx_for_process(r, p) ==
  LET a == emplace_process(r, no_parent, p, NoName)
  IN Context([a EXCEPT !.region = emplace(@, process(p), <<a.names[p], 0>>)], process(p), process(p))

cctx_for_thread(r, t, p) == emplace_thread(r, p, t, NoName)

cctx_for_address(r, a, p) ==
  LET s == [r EXCEPT !.resolved = @ \cup {p}]
      info == LineInfo(s, p, a)
  IN Context(intern_region(s, info), <<"address", p, a>>, ByLineInfo(info))

cctx_for_gpu_kernel(r, k, p) ==
  LET info == IF k \in DOMAIN LineInfos[p] THEN LineInfos[p][k] ELSE Unknown
  IN Context(intern_region(r, info), <<"kernel", p, k>>, ByLineInfo(info))

cctx_for_openmp(r, a, p) ==
  LET found == LineInfo(r, p, a)
      unknown == ByLineInfo(found) = ByLineInfo(Unknown)
      info  == [found EXCEPT !.function = <<"ompt", IF unknown THEN NoName ELSE @[2]>>,
                             !.dso = IF unknown /\ has(r.names, p) THEN r.names[p] ELSE @]
  IN Context(intern_region(r, info), <<"openmp", p, a>>, ByLineInfo(info))

cctx_for_syscall(r, s) ==
  LET key == <<"syscall", s>>
  IN Context([r EXCEPT !.region = emplace(@, key, <<s, 0>>), !.rgroup[SyscallRegions].members = @ \cup {key}], key, key)

(* One path of a local tree: process, thread and leaf *)
MergePath(r, path) ==
  LET a == cctx_for_thread(cctx_for_process(r, path.process), path.thread, path.process)
  IN CASE path.kind = "address" -> cctx_for_address(a, path.leaf, path.process)
       [] path.kind = "kernel"  -> cctx_for_gpu_kernel(a, path.leaf, path.process)
       [] path.kind = "openmp"  -> cctx_for_openmp(a, path.leaf, path.process)
       [] path.kind = "syscall" -> cctx_for_syscall(a, path.leaf)

(* Resolvers::fork and, at the end, the mappings the monitors have seen *)
fork(r, parent, p) == [r EXCEPT !.resolved = IF parent \in @ THEN @ \cup {p} ELSE @]
emplace_resolvers(r, p) == [r EXCEPT !.resolved = @ \cup {p}]

(* finalize(): the trees, and for each thread the mappings of its process *)
finalize(r, paths) ==
  LET a == FoldSet(LAMBDA path, s : MergePath(s, path), r, paths)
  IN [a EXCEPT !.maps = {t \in DOMAIN a.names : has(a.cctx, thread(t)) /\ get_process(a, t) \in a.resolved}]

(* ~Trace(): each thread's region goes to the regions group of its process *)
CloseTrace(r) ==
  LET close(t, s) ==
        LET p == get_process(s, t)
            n == emplace(s.names, p, NoName)
        IN [s EXCEPT !.names = n,
                     !.rgroup = LET g == emplace(@, process(p), Group(n[p], {}))
                                IN [g EXCEPT ![process(p)].members = @ \cup {thread(t)}]]
  IN FoldSet(close, r, {t \in DOMAIN r.names : has(r.region, thread(t))})
=============================================================================
