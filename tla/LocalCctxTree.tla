--------------------------- MODULE LocalCctxTree ---------------------------
(***************************************************************************)
(* The calling-context tree of one trace location: LocalCctxTree of        *)
(* local_cctx_tree.hpp over the CallingContext of calling_context.hpp, as  *)
(* operators on a value.                                                   *)
(*                                                                         *)
(* A node is named by its path, the sequence of calling contexts from the  *)
(* root down to it; the root is the empty path.  A tree is a record:       *)
(*   nodes    path of each node -> its local reference                     *)
(*   cur      cur_, the nodes on the current call stack, the root first    *)
(*   next     next_cctx_ref_                                               *)
(*   count    ref_count_, what finalize() publishes                        *)
(* and, of what has been written to the location's OTF2 event stream:      *)
(*   open     the references entered and not left, the innermost last      *)
(*   broken   a leave was written that does not close the innermost enter  *)
(*   log      the node each reference in the stream was written for        *)
(***************************************************************************)
EXTENDS Naturals, Sequences, FiniteSets

process(p) == [type |-> "PROCESS", id |-> p]
thread(t)  == [type |-> "THREAD", id |-> t]
sample(ip) == [type |-> "SAMPLE_ADDR", id |-> ip]
gpu_kernel(k) == [type |-> "GPU_KERNEL", id |-> k]
syscall(s) == [type |-> "SYSCALL", id |-> s]
openmp(c)  == [type |-> "OPENMP", id |-> c]

(* operator!= : two contexts of one type are never unequal; contexts of    *)
(* different types compare the members of the union.                       *)
Unequal(lhs, rhs) == lhs.type # rhs.type /\ lhs.id # rhs.id

Root == <<>>
LastOf(path) == path[Len(path)]

(* The constructor: the root has reference 0, and so has the first child.  *)
EmptyTree ==
  [nodes |-> [p \in {Root} |-> 0], cur |-> <<Root>>, next |-> 0, count |-> 0,
   open |-> <<>>, broken |-> FALSE, log |-> {}]

cur_level(t) == Len(t.cur) - 1
Top(t) == t.cur[Len(t.cur)]

-----------------------------------------------------------------------------

(* create_cctx_node: an existing child keeps its reference.                *)
create_cctx_node(t, path) ==
  IF path \in DOMAIN t.nodes THEN t
  ELSE [t EXCEPT !.nodes = [p \in DOMAIN @ \cup {path} |->
                              IF p = path THEN t.next ELSE @[p]],
                 !.next = @ + 1]

(* Push a node below the top of the stack and write the enter event.       *)
Push(t, ctx) ==
  LET path == Append(Top(t), ctx)
      n == create_cctx_node(t, path)
  IN [n EXCEPT !.cur = Append(@, path),
               !.open = Append(@, n.nodes[path]),
               !.log = @ \cup {[ref |-> n.nodes[path], path |-> path]}]

(* cctx_leave(tp, level): the nodes at `level' and deeper are left, from   *)
(* the top of the stack.                                                   *)
cctx_leave(t, level) ==
  IF level = 0 \/ cur_level(t) < level THEN t
  ELSE LET n    == cur_level(t) - level + 1
           refs == [i \in 1 .. n |-> t.nodes[t.cur[level + i]]]
           keep == IF n <= Len(t.open) THEN Len(t.open) - n ELSE 0
       IN [t EXCEPT !.cur = SubSeq(@, 1, level),
                    !.open = SubSeq(@, 1, keep),
                    !.broken = @ \/ SubSeq(t.open, keep + 1, Len(t.open)) # refs]

(* handle_enter_cctx_node: a context at a level of the current stack       *)
(* replaces what is there only if the two are unequal.                     *)
handle_enter_cctx_node(t, level, ctx) ==
  IF level = cur_level(t) + 1 THEN Push(t, ctx)
  ELSE IF Unequal(LastOf(t.cur[level + 1]), ctx) THEN Push(cctx_leave(t, level), ctx)
  ELSE t

(* cctx_enter(tp, level, ctx1, ctx2)                                       *)
cctx_enter2(t, level, ctx1, ctx2) ==
  handle_enter_cctx_node(handle_enter_cctx_node(t, level, ctx1), level + 1, ctx2)

(* cctx_enter(tp, ctx), which enters below the current call stack.         *)
cctx_enter_below(t, ctx) == handle_enter_cctx_node(t, cur_level(t) + 1, ctx)

(* The call chain of a sample comes innermost first.  Its first entry is   *)
(* not used and the context markers are skipped.                           *)
Frames(ips, Markers) ==
  LET outermostFirst == [i \in 1 .. Len(ips) - 1 |-> ips[Len(ips) + 1 - i]]
  IN SelectSeq(outermostFirst, LAMBDA ip : ip \notin Markers)

(* cctx_sample: one node per frame below the top of the stack.  The tree   *)
(* is closed under prefixes, so the frames that have a node already are    *)
(* the outermost ones and the others get consecutive references.           *)
cctx_sample(t, frames) ==
  LET path  == Top(t) \o [i \in 1 .. Len(frames) |-> sample(frames[i])]
      steps == {SubSeq(path, 1, n) : n \in Len(Top(t)) + 1 .. Len(path)}
      new   == steps \ DOMAIN t.nodes
      known == Len(path) - Cardinality(new)
      nodes == [p \in DOMAIN t.nodes \cup new |->
                  IF p \in new THEN t.next + Len(p) - known - 1 ELSE t.nodes[p]]
  IN [t EXCEPT !.nodes = nodes, !.next = @ + Cardinality(new),
               !.log = @ \cup {[ref |-> nodes[path], path |-> path]}]

FinalizeOffByOne(t) == [t EXCEPT !.count = IF t.next = 0 THEN 0 ELSE t.next - 1]

(* finalize(): publishes how many references the location uses.            *)
finalize(t) == [t EXCEPT !.count = t.next]
=============================================================================
