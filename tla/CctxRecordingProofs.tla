------------------------- MODULE CctxRecordingProofs -------------------------
(***************************************************************************)
(* Proofs about CctxRecording: that the events of every location nest,     *)
(* that samples lie below the thread they were taken of, that the table of *)
(* a location resolves the references of all its events, and that a call   *)
(* path has one definition.                                                *)
(***************************************************************************)
EXTENDS CctxRecording, SequenceTheorems, FunctionTheorems, FiniteSetTheorems, TLAPS

-----------------------------------------------------------------------------
(* The inductive invariant                                                 *)

IsSequence(s) == s \in Seq({s[i] : i \in DOMAIN s})

Fields(t) ==
  t = [nodes |-> t.nodes, cur |-> t.cur, next |-> t.next, count |-> t.count,
       open |-> t.open, broken |-> t.broken, log |-> t.log]

Inner(t) == DOMAIN t.nodes \ {Root}

(* The references of the nodes below the root are 0, 1, ... without gaps   *)
(* and without repetitions, and with a node there are those above it.      *)
Numbered(t) ==
  /\ t.next \in Nat /\ Root \in DOMAIN t.nodes
  /\ \A p \in DOMAIN t.nodes : IsSequence(p)
  /\ \A p \in Inner(t) : t.nodes[p] \in 0 .. t.next - 1
  /\ \A p, q \in Inner(t) : t.nodes[p] = t.nodes[q] => p = q
  /\ \A r \in 0 .. t.next - 1 : \E p \in Inner(t) : t.nodes[p] = r
  /\ \A p \in DOMAIN t.nodes : \A n \in 0 .. Len(p) : SubSeq(p, 1, n) \in DOMAIN t.nodes

(* What is entered and not left is the call stack, without its root.       *)
Stacked(t) ==
  /\ IsSequence(t.cur) /\ Len(t.cur) >= 1
  /\ \A i \in 1 .. Len(t.cur) : t.cur[i] \in DOMAIN t.nodes /\ Len(t.cur[i]) = i - 1
  /\ IsSequence(t.open) /\ Len(t.open) = Len(t.cur) - 1
  /\ \A i \in 1 .. Len(t.open) : t.open[i] = t.nodes[t.cur[i + 1]]
  /\ t.broken = FALSE

Logged(t) == \A e \in t.log : e.path \in Inner(t) /\ e.ref = t.nodes[e.path]

TreeOK(t) == Fields(t) /\ Numbered(t) /\ Stacked(t) /\ Logged(t)

(* A path below a process: the process comes first and once.               *)
BelowProcess(p) == \A i \in DOMAIN p : p[i].type = "PROCESS" <=> i = 1
Below(t) == \A p \in Inner(t) : BelowProcess(p)

(* What the writers of the kinds of locations keep.                        *)
CpuShape(t) ==
  /\ Below(t) /\ cur_level(t) \in {0, 2}
  /\ cur_level(t) = 2 => LastOf(t.cur[3]).type = "THREAD"

SyscallShape(t) ==
  /\ \A p \in Inner(t) : Len(p) = 1 /\ p[1].type = "SYSCALL"
  /\ cur_level(t) <= 1

GpuShape(t) == Below(t) /\ cur_level(t) <= 1

OmpShape(t, done) == Below(t) /\ (~done /\ DOMAIN t.nodes # {Root} => cur_level(t) >= 1)

Shape(l, t, done) ==
  /\ l \in CpuLocs => CpuShape(t)
  /\ l \in SyscallLocs => SyscallShape(t)
  /\ l \in GpuLocs => GpuShape(t)
  /\ l \in OmpLocs => OmpShape(t, done)

TreesOK ==
  /\ tree = [l \in Locations |-> tree[l]]
  /\ finished \subseteq Locations
  /\ \A l \in Locations :
       /\ TreeOK(tree[l])
       /\ l \in finished => tree[l].count = tree[l].next /\ cur_level(tree[l]) = 0

ShapesOK == \A l \in Locations : Shape(l, tree[l], l \in finished)

(* As long as nothing is lost, a CPU is in the thread that runs on it.     *)
InThread(t, th) ==
  /\ th \in Threads
  /\ LastOf(t.cur[2]) = process(ProcessOf[th]) /\ LastOf(t.cur[3]) = thread(th)

Attributed(t, asks, th) ==
  /\ cur_level(t) = 2 => InThread(t, th)
  /\ asks = <<>> \/ (cur_level(t) = 2 /\ asks = TaskOf(th))

CpusOK ==
  /\ running \in [CpuLocs -> Threads \cup {NoThread}]
  /\ asked = [l \in Locations |-> asked[l]]
  /\ \A l \in CpuLocs \ lost : Attributed(tree[l], asked[l], running[l])

(* A definition is that of the path or of its last context.                *)
Defines(d, p) == d.path \in {p, <<LastOf(p)>>} /\ LastOf(d.path) = LastOf(p)

MergedOK ==
  /\ mapping = [l \in Locations |-> mapping[l]]
  /\ \A p \in DOMAIN global : Defines(global[p], p)
  /\ \A l \in Locations : mapping[l] # Unwritten =>
       /\ finished = Locations
       /\ DOMAIN mapping[l] = 0 .. tree[l].count - 1
       /\ \A p \in Inner(tree[l]) : p \in DOMAIN global /\ mapping[l][tree[l].nodes[p]] = global[p]

IInv == TreesOK /\ ShapesOK /\ CpusOK /\ MergedOK

-----------------------------------------------------------------------------
(* Sequences of whatever elements                                          *)

LEMMA SequenceFacts ==
  ASSUME NEW s, IsSequence(s)
  PROVE  Len(s) \in Nat /\ DOMAIN s = 1 .. Len(s)
  BY DEF IsSequence

LEMMA SeqIsSequence ==
  ASSUME NEW S, NEW s \in Seq(S)
  PROVE  IsSequence(s)
<1>1. Len(s) \in Nat /\ DOMAIN s = 1 .. Len(s) /\ s = [i \in 1 .. Len(s) |-> s[i]]
  BY LenProperties
<1> DEFINE E == {s[i] : i \in DOMAIN s}
<1>2. \A i \in 1 .. Len(s) : s[i] \in E
  BY <1>1
<1> HIDE DEF E
<1>3. s \in [1 .. Len(s) -> E]
  BY <1>1, <1>2
<1>4. s \in Seq(E)
  BY <1>1, <1>3, IsASeq
<1> QED BY <1>4 DEF IsSequence, E

(* A function on an initial segment of the positive numbers is a sequence. *)
LEMMA FunctionIsSequence ==
  ASSUME NEW n \in Nat, NEW s, DOMAIN s = 1 .. n, s = [i \in 1 .. n |-> s[i]]
  PROVE  IsSequence(s) /\ Len(s) = n
<1> DEFINE E == {s[i] : i \in 1 .. n}
<1>1. \A i \in 1 .. n : s[i] \in E
  OBVIOUS
<1> HIDE DEF E
<1>2. s \in [1 .. n -> E]
  BY <1>1
<1>3. s \in Seq(E)
  BY <1>2, IsASeq
<1>4. Len(s) \in Nat /\ 1 .. Len(s) = 1 .. n
  BY <1>3, LenProperties
<1>5. Len(s) = n
  BY <1>4
<1> QED BY <1>3, <1>5, SeqIsSequence

LEMMA SequencesEqual ==
  ASSUME NEW s, NEW r, IsSequence(s), IsSequence(r), Len(s) = Len(r),
         \A i \in 1 .. Len(s) : s[i] = r[i]
  PROVE  s = r
<1> DEFINE S == {s[i] : i \in DOMAIN s}
           R == {r[i] : i \in DOMAIN r}
<1>1. s \in Seq(S) /\ r \in Seq(R)
  BY DEF IsSequence
<1> HIDE DEF S, R
<1>2. s \in Seq(S \cup R) /\ r \in Seq(S \cup R)
  BY <1>1, SeqMonotonic
<1> QED BY <1>2, SeqEqual

LEMMA AppendFacts ==
  ASSUME NEW s, IsSequence(s), NEW x
  PROVE  /\ IsSequence(Append(s, x)) /\ Len(Append(s, x)) = Len(s) + 1
         /\ \A i \in 1 .. Len(s) : Append(s, x)[i] = s[i]
         /\ Append(s, x)[Len(s) + 1] = x
<1> DEFINE S == {s[i] : i \in DOMAIN s}
<1>1. s \in Seq(S)
  BY DEF IsSequence
<1> HIDE DEF S
<1> DEFINE T == S \cup {x}
<1>2. s \in Seq(T) /\ x \in T
  BY <1>1, SeqMonotonic
<1> HIDE DEF T
<1>3. /\ Append(s, x) \in Seq(T) /\ Len(Append(s, x)) = Len(s) + 1
      /\ \A i \in 1 .. Len(s) : Append(s, x)[i] = s[i]
      /\ Append(s, x)[Len(s) + 1] = x
  BY <1>2, AppendProperties
<1> QED BY <1>3, SeqIsSequence

LEMMA PrefixFacts ==
  ASSUME NEW s, IsSequence(s), NEW n \in 0 .. Len(s)
  PROVE  /\ IsSequence(SubSeq(s, 1, n)) /\ Len(SubSeq(s, 1, n)) = n
         /\ \A i \in 1 .. n : SubSeq(s, 1, n)[i] = s[i]
<1> DEFINE S == {s[i] : i \in DOMAIN s}
<1>1. s \in Seq(S) /\ Len(s) \in Nat
  BY DEF IsSequence
<1> HIDE DEF S
<1>2. /\ SubSeq(s, 1, n) \in Seq(S)
      /\ Len(SubSeq(s, 1, n)) = n
      /\ \A i \in 1 .. n : SubSeq(s, 1, n)[i] = s[i]
  BY <1>1
<1> QED BY <1>2, SeqIsSequence

(* Prefixes of a prefix, the whole as a prefix, and the prefixes of a      *)
(* sequence that has got one element more.                                 *)
LEMMA PrefixOfPrefix ==
  ASSUME NEW s, IsSequence(s), NEW n \in 0 .. Len(s), NEW m \in 0 .. n
  PROVE  SubSeq(SubSeq(s, 1, n), 1, m) = SubSeq(s, 1, m)
<1> DEFINE p == SubSeq(s, 1, n)
           q == SubSeq(s, 1, m)
           r == SubSeq(p, 1, m)
<1>0. Len(s) \in Nat
  BY SequenceFacts
<1>1. IsSequence(p) /\ Len(p) = n /\ \A i \in 1 .. n : p[i] = s[i]
  BY PrefixFacts
<1>2. m \in 0 .. Len(s)
  BY <1>0
<1>3. IsSequence(q) /\ Len(q) = m /\ \A i \in 1 .. m : q[i] = s[i]
  BY <1>2, PrefixFacts
<1> HIDE DEF p
<1>4. IsSequence(r) /\ Len(r) = m /\ \A i \in 1 .. m : r[i] = p[i]
  BY <1>1, PrefixFacts
<1> HIDE DEF q, r
<1>5. \A i \in 1 .. Len(r) : r[i] = q[i]
  BY <1>1, <1>3, <1>4
<1>6. r = q
  BY <1>3, <1>4, <1>5, SequencesEqual
<1> QED BY <1>6 DEF p, q, r

LEMMA WholePrefix ==
  ASSUME NEW s, IsSequence(s)
  PROVE  SubSeq(s, 1, Len(s)) = s
<1> DEFINE p == SubSeq(s, 1, Len(s))
<1>1. IsSequence(p) /\ Len(p) = Len(s) /\ \A i \in 1 .. Len(s) : p[i] = s[i]
  BY SequenceFacts, PrefixFacts
<1> HIDE DEF p
<1>2. p = s
  BY <1>1, SequencesEqual
<1> QED BY <1>2 DEF p

LEMMA EmptyIsRoot ==
  /\ IsSequence(Root) /\ Len(Root) = 0
  /\ \A s : IsSequence(s) /\ Len(s) = 0 => s = Root
<1>1. <<>> \in Seq({}) /\ Len(<<>>) = 0
  OBVIOUS
<1>2. IsSequence(Root) /\ Len(Root) = 0
  BY <1>1, SeqIsSequence DEF Root
<1>3. ASSUME NEW s, IsSequence(s), Len(s) = 0 PROVE s = Root
  <2>1. \A i \in 1 .. Len(s) : s[i] = Root[i]
    BY <1>3
  <2>2. Len(s) = Len(Root)
    BY <1>2, <1>3
  <2> QED BY <1>2, <1>3, <2>1, <2>2, SequencesEqual
<1> QED BY <1>2, <1>3

LEMMA AppendPrefix ==
  ASSUME NEW s, IsSequence(s), NEW x, NEW n \in 0 .. Len(s) + 1
  PROVE  SubSeq(Append(s, x), 1, n) = IF n = Len(s) + 1 THEN Append(s, x) ELSE SubSeq(s, 1, n)
<1> DEFINE a == Append(s, x)
           p == SubSeq(s, 1, n)
           q == SubSeq(a, 1, n)
<1>1. /\ IsSequence(a) /\ Len(a) = Len(s) + 1 /\ Len(s) \in Nat
      /\ \A i \in 1 .. Len(s) : a[i] = s[i]
  BY AppendFacts, SequenceFacts
<1> HIDE DEF a
<1>2. CASE n = Len(s) + 1
  <2>1. SubSeq(a, 1, Len(a)) = a
    BY <1>1, WholePrefix
  <2> QED BY <1>1, <1>2, <2>1 DEF a
<1>3. CASE n # Len(s) + 1
  <2>1. n \in 0 .. Len(s) /\ n \in 0 .. Len(a)
    BY <1>1, <1>3
  <2>2. IsSequence(p) /\ Len(p) = n /\ \A i \in 1 .. n : p[i] = s[i]
    BY <2>1, PrefixFacts
  <2>3. IsSequence(q) /\ Len(q) = n /\ \A i \in 1 .. n : q[i] = a[i]
    BY <1>1, <2>1, PrefixFacts
  <2> HIDE DEF p, q
  <2>4. \A i \in 1 .. Len(q) : q[i] = p[i]
    BY <1>1, <2>1, <2>2, <2>3
  <2>5. q = p
    BY <2>2, <2>3, <2>4, SequencesEqual
  <2> QED BY <1>3, <2>5 DEF p, q, a
<1> QED BY <1>2, <1>3

-----------------------------------------------------------------------------
(* Nodes and their references                                              *)

(* n is t with the new nodes N, which have got the next k references.      *)
Extended(t, n, N, k) ==
  /\ N \cap DOMAIN t.nodes = {} /\ DOMAIN n.nodes = DOMAIN t.nodes \cup N
  /\ n.next = t.next + k
  /\ \A p \in DOMAIN t.nodes : n.nodes[p] = t.nodes[p]
  /\ \A p \in N : IsSequence(p) /\ n.nodes[p] \in t.next .. t.next + k - 1
  /\ \A p, q \in N : n.nodes[p] = n.nodes[q] => p = q
  /\ \A r \in t.next .. t.next + k - 1 : \E p \in N : n.nodes[p] = r
  /\ \A p \in N : \A i \in 0 .. Len(p) : SubSeq(p, 1, i) \in DOMAIN n.nodes

LEMMA Grown ==
  ASSUME NEW t, Numbered(t), NEW n, NEW N, NEW k \in Nat, Extended(t, n, N, k)
  PROVE  Numbered(n)
<1> USE DEF Extended
<1>1. t.next \in Nat /\ n.next \in Nat /\ Root \in DOMAIN t.nodes /\ Root \in DOMAIN n.nodes
  BY DEF Numbered
<1>2. Inner(n) = Inner(t) \cup N
  BY <1>1 DEF Inner
<1>3. \A p \in Inner(t) : n.nodes[p] = t.nodes[p] /\ t.nodes[p] \in 0 .. t.next - 1
  BY DEF Numbered, Inner
<1>4. \A p \in DOMAIN n.nodes : IsSequence(p)
  BY DEF Numbered
<1>5. \A p \in Inner(n) : n.nodes[p] \in 0 .. n.next - 1
  BY <1>1, <1>2, <1>3
<1>6. ASSUME NEW p \in Inner(n), NEW q \in Inner(n), n.nodes[p] = n.nodes[q] PROVE p = q
  <2>1. CASE p \in N /\ q \in N
    BY <1>6, <2>1
  <2>2. CASE p \in Inner(t) /\ q \in Inner(t)
    BY <1>3, <1>6, <2>2 DEF Numbered
  <2>3. CASE (p \in N /\ q \in Inner(t)) \/ (p \in Inner(t) /\ q \in N)
    BY <1>1, <1>3, <1>6, <2>3
  <2> QED BY <1>2, <2>1, <2>2, <2>3
<1>7. ASSUME NEW r \in 0 .. n.next - 1 PROVE \E p \in Inner(n) : n.nodes[p] = r
  <2>1. CASE r < t.next
    <3>1. r \in 0 .. t.next - 1
      BY <1>1, <2>1
    <3>2. PICK p \in Inner(t) : t.nodes[p] = r
      BY <3>1 DEF Numbered
    <3> QED BY <1>2, <1>3, <3>2
  <2>2. CASE r >= t.next
    <3>1. r \in t.next .. t.next + k - 1
      BY <1>1, <2>2
    <3> QED BY <1>2, <3>1
  <2> QED BY <1>1, <2>1, <2>2
<1>8. ASSUME NEW p \in DOMAIN n.nodes, NEW i \in 0 .. Len(p) PROVE SubSeq(p, 1, i) \in DOMAIN n.nodes
  <2>1. CASE p \in DOMAIN t.nodes
    BY <2>1 DEF Numbered
  <2>2. CASE p \in N
    BY <2>2
  <2> QED BY <2>1, <2>2
<1> QED BY <1>1, <1>4, <1>5, <1>6, <1>7, <1>8 DEF Numbered

LEMMA SameNodes ==
  ASSUME NEW t, Numbered(t), NEW n, n.nodes = t.nodes, n.next = t.next
  PROVE  Numbered(n)
  BY DEF Numbered, Inner

(* create_cctx_node() below a node that is there                           *)
NodeMade(t, n, path) ==
  /\ Fields(n) /\ Numbered(n)
  /\ DOMAIN n.nodes = DOMAIN t.nodes \cup {path}
  /\ \A p \in DOMAIN t.nodes : n.nodes[p] = t.nodes[p]
  /\ n.cur = t.cur /\ n.count = t.count /\ n.open = t.open
  /\ n.broken = t.broken /\ n.log = t.log

LEMMA CreateFacts ==
  ASSUME NEW t, Fields(t), Numbered(t), NEW above \in DOMAIN t.nodes, NEW ctx,
         NEW path, path = Append(above, ctx),
         NEW n, n = create_cctx_node(t, path)
  PROVE  NodeMade(t, n, path)
<1> USE DEF NodeMade
<1>1. IsSequence(above) /\ Len(above) \in Nat
  BY SequenceFacts DEF Numbered
<1>2. IsSequence(path) /\ Len(path) = Len(above) + 1
  BY <1>1, AppendFacts
<1>3. CASE path \in DOMAIN t.nodes
  <2>1. n = t
    BY <1>3 DEF create_cctx_node
  <2> QED BY <1>3, <2>1
<1>4. CASE path \notin DOMAIN t.nodes
  <2> DEFINE nodes == [p \in DOMAIN t.nodes \cup {path} |-> IF p = path THEN t.next ELSE t.nodes[p]]
  <2>1. n = [t EXCEPT !.nodes = nodes, !.next = t.next + 1]
    BY <1>4 DEF create_cctx_node, Fields
  <2>2. /\ DOMAIN nodes = DOMAIN t.nodes \cup {path} /\ nodes[path] = t.next
        /\ \A p \in DOMAIN t.nodes : nodes[p] = t.nodes[p]
    BY <1>4
  <2> HIDE DEF nodes
  <2>3. n = [nodes |-> nodes, cur |-> t.cur, next |-> t.next + 1, count |-> t.count,
             open |-> t.open, broken |-> t.broken, log |-> t.log]
    BY <2>1 DEF Fields
  <2>4. /\ n.nodes = nodes /\ n.next = t.next + 1 /\ n.cur = t.cur /\ n.count = t.count
        /\ n.open = t.open /\ n.broken = t.broken /\ n.log = t.log /\ Fields(n)
    BY <2>3 DEF Fields
  <2>5. t.next \in Nat
    BY DEF Numbered
  <2>6. ASSUME NEW i \in 0 .. Len(path) PROVE SubSeq(path, 1, i) \in DOMAIN n.nodes
    <3>1. i \in 0 .. Len(above) + 1
      BY <1>2
    <3>2. SubSeq(path, 1, i) = IF i = Len(above) + 1 THEN path ELSE SubSeq(above, 1, i)
      BY <1>1, <3>1, AppendPrefix
    <3>3. CASE i = Len(above) + 1
      BY <2>2, <2>4, <3>2, <3>3
    <3>4. CASE i # Len(above) + 1
      <4>1. i \in 0 .. Len(above)
        BY <1>1, <3>1, <3>4
      <4> QED BY <2>2, <2>4, <3>2, <3>4, <4>1 DEF Numbered
    <3> QED BY <3>3, <3>4
  <2> DEFINE N == {path}
  <2>7. N \cap DOMAIN t.nodes = {} /\ DOMAIN n.nodes = DOMAIN t.nodes \cup N
    BY <1>4, <2>2, <2>4
  <2>8. /\ \A p \in N : IsSequence(p) /\ n.nodes[p] = t.next
        /\ \A p, q \in N : p = q
        /\ \E p \in N : n.nodes[p] = t.next
    BY <1>2, <2>2, <2>4
  <2>9. \A p \in N : \A i \in 0 .. Len(p) : SubSeq(p, 1, i) \in DOMAIN n.nodes
    BY <2>6
  <2>10. DOMAIN n.nodes = DOMAIN t.nodes \cup {path}
    BY <2>7
  <2> HIDE DEF N
  <2>11. \A p \in DOMAIN t.nodes : n.nodes[p] = t.nodes[p]
    BY <2>2, <2>4
  <2>12. \A r : r \in t.next .. t.next + 1 - 1 <=> r = t.next
    BY <2>5
  <2>13. Numbered(n)
    <3> DEFINE k == 1
    <3>1. k \in Nat /\ n.next = t.next + k /\ \A r : r \in t.next .. t.next + k - 1 <=> r = t.next
      BY <2>4, <2>12
    <3> HIDE DEF k
    <3>2. Extended(t, n, N, k)
      BY <2>7, <2>8, <2>9, <2>11, <3>1 DEF Extended
    <3> QED BY <3>1, <3>2, Grown
  <2> QED BY <2>4, <2>10, <2>11, <2>13
<1> QED BY <1>3, <1>4

(* An upward closed set of positions is an interval, which its size tells. *)
LEMMA UpperInterval ==
  ASSUME NEW m \in Nat, NEW L \in Nat, NEW N, N \subseteq m + 1 .. L,
         \A n \in N : \A j \in n .. L : j \in N
  PROVE  /\ IsFiniteSet(N) /\ Cardinality(N) \in Nat
         /\ \A n \in m + 1 .. L : n \in N <=> n >= L - Cardinality(N) + 1
<1>1. ASSUME NEW a \in Nat, a <= L
      PROVE  IsFiniteSet(a + 1 .. L) /\ Cardinality(a + 1 .. L) = L - a
  <2>1. a + 1 \in Int /\ L \in Int
    OBVIOUS
  <2>2. IsFiniteSet(a + 1 .. L) /\ Cardinality(a + 1 .. L) = IF a + 1 > L THEN 0 ELSE L - (a + 1) + 1
    BY <2>1, FS_Interval
  <2> QED BY <1>1, <2>2
<1>2. IsFiniteSet(m + 1 .. L)
  <2>1. m + 1 \in Int /\ L \in Int
    OBVIOUS
  <2> QED BY <2>1, FS_Interval
<1>3. IsFiniteSet(N) /\ Cardinality(N) \in Nat
  <2>1. N \in SUBSET (m + 1 .. L)
    OBVIOUS
  <2>2. IsFiniteSet(N)
    BY <1>2, <2>1, FS_Subset
  <2> QED BY <2>2, FS_CardinalityType
<1>4. ASSUME NEW n \in m + 1 .. L, n \in N PROVE n >= L - Cardinality(N) + 1
  <2> DEFINE a == n - 1
             U == a + 1 .. L
  <2>1. a \in Nat /\ a <= L /\ U = n .. L
    OBVIOUS
  <2>2. IsFiniteSet(U) /\ Cardinality(U) = L - a
    BY <1>1, <2>1
  <2>3. U \in SUBSET N
    BY <1>4, <2>1
  <2>4. Cardinality(U) <= Cardinality(N)
    BY <1>3, <2>3, FS_Subset
  <2> HIDE DEF U
  <2> QED BY <1>3, <2>1, <2>2, <2>4
<1>5. ASSUME NEW n \in m + 1 .. L, n \notin N PROVE ~(n >= L - Cardinality(N) + 1)
  <2> DEFINE U == n + 1 .. L
  <2>1. IsFiniteSet(U) /\ Cardinality(U) = L - n
    BY <1>1
  <2>2. ASSUME NEW k \in N PROVE k \in U
    <3>1. k \in m + 1 .. L
      OBVIOUS
    <3>2. CASE k <= n
      <4>1. n \in k .. L
        BY <3>1, <3>2
      <4> QED BY <1>5, <4>1
    <3> QED BY <3>1, <3>2
  <2>3. N \in SUBSET U
    BY <2>2
  <2>4. Cardinality(N) <= Cardinality(U)
    BY <2>1, <2>3, FS_Subset
  <2> HIDE DEF U
  <2> QED BY <1>3, <2>1, <2>4
<1> QED BY <1>3, <1>4, <1>5

(* cctx_sample(): the frames that have no node yet are the innermost ones, *)
(* and they get the next references.                                       *)
LEMMA SampleFacts ==
  ASSUME NEW t, TreeOK(t), NEW frames, Len(frames) \in Nat, Len(Top(t)) >= 1,
         NEW n, n = cctx_sample(t, frames)
  PROVE  /\ TreeOK(n) /\ n.cur = t.cur /\ n.count = t.count
         /\ DOMAIN t.nodes \subseteq DOMAIN n.nodes
         /\ \A p \in DOMAIN n.nodes \ DOMAIN t.nodes :
              /\ IsSequence(p) /\ Len(p) > Len(Top(t))
              /\ \A i \in 1 .. Len(Top(t)) : p[i] = Top(t)[i]
              /\ \A i \in Len(Top(t)) + 1 .. Len(p) : p[i].type = "SAMPLE_ADDR"
<1> DEFINE base == Top(t)
           tail == [i \in 1 .. Len(frames) |-> sample(frames[i])]
           path == base \o tail
           m == Len(base)
           L == Len(path)
           steps == {SubSeq(path, 1, i) : i \in m + 1 .. L}
           new == steps \ DOMAIN t.nodes
           known == L - Cardinality(new)
           nodes == [p \in DOMAIN t.nodes \cup new |->
                       IF p \in new THEN t.next + Len(p) - known - 1 ELSE t.nodes[p]]
<1>0. Fields(t) /\ Numbered(t) /\ Stacked(t) /\ Logged(t) /\ t.next \in Nat
  BY DEF TreeOK, Numbered
<1>1. n = [t EXCEPT !.nodes = nodes, !.next = t.next + Cardinality(new),
                    !.log = t.log \cup {[ref |-> nodes[path], path |-> path]}]
  BY <1>0 DEF cctx_sample, Fields
<1>2. base \in DOMAIN t.nodes /\ IsSequence(base) /\ m \in Nat
  <2>1. Len(t.cur) \in Nat /\ Len(t.cur) \in 1 .. Len(t.cur)
    BY <1>0, SequenceFacts DEF Stacked
  <2>2. base \in DOMAIN t.nodes
    BY <1>0, <2>1 DEF Stacked, Top
  <2> QED BY <1>0, <2>2, SequenceFacts DEF Numbered
<1>3. /\ IsSequence(path) /\ L = m + Len(frames)
      /\ \A i \in 1 .. m : path[i] = base[i]
      /\ \A i \in m + 1 .. L : path[i].type = "SAMPLE_ADDR"
  <2>1. IsSequence(tail) /\ Len(tail) = Len(frames)
    <3>1. DOMAIN tail = 1 .. Len(frames) /\ tail = [i \in 1 .. Len(frames) |-> tail[i]]
      OBVIOUS
    <3> HIDE DEF tail
    <3> QED BY <3>1, FunctionIsSequence
  <2>2. \A i \in 1 .. Len(frames) : tail[i].type = "SAMPLE_ADDR"
    BY DEF sample
  <2> HIDE DEF tail, base
  <2> DEFINE B == {base[i] : i \in DOMAIN base}
             T == {tail[i] : i \in DOMAIN tail}
             S == B \cup T
  <2>3. base \in Seq(B) /\ tail \in Seq(T)
    BY <1>2, <2>1 DEF IsSequence
  <2> HIDE DEF B, T
  <2>4. base \in Seq(S) /\ tail \in Seq(S)
    BY <2>3, SeqMonotonic
  <2> HIDE DEF S
  <2>5. /\ path \in Seq(S) /\ L = m + Len(tail)
        /\ \A i \in 1 .. m + Len(tail) : path[i] = IF i <= m THEN base[i] ELSE tail[i - m]
    BY <2>4, ConcatProperties
  <2> HIDE DEF path
  <2>6. IsSequence(path)
    BY <2>5, SeqIsSequence
  <2>7. ASSUME NEW i \in m + 1 .. L PROVE path[i].type = "SAMPLE_ADDR"
    <3>1. i \in 1 .. m + Len(tail) /\ ~(i <= m) /\ i - m \in 1 .. Len(frames)
      BY <1>2, <2>1, <2>5
    <3> QED BY <2>2, <2>5, <3>1
  <2>8. \A i \in 1 .. m : path[i] = base[i]
    BY <1>2, <2>1, <2>5
  <2> QED BY <2>1, <2>5, <2>6, <2>7, <2>8
<1> HIDE DEF tail, path, base
<1>4. L \in Nat /\ m <= L
  BY <1>2, <1>3
<1>5. \A i \in 0 .. L : /\ IsSequence(SubSeq(path, 1, i)) /\ Len(SubSeq(path, 1, i)) = i
                        /\ \A j \in 1 .. i : SubSeq(path, 1, i)[j] = path[j]
  BY <1>3, PrefixFacts
<1>6. SubSeq(path, 1, m) = base /\ SubSeq(path, 1, L) = path
  <2> DEFINE q == SubSeq(path, 1, m)
  <2>1. m \in 0 .. L
    BY <1>2, <1>4
  <2>2. IsSequence(q) /\ Len(q) = m /\ \A j \in 1 .. m : q[j] = path[j]
    BY <1>5, <2>1
  <2> HIDE DEF q
  <2>3. \A j \in 1 .. Len(q) : q[j] = base[j]
    BY <1>3, <2>2
  <2>4. q = base
    BY <1>2, <2>2, <2>3, SequencesEqual
  <2> QED BY <1>3, <2>4, WholePrefix DEF q
<1> DEFINE N == {i \in m + 1 .. L : SubSeq(path, 1, i) \notin DOMAIN t.nodes}
<1>7. ASSUME NEW i \in N, NEW j \in i .. L PROVE j \in N
  <2>1. j \in m + 1 .. L /\ i \in 0 .. j /\ j \in 0 .. L /\ i \in 0 .. L
    BY <1>2, <1>4
  <2>2. SubSeq(SubSeq(path, 1, j), 1, i) = SubSeq(path, 1, i)
    BY <1>3, <2>1, PrefixOfPrefix
  <2>3. CASE SubSeq(path, 1, j) \in DOMAIN t.nodes
    <3>1. i \in 0 .. Len(SubSeq(path, 1, j))
      BY <1>5, <2>1
    <3>2. SubSeq(SubSeq(path, 1, j), 1, i) \in DOMAIN t.nodes
      BY <1>0, <2>3, <3>1 DEF Numbered
    <3> QED BY <2>2, <3>2
  <2> QED BY <2>1, <2>3
<1>8. new = {SubSeq(path, 1, i) : i \in N}
  OBVIOUS
<1> DEFINE c == Cardinality(N)
<1>9. /\ IsFiniteSet(N) /\ c \in Nat
      /\ \A i \in m + 1 .. L : i \in N <=> i >= L - c + 1
  <2>1. N \subseteq m + 1 .. L
    OBVIOUS
  <2>2. \A i \in N : \A j \in i .. L : j \in N
    BY <1>7
  <2> HIDE DEF N
  <2> QED BY <1>2, <1>4, <2>1, <2>2, UpperInterval
<1>10. c <= L - m
  <2>1. N \in SUBSET (m + 1 .. L)
    OBVIOUS
  <2>2. m + 1 \in Int /\ L \in Int
    BY <1>2, <1>4
  <2>3. IsFiniteSet(m + 1 .. L) /\ Cardinality(m + 1 .. L) = IF m + 1 > L THEN 0 ELSE L - (m + 1) + 1
    BY <2>2, FS_Interval
  <2> HIDE DEF N
  <2>4. c <= Cardinality(m + 1 .. L)
    BY <2>1, <2>3, FS_Subset
  <2> QED BY <1>2, <1>4, <1>9, <2>3, <2>4
<1>11. Cardinality(new) = c
  <2> DEFINE f == [i \in N |-> SubSeq(path, 1, i)]
  <2>1. f \in [N -> new]
    BY <1>8
  <2>2. ASSUME NEW i \in N, NEW j \in N, f[i] = f[j] PROVE i = j
    <3>1. Len(SubSeq(path, 1, i)) = i /\ Len(SubSeq(path, 1, j)) = j
      BY <1>2, <1>4, <1>5
    <3> QED BY <2>2, <3>1
  <2>3. \A p \in new : \E i \in N : f[i] = p
    BY <1>8
  <2> HIDE DEF f, N, new
  <2>4. f \in Bijection(N, new)
    BY <2>1, <2>2, <2>3, Fun_IsBij
  <2>5. ExistsBijection(N, new)
    BY <2>4 DEF ExistsBijection
  <2> QED BY <1>9, <2>5, FS_Bijection
<1> HIDE DEF c
<1>12. known = L - c /\ known \in Nat /\ known >= m
  BY <1>2, <1>4, <1>9, <1>10, <1>11
<1> HIDE DEF known
<1>13. ASSUME NEW p \in new
       PROVE  /\ IsSequence(p) /\ Len(p) \in known + 1 .. L /\ p = SubSeq(path, 1, Len(p))
              /\ p \notin DOMAIN t.nodes /\ p # Root
  <2>1. PICK i \in N : p = SubSeq(path, 1, i)
    BY <1>8
  <2>2. i \in m + 1 .. L /\ i \in 0 .. L
    BY <1>2, <1>4
  <2>3. IsSequence(p) /\ Len(p) = i
    BY <1>5, <2>1, <2>2
  <2>4. i >= known + 1
    BY <1>9, <1>12, <2>2
  <2>5. p \notin DOMAIN t.nodes /\ p # Root
    BY <1>0, <2>1 DEF Numbered
  <2> QED BY <1>4, <1>12, <2>1, <2>2, <2>3, <2>4, <2>5
<1>14. \A i \in known + 1 .. L : i \in N /\ SubSeq(path, 1, i) \in new
  <2>1. ASSUME NEW i \in known + 1 .. L PROVE i \in N
    <3>1. i \in m + 1 .. L /\ i >= L - c + 1
      BY <1>2, <1>4, <1>12
    <3> QED BY <1>9, <3>1
  <2> QED BY <1>8, <2>1
<1> HIDE DEF N, new
<1>15. /\ DOMAIN nodes = DOMAIN t.nodes \cup new
       /\ \A p \in new : nodes[p] = t.next + Len(p) - known - 1
       /\ \A p \in DOMAIN t.nodes : nodes[p] = t.nodes[p]
  BY <1>13
<1> HIDE DEF nodes
<1>16. n = [nodes |-> nodes, cur |-> t.cur, next |-> t.next + c, count |-> t.count,
            open |-> t.open, broken |-> t.broken,
            log |-> t.log \cup {[ref |-> nodes[path], path |-> path]}]
  BY <1>0, <1>1, <1>11 DEF Fields
<1>17. /\ n.nodes = nodes /\ n.next = t.next + c /\ n.cur = t.cur /\ n.count = t.count
       /\ n.open = t.open /\ n.broken = t.broken /\ Fields(n)
       /\ n.log = t.log \cup {[ref |-> nodes[path], path |-> path]}
  BY <1>16 DEF Fields
<1>18. \A i \in 0 .. L : SubSeq(path, 1, i) \in DOMAIN n.nodes
  <2>1. ASSUME NEW i \in 0 .. L, i <= m PROVE SubSeq(path, 1, i) \in DOMAIN t.nodes
    <3>1. i \in 0 .. m /\ m \in 0 .. L
      BY <1>2, <1>4, <2>1
    <3>2. SubSeq(SubSeq(path, 1, m), 1, i) = SubSeq(path, 1, i)
      BY <1>3, <3>1, PrefixOfPrefix
    <3>3. SubSeq(base, 1, i) \in DOMAIN t.nodes
      BY <1>0, <1>2, <3>1 DEF Numbered
    <3> QED BY <1>6, <3>2, <3>3
  <2>2. ASSUME NEW i \in 0 .. L, i > m PROVE SubSeq(path, 1, i) \in DOMAIN t.nodes \cup new
    <3>1. i \in m + 1 .. L
      BY <1>2, <1>4, <2>2
    <3> QED BY <3>1 DEF new
  <2> QED BY <1>2, <1>15, <1>17, <2>1, <2>2
<1>19. Numbered(n)
  <2>1. \A p \in new : IsSequence(p) /\ n.nodes[p] \in t.next .. t.next + c - 1
    <3>1. ASSUME NEW p \in new PROVE n.nodes[p] \in t.next .. t.next + c - 1
      <4>1. Len(p) \in known + 1 .. L /\ n.nodes[p] = t.next + Len(p) - known - 1
        BY <1>13, <1>15, <1>17
      <4> QED BY <1>0, <1>4, <1>9, <1>12, <4>1
    <3> QED BY <1>13, <3>1
  <2>2. ASSUME NEW p \in new, NEW q \in new, n.nodes[p] = n.nodes[q] PROVE p = q
    <3>1. /\ Len(p) \in known + 1 .. L /\ n.nodes[p] = t.next + Len(p) - known - 1
          /\ Len(q) \in known + 1 .. L /\ n.nodes[q] = t.next + Len(q) - known - 1
      BY <1>13, <1>15, <1>17
    <3>2. Len(p) = Len(q)
      <4>1. \A a, b, d, e \in Int : a + b - d - 1 = a + e - d - 1 => b = e
        OBVIOUS
      <4>2. t.next \in Int /\ known \in Int /\ Len(p) \in Int /\ Len(q) \in Int
        BY <1>0, <1>4, <1>12, <3>1
      <4>3. t.next + Len(p) - known - 1 = t.next + Len(q) - known - 1
        BY <2>2, <3>1
      <4> QED BY <4>1, <4>2, <4>3
    <3> QED BY <1>13, <3>2
  <2>3. ASSUME NEW r \in t.next .. t.next + c - 1 PROVE \E p \in new : n.nodes[p] = r
    <3> DEFINE i == r - t.next + known + 1
    <3>1. i \in known + 1 .. L /\ i \in 0 .. L /\ r = t.next + i - known - 1
      <4>1. t.next \in Nat /\ c \in Nat /\ known \in Nat /\ L = known + c
        BY <1>0, <1>4, <1>9, <1>12
      <4>2. \A a, b, d \in Nat : \A x \in a .. a + b - 1 :
               /\ x - a + d + 1 \in d + 1 .. d + b
               /\ x = a + (x - a + d + 1) - d - 1
        OBVIOUS
      <4>3. i \in known + 1 .. L /\ r = t.next + i - known - 1
        BY <4>1, <4>2
      <4> QED BY <1>4, <4>1, <4>3
    <3> HIDE DEF i
    <3>2. SubSeq(path, 1, i) \in new /\ Len(SubSeq(path, 1, i)) = i
      BY <1>5, <1>14, <3>1
    <3> QED BY <1>15, <1>17, <3>1, <3>2
  <2>4. ASSUME NEW p \in new, NEW j \in 0 .. Len(p) PROVE SubSeq(p, 1, j) \in DOMAIN n.nodes
    <3>1. Len(p) \in 0 .. L /\ j \in 0 .. L /\ p = SubSeq(path, 1, Len(p))
      BY <1>4, <1>12, <1>13
    <3>2. SubSeq(SubSeq(path, 1, Len(p)), 1, j) = SubSeq(path, 1, j)
      BY <1>3, <3>1, PrefixOfPrefix
    <3> QED BY <1>18, <3>1, <3>2
  <2>5. new \cap DOMAIN t.nodes = {} /\ DOMAIN n.nodes = DOMAIN t.nodes \cup new
    BY <1>13, <1>15, <1>17
  <2>6. \A p \in DOMAIN t.nodes : n.nodes[p] = t.nodes[p]
    BY <1>15, <1>17
  <2>7. Extended(t, n, new, c)
    BY <1>17, <2>1, <2>2, <2>3, <2>4, <2>5, <2>6 DEF Extended
  <2> QED BY <1>0, <1>9, <2>7, Grown
<1>20. Stacked(n)
  <2>1. Len(t.open) \in Nat /\ Len(t.cur) \in Nat /\ Len(t.open) = Len(t.cur) - 1
    BY <1>0, SequenceFacts DEF Stacked
  <2>2. \A i \in 1 .. Len(t.open) : i + 1 \in 1 .. Len(t.cur)
    BY <2>1
  <2>3. \A i \in 1 .. Len(n.cur) : n.cur[i] \in DOMAIN n.nodes /\ Len(n.cur[i]) = i - 1
    BY <1>0, <1>15, <1>17 DEF Stacked
  <2>4. \A i \in 1 .. Len(n.open) : n.open[i] = n.nodes[n.cur[i + 1]]
    <3>1. ASSUME NEW i \in 1 .. Len(t.open) PROVE t.open[i] = nodes[t.cur[i + 1]]
      <4>1. t.open[i] = t.nodes[t.cur[i + 1]] /\ t.cur[i + 1] \in DOMAIN t.nodes
        BY <1>0, <2>2 DEF Stacked
      <4> QED BY <1>15, <4>1
    <3> QED BY <1>17, <3>1
  <2> QED BY <1>0, <1>17, <2>3, <2>4 DEF Stacked
<1>21. Logged(n)
  <2>1. L \in 0 .. L /\ path # Root
    BY <1>3, <1>4, EmptyIsRoot DEF base
  <2>2. path \in Inner(n)
    BY <1>6, <1>18, <2>1 DEF Inner
  <2>3. ASSUME NEW e \in n.log PROVE e.path \in Inner(n) /\ e.ref = n.nodes[e.path]
    <3>1. CASE e \in t.log
      BY <1>0, <1>15, <1>17, <3>1 DEF Logged, Inner
    <3>2. CASE e = [ref |-> nodes[path], path |-> path]
      BY <1>17, <2>2, <3>2
    <3> QED BY <1>17, <2>3, <3>1, <3>2
  <2> QED BY <2>3 DEF Logged
<1>22. ASSUME NEW p \in DOMAIN n.nodes \ DOMAIN t.nodes
       PROVE  /\ IsSequence(p) /\ Len(p) > m
              /\ \A i \in 1 .. m : p[i] = base[i]
              /\ \A i \in m + 1 .. Len(p) : p[i].type = "SAMPLE_ADDR"
  <2>1. p \in new
    BY <1>15, <1>17
  <2>2. IsSequence(p) /\ Len(p) \in m + 1 .. L /\ Len(p) \in 0 .. L /\ p = SubSeq(path, 1, Len(p))
    BY <1>2, <1>4, <1>12, <1>13, <2>1
  <2>3. \A j \in 1 .. Len(p) : p[j] = path[j]
    BY <1>5, <2>2
  <2> QED BY <1>2, <1>3, <1>4, <2>2, <2>3
<1> QED BY <1>15, <1>17, <1>19, <1>20, <1>21, <1>22 DEF TreeOK, base

-----------------------------------------------------------------------------
(* The call stack                                                          *)

LEMMA StackFacts ==
  ASSUME NEW t, TreeOK(t)
  PROVE  /\ Len(t.cur) \in Nat /\ Len(t.cur) >= 1 /\ cur_level(t) \in Nat
         /\ Len(t.cur) = cur_level(t) + 1 /\ Len(t.open) = cur_level(t)
         /\ Top(t) \in DOMAIN t.nodes /\ IsSequence(Top(t)) /\ Len(Top(t)) = cur_level(t)
         /\ \A p \in DOMAIN t.nodes : IsSequence(p)
         /\ \A i \in 1 .. Len(t.cur) : IsSequence(t.cur[i]) /\ t.cur[i] \in DOMAIN t.nodes
                                         /\ Len(t.cur[i]) = i - 1
<1>1. Len(t.cur) \in Nat /\ Len(t.cur) >= 1
  BY SequenceFacts DEF TreeOK, Stacked
<1>2. Len(t.cur) \in 1 .. Len(t.cur)
  BY <1>1
<1>3. \A i \in 1 .. Len(t.cur) : IsSequence(t.cur[i]) /\ t.cur[i] \in DOMAIN t.nodes
                                         /\ Len(t.cur[i]) = i - 1
  BY DEF TreeOK, Stacked, Numbered
<1>4. cur_level(t) \in Nat /\ Len(t.cur) = cur_level(t) + 1
  BY <1>1 DEF cur_level
<1>5. Top(t) \in DOMAIN t.nodes /\ IsSequence(Top(t)) /\ Len(Top(t)) = cur_level(t)
  BY <1>2, <1>3 DEF Top, cur_level
<1>6. Len(t.open) = cur_level(t)
  BY DEF TreeOK, Stacked, cur_level
<1>7. \A p \in DOMAIN t.nodes : IsSequence(p)
  BY DEF TreeOK, Numbered
<1> QED BY <1>1, <1>3, <1>4, <1>5, <1>6, <1>7

LEMMA PushFacts ==
  ASSUME NEW t, TreeOK(t), NEW ctx, NEW n, n = Push(t, ctx)
  PROVE  /\ TreeOK(n) /\ n.count = t.count /\ cur_level(n) = cur_level(t) + 1
         /\ DOMAIN n.nodes = DOMAIN t.nodes \cup {Append(Top(t), ctx)}
         /\ \A i \in 1 .. cur_level(t) + 1 : n.cur[i] = t.cur[i]
         /\ n.cur[cur_level(t) + 2] = Append(Top(t), ctx)
         /\ LastOf(Append(Top(t), ctx)) = ctx
<1> DEFINE path == Append(Top(t), ctx)
           c == create_cctx_node(t, path)
           e == [ref |-> c.nodes[path], path |-> path]
<1>1. /\ Len(t.cur) \in Nat /\ Len(t.cur) >= 1 /\ cur_level(t) \in Nat
      /\ Len(t.cur) = cur_level(t) + 1 /\ Len(t.open) = cur_level(t)
      /\ Top(t) \in DOMAIN t.nodes /\ IsSequence(Top(t)) /\ Len(Top(t)) = cur_level(t)
  BY StackFacts
<1>2. /\ Fields(c) /\ Numbered(c)
      /\ DOMAIN c.nodes = DOMAIN t.nodes \cup {path}
      /\ \A p \in DOMAIN t.nodes : c.nodes[p] = t.nodes[p]
      /\ c.cur = t.cur /\ c.count = t.count /\ c.open = t.open
      /\ c.broken = t.broken /\ c.log = t.log
  <2>1. Fields(t) /\ Numbered(t)
    BY DEF TreeOK
  <2>2. path = Append(Top(t), ctx) /\ c = create_cctx_node(t, path)
    OBVIOUS
  <2> HIDE DEF path, c
  <2>3. NodeMade(t, c, path)
    BY <1>1, <2>1, <2>2, CreateFacts
  <2> QED BY <2>3 DEF NodeMade
<1>3. IsSequence(path) /\ Len(path) = cur_level(t) + 1 /\ LastOf(path) = ctx /\ path # Root
  <2>1. IsSequence(path) /\ Len(path) = cur_level(t) + 1 /\ path[cur_level(t) + 1] = ctx
    BY <1>1, AppendFacts
  <2> QED BY <1>1, <2>1, EmptyIsRoot DEF LastOf
<1>4. n = [c EXCEPT !.cur = Append(c.cur, path), !.open = Append(c.open, c.nodes[path]),
                    !.log = c.log \cup {e}]
  BY <1>2 DEF Push, Fields
<1> HIDE DEF path, c, e
<1>5. n = [nodes |-> c.nodes, cur |-> Append(t.cur, path), next |-> c.next, count |-> t.count,
           open |-> Append(t.open, c.nodes[path]), broken |-> t.broken, log |-> t.log \cup {e}]
  BY <1>2, <1>4 DEF Fields
<1>6. /\ n.nodes = c.nodes /\ n.cur = Append(t.cur, path) /\ n.next = c.next /\ n.count = t.count
      /\ n.open = Append(t.open, c.nodes[path]) /\ n.broken = t.broken
      /\ n.log = t.log \cup {e} /\ Fields(n)
  BY <1>5 DEF Fields
<1>7. /\ IsSequence(n.cur) /\ Len(n.cur) = Len(t.cur) + 1
      /\ \A i \in 1 .. Len(t.cur) : n.cur[i] = t.cur[i]
      /\ n.cur[Len(t.cur) + 1] = path
  BY <1>6, AppendFacts DEF TreeOK, Stacked
<1>8. /\ IsSequence(n.open) /\ Len(n.open) = Len(t.open) + 1
      /\ \A i \in 1 .. Len(t.open) : n.open[i] = t.open[i]
      /\ n.open[Len(t.open) + 1] = c.nodes[path]
  BY <1>6, AppendFacts DEF TreeOK, Stacked
<1>9. Numbered(n)
  BY <1>2, <1>6, SameNodes
<1>10. Stacked(n)
  <2>1. ASSUME NEW i \in 1 .. Len(n.cur) PROVE n.cur[i] \in DOMAIN n.nodes /\ Len(n.cur[i]) = i - 1
    <3>1. CASE i = Len(t.cur) + 1
      BY <1>1, <1>2, <1>3, <1>6, <1>7, <3>1
    <3>2. CASE i # Len(t.cur) + 1
      <4>1. i \in 1 .. Len(t.cur)
        BY <1>1, <1>7, <3>2
      <4>2. t.cur[i] \in DOMAIN t.nodes /\ Len(t.cur[i]) = i - 1
        BY <4>1 DEF TreeOK, Stacked
      <4> QED BY <1>2, <1>6, <1>7, <4>1, <4>2
    <3> QED BY <3>1, <3>2
  <2>2. ASSUME NEW i \in 1 .. Len(n.open) PROVE n.open[i] = n.nodes[n.cur[i + 1]]
    <3>1. CASE i = Len(t.open) + 1
      <4>1. n.cur[i + 1] = path
        BY <1>1, <1>7, <3>1
      <4> QED BY <1>6, <1>8, <3>1, <4>1
    <3>2. CASE i # Len(t.open) + 1
      <4>1. i \in 1 .. Len(t.open) /\ i + 1 \in 1 .. Len(t.cur)
        BY <1>1, <1>8, <3>2
      <4>2. t.open[i] = t.nodes[t.cur[i + 1]] /\ t.cur[i + 1] \in DOMAIN t.nodes
        BY <4>1 DEF TreeOK, Stacked
      <4> QED BY <1>2, <1>6, <1>7, <1>8, <4>1, <4>2
    <3> QED BY <3>1, <3>2
  <2>3. t.broken = FALSE
    BY DEF TreeOK, Stacked
  <2> QED BY <1>1, <1>6, <1>7, <1>8, <2>1, <2>2, <2>3 DEF Stacked
<1>11. Logged(n)
  <2>1. ASSUME NEW x \in n.log PROVE x.path \in Inner(n) /\ x.ref = n.nodes[x.path]
    <3>1. CASE x \in t.log
      <4>1. x.path \in Inner(t) /\ x.ref = t.nodes[x.path]
        BY <3>1 DEF TreeOK, Logged
      <4> QED BY <1>2, <1>6, <4>1 DEF Inner
    <3>2. CASE x = e
      BY <1>2, <1>3, <1>6, <3>2 DEF e, Inner
    <3> QED BY <1>6, <3>1, <3>2
  <2> QED BY <2>1 DEF Logged
<1>12. cur_level(n) = cur_level(t) + 1
  BY <1>1, <1>7 DEF cur_level
<1>13. n.cur[cur_level(t) + 2] = path /\ \A i \in 1 .. cur_level(t) + 1 : n.cur[i] = t.cur[i]
  BY <1>1, <1>7
<1> QED BY <1>2, <1>3, <1>6, <1>9, <1>10, <1>11, <1>12, <1>13 DEF TreeOK, path

LEMMA LeaveFacts ==
  ASSUME NEW t, TreeOK(t), NEW level \in Nat, level >= 1, NEW n, n = cctx_leave(t, level)
  PROVE  /\ TreeOK(n) /\ n.count = t.count /\ n.nodes = t.nodes /\ n.next = t.next
         /\ cur_level(n) = IF level <= cur_level(t) THEN level - 1 ELSE cur_level(t)
         /\ \A i \in 1 .. cur_level(n) + 1 : n.cur[i] = t.cur[i]
<1>1. /\ Len(t.cur) \in Nat /\ Len(t.cur) >= 1 /\ cur_level(t) \in Nat
      /\ Len(t.cur) = cur_level(t) + 1 /\ Len(t.open) = cur_level(t)
  BY StackFacts
<1>2. CASE cur_level(t) < level
  <2>1. n = t /\ ~(level <= cur_level(t))
    BY <1>1, <1>2 DEF cctx_leave
  <2> QED BY <2>1
<1>3. CASE ~(cur_level(t) < level)
  <2> DEFINE m == cur_level(t) - level + 1
             refs == [i \in 1 .. m |-> t.nodes[t.cur[level + i]]]
             keep == level - 1
             left == SubSeq(t.open, keep + 1, Len(t.open))
  <2>1. m \in Nat /\ m >= 1 /\ m <= Len(t.open) /\ Len(t.open) - m = keep /\ keep \in 0 .. Len(t.open)
    BY <1>1, <1>3
  <2>2. n = [t EXCEPT !.cur = SubSeq(t.cur, 1, level), !.open = SubSeq(t.open, 1, keep),
                      !.broken = (t.broken \/ left # refs)]
    <3> DEFINE kept == IF m <= Len(t.open) THEN Len(t.open) - m ELSE 0
    <3>1. ~(level = 0 \/ cur_level(t) < level) /\ kept = keep
      BY <1>3, <2>1
    <3>2. n = [t EXCEPT !.cur = SubSeq(@, 1, level), !.open = SubSeq(@, 1, kept),
                        !.broken = @ \/ SubSeq(t.open, kept + 1, Len(t.open)) # refs]
      BY <3>1 DEF cctx_leave
    <3> HIDE DEF kept, keep, refs
    <3> QED BY <3>1, <3>2
  <2>3. left = refs
    <3>1. /\ IsSequence(refs) /\ Len(refs) = m
          /\ \A i \in 1 .. m : refs[i] = t.nodes[t.cur[level + i]]
      <4>1. DOMAIN refs = 1 .. m /\ refs = [i \in 1 .. m |-> refs[i]]
        OBVIOUS
      <4>2. \A i \in 1 .. m : refs[i] = t.nodes[t.cur[level + i]]
        OBVIOUS
      <4> HIDE DEF refs, m
      <4> QED BY <2>1, <4>1, <4>2, FunctionIsSequence
    <3>2. /\ IsSequence(left) /\ Len(left) = m
          /\ \A i \in 1 .. m : left[i] = t.open[level - 1 + i]
      <4> DEFINE S == {t.open[i] : i \in DOMAIN t.open}
      <4>1. t.open \in Seq(S)
        BY DEF TreeOK, Stacked, IsSequence
      <4> HIDE DEF S
      <4>2. level \in 1 .. Len(t.open) + 1 /\ Len(t.open) \in level - 1 .. Len(t.open) /\ keep + 1 = level
        BY <1>1, <1>3
      <4>3. /\ left \in Seq(S) /\ Len(left) = Len(t.open) - level + 1
            /\ \A i \in 1 .. Len(t.open) - level + 1 : left[i] = t.open[level + i - 1]
        BY <4>1, <4>2, SubSeqProperties
      <4>4. IsSequence(left)
        BY <4>3, SeqIsSequence
      <4> HIDE DEF left
      <4>5. ASSUME NEW i \in 1 .. m PROVE left[i] = t.open[level - 1 + i]
        <5>1. level + i - 1 = level - 1 + i /\ i \in 1 .. Len(t.open) - level + 1
          BY <1>1
        <5> QED BY <4>3, <5>1
      <4> QED BY <1>1, <4>3, <4>4, <4>5
    <3> HIDE DEF left, refs
    <3>3. ASSUME NEW i \in 1 .. Len(left) PROVE left[i] = refs[i]
      <4>1. i \in 1 .. m /\ level - 1 + i \in 1 .. Len(t.open) /\ (level - 1 + i) + 1 = level + i
        BY <1>1, <1>3, <2>1, <3>2
      <4>2. t.open[level - 1 + i] = t.nodes[t.cur[level - 1 + i + 1]]
        BY <4>1 DEF TreeOK, Stacked
      <4> QED BY <3>1, <3>2, <4>1, <4>2
    <3> QED BY <3>1, <3>2, <3>3, SequencesEqual
  <2>4. t.broken = FALSE
    BY DEF TreeOK, Stacked
  <2> HIDE DEF left, refs
  <2>5. n = [nodes |-> t.nodes, cur |-> SubSeq(t.cur, 1, level), next |-> t.next, count |-> t.count,
             open |-> SubSeq(t.open, 1, keep), broken |-> FALSE, log |-> t.log]
    BY <2>2, <2>3, <2>4 DEF TreeOK, Fields
  <2>6. /\ n.nodes = t.nodes /\ n.cur = SubSeq(t.cur, 1, level) /\ n.next = t.next /\ n.count = t.count
        /\ n.open = SubSeq(t.open, 1, keep) /\ n.broken = FALSE /\ n.log = t.log /\ Fields(n)
    BY <2>5 DEF Fields
  <2>7. level \in 0 .. Len(t.cur)
    BY <1>1, <1>3
  <2>8. IsSequence(n.cur) /\ Len(n.cur) = level /\ \A i \in 1 .. level : n.cur[i] = t.cur[i]
    BY <2>6, <2>7, PrefixFacts DEF TreeOK, Stacked
  <2>9. IsSequence(n.open) /\ Len(n.open) = keep /\ \A i \in 1 .. keep : n.open[i] = t.open[i]
    BY <2>1, <2>6, PrefixFacts DEF TreeOK, Stacked
  <2>10. Numbered(n)
    BY <2>6 DEF TreeOK, Numbered, Inner
  <2>11. Stacked(n)
    <3>1. ASSUME NEW i \in 1 .. level PROVE n.cur[i] \in DOMAIN n.nodes /\ Len(n.cur[i]) = i - 1
      <4>1. i \in 1 .. Len(t.cur)
        BY <1>1, <2>7
      <4> QED BY <2>6, <2>8, <4>1 DEF TreeOK, Stacked
    <3>2. ASSUME NEW i \in 1 .. keep PROVE n.open[i] = n.nodes[n.cur[i + 1]]
      <4>1. i \in 1 .. Len(t.open) /\ i + 1 \in 1 .. level
        BY <1>1, <1>3
      <4>2. t.open[i] = t.nodes[t.cur[i + 1]]
        BY <4>1 DEF TreeOK, Stacked
      <4> QED BY <2>6, <2>8, <2>9, <4>1, <4>2
    <3> QED BY <2>6, <2>8, <2>9, <3>1, <3>2 DEF Stacked
  <2>12. Logged(n)
    BY <2>6 DEF TreeOK, Logged, Inner
  <2>13. cur_level(n) = level - 1
    BY <2>8 DEF cur_level
  <2> QED BY <1>1, <1>3, <2>6, <2>8, <2>10, <2>11, <2>12, <2>13 DEF TreeOK
<1> QED BY <1>2, <1>3

(* A context of the type that is there already replaces nothing.           *)
LEMMA EnterKeeps ==
  ASSUME NEW t, TreeOK(t), NEW level \in Nat, level >= 1, level <= cur_level(t),
         NEW ctx, LastOf(t.cur[level + 1]).type = ctx.type
  PROVE  handle_enter_cctx_node(t, level, ctx) = t
<1>1. cur_level(t) \in Nat
  BY StackFacts
<1>2. level # cur_level(t) + 1
  BY <1>1
<1> QED BY <1>2 DEF handle_enter_cctx_node, Unequal

-----------------------------------------------------------------------------
(* What the writers do with their trees                                    *)

LEMMA PushBelow ==
  ASSUME NEW t, TreeOK(t), Below(t), NEW ctx, ctx.type = "PROCESS" <=> cur_level(t) = 0,
         NEW n, n = Push(t, ctx)
  PROVE  Below(n)
<1> DEFINE q == Top(t)
           path == Append(q, ctx)
<1>1. cur_level(t) \in Nat /\ q \in DOMAIN t.nodes /\ IsSequence(q) /\ Len(q) = cur_level(t)
  BY StackFacts
<1>2. DOMAIN n.nodes = DOMAIN t.nodes \cup {path}
  BY PushFacts
<1> HIDE DEF q
<1>3. /\ IsSequence(path) /\ Len(path) = Len(q) + 1
      /\ \A i \in 1 .. Len(q) : path[i] = q[i]
      /\ path[Len(q) + 1] = ctx
  BY <1>1, AppendFacts
<1> HIDE DEF path
<1>4. DOMAIN path = 1 .. Len(q) + 1 /\ DOMAIN q = 1 .. Len(q)
  BY <1>1, <1>3, SequenceFacts
<1>5. BelowProcess(path)
  <2>1. ASSUME NEW i \in DOMAIN path PROVE path[i].type = "PROCESS" <=> i = 1
    <3>1. CASE i = Len(q) + 1
      BY <1>1, <1>3, <3>1
    <3>2. CASE i # Len(q) + 1
      <4>1. i \in DOMAIN q /\ path[i] = q[i]
        BY <1>1, <1>3, <1>4, <3>2
      <4>2. q # Root
        BY <1>1, <1>4, <4>1, EmptyIsRoot
      <4>3. BelowProcess(q)
        BY <1>1, <4>2 DEF Below, Inner
      <4> QED BY <4>1, <4>3 DEF BelowProcess
    <3> QED BY <3>1, <3>2
  <2> QED BY <2>1 DEF BelowProcess
<1> QED BY <1>2, <1>5 DEF Below, Inner

LEMMA OfLengthOne ==
  ASSUME NEW q, IsSequence(q), Len(q) = 1
  PROVE  q # Root /\ 1 \in DOMAIN q
<1>1. DOMAIN q = 1 .. Len(q)
  BY SequenceFacts
<1>2. q # Root
  BY EmptyIsRoot
<1> QED BY <1>1, <1>2

LEMMA FirstLevel ==
  ASSUME NEW t, TreeOK(t), cur_level(t) >= 1, NEW q, q = t.cur[2]
  PROVE  IsSequence(q) /\ q \in DOMAIN t.nodes /\ Len(q) = 1
<1>1. Len(t.cur) \in Nat /\ Len(t.cur) >= 2
  BY StackFacts
<1>2. \A i \in 1 .. Len(t.cur) : IsSequence(t.cur[i]) /\ t.cur[i] \in DOMAIN t.nodes
                                   /\ Len(t.cur[i]) = i - 1
  BY StackFacts
<1>3. PICK k \in Nat : k = 2
  OBVIOUS
<1>4. k \in 1 .. Len(t.cur)
  BY <1>1, <1>3
<1>5. IsSequence(t.cur[k]) /\ t.cur[k] \in DOMAIN t.nodes /\ Len(t.cur[k]) = k - 1
  BY <1>2, <1>4
<1>6. q = t.cur[k] /\ k - 1 = 1
  BY <1>3
<1> QED BY <1>5, <1>6

(* The first level of a location below processes is a process.             *)
LEMMA FirstIsProcess ==
  ASSUME NEW t, TreeOK(t), Below(t), cur_level(t) >= 1, NEW q, q = t.cur[2]
  PROVE  LastOf(q).type = "PROCESS"
<1>1. IsSequence(q) /\ q \in DOMAIN t.nodes /\ Len(q) = 1
  BY FirstLevel
<1>2. q # Root /\ 1 \in DOMAIN q
  BY <1>1, OfLengthOne
<1>3. BelowProcess(q)
  BY <1>1, <1>2 DEF Below, Inner
<1> QED BY <1>1, <1>2, <1>3 DEF BelowProcess, LastOf

LEMMA EnterProcess ==
  ASSUME NEW t, TreeOK(t), Below(t), NEW p, NEW n, n = handle_enter_cctx_node(t, 1, process(p))
  PROVE  /\ TreeOK(n) /\ Below(n)
         /\ cur_level(t) = 0 => /\ cur_level(n) = 1 /\ LastOf(n.cur[2]) = process(p)
                                /\ DOMAIN n.nodes # {Root}
         /\ cur_level(t) # 0 => n = t
<1>1. cur_level(t) \in Nat
  BY StackFacts
<1>2. process(p).type = "PROCESS"
  BY DEF process
<1>3. CASE cur_level(t) = 0
  <2>1. n = Push(t, process(p))
    BY <1>3 DEF handle_enter_cctx_node
  <2>2. /\ TreeOK(n) /\ cur_level(n) = 1 /\ n.cur[2] = Append(Top(t), process(p))
        /\ LastOf(Append(Top(t), process(p))) = process(p)
        /\ Append(Top(t), process(p)) \in DOMAIN n.nodes
    <3>1. /\ TreeOK(n) /\ cur_level(n) = cur_level(t) + 1
          /\ n.cur[cur_level(t) + 2] = Append(Top(t), process(p))
          /\ LastOf(Append(Top(t), process(p))) = process(p)
          /\ DOMAIN n.nodes = DOMAIN t.nodes \cup {Append(Top(t), process(p))}
      BY <2>1, PushFacts
    <3>2. cur_level(t) + 2 = 2 /\ cur_level(t) + 1 = 1
      BY <1>3
    <3> QED BY <3>1, <3>2
  <2>3. Below(n)
    BY <1>2, <1>3, <2>1, PushBelow
  <2>4. Append(Top(t), process(p)) # Root
    <3>1. IsSequence(Top(t)) /\ Len(Top(t)) = 0
      BY <1>3, StackFacts
    <3>2. Len(Append(Top(t), process(p))) = 0 + 1
      BY <3>1, AppendFacts
    <3> QED BY <3>2, EmptyIsRoot
  <2> QED BY <1>3, <2>2, <2>3, <2>4
<1>4. CASE cur_level(t) # 0
  <2>1. cur_level(t) >= 1 /\ 1 \in Nat /\ 1 >= 1 /\ 1 + 1 = 2
    BY <1>1, <1>4
  <2>2. LastOf(t.cur[1 + 1]).type = process(p).type
    BY <1>2, <2>1, FirstIsProcess
  <2>3. n = t
    BY <2>1, <2>2, EnterKeeps
  <2> QED BY <1>4, <2>3
<1> QED BY <1>3, <1>4

(* update_calling_context()                                                *)
LEMMA EnterTaskFacts ==
  ASSUME NEW t, TreeOK(t), CpuShape(t), NEW th, NEW n, n = EnterTask(t, th)
  PROVE  /\ TreeOK(n) /\ CpuShape(n) /\ cur_level(n) = 2
         /\ cur_level(t) = 0 => LastOf(n.cur[2]) = process(ProcessOf[th]) /\ LastOf(n.cur[3]) = thread(th)
         /\ cur_level(t) # 0 => n = t
<1> DEFINE m == handle_enter_cctx_node(t, 1, process(ProcessOf[th]))
<1>1. Below(t) /\ cur_level(t) \in {0, 2}
  BY DEF CpuShape
<1>2. /\ TreeOK(m) /\ Below(m)
      /\ cur_level(t) = 0 => cur_level(m) = 1 /\ LastOf(m.cur[2]) = process(ProcessOf[th])
      /\ cur_level(t) # 0 => m = t
  BY <1>1, EnterProcess
<1>3. n = handle_enter_cctx_node(m, 2, thread(th))
  BY DEF EnterTask, cctx_enter2
<1>4. thread(th).type = "THREAD"
  BY DEF thread
<1> HIDE DEF m
<1>5. CASE cur_level(t) = 0
  <2>1. n = Push(m, thread(th))
    BY <1>2, <1>3, <1>5 DEF handle_enter_cctx_node
  <2>2. /\ TreeOK(n) /\ cur_level(n) = 2 /\ n.cur[3] = Append(Top(m), thread(th))
        /\ LastOf(Append(Top(m), thread(th))) = thread(th)
        /\ n.cur[2] = m.cur[2]
    <3>1. cur_level(m) = 1 /\ 2 \in 1 .. 1 + 1
      BY <1>2, <1>5
    <3> QED BY <1>2, <2>1, <3>1, PushFacts
  <2>3. Below(n)
    BY <1>2, <1>4, <1>5, <2>1, PushBelow
  <2> QED BY <1>2, <1>4, <1>5, <2>2, <2>3 DEF CpuShape
<1>6. CASE cur_level(t) = 2
  <2>1. LastOf(t.cur[2 + 1]).type = thread(th).type /\ m = t
    BY <1>2, <1>4, <1>6 DEF CpuShape
  <2>2. 2 \in Nat /\ 2 >= 1 /\ 2 <= cur_level(t)
    BY <1>6
  <2>3. handle_enter_cctx_node(t, 2, thread(th)) = t
    BY <2>1, <2>2, EnterKeeps
  <2> QED BY <1>3, <1>6, <2>1, <2>3
<1> QED BY <1>1, <1>5, <1>6

LEMMA SampleBelow ==
  ASSUME NEW t, TreeOK(t), CpuShape(t), cur_level(t) = 2, NEW frames, Len(frames) \in Nat,
         NEW n, n = cctx_sample(t, frames)
  PROVE  TreeOK(n) /\ CpuShape(n) /\ n.cur = t.cur
<1> DEFINE q == Top(t)
<1>1. q \in DOMAIN t.nodes /\ IsSequence(q) /\ Len(q) = 2
  BY StackFacts
<1>2. /\ TreeOK(n) /\ n.cur = t.cur
      /\ \A p \in DOMAIN n.nodes \ DOMAIN t.nodes :
              /\ IsSequence(p) /\ Len(p) > Len(q)
              /\ \A i \in 1 .. Len(q) : p[i] = q[i]
              /\ \A i \in Len(q) + 1 .. Len(p) : p[i].type = "SAMPLE_ADDR"
  <2>1. Len(Top(t)) >= 1
    BY <1>1
  <2> QED BY <2>1, SampleFacts
<1> HIDE DEF q
<1>3. BelowProcess(q) /\ DOMAIN q = 1 .. 2
  <2>1. q # Root
    BY <1>1, EmptyIsRoot
  <2>2. DOMAIN q = 1 .. Len(q)
    BY <1>1, SequenceFacts
  <2> QED BY <1>1, <2>1, <2>2 DEF CpuShape, Below, Inner
<1>4. ASSUME NEW p \in Inner(n) PROVE BelowProcess(p)
  <2>1. CASE p \in DOMAIN t.nodes
    BY <2>1 DEF CpuShape, Below, Inner
  <2>2. CASE p \in DOMAIN n.nodes \ DOMAIN t.nodes
    <3>1. /\ DOMAIN p = 1 .. Len(p) /\ Len(p) \in Nat /\ Len(p) > 2
          /\ \A i \in 1 .. 2 : p[i] = q[i]
          /\ \A i \in 2 + 1 .. Len(p) : p[i].type = "SAMPLE_ADDR"
      BY <1>1, <1>2, <2>2, SequenceFacts
    <3>2. ASSUME NEW i \in DOMAIN p PROVE p[i].type = "PROCESS" <=> i = 1
      <4>1. CASE i \in 1 .. 2
        BY <1>3, <3>1, <4>1 DEF BelowProcess
      <4>2. CASE i \in 2 + 1 .. Len(p)
        BY <3>1, <4>2
      <4> QED BY <3>1, <4>1, <4>2
    <3> QED BY <3>2 DEF BelowProcess
  <2> QED BY <2>1, <2>2 DEF Inner
<1>5. cur_level(n) = cur_level(t)
  BY <1>2 DEF cur_level
<1> QED BY <1>2, <1>4, <1>5 DEF CpuShape, Below

LEMMA FramesFacts ==
  ASSUME NEW c \in Chains
  PROVE  Len(Frames(c, Markers)) \in Nat
<1> DEFINE s == [i \in 1 .. Len(c) - 1 |-> c[Len(c) + 1 - i]]
<1>1. Len(c) \in Nat \ {0}
  BY ConstantsAssumption
<1>2. IsSequence(s)
  <2>1. Len(c) - 1 \in Nat /\ DOMAIN s = 1 .. Len(c) - 1 /\ s = [i \in 1 .. Len(c) - 1 |-> s[i]]
    BY <1>1
  <2> HIDE DEF s
  <2> QED BY <2>1, FunctionIsSequence
<1> HIDE DEF s
<1>3. Len(SelectSeq(s, LAMBDA ip : ip \notin Markers)) \in Nat
  BY <1>2 DEF IsSequence
<1> QED BY <1>3 DEF Frames, s

LEMMA SyscallEnterFacts ==
  ASSUME NEW t, TreeOK(t), SyscallShape(t), NEW s,
         NEW n, n = handle_enter_cctx_node(t, 1, syscall(s))
  PROVE  TreeOK(n) /\ SyscallShape(n)
<1>1. cur_level(t) \in Nat /\ cur_level(t) <= 1 /\ Len(t.cur) = cur_level(t) + 1
  BY StackFacts DEF SyscallShape
<1>2. syscall(s).type = "SYSCALL"
  BY DEF syscall
<1>3. CASE cur_level(t) = 0
  <2> DEFINE path == Append(Top(t), syscall(s))
  <2>1. n = Push(t, syscall(s))
    BY <1>3 DEF handle_enter_cctx_node
  <2>2. TreeOK(n) /\ cur_level(n) = 1 /\ DOMAIN n.nodes = DOMAIN t.nodes \cup {path}
    BY <1>3, <2>1, PushFacts
  <2>3. Len(path) = 1 /\ path[1] = syscall(s)
    <3>1. IsSequence(Top(t)) /\ Len(Top(t)) = 0
      BY <1>3, StackFacts
    <3>2. Len(path) = 0 + 1 /\ path[0 + 1] = syscall(s)
      BY <3>1, AppendFacts
    <3> QED BY <3>2
  <2> HIDE DEF path
  <2> QED BY <1>2, <2>2, <2>3 DEF SyscallShape, Inner
<1>4. CASE cur_level(t) = 1
  <2>1. 2 \in 1 .. Len(t.cur) /\ 1 + 1 = 2 /\ 1 \in Nat /\ 1 >= 1 /\ 1 <= cur_level(t)
    BY <1>1, <1>4
  <2> DEFINE q == t.cur[2]
  <2>2. q \in DOMAIN t.nodes /\ Len(q) = 1
    BY <1>1, <1>4, FirstLevel
  <2> HIDE DEF q
  <2>3. q \in Inner(t)
    BY <2>2, EmptyIsRoot DEF Inner
  <2>4. LastOf(t.cur[1 + 1]).type = syscall(s).type
    <3>1. LastOf(q).type = syscall(s).type
      BY <1>2, <2>2, <2>3 DEF SyscallShape, LastOf
    <3> QED BY <2>1, <3>1 DEF q
  <2>5. n = t
    BY <2>1, <2>4, EnterKeeps
  <2> QED BY <2>5
<1> QED BY <1>1, <1>3, <1>4

LEMMA KernelFacts ==
  ASSUME NEW t, TreeOK(t), GpuShape(t), NEW p, NEW k, NEW n, n = RunKernel(t, p, k)
  PROVE  TreeOK(n) /\ GpuShape(n)
<1> DEFINE a == handle_enter_cctx_node(t, 1, process(p))
           b == Push(a, gpu_kernel(k))
<1>1. cur_level(t) \in Nat /\ cur_level(t) <= 1 /\ Below(t)
  BY StackFacts DEF GpuShape
<1>2. TreeOK(a) /\ Below(a) /\ cur_level(a) = 1
  BY <1>1, EnterProcess
<1>3. handle_enter_cctx_node(a, 2, gpu_kernel(k)) = b
  BY <1>2 DEF handle_enter_cctx_node
<1>4. n = cctx_leave(b, 2)
  BY <1>3 DEF RunKernel, cctx_enter2
<1> HIDE DEF a
<1>5. TreeOK(b) /\ cur_level(b) = 2
  BY <1>2, PushFacts
<1>6. Below(b)
  <2>1. gpu_kernel(k).type = "GPU_KERNEL"
    BY DEF gpu_kernel
  <2> QED BY <1>2, <2>1, PushBelow
<1> HIDE DEF b
<1>7. 2 \in Nat /\ 2 >= 1
  OBVIOUS
<1>8. TreeOK(n) /\ cur_level(n) = 1 /\ n.nodes = b.nodes
  BY <1>4, <1>5, <1>7, LeaveFacts
<1> QED BY <1>6, <1>8 DEF GpuShape, Below, Inner

LEMMA CreatedFacts ==
  ASSUME NEW t, TreeOK(t), OmpShape(t, FALSE), NEW p, NEW n, n = Created(t, p)
  PROVE  TreeOK(n) /\ Below(n) /\ cur_level(n) \in Nat /\ cur_level(n) >= 1
<1>1. Below(t) /\ cur_level(t) \in Nat
  BY StackFacts DEF OmpShape
<1>2. CASE DOMAIN t.nodes = {Root}
  <2>1. n = handle_enter_cctx_node(t, 1, process(p))
    BY <1>2 DEF Created
  <2>2. TreeOK(n) /\ Below(n) /\ (cur_level(t) = 0 => cur_level(n) = 1) /\ (cur_level(t) # 0 => n = t)
    BY <1>1, <2>1, EnterProcess
  <2> QED BY <1>1, <2>2
<1>3. CASE DOMAIN t.nodes # {Root}
  <2>1. n = t
    BY <1>3 DEF Created
  <2> QED BY <1>1, <1>3, <2>1 DEF OmpShape
<1> QED BY <1>2, <1>3

LEMMA OmptEnterFacts ==
  ASSUME NEW t, TreeOK(t), Below(t), cur_level(t) \in Nat, cur_level(t) >= 1, NEW r,
         NEW n, n = cctx_enter_below(t, openmp(r))
  PROVE  TreeOK(n) /\ OmpShape(n, FALSE)
<1>1. n = Push(t, openmp(r))
  BY DEF cctx_enter_below, handle_enter_cctx_node
<1>2. TreeOK(n) /\ cur_level(n) = cur_level(t) + 1
  BY <1>1, PushFacts
<1>3. openmp(r).type = "OPENMP"
  BY DEF openmp
<1>4. Below(n)
  BY <1>1, <1>3, PushBelow
<1> QED BY <1>2, <1>4 DEF OmpShape

LEMMA OmptExitFacts ==
  ASSUME NEW t, TreeOK(t), Below(t), cur_level(t) \in Nat, cur_level(t) >= 1,
         NEW n, n = LeaveRegion(t)
  PROVE  TreeOK(n) /\ OmpShape(n, FALSE)
<1>1. CASE cur_level(t) = 1
  BY <1>1 DEF LeaveRegion, OmpShape
<1>2. CASE cur_level(t) # 1
  <2>1. n = cctx_leave(t, cur_level(t)) /\ cur_level(t) <= cur_level(t)
    BY <1>2 DEF LeaveRegion
  <2>2. TreeOK(n) /\ n.nodes = t.nodes /\ cur_level(n) = cur_level(t) - 1
    BY <2>1, LeaveFacts
  <2> QED BY <1>2, <2>2 DEF OmpShape, Below, Inner
<1> QED BY <1>1, <1>2

LEMMA FinishFacts ==
  ASSUME NEW t, TreeOK(t), NEW n, n = FinishTree(t)
  PROVE  /\ TreeOK(n) /\ n.nodes = t.nodes /\ n.count = n.next /\ cur_level(n) = 0
<1> DEFINE m == cctx_leave(t, 1)
<1>1. cur_level(t) \in Nat /\ 1 \in Nat /\ 1 >= 1
  BY StackFacts
<1>2. /\ TreeOK(m) /\ m.nodes = t.nodes
      /\ cur_level(m) = IF 1 <= cur_level(t) THEN 1 - 1 ELSE cur_level(t)
  BY <1>1, LeaveFacts
<1>3. cur_level(m) = 0
  BY <1>1, <1>2
<1>4. n = [m EXCEPT !.count = m.next]
  BY DEF FinishTree, finalize
<1> HIDE DEF m
<1>5. n = [nodes |-> m.nodes, cur |-> m.cur, next |-> m.next, count |-> m.next,
           open |-> m.open, broken |-> m.broken, log |-> m.log]
  BY <1>2, <1>4 DEF TreeOK, Fields
<1>6. /\ n.nodes = m.nodes /\ n.cur = m.cur /\ n.next = m.next /\ n.count = m.next
      /\ n.open = m.open /\ n.broken = m.broken /\ n.log = m.log /\ Fields(n)
  BY <1>5 DEF Fields
<1>7. Numbered(n)
  BY <1>2, <1>6, SameNodes DEF TreeOK
<1>8. Stacked(n) /\ Logged(n)
  BY <1>2, <1>6 DEF TreeOK, Stacked, Logged, Inner
<1>9. cur_level(n) = 0
  BY <1>3, <1>6 DEF cur_level
<1> QED BY <1>2, <1>6, <1>7, <1>8, <1>9 DEF TreeOK

-----------------------------------------------------------------------------
(* The invariant is inductive                                              *)

LEMMA InitHolds == Init => IInv
<1> SUFFICES ASSUME Init PROVE IInv
  OBVIOUS
<1> DEFINE t == EmptyTree
<1>1. /\ t.nodes = [p \in {Root} |-> 0] /\ t.cur = <<Root>> /\ t.next = 0 /\ t.count = 0
      /\ t.open = <<>> /\ t.broken = FALSE /\ t.log = {} /\ Fields(t)
  BY DEF EmptyTree, Fields
<1> HIDE DEF t
<1>2. DOMAIN t.nodes = {Root} /\ Inner(t) = {}
  BY <1>1 DEF Inner
<1>3. IsSequence(<<Root>>) /\ Len(<<Root>>) = 1 /\ <<Root>>[1] = Root
  <2>1. <<Root>> \in Seq({Root}) /\ Len(<<Root>>) = 1 /\ <<Root>>[1] = Root
    OBVIOUS
  <2> QED BY <2>1, SeqIsSequence
<1>4. IsSequence(<<>>) /\ Len(<<>>) = 0
  BY EmptyIsRoot DEF Root
<1>5. Numbered(t)
  <2>1. \A p \in DOMAIN t.nodes : IsSequence(p) /\ \A n \in 0 .. Len(p) : SubSeq(p, 1, n) \in DOMAIN t.nodes
    <3>1. SubSeq(Root, 1, 0) = Root
      BY EmptyIsRoot, WholePrefix
    <3>2. \A n \in 0 .. 0 : n = 0
      OBVIOUS
    <3> QED BY <1>2, <3>1, <3>2, EmptyIsRoot
  <2>2. 0 .. 0 - 1 = {}
    OBVIOUS
  <2> QED BY <1>1, <1>2, <2>1, <2>2 DEF Numbered
<1>6. Stacked(t)
  <2>1. \A i \in 1 .. 1 : i = 1 /\ i - 1 = 0
    OBVIOUS
  <2>2. 1 .. 0 = {} /\ 1 - 1 = 0 /\ 1 >= 1
    OBVIOUS
  <2> QED BY <1>1, <1>2, <1>3, <1>4, <2>1, <2>2, EmptyIsRoot DEF Stacked
<1>7. TreeOK(t)
  BY <1>1, <1>5, <1>6 DEF TreeOK, Logged
<1>8. cur_level(t) = 0
  BY <1>1, <1>3 DEF cur_level
<1>9. \A l \in Locations : tree[l] = t /\ asked[l] = <<>> /\ mapping[l] = Unwritten
  BY DEF Init, t
<1>10. TreesOK
  BY <1>7, <1>9 DEF TreesOK, Init
<1>11. ShapesOK
  <2>1. Below(t) /\ CpuShape(t) /\ SyscallShape(t) /\ GpuShape(t) /\ OmpShape(t, FALSE)
    BY <1>2, <1>8 DEF Below, CpuShape, SyscallShape, GpuShape, OmpShape
  <2>2. \A l \in Locations : l \notin finished
    BY DEF Init
  <2> QED BY <1>9, <2>1, <2>2 DEF ShapesOK, Shape, OmpShape
<1>12. CpusOK
  <2>1. running \in [CpuLocs -> Threads \cup {NoThread}]
    BY DEF Init
  <2>2. \A l \in CpuLocs : Attributed(tree[l], asked[l], running[l])
    BY <1>8, <1>9 DEF Attributed, Locations
  <2> QED BY <2>1, <2>2 DEF CpusOK, Init
<1>13. MergedOK
  <2>1. DOMAIN global = {}
    BY DEF Init, Unwritten
  <2> QED BY <1>9, <2>1 DEF MergedOK, Init
<1> QED BY <1>10, <1>11, <1>12, <1>13 DEF IInv

(* As long as a writer is left, no table is written.                       *)
LEMMA NotYetMerged ==
  ASSUME IInv, NEW l \in Locations, l \notin finished
  PROVE  \A k \in Locations : mapping[k] = Unwritten
  BY DEF IInv, MergedOK

LEMMA HandleStep ==
  ASSUME IInv, NEW l \in Locations, NEW t, NEW asks, Handle(l, t, asks),
         TreeOK(t), Shape(l, t, FALSE),
         running' \in [CpuLocs -> Threads \cup {NoThread}],
         \A k \in CpuLocs \ {l} : running'[k] = running[k],
         l \in CpuLocs \ lost => Attributed(t, asks, running'[l])
  PROVE  IInv'
<1>1. /\ l \notin finished /\ finished' = finished /\ lost' = lost
      /\ global' = global /\ mapping' = mapping
      /\ tree' = [tree EXCEPT ![l] = t] /\ asked' = [asked EXCEPT ![l] = asks]
  BY DEF Handle
<1>2. tree = [k \in Locations |-> tree[k]] /\ asked = [k \in Locations |-> asked[k]]
  BY DEF IInv, TreesOK, CpusOK
<1>3. /\ tree'[l] = t /\ asked'[l] = asks
      /\ \A k \in Locations \ {l} : tree'[k] = tree[k] /\ asked'[k] = asked[k]
      /\ tree' = [k \in Locations |-> tree'[k]] /\ asked' = [k \in Locations |-> asked'[k]]
  BY <1>1, <1>2
<1>4. TreesOK'
  <2>1. ASSUME NEW k \in Locations
        PROVE  /\ TreeOK(tree'[k])
               /\ k \in finished' => tree'[k].count = tree'[k].next /\ cur_level(tree'[k]) = 0
    <3>1. CASE k = l
      BY <1>1, <1>3, <3>1
    <3>2. CASE k # l
      BY <1>1, <1>3, <3>2 DEF IInv, TreesOK
    <3> QED BY <3>1, <3>2
  <2>2. finished' \subseteq Locations
    BY <1>1 DEF IInv, TreesOK
  <2> QED BY <1>3, <2>1, <2>2 DEF TreesOK
<1>5. ShapesOK'
  <2>1. ASSUME NEW k \in Locations PROVE Shape(k, tree'[k], k \in finished')
    <3>1. CASE k = l
      BY <1>1, <1>3, <3>1 DEF Shape, OmpShape
    <3>2. CASE k # l
      BY <1>1, <1>3, <3>2 DEF IInv, ShapesOK
    <3> QED BY <3>1, <3>2
  <2> QED BY <2>1 DEF ShapesOK
<1>6. CpusOK'
  <2>1. ASSUME NEW k \in CpuLocs \ lost' PROVE Attributed(tree'[k], asked'[k], running'[k])
    <3>1. CASE k = l
      BY <1>1, <1>3, <3>1
    <3>2. CASE k # l
      <4>1. k \in Locations \ {l} /\ k \in CpuLocs \ lost /\ k \in CpuLocs \ {l}
        BY <1>1, <3>2 DEF Locations
      <4>2. Attributed(tree[k], asked[k], running[k])
        BY <4>1 DEF IInv, CpusOK
      <4> QED BY <1>3, <4>1, <4>2
    <3> QED BY <3>1, <3>2
  <2> QED BY <1>3, <2>1 DEF CpusOK
<1>7. MergedOK'
  <2>1. \A k \in Locations : mapping'[k] = Unwritten
    BY <1>1, NotYetMerged
  <2>2. mapping' = [k \in Locations |-> mapping'[k]] /\ \A p \in DOMAIN global' : Defines(global'[p], p)
    BY <1>1 DEF IInv, MergedOK
  <2> QED BY <2>1, <2>2 DEF MergedOK
<1> QED BY <1>4, <1>5, <1>6, <1>7 DEF IInv

(* Each location has the writer of its kind.                               *)
LEMMA CpuKind ==
  ASSUME NEW l \in CpuLocs, NEW t, CpuShape(t), NEW done
  PROVE  l \in Locations /\ Shape(l, t, done)
  BY ConstantsAssumption DEF Locations, Shape

LEMMA SyscallKind ==
  ASSUME NEW l \in SyscallLocs, NEW t, SyscallShape(t), NEW done
  PROVE  l \in Locations /\ l \notin CpuLocs /\ Shape(l, t, done)
  BY ConstantsAssumption DEF Locations, Shape

LEMMA GpuKind ==
  ASSUME NEW l \in GpuLocs, NEW t, GpuShape(t), NEW done
  PROVE  l \in Locations /\ l \notin CpuLocs /\ Shape(l, t, done)
  BY ConstantsAssumption DEF Locations, Shape

LEMMA OmpKind ==
  ASSUME NEW l \in OmpLocs, NEW t, NEW done, OmpShape(t, done)
  PROVE  l \in Locations /\ l \notin CpuLocs /\ Shape(l, t, done)
  BY ConstantsAssumption DEF Locations, Shape

(* What the invariant says of a location whose writer is there.            *)
LEMMA CpuFacts ==
  ASSUME IInv, NEW l \in CpuLocs
  PROVE  /\ l \in Locations /\ TreeOK(tree[l]) /\ CpuShape(tree[l])
         /\ running[l] \in Threads \cup {NoThread}
         /\ l \notin lost => Attributed(tree[l], asked[l], running[l])
<1>1. l \in Locations
  BY DEF Locations
<1> QED BY <1>1 DEF IInv, TreesOK, ShapesOK, Shape, CpusOK

(* Leaving level 1 leaves the thread and the process.                      *)
LEMMA LeaveTaskFacts ==
  ASSUME NEW t, TreeOK(t), NEW n, n = cctx_leave(t, 1)
  PROVE  TreeOK(n) /\ n.nodes = t.nodes /\ cur_level(n) = 0
<1>1. cur_level(t) \in Nat /\ 1 \in Nat /\ 1 >= 1
  BY StackFacts
<1>2. /\ TreeOK(n) /\ n.nodes = t.nodes
      /\ cur_level(n) = IF 1 <= cur_level(t) THEN 1 - 1 ELSE cur_level(t)
  BY <1>1, LeaveFacts
<1> QED BY <1>1, <1>2

LEMMA SwitchOutStep ==
  ASSUME IInv, NEW l \in CpuLocs, SwitchOut(l)
  PROVE  IInv'
<1> DEFINE n == LeaveTask(tree[l])
<1>1. Handle(l, n, <<>>) /\ running' = [running EXCEPT ![l] = NoThread]
  BY DEF SwitchOut
<1>2. /\ TreeOK(tree[l]) /\ CpuShape(tree[l])
  BY CpuFacts
<1>3. TreeOK(n) /\ n.nodes = tree[l].nodes /\ cur_level(n) = 0
  BY <1>2, LeaveTaskFacts DEF LeaveTask
<1> HIDE DEF n
<1>4. CpuShape(n)
  BY <1>2, <1>3 DEF CpuShape, Below, Inner
<1>5. l \in Locations /\ Shape(l, n, FALSE)
  BY <1>4, CpuKind
<1>6. /\ running' \in [CpuLocs -> Threads \cup {NoThread}]
      /\ \A k \in CpuLocs \ {l} : running'[k] = running[k]
  BY <1>1 DEF IInv, CpusOK
<1>7. Attributed(n, <<>>, running'[l])
  BY <1>3 DEF Attributed
<1> QED BY <1>1, <1>3, <1>5, <1>6, <1>7, HandleStep

LEMMA SwitchInStep ==
  ASSUME IInv, NEW l \in CpuLocs, NEW th \in Threads, SwitchIn(l, th)
  PROVE  IInv'
<1> DEFINE n == EnterTask(tree[l], th)
           asks == TaskOf(th)
<1>1. Handle(l, n, asks) /\ running[l] = NoThread /\ running' = [running EXCEPT ![l] = th]
  BY DEF SwitchIn
<1>2. /\ TreeOK(tree[l]) /\ CpuShape(tree[l])
      /\ l \notin lost => Attributed(tree[l], asked[l], running[l])
  BY CpuFacts
<1>3. /\ TreeOK(n) /\ CpuShape(n) /\ cur_level(n) = 2
      /\ cur_level(tree[l]) = 0 =>
           LastOf(n.cur[2]) = process(ProcessOf[th]) /\ LastOf(n.cur[3]) = thread(th)
  BY <1>2, EnterTaskFacts
<1>4. asks = TaskOf(th)
  OBVIOUS
<1> HIDE DEF n, asks
<1>5. l \in Locations /\ Shape(l, n, FALSE)
  BY <1>3, CpuKind
<1>6. /\ running' \in [CpuLocs -> Threads \cup {NoThread}] /\ running'[l] = th
      /\ \A k \in CpuLocs \ {l} : running'[k] = running[k]
  BY <1>1 DEF IInv, CpusOK
<1>7. ASSUME l \notin lost PROVE Attributed(n, asks, running'[l])
  <2>1. cur_level(tree[l]) # 2
    BY <1>1, <1>2, <1>7, ConstantsAssumption DEF Attributed, InThread
  <2>2. cur_level(tree[l]) = 0
    BY <1>2, <2>1 DEF CpuShape
  <2>3. InThread(n, th)
    BY <1>3, <2>2 DEF InThread
  <2> QED BY <1>3, <1>4, <1>6, <2>3 DEF Attributed
<1> QED BY <1>1, <1>3, <1>5, <1>6, <1>7, HandleStep

LEMMA LostSwitchStep ==
  ASSUME IInv, NEW l \in CpuLocs, NEW th \in Threads \cup {NoThread}, LostSwitch(l, th)
  PROVE  IInv'
<1>1. /\ lost' = lost \cup {l} /\ running' = [running EXCEPT ![l] = th]
      /\ tree' = tree /\ asked' = asked /\ finished' = finished
      /\ global' = global /\ mapping' = mapping
  BY DEF LostSwitch
<1>2. TreesOK' /\ ShapesOK' /\ MergedOK'
  BY <1>1 DEF IInv, TreesOK, ShapesOK, MergedOK
<1>3. CpusOK'
  BY <1>1 DEF IInv, CpusOK
<1> QED BY <1>2, <1>3 DEF IInv

LEMMA SampleStep ==
  ASSUME IInv, NEW l \in CpuLocs, NEW c \in Chains, Sample(l, c)
  PROVE  IInv'
<1> DEFINE th == running[l]
           m == EnterTask(tree[l], th)
           frames == Frames(c, Markers)
           n == cctx_sample(m, frames)
           asks == TaskOf(th)
<1>1. Handle(l, n, asks) /\ running' = running /\ th # NoThread
  BY DEF Sample
<1>2. /\ TreeOK(tree[l]) /\ CpuShape(tree[l]) /\ th \in Threads \cup {NoThread}
      /\ l \notin lost => Attributed(tree[l], asked[l], th)
  BY CpuFacts
<1>3. asks = TaskOf(th) /\ running' = running /\ running[l] = th
  BY <1>1
<1> HIDE DEF asks, th
<1>4. /\ TreeOK(m) /\ CpuShape(m) /\ cur_level(m) = 2
      /\ cur_level(tree[l]) = 0 =>
           LastOf(m.cur[2]) = process(ProcessOf[th]) /\ LastOf(m.cur[3]) = thread(th)
      /\ cur_level(tree[l]) # 0 => m = tree[l]
  BY <1>2, EnterTaskFacts
<1> HIDE DEF m
<1>5. Len(frames) \in Nat
  BY FramesFacts
<1> HIDE DEF frames
<1>6. TreeOK(n) /\ CpuShape(n) /\ n.cur = m.cur
  BY <1>4, <1>5, SampleBelow
<1> HIDE DEF n
<1>7. l \in Locations /\ Shape(l, n, FALSE)
  BY <1>6, CpuKind
<1>8. running' \in [CpuLocs -> Threads \cup {NoThread}] /\ \A k \in CpuLocs \ {l} : running'[k] = running[k]
  BY <1>3 DEF IInv, CpusOK
<1>9. ASSUME l \notin lost PROVE Attributed(n, asks, running'[l])
  <2>1. th \in Threads
    BY <1>1, <1>2
  <2>2. InThread(m, th)
    <3>1. CASE cur_level(tree[l]) = 0
      BY <1>4, <2>1, <3>1 DEF InThread
    <3>2. CASE cur_level(tree[l]) = 2
      BY <1>2, <1>4, <1>9, <3>2 DEF Attributed
    <3> QED BY <1>2, <3>1, <3>2 DEF CpuShape
  <2>3. InThread(n, th) /\ cur_level(n) = 2
    BY <1>4, <1>6, <2>2 DEF InThread, cur_level
  <2> QED BY <1>3, <2>3 DEF Attributed
<1> QED BY <1>1, <1>6, <1>7, <1>8, <1>9, HandleStep

(* Records of other locations leave the CPUs alone.                        *)
LEMMA OtherLocation ==
  ASSUME IInv, NEW l \in Locations, l \notin CpuLocs, NEW t, NEW asks, Handle(l, t, asks),
         TreeOK(t), Shape(l, t, FALSE), running' = running
  PROVE  IInv'
<1>1. /\ running' \in [CpuLocs -> Threads \cup {NoThread}]
      /\ \A k \in CpuLocs \ {l} : running'[k] = running[k]
  BY DEF IInv, CpusOK
<1> QED BY <1>1, HandleStep

LEMMA SyscallEnterStep ==
  ASSUME IInv, NEW l \in SyscallLocs, NEW s \in Syscalls, SyscallEnter(l, s)
  PROVE  IInv'
<1> DEFINE n == handle_enter_cctx_node(tree[l], 1, syscall(s))
           asks == Level1(syscall(s))
<1>1. Handle(l, n, asks) /\ running' = running
  BY DEF SyscallEnter
<1>2. TreeOK(tree[l]) /\ SyscallShape(tree[l])
  BY DEF IInv, TreesOK, ShapesOK, Shape, Locations
<1>3. TreeOK(n) /\ SyscallShape(n)
  BY <1>2, SyscallEnterFacts
<1> HIDE DEF n, asks
<1>4. l \in Locations /\ l \notin CpuLocs /\ Shape(l, n, FALSE)
  BY <1>3, SyscallKind
<1> QED BY <1>1, <1>3, <1>4, OtherLocation

LEMMA SyscallExitStep ==
  ASSUME IInv, NEW l \in SyscallLocs, SyscallExit(l)
  PROVE  IInv'
<1> DEFINE n == cctx_leave(tree[l], 1)
<1>1. Handle(l, n, <<>>) /\ running' = running
  BY DEF SyscallExit
<1>2. TreeOK(tree[l]) /\ SyscallShape(tree[l])
  BY DEF IInv, TreesOK, ShapesOK, Shape, Locations
<1>3. TreeOK(n) /\ n.nodes = tree[l].nodes /\ cur_level(n) = 0
  BY <1>2, LeaveTaskFacts
<1> HIDE DEF n
<1>4. SyscallShape(n)
  BY <1>2, <1>3 DEF SyscallShape, Inner
<1>5. l \in Locations /\ l \notin CpuLocs /\ Shape(l, n, FALSE)
  BY <1>4, SyscallKind
<1> QED BY <1>1, <1>3, <1>5, OtherLocation

LEMMA KernelStep ==
  ASSUME IInv, NEW l \in GpuLocs, NEW k \in Kernels, Kernel(l, k)
  PROVE  IInv'
<1> DEFINE n == RunKernel(tree[l], ProcessOf[l], k)
<1>1. Handle(l, n, <<>>) /\ running' = running
  BY DEF Kernel
<1>2. TreeOK(tree[l]) /\ GpuShape(tree[l])
  BY DEF IInv, TreesOK, ShapesOK, Shape, Locations
<1>3. TreeOK(n) /\ GpuShape(n)
  BY <1>2, KernelFacts
<1> HIDE DEF n
<1>4. l \in Locations /\ l \notin CpuLocs /\ Shape(l, n, FALSE)
  BY <1>3, GpuKind
<1> QED BY <1>1, <1>3, <1>4, OtherLocation

LEMMA OmptEnterStep ==
  ASSUME IInv, NEW l \in OmpLocs, NEW r \in OmpRegions, OmptEnter(l, r)
  PROVE  IInv'
<1> DEFINE m == Created(tree[l], ProcessOf[l])
           n == cctx_enter_below(m, openmp(r))
<1>1. Handle(l, n, <<>>) /\ running' = running
  BY DEF OmptEnter
<1>2. TreeOK(tree[l]) /\ OmpShape(tree[l], FALSE)
  BY <1>1 DEF Handle, IInv, TreesOK, ShapesOK, Shape, OmpShape, Locations
<1>3. TreeOK(m) /\ Below(m) /\ cur_level(m) \in Nat /\ cur_level(m) >= 1
  BY <1>2, CreatedFacts
<1> HIDE DEF m
<1>4. TreeOK(n) /\ OmpShape(n, FALSE)
  BY <1>3, OmptEnterFacts
<1> HIDE DEF n
<1>5. l \in Locations /\ l \notin CpuLocs /\ Shape(l, n, FALSE)
  BY <1>4, OmpKind
<1> QED BY <1>1, <1>4, <1>5, OtherLocation

LEMMA OmptExitStep ==
  ASSUME IInv, NEW l \in OmpLocs, OmptExit(l)
  PROVE  IInv'
<1> DEFINE m == Created(tree[l], ProcessOf[l])
           n == LeaveRegion(m)
<1>1. Handle(l, n, <<>>) /\ running' = running
  BY DEF OmptExit
<1>2. TreeOK(tree[l]) /\ OmpShape(tree[l], FALSE)
  BY <1>1 DEF Handle, IInv, TreesOK, ShapesOK, Shape, OmpShape, Locations
<1>3. TreeOK(m) /\ Below(m) /\ cur_level(m) \in Nat /\ cur_level(m) >= 1
  BY <1>2, CreatedFacts
<1> HIDE DEF m
<1>4. TreeOK(n) /\ OmpShape(n, FALSE)
  BY <1>3, OmptExitFacts
<1> HIDE DEF n
<1>5. l \in Locations /\ l \notin CpuLocs /\ Shape(l, n, FALSE)
  BY <1>4, OmpKind
<1> QED BY <1>1, <1>4, <1>5, OtherLocation

LEMMA FinishStep ==
  ASSUME IInv, NEW l \in Locations, Finish(l)
  PROVE  IInv'
<1> DEFINE t == tree[l]
           n == FinishTree(t)
<1>1. /\ l \notin finished /\ finished' = finished \cup {l}
      /\ tree' = [tree EXCEPT ![l] = n] /\ asked' = [asked EXCEPT ![l] = <<>>]
      /\ running' = running /\ lost' = lost /\ global' = global /\ mapping' = mapping
  BY DEF Finish
<1>2. /\ tree = [k \in Locations |-> tree[k]] /\ asked = [k \in Locations |-> asked[k]]
      /\ TreeOK(t) /\ Shape(l, t, l \in finished)
  BY DEF IInv, TreesOK, CpusOK, ShapesOK
<1>3. TreeOK(n) /\ n.nodes = t.nodes /\ n.count = n.next /\ cur_level(n) = 0
  BY <1>2, FinishFacts
<1> HIDE DEF n, t
<1>4. Shape(l, n, TRUE)
  <2>1. Inner(n) = Inner(t) /\ (Below(t) => Below(n))
    BY <1>3 DEF Inner, Below
  <2> QED BY <1>2, <1>3, <2>1 DEF Shape, CpuShape, SyscallShape, GpuShape, OmpShape
<1>5. /\ tree'[l] = n /\ asked'[l] = <<>>
      /\ \A k \in Locations \ {l} : tree'[k] = tree[k] /\ asked'[k] = asked[k]
      /\ tree' = [k \in Locations |-> tree'[k]] /\ asked' = [k \in Locations |-> asked'[k]]
  BY <1>1, <1>2
<1>6. TreesOK'
  <2>1. ASSUME NEW k \in Locations
        PROVE  /\ TreeOK(tree'[k])
               /\ k \in finished' => tree'[k].count = tree'[k].next /\ cur_level(tree'[k]) = 0
    <3>1. CASE k = l
      BY <1>3, <1>5, <3>1
    <3>2. CASE k # l
      BY <1>1, <1>5, <3>2 DEF IInv, TreesOK
    <3> QED BY <3>1, <3>2
  <2>2. finished' \subseteq Locations
    BY <1>1 DEF IInv, TreesOK
  <2> QED BY <1>5, <2>1, <2>2 DEF TreesOK
<1>7. ShapesOK'
  <2>1. ASSUME NEW k \in Locations PROVE Shape(k, tree'[k], k \in finished')
    <3>1. CASE k = l
      BY <1>1, <1>4, <1>5, <3>1 DEF Shape, OmpShape
    <3>2. CASE k # l
      <4>1. (k \in finished') = (k \in finished) /\ tree'[k] = tree[k]
        BY <1>1, <1>5, <3>2
      <4>2. Shape(k, tree[k], k \in finished)
        BY DEF IInv, ShapesOK
      <4> QED BY <4>1, <4>2
    <3> QED BY <3>1, <3>2
  <2> QED BY <2>1 DEF ShapesOK
<1>8. CpusOK'
  <2>1. ASSUME NEW k \in CpuLocs \ lost' PROVE Attributed(tree'[k], asked'[k], running'[k])
    <3>1. CASE k = l
      BY <1>3, <1>5, <3>1 DEF Attributed
    <3>2. CASE k # l
      <4>1. k \in Locations \ {l} /\ k \in CpuLocs \ lost
        BY <1>1, <3>2 DEF Locations
      <4>2. Attributed(tree[k], asked[k], running[k])
        BY <4>1 DEF IInv, CpusOK
      <4> QED BY <1>1, <1>5, <4>1, <4>2
    <3> QED BY <3>1, <3>2
  <2> QED BY <1>1, <1>5, <2>1 DEF CpusOK, IInv
<1>9. MergedOK'
  <2>1. \A k \in Locations : mapping'[k] = Unwritten
    BY <1>1, NotYetMerged
  <2>2. mapping' = [k \in Locations |-> mapping'[k]] /\ \A p \in DOMAIN global' : Defines(global'[p], p)
    BY <1>1 DEF IInv, MergedOK
  <2> QED BY <2>1, <2>2 DEF MergedOK
<1> QED BY <1>6, <1>7, <1>8, <1>9 DEF IInv

LEMMA DefinitionFacts ==
  ASSUME NEW l, NEW p
  PROVE  Defines(Definition(l, p), p)
<1>1. LastOf(<<LastOf(p)>>) = LastOf(p)
  BY DEF LastOf
<1> QED BY <1>1 DEF Defines, Definition

LEMMA MergeStep ==
  ASSUME IInv, NEW l \in Locations, Merge(l)
  PROVE  IInv'
<1> DEFINE t == tree[l]
           inner == Inner(t)
           refs == {t.nodes[p] : p \in inner}
           table == [r \in refs |-> GlobalNode(l, CHOOSE p \in inner : t.nodes[p] = r)]
<1>1. /\ finished = Locations /\ tree' = tree /\ asked' = asked /\ finished' = finished
      /\ running' = running /\ lost' = lost
      /\ global' = [p \in DOMAIN global \cup inner |->
                      IF p \in inner THEN GlobalNode(l, p) ELSE global[p]]
      /\ mapping' = [mapping EXCEPT ![l] = table]
  BY DEF Merge, Inner
<1>2. TreesOK' /\ ShapesOK' /\ CpusOK'
  BY <1>1 DEF IInv, TreesOK, ShapesOK, CpusOK
<1>3. /\ TreeOK(t) /\ t.count = t.next
      /\ mapping = [k \in Locations |-> mapping[k]]
      /\ \A p \in DOMAIN global : Defines(global[p], p)
  BY <1>1 DEF IInv, TreesOK, MergedOK
<1>4. \A p \in DOMAIN global' : Defines(global'[p], p)
  BY <1>1, <1>3, DefinitionFacts DEF GlobalNode
<1>5. \A p \in DOMAIN global : p \in DOMAIN global' /\ global'[p] = global[p]
  BY <1>1 DEF GlobalNode
<1>6. \A p \in inner : p \in DOMAIN global' /\ global'[p] = GlobalNode(l, p)
  BY <1>1
<1>7. refs = 0 .. t.count - 1
  BY <1>3 DEF TreeOK, Numbered
<1>8. \A p \in inner : table[t.nodes[p]] = GlobalNode(l, p)
  <2>1. ASSUME NEW p \in inner PROVE table[t.nodes[p]] = GlobalNode(l, p)
    <3>1. \A q \in inner : t.nodes[q] = t.nodes[p] => q = p
      BY <1>3 DEF TreeOK, Numbered
    <3>2. (CHOOSE q \in inner : t.nodes[q] = t.nodes[p]) = p
      BY <3>1
    <3> QED BY <3>2
  <2> QED BY <2>1
<1>9. DOMAIN table = refs
  OBVIOUS
<1> HIDE DEF table, refs
<1>10. /\ mapping' = [k \in Locations |-> mapping'[k]] /\ mapping'[l] = table
       /\ \A k \in Locations \ {l} : mapping'[k] = mapping[k]
  BY <1>1, <1>3
<1>11. ASSUME NEW k \in Locations, mapping'[k] # Unwritten
       PROVE  /\ finished' = Locations
              /\ DOMAIN mapping'[k] = 0 .. tree'[k].count - 1
              /\ \A p \in Inner(tree'[k]) :
                   p \in DOMAIN global' /\ mapping'[k][tree'[k].nodes[p]] = global'[p]
  <2>1. CASE k = l
    BY <1>1, <1>6, <1>7, <1>8, <1>9, <1>10, <2>1
  <2>2. CASE k # l
    BY <1>1, <1>5, <1>10, <1>11, <2>2 DEF IInv, MergedOK
  <2> QED BY <2>1, <2>2
<1>12. MergedOK'
  BY <1>4, <1>10, <1>11 DEF MergedOK
<1> QED BY <1>2, <1>12 DEF IInv

LEMMA NextHolds == IInv /\ [Next]_vars => IInv'
<1> SUFFICES ASSUME IInv, [Next]_vars PROVE IInv'
  OBVIOUS
<1>1. CASE \E l \in CpuLocs : SwitchOut(l)
  BY <1>1, SwitchOutStep
<1>2. CASE \E l \in CpuLocs, th \in Threads : SwitchIn(l, th)
  BY <1>2, SwitchInStep
<1>3. CASE \E l \in CpuLocs, th \in Threads \cup {NoThread} : LostSwitch(l, th)
  BY <1>3, LostSwitchStep
<1>4. CASE \E l \in CpuLocs, c \in Chains : Sample(l, c)
  BY <1>4, SampleStep
<1>5. CASE \E l \in SyscallLocs, s \in Syscalls : SyscallEnter(l, s)
  BY <1>5, SyscallEnterStep
<1>6. CASE \E l \in SyscallLocs : SyscallExit(l)
  BY <1>6, SyscallExitStep
<1>7. CASE \E l \in GpuLocs, k \in Kernels : Kernel(l, k)
  BY <1>7, KernelStep
<1>8. CASE \E l \in OmpLocs, r \in OmpRegions : OmptEnter(l, r)
  BY <1>8, OmptEnterStep
<1>9. CASE \E l \in OmpLocs : OmptExit(l)
  BY <1>9, OmptExitStep
<1>10. CASE \E l \in Locations : Finish(l)
  BY <1>10, FinishStep
<1>11. CASE \E l \in Locations : Merge(l)
  BY <1>11, MergeStep
<1>12. CASE UNCHANGED vars
  BY <1>12 DEF vars, IInv, TreesOK, ShapesOK, CpusOK, MergedOK
<1> QED BY <1>1, <1>2, <1>3, <1>4, <1>5, <1>6, <1>7, <1>8, <1>9, <1>10, <1>11, <1>12 DEF Next

-----------------------------------------------------------------------------

(* TreesInOrder: whatever records the writers of a trace handle, and       *)
(* whichever are lost, each local tree numbers its nodes 0, 1, ... without *)
(* gaps, has the call stack open that its events say, keeps the shape of   *)
(* its kind of writer, and is merged completely.                           *)
THEOREM TreesInOrder == Spec => []IInv
<1>1. Init => IInv
  BY InitHolds
<1>2. IInv /\ [Next]_vars => IInv'
  BY NextHolds
<1> QED BY <1>1, <1>2, PTL DEF Spec

(* EventsNest: every leave that LocalCctxTree::cctx_leave writes closes    *)
(* the innermost open enter, nothing is open once the writer is gone, and  *)
(* each node but a system call lies below exactly one process, for any     *)
(* number of locations, records and frames.                                *)
THEOREM EventsNest == Spec => []WellNested
<1>1. IInv => WellNested
  <2> SUFFICES ASSUME IInv, NEW l \in Locations
               PROVE  /\ ~tree[l].broken
                      /\ l \in finished => tree[l].open = <<>>
                      /\ \A p \in DOMAIN tree[l].nodes \ {Root} :
                           \/ Len(p) = 1 /\ p[1].type = "SYSCALL"
                           \/ \A i \in DOMAIN p : p[i].type = "PROCESS" <=> i = 1
    BY DEF WellNested
  <2> DEFINE t == tree[l]
  <2>1. TreeOK(t) /\ (l \in finished => cur_level(t) = 0) /\ Shape(l, t, l \in finished)
    BY DEF IInv, TreesOK, ShapesOK
  <2> HIDE DEF t
  <2>2. ~t.broken /\ IsSequence(t.open) /\ Len(t.open) = cur_level(t)
    BY <2>1, StackFacts DEF TreeOK, Stacked
  <2>3. l \in finished => t.open = <<>>
    BY <2>1, <2>2, EmptyIsRoot DEF Root
  <2>4. ASSUME NEW p \in Inner(t)
        PROVE  \/ Len(p) = 1 /\ p[1].type = "SYSCALL"
               \/ \A i \in DOMAIN p : p[i].type = "PROCESS" <=> i = 1
    <3>1. CASE l \in SyscallLocs
      BY <2>1, <3>1 DEF Shape, SyscallShape
    <3>2. CASE l \notin SyscallLocs
      <4>1. Below(t)
        BY <2>1, <3>2 DEF Shape, CpuShape, GpuShape, OmpShape, Locations
      <4> QED BY <4>1 DEF Below, BelowProcess
    <3> QED BY <3>1, <3>2
  <2> QED BY <2>2, <2>3, <2>4 DEF t, Inner
<1> QED BY <1>1, TreesInOrder, PTL

(* SamplesAreAttributed: on a CPU whose buffer has lost nothing, a sample  *)
(* and a switch-in leave the thread they are about, below its process, on  *)
(* top of the call stack, however the CPU is switched between threads.     *)
THEOREM SamplesAreAttributed == Spec => []SampleAttributed
<1>1. IInv => SampleAttributed
  <2> SUFFICES ASSUME IInv, NEW l \in CpuLocs \ lost PROVE AsAsked(l)
    BY DEF SampleAttributed
  <2> DEFINE th == running[l]
  <2>1. Attributed(tree[l], asked[l], th)
    BY DEF IInv, CpusOK
  <2> HIDE DEF th
  <2>2. CASE asked[l] = <<>>
    BY <2>2 DEF AsAsked
  <2>3. CASE cur_level(tree[l]) = 2 /\ asked[l] = TaskOf(th)
    <3>1. InThread(tree[l], th)
      BY <2>1, <2>3 DEF Attributed
    <3>2. DOMAIN asked[l] = {1, 2}
      BY <2>3 DEF TaskOf, Level12
    <3>3. /\ asked[l][1].level = 1 /\ asked[l][1].ctx = process(ProcessOf[th])
          /\ asked[l][2].level = 2 /\ asked[l][2].ctx = thread(th)
      BY <2>3 DEF TaskOf, Level12
    <3>4. 1 <= 2 /\ 2 <= 2 /\ 1 + 1 = 2 /\ 2 + 1 = 3
      OBVIOUS
    <3>5. /\ LastOf(tree[l].cur[1 + 1]) = process(ProcessOf[th])
          /\ LastOf(tree[l].cur[2 + 1]) = thread(th)
      BY <3>1, <3>4 DEF InThread
    <3>6. ASSUME NEW i \in DOMAIN asked[l]
          PROVE  /\ asked[l][i].level <= cur_level(tree[l])
                 /\ LastOf(tree[l].cur[asked[l][i].level + 1]) = asked[l][i].ctx
      <4>1. CASE i = 1
        BY <2>3, <3>3, <3>4, <3>5, <4>1
      <4>2. CASE i = 2
        BY <2>3, <3>3, <3>4, <3>5, <4>2
      <4> QED BY <3>2, <4>1, <4>2
    <3> QED BY <3>6 DEF AsAsked
  <2> QED BY <2>1, <2>2, <2>3 DEF Attributed
<1> QED BY <1>1, TreesInOrder, PTL

(* EventsDoResolve: the table that Trace::merge_calling_contexts writes    *)
(* for a location has exactly the references its tree has given out, and   *)
(* leads each event to the definition of the node it was written for.      *)
THEOREM EventsDoResolve == Spec => []EventsResolve
<1>1. IInv => EventsResolve
  <2> SUFFICES ASSUME IInv PROVE EventsResolve
    OBVIOUS
  <2>1. \A l \in Locations : mapping[l] # Unwritten => DOMAIN mapping[l] = 0 .. tree[l].count - 1
    BY DEF IInv, MergedOK
  <2>2. ASSUME finished = Locations, NEW l \in Locations, NEW e \in tree[l].log
        PROVE  /\ tree[l].count > 0
               /\ mapping[l] # Unwritten =>
                    /\ e.ref \in DOMAIN mapping[l]
                    /\ mapping[l][e.ref].path \in {e.path, <<LastOf(e.path)>>}
                    /\ LastOf(mapping[l][e.ref].path) = LastOf(e.path)
    <3> DEFINE t == tree[l]
    <3>1. TreeOK(t) /\ t.count = t.next
      BY <2>2 DEF IInv, TreesOK
    <3>2. mapping[l] # Unwritten =>
            \A p \in Inner(t) : p \in DOMAIN global /\ mapping[l][t.nodes[p]] = global[p]
      BY DEF IInv, MergedOK
    <3>3. \A p \in DOMAIN global : Defines(global[p], p)
      BY DEF IInv, MergedOK
    <3>4. e.path \in Inner(t) /\ e.ref = t.nodes[e.path]
      BY <3>1 DEF TreeOK, Logged
    <3> HIDE DEF t
    <3>5. e.ref \in 0 .. t.next - 1 /\ t.next \in Nat
      BY <3>1, <3>4 DEF TreeOK, Numbered
    <3>6. t.count > 0
      BY <3>1, <3>5
    <3>7. mapping[l] # Unwritten => e.ref \in DOMAIN mapping[l]
      BY <2>1, <3>1, <3>5 DEF t
    <3>8. mapping[l] # Unwritten => Defines(mapping[l][e.ref], e.path)
      BY <3>2, <3>3, <3>4
    <3> QED BY <3>6, <3>7, <3>8 DEF Defines, t
  <2> QED BY <2>1, <2>2 DEF EventsResolve
<1> QED BY <1>1, TreesInOrder, PTL

(* DefinedOnce: two locations that have recorded the same call path are    *)
(* led to one definition of it, in whichever order their trees are merged. *)
THEOREM DefinedOnce == Spec => []OneDefinition
<1>1. IInv => OneDefinition
  BY DEF IInv, MergedOK, OneDefinition, Inner
<1> QED BY <1>1, TreesInOrder, PTL
=============================================================================
