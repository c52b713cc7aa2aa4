--------------------------- MODULE LifecycleProofs ---------------------------
(***************************************************************************)
(* Proofs about the construction and destruction of the monitors, for any  *)
(* numbers of CPUs, packages, counters and threads, any combination of     *)
(* optional monitors and any failures of their constructors.               *)
(*                                                                         *)
(* What the main thread still has to do is a sequence.  Each operation has *)
(* a rank, and every sequence of a constructor or destructor is in the     *)
(* order of the ranks.  The invariants then only say which operations are  *)
(* left; that one comes before the other follows from the ranks.           *)
(***************************************************************************)
EXTENDS Lifecycle, SequenceTheorems, WellFoundedInduction, TLAPS

IsSequence(s) == s \in Seq({s[i] : i \in DOMAIN s})

Ops(s) == {s[i] : i \in DOMAIN s}

-----------------------------------------------------------------------------
(* The order of the operations                                             *)

Kinds == {"tracepoint", "bio", "adapt", "node", "energy", "sensors", "socket", "posix", "scope"}

MakeRank ==
  [tracepoint |-> 3, bio |-> 4, adapt |-> 6, node |-> 7, energy |-> 10, sensors |-> 12,
   socket |-> 14, posix |-> 16, scope |-> 18]
StartRank ==
  [tracepoint |-> 3, bio |-> 5, adapt |-> 8, node |-> 9, energy |-> 11, sensors |-> 13,
   socket |-> 15, posix |-> 17, scope |-> 18]
StopRank ==
  [scope |-> 21, posix |-> 22, sensors |-> 25, socket |-> 26, energy |-> 27, adapt |-> 28,
   node |-> 29, bio |-> 30, tracepoint |-> 31]
DestroyRank ==
  [scope |-> 23, posix |-> 24, sensors |-> 35, energy |-> 36, adapt |-> 37, node |-> 38,
   bio |-> 39, socket |-> 40, tracepoint |-> 41]
CallRank ==
  [metrics_start |-> 1, begin_record |-> 2, run |-> 20, end_record |-> 32, metrics_stop |-> 33,
   finalize |-> 34, metrics_destroy |-> 42, close |-> 43]

EndRank == 32      (* end_record      *)
FetchRank == 42    (* metrics_destroy *)
CloseRank == 43    (* close           *)

RankOf(do, kind) ==
  CASE do = "make"             -> IF kind \in Kinds THEN MakeRank[kind] ELSE 0
    [] do = "start"            -> IF kind \in Kinds THEN StartRank[kind] ELSE 0
    [] do \in {"stop", "join"} -> StopRank[kind]
    [] do = "destroy"          -> DestroyRank[kind]
    [] OTHER                   -> CallRank[do]

Rank(op) == RankOf(op.do, op.m[1])

(* a may come before b: not the same again, and nothing is made after it   *)
(* was started.                                                            *)
Precedes(a, b) ==
  Rank(a) <= Rank(b) /\ a # b /\ (a.do = "start" => b # Op("make", a.m))

(* s is in the order of the ranks, which are between lo and hi.            *)
Ordered(s, lo, hi) ==
  /\ IsSequence(s)
  /\ \A i \in DOMAIN s : Rank(s[i]) \in lo .. hi
  /\ \A i, j \in DOMAIN s : i < j => Precedes(s[i], s[j])

-----------------------------------------------------------------------------
(* The inductive invariant                                                 *)

States == {"none", "made", "started", "looping", "spinning", "ended", "joined"}
OnMonitor == {"make", "start", "stop", "join", "destroy"}
Calls == {"metrics_start", "begin_record", "run", "end_record", "metrics_stop", "finalize",
          "metrics_destroy", "close"}
Building == {"make", "start", "metrics_start", "begin_record", "run"}
Threading == {"make", "start", "stop", "join", "destroy"}
Ending == {"stop", "join", "destroy", "end_record", "metrics_stop", "finalize", "metrics_destroy", "close"}

EndPhase == phase \in {"destruct", "finalize", "close"}

LifeTypeOK ==
  /\ phase \in {"construct", "run", "destruct", "finalize", "close"}
  /\ state \in [Monitors -> States]
  /\ crashed \in BOOLEAN
  /\ clock \in Nat /\ to \in 0 .. clock /\ last \in 0 .. clock
  /\ DOMAIN plugin = {"loaded", "channel", "recording", "values", "written"}
  /\ plugin.values \subseteq 0 .. clock

(* Which monitors there can be in this mode with these options.            *)
Possible(m) ==
  /\ m \in Monitors
  /\ m[1] = "posix" => mode = "process"
  /\ m[1] \in {"tracepoint", "bio", "sensors"} => m[1] \in enabled
  /\ m[1] = "scope" => m[2] \in 1 .. Scopes

(* The form of what is left to do.                                         *)
OpKnown(op) ==
  /\ op = Op(op.do, op.m)
  /\ \/ op.do \in OnMonitor /\ op.m \in Monitors
     \/ op.do \in Calls /\ op.m = <<"", 0>>
  /\ op.do \in {"make", "start"} => Possible(op.m)

OpsKnown(s) == \A op \in Ops(s) : OpKnown(op)

ByPhase(ph, s) ==
  /\ ph = "construct" => \A op \in Ops(s) : op.do \in Building
  /\ ph = "run" => \A op \in Ops(s) : op.do \in Threading /\ op.m[1] = "scope" /\ mode = "process"
  /\ ph \in {"destruct", "finalize", "close"} => \A op \in Ops(s) : op.do \in Ending

TodoInv ==
  /\ Ordered(todo, 1, CloseRank)
  /\ OpsKnown(todo)
  /\ ByPhase(phase, todo)
  /\ \A i \in DOMAIN todo : todo[i].do = "join" => i = 1
  /\ \A m \in Monitors : state[m] # "none" => Possible(m)

(* A monitor that was started in the constructor lies behind it.           *)
StartedInOrder ==
  phase = "construct" =>
    \A m \in Monitors : Joinable(m) =>
      \A op \in Ops(todo) : StartRank[m[1]] <= Rank(op) /\ op.m # m

(* A thread that runs is ended before the recording ends, the trace is     *)
(* finalized or closed.                                                    *)
Covered(s, e, m) ==
  \E op \in Ops(s) : op.m = m /\ op.do \in {"stop", "join", "destroy"} /\ Rank(op) < Rank(e)

AllCovered ==
  \A e \in Ops(todo) : e.do \in {"end_record", "finalize", "close"} =>
    \A m \in Monitors : Joinable(m) => Covered(todo, e, m)

(* What remains once an operation of lower rank does.                      *)
Remaining(s) ==
  /\ \A op \in Ops(s) : Rank(op) < EndRank => Do("end_record") \in Ops(s)
  /\ \A op \in Ops(s) : Rank(op) < FetchRank => Do("metrics_destroy") \in Ops(s)

SomeJoinable == \E m \in Monitors : Joinable(m)

(* Events lie within the interval, unless a thread still runs: in the      *)
(* constructor, and when it is left by an exception without a recorded end.*)
IntervalInv ==
  /\ phase = "construct" => last = 0 \/ SomeJoinable
  /\ EndPhase /\ ~crashed /\ Do("end_record") \notin Ops(todo) => last <= to \/ SomeJoinable
  /\ EndPhase /\ Do("metrics_destroy") \notin Ops(todo) =>
       /\ plugin.recording = FALSE
       /\ plugin.written = fetch_data(starting_time, to)

EndInv ==
  /\ EndPhase => Remaining(todo)
  /\ phase = "close" => ~crashed /\ \A op \in Ops(todo) : Rank(op) >= CloseRank

LifeInv ==
  LifeTypeOK /\ TodoInv /\ StartedInOrder /\ AllCovered /\ EndInv /\ IntervalInv /\ FinalizedAlone

-----------------------------------------------------------------------------
(* The failures that lo2s survives                                         *)

(* The constructor of the sensors does not throw; that of the block I/O    *)
(* does only if no tracepoints are recorded; attaching in cpu_set mode     *)
(* succeeds.                                                               *)
Survivable ==
  /\ "sensors" \notin MayFail
  /\ "bio" \in MayFail => \A F \in Features : ~("bio" \in F /\ "tracepoint" \in F)
  /\ "attach_system" \notin MayFail

(* While measuring, a scope is made and started, or stopped and destroyed. *)
OneWay ==
  phase = "run" =>
    \/ \A op \in Ops(todo) : op.do \in {"make", "start"}
    \/ \A op \in Ops(todo) : op.do \in {"stop", "join", "destroy"}

(* Whoever runs and is destroyed is stopped before.                        *)
StoppedFirst ==
  \A m \in Monitors : Joinable(m) /\ Op("destroy", m) \in Ops(todo) =>
    Op("stop", m) \in Ops(todo) \/ Op("join", m) \in Ops(todo)

(* The sensors and the block I/O that are stopped were made.               *)
Made(kind) ==
  /\ ~EndPhase /\ kind \in enabled => Op("make", <<kind, 1>>) \in Ops(todo) \/ state[<<kind, 1>>] # "none"
  /\ Op("stop", <<kind, 1>>) \in Ops(todo) => state[<<kind, 1>>] # "none"

SurviveInv ==
  /\ ~crashed /\ enabled \in Features
  /\ OneWay /\ StoppedFirst /\ Made("bio") /\ Made("sensors")

-----------------------------------------------------------------------------
(* Sequences                                                               *)

LEMMA SeqIsSequence ==
  ASSUME NEW S, NEW s \in Seq(S)
  PROVE  IsSequence(s)
<1>1. s \in [1 .. Len(s) -> S] /\ Len(s) \in Nat
  BY LenProperties
<1>2. s \in [1 .. Len(s) -> {s[i] : i \in DOMAIN s}]
  BY <1>1
<1> QED BY <1>1, <1>2, SeqDef DEF IsSequence

LEMMA SequenceFacts ==
  ASSUME NEW s, IsSequence(s)
  PROVE  Len(s) \in Nat /\ DOMAIN s = 1 .. Len(s)
  BY LenProperties DEF IsSequence

(* A function on 1 .. n is a sequence of length n.                         *)
LEMMA FunctionIsSequence ==
  ASSUME NEW s, NEW n \in Nat, s = [i \in 1 .. n |-> s[i]]
  PROVE  IsSequence(s) /\ Len(s) = n
<1> DEFINE S == {s[i] : i \in 1 .. n}
<1>1. s \in [1 .. n -> S]
  OBVIOUS
<1>2. s \in Seq(S)
  BY <1>1, SeqDef
<1>3. DOMAIN s = 1 .. n
  OBVIOUS
<1> HIDE DEF S
<1>4. DOMAIN s = 1 .. Len(s) /\ Len(s) \in Nat
  BY <1>2, LenProperties
<1> QED BY <1>2, <1>3, <1>4, SeqIsSequence

LEMMA TailFacts ==
  ASSUME NEW s, IsSequence(s), s # <<>>
  PROVE  /\ IsSequence(Tail(s)) /\ Len(Tail(s)) = Len(s) - 1
         /\ Head(s) = s[1] /\ 1 \in DOMAIN s
         /\ \A i \in 1 .. Len(s) - 1 : Tail(s)[i] = s[i + 1]
<1> DEFINE S == {s[i] : i \in DOMAIN s}
<1>1. s \in Seq(S) /\ s # <<>>
  BY DEF IsSequence
<1> HIDE DEF S
<1>2. /\ Tail(s) \in Seq(S) /\ Len(Tail(s)) = Len(s) - 1 /\ Head(s) = s[1]
      /\ \A i \in 1 .. Len(s) - 1 : Tail(s)[i] = s[i + 1]
  BY <1>1, HeadTailProperties
<1>3. Len(s) \in Nat \ {0}
  BY <1>1, EmptySeq
<1>4. DOMAIN s = 1 .. Len(s)
  BY SequenceFacts
<1>5. 1 \in DOMAIN s
  BY <1>3, <1>4
<1>6. IsSequence(Tail(s))
  BY <1>2, SeqIsSequence
<1> QED BY <1>2, <1>5, <1>6

LEMMA ConcatFacts ==
  ASSUME NEW a, NEW b, IsSequence(a), IsSequence(b)
  PROVE  /\ IsSequence(a \o b) /\ Len(a \o b) = Len(a) + Len(b)
         /\ \A i \in 1 .. Len(a) : (a \o b)[i] = a[i]
         /\ \A i \in 1 .. Len(b) : (a \o b)[Len(a) + i] = b[i]
<1> DEFINE S == {a[i] : i \in DOMAIN a} \cup {b[i] : i \in DOMAIN b}
<1>1. a \in Seq(S) /\ b \in Seq(S)
  BY SeqMonotonic DEF IsSequence
<1> HIDE DEF S
<1>2. a \o b \in Seq(S) /\ Len(a) \in Nat /\ Len(b) \in Nat
  BY <1>1, ConcatProperties, LenProperties
<1>3. /\ Len(a \o b) = Len(a) + Len(b)
      /\ \A i \in 1 .. Len(a) + Len(b) : (a \o b)[i] = IF i <= Len(a) THEN a[i] ELSE b[i - Len(a)]
  BY <1>1, ConcatProperties
<1>4. ASSUME NEW i \in 1 .. Len(b) PROVE (a \o b)[Len(a) + i] = b[i]
  <2>1. Len(a) + i \in 1 .. Len(a) + Len(b) /\ ~(Len(a) + i <= Len(a)) /\ (Len(a) + i) - Len(a) = i
    BY <1>2
  <2> QED BY <1>3, <2>1
<1>5. \A i \in 1 .. Len(a) : (a \o b)[i] = a[i]
  BY <1>2, <1>3
<1>6. IsSequence(a \o b)
  BY <1>2, SeqIsSequence
<1> QED BY <1>3, <1>4, <1>5, <1>6

-----------------------------------------------------------------------------
(* What is left to do                                                      *)

LEMMA OpsConcat ==
  ASSUME NEW a, NEW b, IsSequence(a), IsSequence(b)
  PROVE  Ops(a \o b) = Ops(a) \cup Ops(b)
<1>1. /\ Len(a) \in Nat /\ Len(b) \in Nat
      /\ DOMAIN a = 1 .. Len(a) /\ DOMAIN b = 1 .. Len(b) /\ DOMAIN (a \o b) = 1 .. Len(a) + Len(b)
  BY SequenceFacts, ConcatFacts
<1>2. ASSUME NEW x \in Ops(a \o b) PROVE x \in Ops(a) \cup Ops(b)
  <2>1. PICK i \in 1 .. Len(a) + Len(b) : x = (a \o b)[i]
    BY <1>1 DEF Ops
  <2>2. CASE i <= Len(a)
    <3>1. i \in DOMAIN a /\ x = a[i]
      BY <1>1, <2>1, <2>2, ConcatFacts
    <3> QED BY <3>1 DEF Ops
  <2>3. CASE ~(i <= Len(a))
    <3> DEFINE j == i - Len(a)
    <3>1. j \in 1 .. Len(b) /\ i = Len(a) + j
      BY <1>1, <2>1, <2>3
    <3> HIDE DEF j
    <3>2. x = b[j] /\ j \in DOMAIN b
      BY <1>1, <2>1, <3>1, ConcatFacts
    <3> QED BY <3>2 DEF Ops
  <2> QED BY <2>2, <2>3
<1>3. ASSUME NEW x \in Ops(a) PROVE x \in Ops(a \o b)
  <2>1. PICK i \in 1 .. Len(a) : x = a[i]
    BY <1>1 DEF Ops
  <2>2. i \in DOMAIN (a \o b) /\ x = (a \o b)[i]
    BY <1>1, <2>1, ConcatFacts
  <2> QED BY <2>2 DEF Ops
<1>4. ASSUME NEW x \in Ops(b) PROVE x \in Ops(a \o b)
  <2>1. PICK i \in 1 .. Len(b) : x = b[i]
    BY <1>1 DEF Ops
  <2>2. Len(a) + i \in DOMAIN (a \o b) /\ x = (a \o b)[Len(a) + i]
    BY <1>1, <2>1, ConcatFacts
  <2> QED BY <2>2 DEF Ops
<1> QED BY <1>2, <1>3, <1>4

(* Nothing is gained by a step ahead, and only the head is lost.           *)
LEMMA OpsTail ==
  ASSUME NEW s, IsSequence(s), s # <<>>
  PROVE  Head(s) \in Ops(s) /\ Ops(s) = {Head(s)} \cup Ops(Tail(s))
<1> DEFINE n == Len(s)
<1>1. /\ n \in Nat /\ n >= 1 /\ DOMAIN s = 1 .. n /\ Head(s) = s[1]
      /\ DOMAIN Tail(s) = 1 .. n - 1 /\ \A i \in 1 .. n - 1 : Tail(s)[i] = s[i + 1]
  BY SequenceFacts, TailFacts
<1> HIDE DEF n
<1>2. Head(s) \in Ops(s)
  BY <1>1 DEF Ops
<1>3. ASSUME NEW x \in Ops(s) PROVE x = Head(s) \/ x \in Ops(Tail(s))
  <2>1. PICK i \in 1 .. n : x = s[i]
    BY <1>1 DEF Ops
  <2>2. CASE i = 1
    BY <1>1, <2>1, <2>2
  <2>3. CASE i # 1
    <3> DEFINE j == i - 1
    <3>1. j \in 1 .. n - 1 /\ i = j + 1
      BY <1>1, <2>1, <2>3
    <3> HIDE DEF j
    <3>2. x = Tail(s)[j] /\ j \in DOMAIN Tail(s)
      BY <1>1, <2>1, <3>1
    <3> QED BY <3>2 DEF Ops
  <2> QED BY <2>2, <2>3
<1>4. ASSUME NEW x \in Ops(Tail(s)) PROVE x \in Ops(s)
  <2>1. PICK i \in 1 .. n - 1 : x = Tail(s)[i]
    BY <1>1 DEF Ops
  <2>2. x = s[i + 1] /\ i + 1 \in DOMAIN s
    BY <1>1, <2>1
  <2> QED BY <2>2 DEF Ops
<1> QED BY <1>2, <1>3, <1>4

(* t is what is left of s behind its first k elements.                     *)
Later(s, t, k) ==
  /\ IsSequence(t) /\ k \in 0 .. Len(s) /\ Len(t) = Len(s) - k
  /\ \A i \in 1 .. Len(t) : t[i] = s[i + k]

LEMMA LaterFacts ==
  ASSUME NEW s, NEW t, NEW k, NEW lo, NEW hi, Ordered(s, lo, hi), Later(s, t, k)
  PROVE  /\ Ordered(t, lo, hi) /\ Ops(t) \subseteq Ops(s)
         /\ \A i \in DOMAIN t : i + k \in DOMAIN s /\ t[i] = s[i + k]
         /\ k \in Nat /\ \A i \in DOMAIN t : i \in Nat
<1>1. /\ Len(s) \in Nat /\ DOMAIN s = 1 .. Len(s) /\ k \in Nat /\ Len(t) \in Nat
      /\ DOMAIN t = 1 .. Len(t) /\ Len(t) = Len(s) - k
      /\ \A i \in 1 .. Len(t) : t[i] = s[i + k]
  BY SequenceFacts DEF Ordered, Later
<1>2. ASSUME NEW i \in DOMAIN t PROVE i + k \in DOMAIN s /\ t[i] = s[i + k]
  BY <1>1
<1>3. ASSUME NEW i \in DOMAIN t, NEW j \in DOMAIN t, i < j PROVE Precedes(t[i], t[j])
  <2>1. i + k < j + k
    BY <1>1, <1>3
  <2> QED BY <1>2, <2>1 DEF Ordered
<1>4. Ordered(t, lo, hi)
  BY <1>2, <1>3 DEF Ordered, Later
<1> QED BY <1>1, <1>2, <1>4 DEF Ops

LEMMA TailLater ==
  ASSUME NEW s, IsSequence(s), s # <<>>
  PROVE  Later(s, Tail(s), 1)
<1>1. Len(s) \in Nat /\ 1 \in 1 .. Len(s)
  BY SequenceFacts, TailFacts
<1> QED BY <1>1, TailFacts DEF Later

(* What follows the head may come after it.                                *)
LEMMA HeadPrecedes ==
  ASSUME NEW s, NEW lo, NEW hi, Ordered(s, lo, hi), s # <<>>
  PROVE  \A op \in Ops(Tail(s)) : Precedes(Head(s), op)
<1>1. Later(s, Tail(s), 1) /\ Head(s) = s[1] /\ 1 \in DOMAIN s
  BY TailLater, TailFacts DEF Ordered
<1>2. ASSUME NEW i \in DOMAIN Tail(s) PROVE Precedes(Head(s), Tail(s)[i])
  <2>1. i + 1 \in DOMAIN s /\ Tail(s)[i] = s[i + 1] /\ 1 < i + 1
    BY <1>1, LaterFacts, SequenceFacts DEF Later
  <2> QED BY <1>1, <2>1 DEF Ordered
<1> QED BY <1>2 DEF Ops

LEMMA MakeBeforeStart ==
  ASSUME NEW a, NEW b, a.do = "start", b = Op("make", a.m)
  PROVE  Rank(b) <= Rank(a)
<1>1. Rank(a) = RankOf("start", a.m[1]) /\ Rank(b) = RankOf("make", a.m[1])
  BY DEF Rank, Op
<1>2. \A kind \in Kinds : MakeRank[kind] <= StartRank[kind]
  BY DEF Kinds, MakeRank, StartRank
<1>3. \A kind : RankOf("make", kind) = (IF kind \in Kinds THEN MakeRank[kind] ELSE 0)
  BY DEF RankOf
<1>4. \A kind : RankOf("start", kind) = (IF kind \in Kinds THEN StartRank[kind] ELSE 0)
  BY DEF RankOf
<1>5. CASE a.m[1] \in Kinds
  BY <1>1, <1>2, <1>3, <1>4, <1>5
<1>6. CASE a.m[1] \notin Kinds
  BY <1>1, <1>3, <1>4, <1>6
<1> QED BY <1>5, <1>6

LEMMA LowerPrecedes ==
  ASSUME NEW a, NEW b, Rank(a) \in Nat, Rank(b) \in Nat, Rank(a) < Rank(b)
  PROVE  Precedes(a, b)
<1>1. a # b /\ Rank(a) <= Rank(b) /\ ~(Rank(b) <= Rank(a))
  OBVIOUS
<1>2. a.do = "start" => b # Op("make", a.m)
  BY <1>1, MakeBeforeStart
<1> QED BY <1>1, <1>2 DEF Precedes

LEMMA OrderedConcat ==
  ASSUME NEW a, NEW b, NEW lo \in Nat, NEW mid \in Nat, NEW low \in Nat, NEW hi \in Nat,
         Ordered(a, lo, mid), Ordered(b, low, hi), lo <= low, mid < low, mid <= hi
  PROVE  Ordered(a \o b, lo, hi)
<1> DEFINE c == a \o b
           n == Len(a)
           k == Len(b)
<1>1. /\ n \in Nat /\ k \in Nat
      /\ DOMAIN a = 1 .. n /\ DOMAIN b = 1 .. k /\ DOMAIN c = 1 .. n + k
      /\ IsSequence(c)
      /\ \A i \in 1 .. n : c[i] = a[i]
      /\ \A i \in 1 .. k : c[n + i] = b[i]
  BY SequenceFacts, ConcatFacts DEF Ordered
<1> HIDE DEF c, n, k
<1>2. ASSUME NEW i \in DOMAIN c
      PROVE  \/ i \in DOMAIN a /\ c[i] = a[i]
             \/ \E j \in DOMAIN b : i = n + j /\ c[i] = b[j]
  <2>1. CASE i <= n
    BY <1>1, <2>1
  <2>2. CASE ~(i <= n)
    <3> DEFINE j == i - n
    <3>1. j \in 1 .. k /\ i = n + j
      BY <1>1, <2>2
    <3> HIDE DEF j
    <3> QED BY <1>1, <3>1
  <2> QED BY <2>1, <2>2
<1>3. /\ \A i \in DOMAIN a : Rank(a[i]) \in lo .. mid
      /\ \A i \in DOMAIN b : Rank(b[i]) \in low .. hi
      /\ \A i, j \in DOMAIN a : i < j => Precedes(a[i], a[j])
      /\ \A i, j \in DOMAIN b : i < j => Precedes(b[i], b[j])
  BY DEF Ordered
<1>4. ASSUME NEW i \in DOMAIN c PROVE Rank(c[i]) \in lo .. hi
  <2>1. \A x \in lo .. mid : x \in lo .. hi
    OBVIOUS
  <2>2. \A x \in low .. hi : x \in lo .. hi
    OBVIOUS
  <2> QED BY <1>2, <1>3, <2>1, <2>2
<1>5. ASSUME NEW i \in DOMAIN c, NEW j \in DOMAIN c, i < j
      PROVE  Precedes(c[i], c[j])
  <2>1. CASE i \in DOMAIN a /\ c[i] = a[i] /\ j \in DOMAIN a /\ c[j] = a[j]
    BY <1>3, <1>5, <2>1
  <2>2. ASSUME i \in DOMAIN a, c[i] = a[i], NEW q \in DOMAIN b, j = n + q, c[j] = b[q]
        PROVE  Precedes(c[i], c[j])
    <3>1. Rank(c[i]) \in lo .. mid /\ Rank(c[j]) \in low .. hi
      BY <1>3, <2>2
    <3>2. Rank(c[i]) \in Nat /\ Rank(c[j]) \in Nat /\ Rank(c[i]) < Rank(c[j])
      BY <3>1
    <3> QED BY <3>2, LowerPrecedes
  <2>3. ASSUME NEW p \in DOMAIN b, i = n + p, c[i] = b[p], NEW q \in DOMAIN b, j = n + q, c[j] = b[q]
        PROVE  Precedes(c[i], c[j])
    <3>1. p < q
      BY <1>1, <1>5, <2>3
    <3> QED BY <1>3, <2>3, <3>1
  <2>4. ASSUME NEW p \in DOMAIN b, i = n + p, j \in DOMAIN a PROVE FALSE
    BY <1>1, <1>5, <2>4
  <2> QED BY <1>2, <2>1, <2>2, <2>3, <2>4
<1> QED BY <1>1, <1>4, <1>5 DEF Ordered, c

LEMMA OrderedWider ==
  ASSUME NEW s, NEW lo \in Nat, NEW hi \in Nat, NEW low \in Nat, NEW high \in Nat,
         Ordered(s, lo, hi), low <= lo, hi <= high
  PROVE  Ordered(s, low, high)
<1>1. \A x \in lo .. hi : x \in low .. high
  OBVIOUS
<1> QED BY <1>1 DEF Ordered

LEMMA OrderedEmpty ==
  ASSUME NEW lo, NEW hi
  PROVE  Ordered(<<>>, lo, hi) /\ Ops(<<>>) = {}
<1>1. <<>> \in Seq({}) /\ Len(<<>>) = 0
  OBVIOUS
<1>2. IsSequence(<<>>)
  BY <1>1, SeqIsSequence
<1>3. DOMAIN <<>> = {}
  BY <1>1, <1>2, SequenceFacts
<1> QED BY <1>2, <1>3 DEF Ordered, Ops

LEMMA Chain ==
  ASSUME NEW a, NEW b, NEW lo \in Nat, NEW mid \in Nat, NEW low \in Nat, NEW hi \in Nat,
         Ordered(a, lo, mid), Ordered(b, low, hi), lo <= low, mid < low, mid <= hi
  PROVE  Ordered(a \o b, lo, hi) /\ Ops(a \o b) = Ops(a) \cup Ops(b)
<1>1. IsSequence(a) /\ IsSequence(b)
  BY DEF Ordered
<1> QED BY <1>1, OrderedConcat, OpsConcat

-----------------------------------------------------------------------------
(* The operations of constructors and destructors                          *)

LEMMA EachFacts ==
  ASSUME NEW do, NEW kind, NEW n \in Nat, NEW r \in Nat, RankOf(do, kind) = r
  PROVE  /\ Ordered(Each(do, kind, n), r, r)
         /\ Ops(Each(do, kind, n)) = {Op(do, <<kind, i>>) : i \in 1 .. n}
<1> DEFINE s == Each(do, kind, n)
<1>1. IsSequence(s) /\ DOMAIN s = 1 .. n /\ \A i \in 1 .. n : s[i] = Op(do, <<kind, i>>)
  BY FunctionIsSequence DEF Each
<1> HIDE DEF s
<1>2. ASSUME NEW i PROVE Rank(Op(do, <<kind, i>>)) = r
  BY DEF Rank, Op
<1>3. ASSUME NEW i, NEW j, i # j PROVE Op(do, <<kind, i>>) # Op(do, <<kind, j>>)
  <2>1. <<kind, i>> # <<kind, j>>
    BY <1>3
  <2> QED BY <2>1 DEF Op
<1>4. Ordered(s, r, r)
  <2>1. \A i \in DOMAIN s : Rank(s[i]) = r
    BY <1>1, <1>2
  <2>2. \A i, j \in DOMAIN s : i < j => i # j
    BY <1>1
  <2>3. \A i, j \in DOMAIN s : i < j => s[i] # s[j]
    BY <1>1, <1>3, <2>2
  <2>4. \A i, j \in DOMAIN s : s[i].do = "start" => s[j] # Op("make", s[i].m)
    BY <1>1 DEF Op
  <2>5. \A i, j \in DOMAIN s : i < j => Precedes(s[i], s[j])
    BY <2>1, <2>3, <2>4 DEF Precedes
  <2> QED BY <1>1, <2>1, <2>5 DEF Ordered
<1>5. Ops(s) = {Op(do, <<kind, i>>) : i \in 1 .. n}
  BY <1>1 DEF Ops
<1> QED BY <1>4, <1>5 DEF s

LEMMA SingleFacts ==
  ASSUME NEW do, NEW kind, NEW r \in Nat, RankOf(do, kind) = r
  PROVE  /\ Ordered(Each(do, kind, 1), r, r)
         /\ Ops(Each(do, kind, 1)) = {Op(do, <<kind, 1>>)}
<1>1. PICK n \in Nat : n = 1
  OBVIOUS
<1>2. /\ Ordered(Each(do, kind, n), r, r)
      /\ Ops(Each(do, kind, n)) = {Op(do, <<kind, i>>) : i \in 1 .. n}
  BY EachFacts
<1>3. \A i \in 1 .. n : i = 1
  BY <1>1
<1>4. 1 \in 1 .. n
  BY <1>1
<1>5. {Op(do, <<kind, i>>) : i \in 1 .. n} = {Op(do, <<kind, 1>>)}
  BY <1>3, <1>4
<1> QED BY <1>1, <1>2, <1>5

LEMMA TwoFacts ==
  ASSUME NEW a, NEW b, NEW lo \in Nat, NEW hi \in Nat, Rank(a) = lo, Rank(b) = hi, lo <= hi,
         Precedes(a, b)
  PROVE  Ordered(<<a, b>>, lo, hi) /\ Ops(<<a, b>>) = {a, b}
<1> DEFINE s == <<a, b>>
<1>1. s[1] = a /\ s[2] = b /\ s \in Seq({a, b}) /\ Len(s) = 2
  OBVIOUS
<1> HIDE DEF s
<1>2. IsSequence(s) /\ DOMAIN s = 1 .. 2
  BY <1>1, SeqIsSequence, SequenceFacts
<1>3. \A i \in 1 .. 2 : i = 1 \/ i = 2
  OBVIOUS
<1>4. \A i, j \in 1 .. 2 : i < j => i = 1 /\ j = 2
  OBVIOUS
<1>5. lo \in lo .. hi /\ hi \in lo .. hi
  OBVIOUS
<1>6. Ordered(s, lo, hi)
  <2>1. \A i \in DOMAIN s : Rank(s[i]) \in lo .. hi
    BY <1>1, <1>2, <1>3, <1>5
  <2>2. \A i, j \in DOMAIN s : i < j => Precedes(s[i], s[j])
    BY <1>1, <1>2, <1>4
  <2> QED BY <1>2, <2>1, <2>2 DEF Ordered
<1>7. Ops(s) = {a, b}
  BY <1>1, <1>2, <1>3 DEF Ops
<1> QED BY <1>6, <1>7 DEF s

LEMMA ThreeFacts ==
  ASSUME NEW a, NEW b, NEW c, NEW lo \in Nat, NEW mid \in Nat, NEW hi \in Nat,
         Rank(a) = lo, Rank(b) = mid, Rank(c) = hi, lo < mid, mid < hi
  PROVE  Ordered(<<a, b, c>>, lo, hi) /\ Ops(<<a, b, c>>) = {a, b, c}
<1> DEFINE s == <<a, b, c>>
<1>1. s[1] = a /\ s[2] = b /\ s[3] = c /\ s \in Seq({a, b, c}) /\ Len(s) = 3
  OBVIOUS
<1> HIDE DEF s
<1>2. IsSequence(s) /\ DOMAIN s = 1 .. 3
  BY <1>1, SeqIsSequence, SequenceFacts
<1>3. \A i \in 1 .. 3 : i = 1 \/ i = 2 \/ i = 3
  OBVIOUS
<1>4. \A i, j \in 1 .. 3 : i < j => (i = 1 /\ j = 2) \/ (i = 1 /\ j = 3) \/ (i = 2 /\ j = 3)
  OBVIOUS
<1>5. lo \in lo .. hi /\ mid \in lo .. hi /\ hi \in lo .. hi /\ lo <= mid /\ mid <= hi /\ lo <= hi
  OBVIOUS
<1>6. Precedes(a, b) /\ Precedes(b, c) /\ Precedes(a, c)
  BY LowerPrecedes
<1>7. Ordered(s, lo, hi)
  <2>1. \A i \in DOMAIN s : Rank(s[i]) \in lo .. hi
    BY <1>1, <1>2, <1>3, <1>5
  <2>2. \A i, j \in DOMAIN s : i < j => Precedes(s[i], s[j])
    BY <1>1, <1>2, <1>4, <1>6
  <2> QED BY <1>2, <2>1, <2>2 DEF Ordered
<1>8. Ops(s) = {a, b, c}
  BY <1>1, <1>2, <1>3 DEF Ops
<1> QED BY <1>7, <1>8 DEF s

(* One monitor is made and started.                                        *)
LEMMA PairFacts ==
  ASSUME NEW kind, NEW r \in Nat, RankOf("make", kind) = r, RankOf("start", kind) = r + 1
  PROVE  /\ Ordered(MakeAndStart(kind, 1), r, r + 1)
         /\ Ops(MakeAndStart(kind, 1)) = {Op("make", <<kind, 1>>), Op("start", <<kind, 1>>)}
<1> DEFINE s == MakeAndStart(kind, 1)
<1>1. IsSequence(s) /\ DOMAIN s = 1 .. 2
  <2>1. 2 * 1 = 2 /\ 2 \in Nat
    OBVIOUS
  <2>2. s = [i \in 1 .. 2 |-> s[i]]
    BY <2>1 DEF MakeAndStart
  <2> HIDE DEF s
  <2>3. IsSequence(s) /\ Len(s) = 2
    BY <2>1, <2>2, FunctionIsSequence
  <2> QED BY <2>3, SequenceFacts
<1>2. s[1] = Op("make", <<kind, 1>>) /\ s[2] = Op("start", <<kind, 1>>)
  <2>1. 1 \in 1 .. 2 * 1 /\ 2 \in 1 .. 2 * 1 /\ 1 % 2 = 1 /\ 2 % 2 = 0 /\ (1 + 1) \div 2 = 1 /\ (2 + 1) \div 2 = 1
    OBVIOUS
  <2> QED BY <2>1 DEF MakeAndStart
<1> HIDE DEF s
<1>3. Rank(Op("make", <<kind, 1>>)) = r /\ Rank(Op("start", <<kind, 1>>)) = r + 1
  BY DEF Rank, Op
<1>4. \A i \in 1 .. 2 : i = 1 \/ i = 2
  OBVIOUS
<1>5. \A i, j \in 1 .. 2 : i < j => i = 1 /\ j = 2
  OBVIOUS
<1>6. /\ Rank(s[1]) = r /\ Rank(s[2]) = r + 1
      /\ Rank(s[1]) \in r .. r + 1 /\ Rank(s[2]) \in r .. r + 1
  BY <1>2, <1>3
<1>7. Precedes(s[1], s[2])
  BY <1>6, LowerPrecedes
<1>8. Ordered(s, r, r + 1)
  BY <1>1, <1>4, <1>5, <1>6, <1>7 DEF Ordered
<1>9. Ops(s) = {s[1], s[2]}
  BY <1>1, <1>4 DEF Ops
<1> QED BY <1>2, <1>8, <1>9 DEF s

(* Monitors of a kind are made and started one after the other.            *)
LEMMA ManyFacts ==
  ASSUME NEW kind, NEW n \in Nat, NEW r \in Nat, RankOf("make", kind) = r, RankOf("start", kind) = r
  PROVE  /\ Ordered(MakeAndStart(kind, n), r, r)
         /\ \A op \in Ops(MakeAndStart(kind, n)) :
              op.do \in {"make", "start"} /\ \E i \in 1 .. n : op = Op(op.do, <<kind, i>>)
<1> DEFINE s == MakeAndStart(kind, n)
           Which(i) == IF i % 2 = 1 THEN "make" ELSE "start"
           Index(i) == (i + 1) \div 2
<1>1. 2 * n \in Nat
  OBVIOUS
<1>2. IsSequence(s) /\ DOMAIN s = 1 .. 2 * n /\ \A i \in 1 .. 2 * n : s[i] = Op(Which(i), <<kind, Index(i)>>)
  <2>1. s = [i \in 1 .. 2 * n |-> s[i]]
    BY DEF MakeAndStart
  <2>2. \A i \in 1 .. 2 * n : s[i] = Op(Which(i), <<kind, Index(i)>>)
    BY DEF MakeAndStart
  <2> HIDE DEF s
  <2>3. IsSequence(s) /\ Len(s) = 2 * n
    BY <1>1, <2>1, FunctionIsSequence
  <2> QED BY <2>2, <2>3, SequenceFacts
<1> HIDE DEF s
<1>3. \A i \in 1 .. 2 * n : Which(i) \in {"make", "start"} /\ Index(i) \in 1 .. n
  OBVIOUS
<1>4. ASSUME NEW i \in 1 .. 2 * n, NEW j \in 1 .. 2 * n, i < j
      PROVE  /\ Which(i) # Which(j) \/ Index(i) # Index(j)
             /\ Which(i) = "start" /\ Which(j) = "make" => Index(i) # Index(j)
  BY <1>4
<1> HIDE DEF Which, Index
<1>5. ASSUME NEW i \in 1 .. 2 * n PROVE Rank(s[i]) = r
  <2>1. s[i].do = Which(i) /\ s[i].m[1] = kind
    BY <1>2 DEF Op
  <2> QED BY <1>3, <2>1 DEF Rank
<1>6. ASSUME NEW i \in 1 .. 2 * n, NEW j \in 1 .. 2 * n, i < j PROVE Precedes(s[i], s[j])
  <2>1. s[i].do = Which(i) /\ s[i].m[2] = Index(i) /\ s[j].do = Which(j) /\ s[j].m[2] = Index(j)
    BY <1>2 DEF Op
  <2>2. s[i] # s[j]
    BY <1>4, <1>6, <2>1
  <2>3. ASSUME s[i].do = "start", s[j] = Op("make", s[i].m) PROVE FALSE
    <3>1. s[j].do = "make" /\ s[j].m = s[i].m
      BY <2>3 DEF Op
    <3> QED BY <1>4, <1>6, <2>1, <2>3, <3>1
  <2>4. Rank(s[i]) <= Rank(s[j])
    BY <1>5
  <2> QED BY <2>2, <2>3, <2>4 DEF Precedes
<1>7. Ordered(s, r, r)
  BY <1>2, <1>5, <1>6 DEF Ordered
<1>8. ASSUME NEW op \in Ops(s)
      PROVE  op.do \in {"make", "start"} /\ \E i \in 1 .. n : op = Op(op.do, <<kind, i>>)
  <2>1. PICK i \in 1 .. 2 * n : op = Op(Which(i), <<kind, Index(i)>>)
    BY <1>2 DEF Ops
  <2>2. op.do = Which(i)
    BY <2>1 DEF Op
  <2> QED BY <1>3, <2>1, <2>2
<1> QED BY <1>7, <1>8 DEF s

LEMMA CallFacts ==
  ASSUME NEW what \in Calls
  PROVE  /\ Ordered(<<Do(what)>>, CallRank[what], CallRank[what])
         /\ Ops(<<Do(what)>>) = {Do(what)}
         /\ Rank(Do(what)) = CallRank[what] /\ OpKnown(Do(what)) /\ Do(what).do = what
<1>1. Do(what).do = what /\ Do(what).m = <<"", 0>>
  BY DEF Do, Op
<1>2. Rank(Do(what)) = CallRank[what] /\ CallRank[what] \in Nat
  <2>1. what \notin {"make", "start", "stop", "join", "destroy"}
    BY DEF Calls
  <2>2. RankOf(what, <<"", 0>>[1]) = CallRank[what]
    BY <2>1 DEF RankOf
  <2>3. CallRank[what] \in Nat
    BY DEF CallRank, Calls
  <2> QED BY <1>1, <2>2, <2>3 DEF Rank
<1>3. OpKnown(Do(what))
  BY <1>1 DEF OpKnown, Do, Op, Calls
<1> DEFINE s == <<Do(what)>>
<1>4. IsSequence(s) /\ DOMAIN s = 1 .. 1 /\ s[1] = Do(what)
  <2>1. s \in Seq({Do(what)}) /\ Len(s) = 1
    OBVIOUS
  <2> QED BY <2>1, SeqIsSequence, SequenceFacts
<1> HIDE DEF s
<1>5. \A i \in 1 .. 1 : i = 1
  OBVIOUS
<1>6. \A i, j \in 1 .. 1 : ~(i < j)
  OBVIOUS
<1>7. Ordered(s, CallRank[what], CallRank[what]) /\ Ops(s) = {Do(what)}
  BY <1>2, <1>4, <1>5, <1>6 DEF Ordered, Ops
<1> QED BY <1>1, <1>2, <1>3, <1>7 DEF s

LEMMA IfFacts ==
  ASSUME NEW kind, NEW s, NEW lo, NEW hi, Ordered(s, lo, hi)
  PROVE  /\ Ordered(If(kind, s), lo, hi)
         /\ Ops(If(kind, s)) = IF kind \in enabled THEN Ops(s) ELSE {}
  BY OrderedEmpty DEF If

(* What a kind of monitors is.                                             *)
LEMMA MonitorShape ==
  ASSUME NEW m \in Monitors
  PROVE  /\ m[1] \in Kinds /\ m = <<m[1], m[2]>>
         /\ m[1] \in {"tracepoint", "adapt"} => m[2] \in 1 .. Cpus
         /\ m[1] = "node" => m[2] \in 1 .. Packages
         /\ m[1] = "energy" => m[2] \in 1 .. Counters
         /\ m[1] \in {"bio", "sensors", "socket", "posix"} => m[2] = 1
  BY DEF Monitors, Kinds

LEMMA MonitorMembers ==
  /\ \A i \in 1 .. Cpus : <<"tracepoint", i>> \in Monitors /\ <<"adapt", i>> \in Monitors /\ <<"scope", i>> \in Monitors
  /\ \A i \in 1 .. Packages : <<"node", i>> \in Monitors
  /\ \A i \in 1 .. Counters : <<"energy", i>> \in Monitors
  /\ \A i \in 1 .. Tasks : <<"scope", i>> \in Monitors
  /\ <<"bio", 1>> \in Monitors /\ <<"sensors", 1>> \in Monitors /\ <<"socket", 1>> \in Monitors
  /\ <<"posix", 1>> \in Monitors
  BY DEF Monitors

-----------------------------------------------------------------------------
(* The destructors                                                         *)

StopOrder == {Op("stop", m) : m \in Monitors}
DestroyOrder == {Op("destroy", m) : m \in Monitors}

LEMMA StopMonitorsFacts ==
  /\ Ordered(StopMonitors, 25, 31)
  /\ Ops(StopMonitors) \subseteq StopOrder
  /\ \A kind \in {"bio", "sensors"} : Op("stop", <<kind, 1>>) \in Ops(StopMonitors) => kind \in enabled
  /\ \A m \in Monitors : Possible(m) /\ m[1] \notin {"scope", "posix"} => Op("stop", m) \in Ops(StopMonitors)
<1> DEFINE se == Each("stop", "sensors", 1)
           so == Each("stop", "socket", 1)
           en == Each("stop", "energy", Counters)
           ad == Each("stop", "adapt", Cpus)
           no == Each("stop", "node", Packages)
           bi == Each("stop", "bio", 1)
           tr == Each("stop", "tracepoint", Cpus)
           ise == If("sensors", se)
           ibi == If("bio", bi)
           an == ad \o no
<1>0. Cpus \in Nat /\ Packages \in Nat /\ Counters \in Nat
  BY CountsAssumption
<1>1. /\ RankOf("stop", "sensors") = 25 /\ RankOf("stop", "socket") = 26 /\ RankOf("stop", "energy") = 27
      /\ RankOf("stop", "adapt") = 28 /\ RankOf("stop", "node") = 29 /\ RankOf("stop", "bio") = 30
      /\ RankOf("stop", "tracepoint") = 31
  BY DEF RankOf, StopRank
<1>2. Ordered(se, 25, 25) /\ Ops(se) = {Op("stop", <<"sensors", 1>>)}
  BY <1>1, SingleFacts
<1>3. Ordered(so, 26, 26) /\ Ops(so) = {Op("stop", <<"socket", 1>>)}
  BY <1>1, SingleFacts
<1>4. Ordered(en, 27, 27) /\ Ops(en) = {Op("stop", <<"energy", i>>) : i \in 1 .. Counters}
  BY <1>0, <1>1, EachFacts
<1>5. Ordered(ad, 28, 28) /\ Ops(ad) = {Op("stop", <<"adapt", i>>) : i \in 1 .. Cpus}
  BY <1>0, <1>1, EachFacts
<1>6. Ordered(no, 29, 29) /\ Ops(no) = {Op("stop", <<"node", i>>) : i \in 1 .. Packages}
  BY <1>0, <1>1, EachFacts
<1>7. Ordered(bi, 30, 30) /\ Ops(bi) = {Op("stop", <<"bio", 1>>)}
  BY <1>1, SingleFacts
<1>8. Ordered(tr, 31, 31) /\ Ops(tr) = {Op("stop", <<"tracepoint", i>>) : i \in 1 .. Cpus}
  BY <1>0, <1>1, EachFacts
<1> HIDE DEF se, so, en, ad, no, bi, tr
<1>9. Ordered(ise, 25, 25) /\ Ops(ise) = IF "sensors" \in enabled THEN Ops(se) ELSE {}
  BY <1>2, IfFacts
<1>10. Ordered(ibi, 30, 30) /\ Ops(ibi) = IF "bio" \in enabled THEN Ops(bi) ELSE {}
  BY <1>7, IfFacts
<1>11. Ordered(an, 28, 29) /\ Ops(an) = Ops(ad) \cup Ops(no)
  BY <1>5, <1>6, Chain
<1> HIDE DEF ise, ibi, an
<1>12. Ordered(ise \o so, 25, 26) /\ Ops(ise \o so) = Ops(ise) \cup Ops(so)
  BY <1>3, <1>9, Chain
<1>13. Ordered((ise \o so) \o en, 25, 27) /\ Ops((ise \o so) \o en) = Ops(ise \o so) \cup Ops(en)
  BY <1>4, <1>12, Chain
<1>14. /\ Ordered(((ise \o so) \o en) \o an, 25, 29)
       /\ Ops(((ise \o so) \o en) \o an) = Ops((ise \o so) \o en) \cup Ops(an)
  BY <1>11, <1>13, Chain
<1> DEFINE front == ((ise \o so) \o en) \o an
<1>15. Ops(front) = ((Ops(ise) \cup Ops(so)) \cup Ops(en)) \cup (Ops(ad) \cup Ops(no)) /\ Ordered(front, 25, 29)
  BY <1>11, <1>12, <1>13, <1>14
<1>16. StopMonitors = (front \o ibi) \o tr
  BY DEF StopMonitors, StopEnergy, StopAdapt, front, ise, so, en, an, ad, no, ibi, bi, tr, se
<1> HIDE DEF front
<1> DEFINE most == front \o ibi
<1>17. Ordered(most, 25, 30) /\ Ops(most) = Ops(front) \cup Ops(ibi)
  BY <1>10, <1>15, Chain
<1>18. Ordered(StopMonitors, 25, 31) /\ Ops(StopMonitors) = Ops(most) \cup Ops(tr)
  <2>1. StopMonitors = most \o tr
    BY <1>16
  <2> HIDE DEF most
  <2>2. Ordered(most \o tr, 25, 31) /\ Ops(most \o tr) = Ops(most) \cup Ops(tr)
    BY <1>8, <1>17, Chain
  <2> QED BY <2>1, <2>2
<1>19. Ops(StopMonitors) = (((Ops(ise) \cup Ops(so)) \cup Ops(en)) \cup (Ops(ad) \cup Ops(no)) \cup Ops(ibi)) \cup Ops(tr)
  BY <1>15, <1>17, <1>18
<1>20. Ops(StopMonitors) \subseteq StopOrder
  <2>1. Ops(ise) \subseteq StopOrder /\ Ops(so) \subseteq StopOrder /\ Ops(en) \subseteq StopOrder
    BY <1>2, <1>3, <1>4, <1>9, MonitorMembers DEF StopOrder
  <2>2. Ops(ad) \subseteq StopOrder /\ Ops(no) \subseteq StopOrder
    BY <1>5, <1>6, MonitorMembers DEF StopOrder
  <2>3. Ops(ibi) \subseteq StopOrder /\ Ops(tr) \subseteq StopOrder
    BY <1>7, <1>8, <1>10, MonitorMembers DEF StopOrder
  <2> QED BY <1>19, <2>1, <2>2, <2>3
<1>21. ASSUME NEW kind \in {"bio", "sensors"}, Op("stop", <<kind, 1>>) \in Ops(StopMonitors)
       PROVE  kind \in enabled
  <2>1. ASSUME NEW k, NEW i, Op("stop", <<kind, 1>>) = Op("stop", <<k, i>>) PROVE k = kind
    BY <2>1 DEF Op
  <2>2. CASE Op("stop", <<kind, 1>>) \in Ops(ise) \cup Ops(ibi)
    BY <1>2, <1>7, <1>9, <1>10, <2>1, <2>2
  <2>3. CASE Op("stop", <<kind, 1>>) \in Ops(so) \cup Ops(en)
    BY <1>3, <1>4, <2>1, <2>3
  <2>4. CASE Op("stop", <<kind, 1>>) \in Ops(ad) \cup Ops(no)
    BY <1>5, <1>6, <2>1, <2>4
  <2>5. CASE Op("stop", <<kind, 1>>) \in Ops(tr)
    BY <1>8, <2>1, <2>5
  <2> QED BY <1>19, <1>21, <2>2, <2>3, <2>4, <2>5
<1>22. ASSUME NEW m \in Monitors, Possible(m), m[1] \notin {"scope", "posix"}
       PROVE  Op("stop", m) \in Ops(StopMonitors)
  <2>1. m = <<m[1], m[2]>> /\ m[1] \in Kinds
    BY MonitorShape
  <2>2. CASE m[1] = "tracepoint"
    BY <1>8, <1>19, <2>1, <2>2, MonitorShape
  <2>3. CASE m[1] = "bio"
    <3>1. "bio" \in enabled /\ m[2] = 1 /\ 1 \in 1 .. 1
      BY <1>22, <2>3, MonitorShape DEF Possible
    <3> QED BY <1>7, <1>10, <1>19, <2>1, <2>3, <3>1
  <2>4. CASE m[1] = "adapt"
    BY <1>5, <1>19, <2>1, <2>4, MonitorShape
  <2>5. CASE m[1] = "node"
    BY <1>6, <1>19, <2>1, <2>5, MonitorShape
  <2>6. CASE m[1] = "energy"
    BY <1>4, <1>19, <2>1, <2>6, MonitorShape
  <2>7. CASE m[1] = "sensors"
    <3>1. "sensors" \in enabled /\ m[2] = 1 /\ 1 \in 1 .. 1
      BY <1>22, <2>7, MonitorShape DEF Possible
    <3> QED BY <1>2, <1>9, <1>19, <2>1, <2>7, <3>1
  <2>8. CASE m[1] = "socket"
    <3>1. m[2] = 1 /\ 1 \in 1 .. 1
      BY <2>8, MonitorShape
    <3> QED BY <1>3, <1>19, <2>1, <2>8, <3>1
  <2> QED BY <1>22, <2>1, <2>2, <2>3, <2>4, <2>5, <2>6, <2>7, <2>8 DEF Kinds
<1> QED BY <1>18, <1>20, <1>21, <1>22

(* The members of MainMonitor are destroyed, and the trace is closed last. *)
LEMMA MembersFacts ==
  /\ Ordered(Members, 35, 43)
  /\ \A op \in Ops(Members) :
       \/ op \in DestroyOrder /\ op.m[1] \notin {"scope", "posix"}
       \/ op \in {Do("metrics_destroy"), Do("close")}
  /\ Do("metrics_destroy") \in Ops(Members) /\ Do("close") \in Ops(Members)
  /\ \A m \in Monitors : m[1] \notin {"scope", "posix"} => Op("destroy", m) \in Ops(Members)
<1> DEFINE se == Each("destroy", "sensors", 1)
           so == Each("destroy", "socket", 1)
           en == Each("destroy", "energy", Counters)
           ad == Each("destroy", "adapt", Cpus)
           no == Each("destroy", "node", Packages)
           bi == Each("destroy", "bio", 1)
           tr == Each("destroy", "tracepoint", Cpus)
           mc == <<Do("metrics_destroy"), Do("close")>>
<1>0. Cpus \in Nat /\ Packages \in Nat /\ Counters \in Nat
  BY CountsAssumption
<1>1. /\ RankOf("destroy", "sensors") = 35 /\ RankOf("destroy", "energy") = 36 /\ RankOf("destroy", "adapt") = 37
      /\ RankOf("destroy", "node") = 38 /\ RankOf("destroy", "bio") = 39 /\ RankOf("destroy", "socket") = 40
      /\ RankOf("destroy", "tracepoint") = 41
  BY DEF RankOf, DestroyRank
<1>2. Ordered(se, 35, 35) /\ Ops(se) = {Op("destroy", <<"sensors", 1>>)}
  BY <1>1, SingleFacts
<1>3. Ordered(en, 36, 36) /\ Ops(en) = {Op("destroy", <<"energy", i>>) : i \in 1 .. Counters}
  BY <1>0, <1>1, EachFacts
<1>4. Ordered(ad, 37, 37) /\ Ops(ad) = {Op("destroy", <<"adapt", i>>) : i \in 1 .. Cpus}
  BY <1>0, <1>1, EachFacts
<1>5. Ordered(no, 38, 38) /\ Ops(no) = {Op("destroy", <<"node", i>>) : i \in 1 .. Packages}
  BY <1>0, <1>1, EachFacts
<1>6. Ordered(bi, 39, 39) /\ Ops(bi) = {Op("destroy", <<"bio", 1>>)}
  BY <1>1, SingleFacts
<1>7. Ordered(so, 40, 40) /\ Ops(so) = {Op("destroy", <<"socket", 1>>)}
  BY <1>1, SingleFacts
<1>8. Ordered(tr, 41, 41) /\ Ops(tr) = {Op("destroy", <<"tracepoint", i>>) : i \in 1 .. Cpus}
  BY <1>0, <1>1, EachFacts
<1>9. Ordered(mc, 42, 43) /\ Ops(mc) = {Do("metrics_destroy"), Do("close")}
  <2>1. /\ "metrics_destroy" \in Calls /\ "close" \in Calls
        /\ CallRank["metrics_destroy"] = 42 /\ CallRank["close"] = 43
    BY DEF Calls, CallRank
  <2>2. Rank(Do("metrics_destroy")) = 42 /\ Rank(Do("close")) = 43
    BY <2>1, CallFacts
  <2>3. Precedes(Do("metrics_destroy"), Do("close"))
    BY <2>2, LowerPrecedes
  <2> QED BY <2>2, <2>3, TwoFacts
<1>10. Members = ((((((se \o en) \o ad) \o no) \o bi) \o so) \o tr) \o mc
  BY DEF Members
<1> HIDE DEF se, so, en, ad, no, bi, tr, mc
<1> DEFINE s1 == se \o en
           s2 == s1 \o ad
           s3 == s2 \o no
           s4 == s3 \o bi
           s5 == s4 \o so
           s6 == s5 \o tr
<1>11. Members = s6 \o mc
  BY <1>10
<1> HIDE DEF s2, s3, s4, s5, s6
<1>12. Ordered(s1, 35, 36) /\ Ops(s1) = Ops(se) \cup Ops(en)
  <2>1. Ordered(se, 35, 35) /\ Ordered(en, 36, 36)
    BY <1>2, <1>3
  <2> QED BY ONLY <2>1, Chain DEF s1
<1> HIDE DEF s1
<1>13. Ordered(s2, 35, 37) /\ Ops(s2) = Ops(s1) \cup Ops(ad)
  BY <1>4, <1>12, Chain DEF s2
<1>14. Ordered(s3, 35, 38) /\ Ops(s3) = Ops(s2) \cup Ops(no)
  BY <1>5, <1>13, Chain DEF s3
<1>15. Ordered(s4, 35, 39) /\ Ops(s4) = Ops(s3) \cup Ops(bi)
  BY <1>6, <1>14, Chain DEF s4
<1>16. Ordered(s5, 35, 40) /\ Ops(s5) = Ops(s4) \cup Ops(so)
  BY <1>7, <1>15, Chain DEF s5
<1>17. Ordered(s6, 35, 41) /\ Ops(s6) = Ops(s5) \cup Ops(tr)
  BY <1>8, <1>16, Chain DEF s6
<1>18. Ordered(s6 \o mc, 35, 43) /\ Ops(s6 \o mc) = Ops(s6) \cup Ops(mc)
  BY <1>9, <1>17, Chain
<1>19. Ordered(Members, 35, 43) /\ Ops(Members) = Ops(s6) \cup {Do("metrics_destroy"), Do("close")}
  BY <1>9, <1>11, <1>18
<1>20. Ops(s6) = Ops(se) \cup Ops(en) \cup Ops(ad) \cup Ops(no) \cup Ops(bi) \cup Ops(so) \cup Ops(tr)
  BY <1>12, <1>13, <1>14, <1>15, <1>16, <1>17
<1>21. ASSUME NEW op \in Ops(s6) PROVE op \in DestroyOrder /\ op.m[1] \notin {"scope", "posix"}
  <2>1. ASSUME NEW k \in Kinds \ {"scope", "posix"}, NEW i, <<k, i>> \in Monitors, op = Op("destroy", <<k, i>>)
        PROVE  op \in DestroyOrder /\ op.m[1] \notin {"scope", "posix"}
    BY <2>1 DEF DestroyOrder, Op
  <2> USE DEF Kinds
  <2>2. CASE op \in Ops(se) \cup Ops(en)
    BY <1>2, <1>3, <2>1, <2>2, MonitorMembers
  <2>3. CASE op \in Ops(ad) \cup Ops(no)
    BY <1>4, <1>5, <2>1, <2>3, MonitorMembers
  <2>4. CASE op \in Ops(bi) \cup Ops(so)
    BY <1>6, <1>7, <2>1, <2>4, MonitorMembers
  <2>5. CASE op \in Ops(tr)
    BY <1>8, <2>1, <2>5, MonitorMembers
  <2> QED BY <1>20, <2>2, <2>3, <2>4, <2>5
<1>22. ASSUME NEW m \in Monitors, m[1] \notin {"scope", "posix"}
       PROVE  Op("destroy", m) \in Ops(s6)
  <2>1. m = <<m[1], m[2]>> /\ m[1] \in Kinds /\ 1 \in 1 .. 1
    BY MonitorShape
  <2>2. CASE m[1] \in {"tracepoint", "adapt"}
    BY <1>4, <1>8, <1>20, <2>1, <2>2, MonitorShape
  <2>3. CASE m[1] \in {"node", "energy"}
    BY <1>3, <1>5, <1>20, <2>1, <2>3, MonitorShape
  <2>4. CASE m[1] \in {"bio", "sensors", "socket"}
    BY <1>2, <1>6, <1>7, <1>20, <2>1, <2>4, MonitorShape
  <2> QED BY <1>22, <2>1, <2>2, <2>3, <2>4 DEF Kinds
<1> QED BY <1>19, <1>21, <1>22

LEMMA EndCalls ==
  LET s == <<Do("end_record"), Do("metrics_stop"), Do("finalize")>>
  IN  Ordered(s, 32, 34) /\ Ops(s) = {Do("end_record"), Do("metrics_stop"), Do("finalize")}
<1>1. /\ "end_record" \in Calls /\ "metrics_stop" \in Calls /\ "finalize" \in Calls
      /\ CallRank["end_record"] = 32 /\ CallRank["metrics_stop"] = 33 /\ CallRank["finalize"] = 34
  BY DEF Calls, CallRank
<1>2. Rank(Do("end_record")) = 32 /\ Rank(Do("metrics_stop")) = 33 /\ Rank(Do("finalize")) = 34
  BY <1>1, CallFacts
<1> QED BY <1>2, ThreeFacts

(* ~MainMonitor: all its monitors are stopped before the recording ends.   *)
LEMMA MainDestructorFacts ==
  /\ Ordered(MainDestructor, 25, 43)
  /\ Ops(MainDestructor) =
       Ops(StopMonitors) \cup {Do("end_record"), Do("metrics_stop"), Do("finalize")} \cup Ops(Members)
<1> DEFINE s == <<Do("end_record"), Do("metrics_stop"), Do("finalize")>>
           t == StopMonitors \o s
<1>1. Ordered(s, 32, 34) /\ Ops(s) = {Do("end_record"), Do("metrics_stop"), Do("finalize")}
  BY EndCalls
<1>2. MainDestructor = t \o Members
  BY DEF MainDestructor
<1> HIDE DEF s
<1>3. Ordered(t, 25, 34) /\ Ops(t) = Ops(StopMonitors) \cup Ops(s)
  <2>1. Ordered(StopMonitors, 25, 31) /\ Ordered(s, 32, 34)
    BY <1>1, StopMonitorsFacts
  <2> QED BY ONLY <2>1, Chain DEF t
<1> HIDE DEF t
<1>4. Ordered(t \o Members, 25, 43) /\ Ops(t \o Members) = Ops(t) \cup Ops(Members)
  <2>1. Ordered(t, 25, 34) /\ Ordered(Members, 35, 43)
    BY <1>3, MembersFacts
  <2> QED BY ONLY <2>1, Chain
<1> QED BY <1>1, <1>2, <1>3, <1>4

LEMMA ScopesFacts ==
  /\ Scopes \in Nat
  /\ \A i \in 1 .. Scopes : <<"scope", i>> \in Monitors
  /\ Ordered(StopScopes, 21, 21) /\ Ops(StopScopes) = {Op("stop", <<"scope", i>>) : i \in 1 .. Scopes}
  /\ Ordered(DestroyScopes, 23, 23) /\ Ops(DestroyScopes) = {Op("destroy", <<"scope", i>>) : i \in 1 .. Scopes}
<1>1. Scopes \in Nat /\ \A i \in 1 .. Scopes : <<"scope", i>> \in Monitors
  BY CountsAssumption, MonitorMembers DEF Scopes
<1>2. RankOf("stop", "scope") = 21 /\ RankOf("destroy", "scope") = 23
  BY DEF RankOf, StopRank, DestroyRank
<1>3. Ordered(StopScopes, 21, 21) /\ Ops(StopScopes) = {Op("stop", <<"scope", i>>) : i \in 1 .. Scopes}
  BY <1>1, <1>2, EachFacts DEF StopScopes
<1>4. Ordered(DestroyScopes, 23, 23) /\ Ops(DestroyScopes) = {Op("destroy", <<"scope", i>>) : i \in 1 .. Scopes}
  BY <1>1, <1>2, EachFacts DEF DestroyScopes
<1> QED BY <1>1, <1>3, <1>4

LEMMA PosixFacts ==
  /\ Ordered(Each("stop", "posix", 1), 22, 22)
  /\ Ops(Each("stop", "posix", 1)) = {Op("stop", <<"posix", 1>>)}
  /\ Ordered(Each("destroy", "posix", 1), 24, 24)
  /\ Ops(Each("destroy", "posix", 1)) = {Op("destroy", <<"posix", 1>>)}
<1>1. RankOf("stop", "posix") = 22 /\ RankOf("destroy", "posix") = 24
  BY DEF RankOf, StopRank, DestroyRank
<1> QED BY <1>1, SingleFacts

(* The ways in which lo2s ends.                                            *)
LEMMA FinishFacts ==
  /\ Ordered(Finish, 21, 43)
  /\ Ops(Finish) = Ops(StopScopes) \cup (IF mode = "process" THEN {Op("stop", <<"posix", 1>>)} ELSE {})
                     \cup Ops(DestroyScopes) \cup {Op("destroy", <<"posix", 1>>)} \cup Ops(MainDestructor)
<1> DEFINE ps == IF mode = "process" THEN Each("stop", "posix", 1) ELSE <<>>
           pd == Each("destroy", "posix", 1)
           s1 == StopScopes \o ps
           s2 == s1 \o DestroyScopes
           s3 == s2 \o pd
<1>1. Ordered(ps, 22, 22) /\ Ops(ps) = IF mode = "process" THEN {Op("stop", <<"posix", 1>>)} ELSE {}
  BY PosixFacts, OrderedEmpty
<1>2. Ordered(pd, 24, 24) /\ Ops(pd) = {Op("destroy", <<"posix", 1>>)}
  BY PosixFacts
<1>3. Finish = s3 \o MainDestructor
  BY DEF Finish
<1> HIDE DEF ps, pd, s1, s2, s3
<1>4. Ordered(s1, 21, 22) /\ Ops(s1) = Ops(StopScopes) \cup Ops(ps)
  <2>1. Ordered(StopScopes, 21, 21) /\ Ordered(ps, 22, 22)
    BY <1>1, ScopesFacts
  <2> QED BY ONLY <2>1, Chain DEF s1
<1>5. Ordered(s2, 21, 23) /\ Ops(s2) = Ops(s1) \cup Ops(DestroyScopes)
  <2>1. Ordered(s1, 21, 22) /\ Ordered(DestroyScopes, 23, 23)
    BY <1>4, ScopesFacts
  <2> QED BY ONLY <2>1, Chain DEF s2
<1>6. Ordered(s3, 21, 24) /\ Ops(s3) = Ops(s2) \cup Ops(pd)
  <2>1. Ordered(s2, 21, 23) /\ Ordered(pd, 24, 24)
    BY <1>2, <1>5
  <2> QED BY ONLY <2>1, Chain DEF s3
<1>7. Ordered(s3 \o MainDestructor, 21, 43) /\ Ops(s3 \o MainDestructor) = Ops(s3) \cup Ops(MainDestructor)
  <2>1. Ordered(s3, 21, 24) /\ Ordered(MainDestructor, 25, 43)
    BY <1>6, MainDestructorFacts
  <2> QED BY ONLY <2>1, Chain
<1> QED BY <1>1, <1>2, <1>3, <1>4, <1>5, <1>6, <1>7

LEMMA UnwindFacts ==
  /\ Unwind("bio") = Members
  /\ Ordered(Unwind("posix"), 24, 43)
  /\ Ops(Unwind("posix")) = {Op("destroy", <<"posix", 1>>)} \cup Ops(MainDestructor)
  /\ Ordered(Unwind("scope"), 21, 43)
  /\ Ops(Unwind("scope")) = Ops(StopScopes) \cup Ops(DestroyScopes) \cup Ops(MainDestructor)
  /\ Ordered(DestroyScopes \o MainDestructor, 23, 43)
  /\ Ops(DestroyScopes \o MainDestructor) = Ops(DestroyScopes) \cup Ops(MainDestructor)
<1> DEFINE pd == Each("destroy", "posix", 1)
           sd == StopScopes \o DestroyScopes
<1>1. /\ Unwind("bio") = Members /\ Unwind("posix") = pd \o MainDestructor
      /\ Unwind("scope") = sd \o MainDestructor
  BY DEF Unwind
<1>2. Ordered(pd, 24, 24) /\ Ops(pd) = {Op("destroy", <<"posix", 1>>)}
  BY PosixFacts
<1> HIDE DEF pd, sd
<1>3. Ordered(pd \o MainDestructor, 24, 43) /\ Ops(pd \o MainDestructor) = Ops(pd) \cup Ops(MainDestructor)
  <2>1. Ordered(pd, 24, 24) /\ Ordered(MainDestructor, 25, 43)
    BY <1>2, MainDestructorFacts
  <2> QED BY ONLY <2>1, Chain
<1>4. Ordered(sd, 21, 23) /\ Ops(sd) = Ops(StopScopes) \cup Ops(DestroyScopes)
  <2>1. Ordered(StopScopes, 21, 21) /\ Ordered(DestroyScopes, 23, 23)
    BY ScopesFacts
  <2> QED BY ONLY <2>1, Chain DEF sd
<1>5. Ordered(sd \o MainDestructor, 21, 43) /\ Ops(sd \o MainDestructor) = Ops(sd) \cup Ops(MainDestructor)
  <2>1. Ordered(sd, 21, 23) /\ Ordered(MainDestructor, 25, 43)
    BY <1>4, MainDestructorFacts
  <2> QED BY ONLY <2>1, Chain
<1>6. /\ Ordered(DestroyScopes \o MainDestructor, 23, 43)
      /\ Ops(DestroyScopes \o MainDestructor) = Ops(DestroyScopes) \cup Ops(MainDestructor)
  <2>1. Ordered(DestroyScopes, 23, 23) /\ Ordered(MainDestructor, 25, 43)
    BY ScopesFacts, MainDestructorFacts
  <2> QED BY ONLY <2>1, Chain
<1> QED BY <1>1, <1>2, <1>3, <1>4, <1>5, <1>6

(* Every sequence that ends lo2s consists of these, has the calls that     *)
(* record the end and deliver what the plugins recorded, and is in order.  *)
EndCallSet == {Do("end_record"), Do("metrics_stop"), Do("finalize"), Do("metrics_destroy"), Do("close")}
EndOps == StopOrder \cup DestroyOrder \cup EndCallSet

Ends(s) ==
  /\ Ordered(s, 1, CloseRank) /\ Ops(s) \subseteq EndOps
  /\ Do("metrics_destroy") \in Ops(s) /\ Do("close") \in Ops(s)

LEMMA EndOpsFacts ==
  ASSUME NEW op \in EndOps
  PROVE  /\ OpKnown(op) /\ op.do \in Ending /\ op.do \notin {"join", "make", "start"}
         /\ op.do = "end_record" => op = Do("end_record")
         /\ op.do \in {"stop", "destroy"} => op.m \in Monitors
<1>1. CASE op \in StopOrder \cup DestroyOrder
  <2>1. PICK m \in Monitors : op = Op("stop", m) \/ op = Op("destroy", m)
    BY <1>1 DEF StopOrder, DestroyOrder
  <2>2. op.do \in {"stop", "destroy"} /\ op.m = m /\ op = Op(op.do, op.m)
    BY <2>1 DEF Op
  <2> QED BY <2>2 DEF OpKnown, OnMonitor, Ending
<1>2. CASE op \in EndCallSet
  <2>1. /\ Do("end_record").do = "end_record" /\ Do("metrics_stop").do = "metrics_stop"
        /\ Do("finalize").do = "finalize" /\ Do("metrics_destroy").do = "metrics_destroy"
        /\ Do("close").do = "close"
    BY DEF Do, Op
  <2>2. OpKnown(op)
    <3>1. \A what \in Calls : OpKnown(Do(what))
      BY CallFacts
    <3> QED BY <1>2, <3>1 DEF EndCallSet, Calls
  <2> QED BY <1>2, <2>1, <2>2 DEF EndCallSet, Ending
<1> QED BY <1>1, <1>2 DEF EndOps

LEMMA EndRanks ==
  /\ Rank(Do("end_record")) = EndRank /\ Rank(Do("metrics_destroy")) = FetchRank
  /\ Rank(Do("close")) = CloseRank /\ Rank(Do("finalize")) = 34
  /\ \A m \in Monitors : /\ Rank(Op("stop", m)) = StopRank[m[1]] /\ Rank(Op("join", m)) = StopRank[m[1]]
                         /\ Rank(Op("destroy", m)) = DestroyRank[m[1]]
                         /\ Rank(Op("make", m)) = MakeRank[m[1]] /\ Rank(Op("start", m)) = StartRank[m[1]]
                         /\ StopRank[m[1]] \in Nat /\ DestroyRank[m[1]] \in Nat
                         /\ StopRank[m[1]] < DestroyRank[m[1]] /\ StopRank[m[1]] < EndRank
                         /\ StopRank[m[1]] > 20 /\ DestroyRank[m[1]] < FetchRank
<1>1. /\ CallRank["end_record"] = 32 /\ CallRank["metrics_destroy"] = 42 /\ CallRank["close"] = 43
      /\ CallRank["finalize"] = 34
  BY DEF CallRank
<1>2. /\ Rank(Do("end_record")) = EndRank /\ Rank(Do("metrics_destroy")) = FetchRank
      /\ Rank(Do("close")) = CloseRank /\ Rank(Do("finalize")) = 34
  BY <1>1, CallFacts DEF Calls, EndRank, FetchRank, CloseRank
<1>3. ASSUME NEW m \in Monitors
      PROVE  /\ Rank(Op("stop", m)) = StopRank[m[1]] /\ Rank(Op("join", m)) = StopRank[m[1]]
             /\ Rank(Op("destroy", m)) = DestroyRank[m[1]]
             /\ Rank(Op("make", m)) = MakeRank[m[1]] /\ Rank(Op("start", m)) = StartRank[m[1]]
  <2>1. \A do : Rank(Op(do, m)) = RankOf(do, m[1])
    BY DEF Rank, Op
  <2> QED BY <2>1, MonitorShape DEF RankOf
<1>4. ASSUME NEW kind \in Kinds
      PROVE  /\ StopRank[kind] \in Nat /\ DestroyRank[kind] \in Nat
             /\ StopRank[kind] < DestroyRank[kind] /\ StopRank[kind] < EndRank
             /\ StopRank[kind] > 20 /\ DestroyRank[kind] < FetchRank
  BY DEF Kinds, StopRank, DestroyRank, EndRank, FetchRank
<1> QED BY <1>2, <1>3, <1>4, MonitorShape

LEMMA EndSequences ==
  /\ Ends(Members) /\ \A op \in Ops(Members) : Rank(op) >= 35
  /\ \A s \in {Finish, Unwind("posix"), Unwind("scope"), DestroyScopes \o MainDestructor} :
       Ends(s) /\ Do("end_record") \in Ops(s)
<1>0. 1 \in Nat /\ 43 \in Nat /\ CloseRank = 43
  BY DEF CloseRank
<1>1. Ops(Members) \subseteq EndOps /\ Do("metrics_destroy") \in Ops(Members) /\ Do("close") \in Ops(Members)
  BY MembersFacts DEF EndOps, EndCallSet
<1>2. Ends(Members)
  BY <1>0, <1>1, MembersFacts, OrderedWider DEF Ends
<1>3. \A op \in Ops(Members) : Rank(op) >= 35
  BY MembersFacts DEF Ordered, Ops
<1>4. /\ Ops(MainDestructor) \subseteq EndOps /\ Do("metrics_destroy") \in Ops(MainDestructor)
      /\ Do("close") \in Ops(MainDestructor) /\ Do("end_record") \in Ops(MainDestructor)
  BY <1>1, MainDestructorFacts, StopMonitorsFacts DEF EndOps, EndCallSet
<1>5. Ops(StopScopes) \subseteq EndOps /\ Ops(DestroyScopes) \subseteq EndOps
  BY ScopesFacts DEF EndOps, StopOrder, DestroyOrder
<1>6. Op("stop", <<"posix", 1>>) \in EndOps /\ Op("destroy", <<"posix", 1>>) \in EndOps
  BY MonitorMembers DEF EndOps, StopOrder, DestroyOrder
<1>7. Ends(Finish) /\ Do("end_record") \in Ops(Finish)
  BY <1>0, <1>4, <1>5, <1>6, FinishFacts, OrderedWider DEF Ends
<1>8. Ends(Unwind("posix")) /\ Do("end_record") \in Ops(Unwind("posix"))
  BY <1>0, <1>4, <1>6, UnwindFacts, OrderedWider DEF Ends
<1>9. Ends(Unwind("scope")) /\ Do("end_record") \in Ops(Unwind("scope"))
  BY <1>0, <1>4, <1>5, UnwindFacts, OrderedWider DEF Ends
<1>10. Ends(DestroyScopes \o MainDestructor) /\ Do("end_record") \in Ops(DestroyScopes \o MainDestructor)
  BY <1>0, <1>4, <1>5, UnwindFacts, OrderedWider DEF Ends
<1> QED BY <1>2, <1>3, <1>7, <1>8, <1>9, <1>10

-----------------------------------------------------------------------------
(* The constructors                                                        *)

Builds(op) == OpKnown(op) /\ op.do \in Building

LEMMA BuildsMonitor ==
  ASSUME NEW m, Possible(m), NEW do \in {"make", "start"}
  PROVE  Builds(Op(do, m))
<1>1. Op(do, m).do = do /\ Op(do, m).m = m /\ m \in Monitors
  BY DEF Op, Possible
<1> QED BY <1>1 DEF Builds, OpKnown, Building, OnMonitor

LEMMA PossibleFacts ==
  /\ "tracepoint" \in enabled => \A i \in 1 .. Cpus : Possible(<<"tracepoint", i>>)
  /\ "bio" \in enabled => Possible(<<"bio", 1>>)
  /\ "sensors" \in enabled => Possible(<<"sensors", 1>>)
  /\ \A i \in 1 .. Cpus : Possible(<<"adapt", i>>)
  /\ \A i \in 1 .. Packages : Possible(<<"node", i>>)
  /\ \A i \in 1 .. Counters : Possible(<<"energy", i>>)
  /\ Possible(<<"socket", 1>>)
  /\ mode = "process" => Possible(<<"posix", 1>>)
  /\ \A i \in 1 .. Scopes : Possible(<<"scope", i>>)
  BY MonitorMembers, ScopesFacts DEF Possible

LEMMA AdaptFacts ==
  /\ Ordered(MakeAdapt \o StartAdapt, 6, 9)
  /\ \A op \in Ops(MakeAdapt \o StartAdapt) : Builds(op)
<1> DEFINE ma == Each("make", "adapt", Cpus)
           mn == Each("make", "node", Packages)
           sa == Each("start", "adapt", Cpus)
           sn == Each("start", "node", Packages)
<1>0. Cpus \in Nat /\ Packages \in Nat
  BY CountsAssumption
<1>1. /\ RankOf("make", "adapt") = 6 /\ RankOf("make", "node") = 7
      /\ RankOf("start", "adapt") = 8 /\ RankOf("start", "node") = 9
  BY DEF RankOf, MakeRank, StartRank, Kinds
<1>2. Ordered(ma, 6, 6) /\ Ops(ma) = {Op("make", <<"adapt", i>>) : i \in 1 .. Cpus}
  BY <1>0, <1>1, EachFacts
<1>3. Ordered(mn, 7, 7) /\ Ops(mn) = {Op("make", <<"node", i>>) : i \in 1 .. Packages}
  BY <1>0, <1>1, EachFacts
<1>4. Ordered(sa, 8, 8) /\ Ops(sa) = {Op("start", <<"adapt", i>>) : i \in 1 .. Cpus}
  BY <1>0, <1>1, EachFacts
<1>5. Ordered(sn, 9, 9) /\ Ops(sn) = {Op("start", <<"node", i>>) : i \in 1 .. Packages}
  BY <1>0, <1>1, EachFacts
<1>6. MakeAdapt = ma \o mn /\ StartAdapt = sa \o sn
  BY DEF MakeAdapt, StartAdapt
<1> HIDE DEF ma, mn, sa, sn
<1>7. Ordered(MakeAdapt, 6, 7) /\ Ops(MakeAdapt) = Ops(ma) \cup Ops(mn)
  <2>1. Ordered(ma, 6, 6) /\ Ordered(mn, 7, 7)
    BY <1>2, <1>3
  <2> QED BY ONLY <1>6, <2>1, Chain
<1>8. Ordered(StartAdapt, 8, 9) /\ Ops(StartAdapt) = Ops(sa) \cup Ops(sn)
  <2>1. Ordered(sa, 8, 8) /\ Ordered(sn, 9, 9)
    BY <1>4, <1>5
  <2> QED BY ONLY <1>6, <2>1, Chain
<1>9. /\ Ordered(MakeAdapt \o StartAdapt, 6, 9)
      /\ Ops(MakeAdapt \o StartAdapt) = Ops(MakeAdapt) \cup Ops(StartAdapt)
  <2>1. Ordered(MakeAdapt, 6, 7) /\ Ordered(StartAdapt, 8, 9)
    BY <1>7, <1>8
  <2> QED BY ONLY <2>1, Chain
<1>10. \A op \in Ops(ma) \cup Ops(mn) : Builds(op)
  BY <1>2, <1>3, PossibleFacts, BuildsMonitor
<1>11. \A op \in Ops(sa) \cup Ops(sn) : Builds(op)
  BY <1>4, <1>5, PossibleFacts, BuildsMonitor
<1> QED BY <1>7, <1>8, <1>9, <1>10, <1>11

LEMMA EnergyFacts ==
  /\ Ordered(MakeEnergy \o StartEnergy, 10, 11)
  /\ \A op \in Ops(MakeEnergy \o StartEnergy) : Builds(op)
<1>0. Counters \in Nat
  BY CountsAssumption
<1>1. RankOf("make", "energy") = 10 /\ RankOf("start", "energy") = 11
  BY DEF RankOf, MakeRank, StartRank, Kinds
<1>2. Ordered(MakeEnergy, 10, 10) /\ Ops(MakeEnergy) = {Op("make", <<"energy", i>>) : i \in 1 .. Counters}
  BY <1>0, <1>1, EachFacts DEF MakeEnergy
<1>3. Ordered(StartEnergy, 11, 11) /\ Ops(StartEnergy) = {Op("start", <<"energy", i>>) : i \in 1 .. Counters}
  BY <1>0, <1>1, EachFacts DEF StartEnergy
<1>4. /\ Ordered(MakeEnergy \o StartEnergy, 10, 11)
      /\ Ops(MakeEnergy \o StartEnergy) = Ops(MakeEnergy) \cup Ops(StartEnergy)
  <2>1. Ordered(MakeEnergy, 10, 10) /\ Ordered(StartEnergy, 11, 11)
    BY <1>2, <1>3
  <2> QED BY ONLY <2>1, Chain
<1>5. \A op \in Ops(MakeEnergy) \cup Ops(StartEnergy) : Builds(op)
  BY <1>2, <1>3, PossibleFacts, BuildsMonitor
<1> QED BY <1>4, <1>5

(* The piece of the constructor for a kind of which there is one monitor.  *)
LEMMA OneBuilds ==
  ASSUME NEW kind, NEW r \in Nat, RankOf("make", kind) = r, RankOf("start", kind) = r + 1,
         kind \in enabled => Possible(<<kind, 1>>)
  PROVE  /\ Ordered(If(kind, MakeAndStart(kind, 1)), r, r + 1)
         /\ \A op \in Ops(If(kind, MakeAndStart(kind, 1))) : Builds(op)
         /\ kind \in enabled => Op("make", <<kind, 1>>) \in Ops(If(kind, MakeAndStart(kind, 1)))
<1>1. /\ Ordered(MakeAndStart(kind, 1), r, r + 1)
      /\ Ops(MakeAndStart(kind, 1)) = {Op("make", <<kind, 1>>), Op("start", <<kind, 1>>)}
  BY PairFacts
<1>2. /\ Ordered(If(kind, MakeAndStart(kind, 1)), r, r + 1)
      /\ Ops(If(kind, MakeAndStart(kind, 1))) = IF kind \in enabled THEN Ops(MakeAndStart(kind, 1)) ELSE {}
  BY <1>1, IfFacts
<1> QED BY <1>1, <1>2, BuildsMonitor

LEMMA ManyBuilds ==
  ASSUME NEW kind, NEW n \in Nat, NEW r \in Nat, RankOf("make", kind) = r, RankOf("start", kind) = r,
         \A i \in 1 .. n : Possible(<<kind, i>>)
  PROVE  /\ Ordered(MakeAndStart(kind, n), r, r)
         /\ \A op \in Ops(MakeAndStart(kind, n)) : Builds(op)
<1>1. /\ Ordered(MakeAndStart(kind, n), r, r)
      /\ \A op \in Ops(MakeAndStart(kind, n)) :
           op.do \in {"make", "start"} /\ \E i \in 1 .. n : op = Op(op.do, <<kind, i>>)
  BY ManyFacts
<1>2. ASSUME NEW op \in Ops(MakeAndStart(kind, n)) PROVE Builds(op)
  <2>1. PICK i \in 1 .. n : op = Op(op.do, <<kind, i>>)
    BY <1>1
  <2>2. op.do \in {"make", "start"} /\ Possible(<<kind, i>>)
    BY <1>1
  <2> QED BY <2>1, <2>2, BuildsMonitor
<1> QED BY <1>1, <1>2

LEMMA ConstructFacts ==
  /\ Ordered(Construct, 1, 20)
  /\ \A op \in Ops(Construct) : Builds(op)
  /\ \A kind \in {"bio", "sensors"} : kind \in enabled => Op("make", <<kind, 1>>) \in Ops(Construct)
<1> DEFINE fst == <<Do("metrics_start"), Do("begin_record")>>
           tr == If("tracepoint", MakeAndStart("tracepoint", Cpus))
           bi == If("bio", MakeAndStart("bio", 1))
           ad == If("adapt", MakeAdapt \o StartAdapt)
           en == If("energy", MakeEnergy \o StartEnergy)
           se == If("sensors", MakeSensors)
           so == MakeAndStart("socket", 1)
           sub == IF mode = "process" THEN ProcessConstructor ELSE CpuSetConstructor
           rn == <<Do("run")>>
<1>1. /\ RankOf("make", "tracepoint") = 3 /\ RankOf("start", "tracepoint") = 3
      /\ RankOf("make", "bio") = 4 /\ RankOf("start", "bio") = 5
      /\ RankOf("make", "sensors") = 12 /\ RankOf("start", "sensors") = 13
      /\ RankOf("make", "socket") = 14 /\ RankOf("start", "socket") = 15
      /\ RankOf("make", "posix") = 16 /\ RankOf("start", "posix") = 17
      /\ RankOf("make", "scope") = 18 /\ RankOf("start", "scope") = 18
  BY DEF RankOf, MakeRank, StartRank, Kinds
<1>2. Ordered(fst, 1, 2) /\ \A op \in Ops(fst) : Builds(op)
  <2>1. /\ "metrics_start" \in Calls /\ "begin_record" \in Calls
        /\ CallRank["metrics_start"] = 1 /\ CallRank["begin_record"] = 2
    BY DEF Calls, CallRank
  <2>2. /\ Rank(Do("metrics_start")) = 1 /\ Rank(Do("begin_record")) = 2
        /\ OpKnown(Do("metrics_start")) /\ OpKnown(Do("begin_record"))
        /\ Do("metrics_start").do = "metrics_start" /\ Do("begin_record").do = "begin_record"
    BY <2>1, CallFacts
  <2>3. Precedes(Do("metrics_start"), Do("begin_record"))
    BY <2>2, LowerPrecedes
  <2>4. Ordered(fst, 1, 2) /\ Ops(fst) = {Do("metrics_start"), Do("begin_record")}
    BY <2>2, <2>3, TwoFacts
  <2> QED BY <2>2, <2>4 DEF Builds, Building
<1>3. Ordered(tr, 3, 3) /\ \A op \in Ops(tr) : Builds(op)
  <2>1. CASE "tracepoint" \in enabled
    <3>1. Cpus \in Nat /\ tr = MakeAndStart("tracepoint", Cpus) /\ \A i \in 1 .. Cpus : Possible(<<"tracepoint", i>>)
      BY <2>1, CountsAssumption, PossibleFacts DEF If
    <3> HIDE DEF tr
    <3> QED BY <1>1, <3>1, ManyBuilds
  <2>2. CASE "tracepoint" \notin enabled
    <3>1. tr = <<>>
      BY <2>2 DEF If
    <3> HIDE DEF tr
    <3> QED BY <3>1, OrderedEmpty
  <2> QED BY <2>1, <2>2
<1>4. /\ Ordered(bi, 4, 5) /\ \A op \in Ops(bi) : Builds(op)
      /\ "bio" \in enabled => Op("make", <<"bio", 1>>) \in Ops(bi)
  <2>1. PICK r \in Nat : r = 4 /\ r + 1 = 5
    OBVIOUS
  <2> HIDE DEF bi
  <2>2. /\ Ordered(bi, r, r + 1) /\ \A op \in Ops(bi) : Builds(op)
        /\ "bio" \in enabled => Op("make", <<"bio", 1>>) \in Ops(bi)
    BY <1>1, <2>1, PossibleFacts, OneBuilds DEF bi
  <2> QED BY <2>1, <2>2
<1>5. Ordered(ad, 6, 9) /\ \A op \in Ops(ad) : Builds(op)
  BY AdaptFacts, IfFacts
<1>6. Ordered(en, 10, 11) /\ \A op \in Ops(en) : Builds(op)
  BY EnergyFacts, IfFacts
<1>7. /\ Ordered(se, 12, 13) /\ \A op \in Ops(se) : Builds(op)
      /\ "sensors" \in enabled => Op("make", <<"sensors", 1>>) \in Ops(se)
  <2>1. PICK r \in Nat : r = 12 /\ r + 1 = 13
    OBVIOUS
  <2> HIDE DEF se
  <2>2. /\ Ordered(se, r, r + 1) /\ \A op \in Ops(se) : Builds(op)
        /\ "sensors" \in enabled => Op("make", <<"sensors", 1>>) \in Ops(se)
    BY <1>1, <2>1, PossibleFacts, OneBuilds DEF se, MakeSensors
  <2> QED BY <2>1, <2>2
<1>8. Ordered(so, 14, 15) /\ \A op \in Ops(so) : Builds(op)
  <2>1. PICK r \in Nat : r = 14 /\ r + 1 = 15
    OBVIOUS
  <2> HIDE DEF so
  <2>2. Ordered(so, r, r + 1) /\ Ops(so) = {Op("make", <<"socket", 1>>), Op("start", <<"socket", 1>>)}
    BY <1>1, <2>1, PairFacts DEF so
  <2> QED BY <2>1, <2>2, PossibleFacts, BuildsMonitor
<1>9. Ordered(sub, 16, 18) /\ \A op \in Ops(sub) : Builds(op)
  <2>1. CASE mode = "process"
    <3>1. PICK r \in Nat : r = 16 /\ r + 1 = 17
      OBVIOUS
    <3>2. sub = If("posix", MakeAndStart("posix", 1))
      BY <2>1 DEF ProcessConstructor
    <3> HIDE DEF sub
    <3>3. Ordered(sub, r, r + 1) /\ \A op \in Ops(sub) : Builds(op)
      BY <1>1, <2>1, <3>1, <3>2, PossibleFacts, OneBuilds
    <3>4. 16 \in Nat /\ 17 \in Nat /\ 18 \in Nat
      OBVIOUS
    <3>5. Ordered(sub, 16, 17)
      BY <3>1, <3>3
    <3> QED BY <3>3, <3>4, <3>5, OrderedWider
  <2>2. CASE mode # "process"
    <3>1. sub = MakeAndStart("scope", Cpus) /\ Cpus \in Nat /\ \A i \in 1 .. Cpus : Possible(<<"scope", i>>)
      BY <2>2, CountsAssumption, PossibleFacts DEF CpuSetConstructor, Scopes
    <3> HIDE DEF sub
    <3>2. Ordered(sub, 18, 18) /\ \A op \in Ops(sub) : Builds(op)
      BY <1>1, <3>1, ManyBuilds
    <3>3. 16 \in Nat /\ 18 \in Nat
      OBVIOUS
    <3> QED BY <3>2, <3>3, OrderedWider
  <2> QED BY <2>1, <2>2
<1>10. Ordered(rn, 20, 20) /\ \A op \in Ops(rn) : Builds(op)
  <2>1. "run" \in Calls /\ CallRank["run"] = 20
    BY DEF Calls, CallRank
  <2>2. /\ Ordered(<<Do("run")>>, CallRank["run"], CallRank["run"]) /\ Ops(<<Do("run")>>) = {Do("run")}
        /\ OpKnown(Do("run")) /\ Do("run").do = "run"
    BY <2>1, CallFacts
  <2> QED BY <2>1, <2>2 DEF Builds, Building
<1> DEFINE s1 == fst \o tr
           s2 == s1 \o bi
           s3 == s2 \o ad
           s4 == s3 \o en
           s5 == s4 \o se
           s6 == s5 \o so
           s7 == s6 \o sub
           s8 == s7 \o rn
<1>11. Construct = s8
  BY DEF Construct, MainConstructor
<1> HIDE DEF fst, tr, bi, ad, en, se, so, sub, rn, s1, s2, s3, s4, s5, s6, s7, s8
<1>12. Ordered(s1, 1, 3) /\ Ops(s1) = Ops(fst) \cup Ops(tr)
  <2>1. Ordered(fst, 1, 2) /\ Ordered(tr, 3, 3)
    BY <1>2, <1>3
  <2> QED BY ONLY <2>1, Chain DEF s1
<1>13. Ordered(s2, 1, 5) /\ Ops(s2) = Ops(s1) \cup Ops(bi)
  <2>1. Ordered(s1, 1, 3) /\ Ordered(bi, 4, 5)
    BY <1>12, <1>4
  <2> QED BY ONLY <2>1, Chain DEF s2
<1>14. Ordered(s3, 1, 9) /\ Ops(s3) = Ops(s2) \cup Ops(ad)
  <2>1. Ordered(s2, 1, 5) /\ Ordered(ad, 6, 9)
    BY <1>13, <1>5
  <2> QED BY ONLY <2>1, Chain DEF s3
<1>15. Ordered(s4, 1, 11) /\ Ops(s4) = Ops(s3) \cup Ops(en)
  <2>1. Ordered(s3, 1, 9) /\ Ordered(en, 10, 11)
    BY <1>14, <1>6
  <2> QED BY ONLY <2>1, Chain DEF s4
<1>16. Ordered(s5, 1, 13) /\ Ops(s5) = Ops(s4) \cup Ops(se)
  <2>1. Ordered(s4, 1, 11) /\ Ordered(se, 12, 13)
    BY <1>15, <1>7
  <2> QED BY ONLY <2>1, Chain DEF s5
<1>17. Ordered(s6, 1, 15) /\ Ops(s6) = Ops(s5) \cup Ops(so)
  <2>1. Ordered(s5, 1, 13) /\ Ordered(so, 14, 15)
    BY <1>16, <1>8
  <2> QED BY ONLY <2>1, Chain DEF s6
<1>18. Ordered(s7, 1, 18) /\ Ops(s7) = Ops(s6) \cup Ops(sub)
  <2>1. Ordered(s6, 1, 15) /\ Ordered(sub, 16, 18)
    BY <1>17, <1>9
  <2> QED BY ONLY <2>1, Chain DEF s7
<1>19. Ordered(s8, 1, 20) /\ Ops(s8) = Ops(s7) \cup Ops(rn)
  <2>1. Ordered(s7, 1, 18) /\ Ordered(rn, 20, 20)
    BY <1>18, <1>10
  <2> QED BY ONLY <2>1, Chain DEF s8
<1>20. Ops(Construct) = Ops(fst) \cup Ops(tr) \cup Ops(bi) \cup Ops(ad) \cup Ops(en) \cup Ops(se)
                          \cup Ops(so) \cup Ops(sub) \cup Ops(rn)
  BY <1>11, <1>12, <1>13, <1>14, <1>15, <1>16, <1>17, <1>18, <1>19
<1>21. \A op \in Ops(Construct) : Builds(op)
  BY <1>2, <1>3, <1>4, <1>5, <1>6, <1>7, <1>8, <1>9, <1>10, <1>20
<1> QED BY <1>4, <1>7, <1>11, <1>19, <1>20, <1>21


-----------------------------------------------------------------------------
(* Steps of the main thread                                                *)

LEMMA TodoRanks ==
  ASSUME TodoInv
  PROVE  IsSequence(todo) /\ \A op \in Ops(todo) : Rank(op) \in Nat /\ OpKnown(op)
<1>1. CloseRank \in Nat
  BY DEF CloseRank
<1>2. \A op \in Ops(todo) : Rank(op) \in 1 .. CloseRank
  BY DEF TodoInv, Ordered, Ops
<1> QED BY <1>1, <1>2 DEF TodoInv, Ordered, OpsKnown

(* What is done now comes before everything else that is left.             *)
LEMMA ThisFacts ==
  ASSUME TodoInv, todo # <<>>
  PROVE  /\ This \in Ops(todo) /\ OpKnown(This)
         /\ Ops(todo) = {This} \cup Ops(Tail(todo))
         /\ \A op \in Ops(Tail(todo)) : Precedes(This, op)
         /\ \A op \in Ops(todo) : Rank(This) <= Rank(op)
         /\ Later(todo, Tail(todo), 1)
<1>1. IsSequence(todo) /\ Ordered(todo, 1, CloseRank)
  BY TodoRanks DEF TodoInv
<1>2. This \in Ops(todo) /\ Ops(todo) = {This} \cup Ops(Tail(todo))
  BY <1>1, OpsTail DEF This
<1>3. \A op \in Ops(Tail(todo)) : Precedes(This, op)
  BY <1>1, HeadPrecedes DEF This
<1>4. Later(todo, Tail(todo), 1)
  BY <1>1, TailLater
<1>5. Rank(This) \in Nat /\ OpKnown(This)
  BY <1>2, TodoRanks
<1>6. \A op \in Ops(todo) : Rank(This) <= Rank(op)
  BY <1>2, <1>3, <1>5 DEF Precedes
<1> QED BY <1>2, <1>3, <1>4, <1>5, <1>6

(* What operates on a monitor, and what does not.                          *)
LEMMA KnownFacts ==
  ASSUME NEW op, OpKnown(op)
  PROVE  /\ op = Op(op.do, op.m)
         /\ op.do \in OnMonitor => op.m \in Monitors /\ op.m[1] \in Kinds
         /\ op.do \in Calls => op = Do(op.do) /\ op.m \notin Monitors
         /\ op.do \in OnMonitor \cup Calls
         /\ op.m \in Monitors => op.do \in OnMonitor
<1>1. <<"", 0>> \notin Monitors
  <2>1. <<"", 0>>[1] \notin Kinds
    BY DEF Kinds
  <2> QED BY <2>1, MonitorShape
<1>2. OnMonitor \cap Calls = {}
  BY DEF OnMonitor, Calls
<1>3. op = Op(op.do, op.m)
  BY DEF OpKnown
<1>4. CASE op.do \in OnMonitor /\ op.m \in Monitors
  BY <1>2, <1>3, <1>4, MonitorShape
<1>5. CASE op.do \in Calls /\ op.m = <<"", 0>>
  BY <1>1, <1>2, <1>3, <1>5 DEF Do
<1> QED BY <1>4, <1>5 DEF OpKnown

(* What ranks behind something that is left is left.                       *)
LEMMA LaterKeeps ==
  ASSUME NEW s, NEW t, NEW k, NEW lo \in Nat, NEW hi \in Nat, Ordered(s, lo, hi), Later(s, t, k),
         NEW x \in Ops(t), NEW y \in Ops(s), Rank(x) < Rank(y)
  PROVE  y \in Ops(t)
<1>1. /\ k \in Nat /\ Len(s) \in Nat /\ Len(t) \in Nat /\ DOMAIN s = 1 .. Len(s) /\ DOMAIN t = 1 .. Len(t)
      /\ Len(t) = Len(s) - k
      /\ \A i \in DOMAIN t : i + k \in DOMAIN s /\ t[i] = s[i + k]
  BY LaterFacts, SequenceFacts DEF Ordered, Later
<1>2. PICK i \in DOMAIN t : x = t[i]
  BY DEF Ops
<1>3. PICK j \in DOMAIN s : y = s[j]
  BY DEF Ops
<1>4. x = s[i + k] /\ i + k \in DOMAIN s
  BY <1>1, <1>2
<1>5. Rank(x) \in Nat /\ Rank(y) \in Nat
  BY <1>3, <1>4 DEF Ordered
<1>6. ~(j <= i + k)
  <2>1. ASSUME j = i + k PROVE FALSE
    BY <1>3, <1>4, <1>5, <2>1
  <2>2. ASSUME j < i + k PROVE FALSE
    <3>1. Precedes(y, x)
      BY <1>3, <1>4, <2>2 DEF Ordered
    <3> QED BY <1>5, <3>1 DEF Precedes
  <2> QED BY <1>1, <1>2, <1>3, <2>1, <2>2
<1> DEFINE p == j - k
<1>7. p \in DOMAIN t /\ p + k = j
  BY <1>1, <1>2, <1>3, <1>6
<1> HIDE DEF p
<1>8. t[p] = y
  BY <1>1, <1>3, <1>7
<1> QED BY <1>7, <1>8 DEF Ops

LEMMA NothingLater ==
  ASSUME NEW s, IsSequence(s)
  PROVE  Later(s, s, 0)
<1>1. Len(s) \in Nat
  BY SequenceFacts
<1>2. \A i \in 1 .. Len(s) : i + 0 = i
  BY <1>1
<1> QED BY <1>1, <1>2 DEF Later

(* The options stay as they are.                                           *)
LEMMA ConfigKept ==
  ASSUME UNCHANGED config
  PROVE  /\ mode' = mode /\ enabled' = enabled /\ Scopes' = Scopes
         /\ \A m : Possible(m)' <=> Possible(m)
         /\ \A op : OpKnown(op)' <=> OpKnown(op)
<1>1. mode' = mode /\ enabled' = enabled /\ Scopes' = Scopes
  BY DEF config, Scopes
<1>2. \A m : Possible(m)' <=> Possible(m)
  BY <1>1 DEF Possible
<1> QED BY <1>1, <1>2 DEF OpKnown

LEMMA LeastOf ==
  ASSUME NEW S, S \subseteq Nat, S # {}
  PROVE  LET x == Min(S) IN x \in S /\ \A y \in S : x <= y
<1>1. \E x \in S : \A y \in S : ~ (<<y, x>> \in OpToRel(<, Nat))
  BY NatLessThanWellFounded, WFMin
<1>2. PICK x \in S : \A y \in S : ~ (<<y, x>> \in OpToRel(<, Nat))
  BY <1>1
<1>3. ASSUME NEW y \in S PROVE x <= y
  <2>1. x \in Nat /\ y \in Nat
    OBVIOUS
  <2>2. ~ (y < x)
    BY <1>2, <2>1 DEF OpToRel
  <2> QED BY <2>1, <2>2
<1> QED BY <1>3 DEF Min

(* Behind the try block only operations of the one that failed are gone.   *)
LEMMA BehindFacts ==
  ASSUME TodoInv, todo # <<>>, NEW t, t = SubSeq(todo, Behind(This), Len(todo))
  PROVE  \E k : /\ Later(todo, t, k)
                /\ \A op \in Ops(todo) : op \in Ops(t) \/ Group(op.m[1]) = Group(This.m[1])
<1> DEFINE n == Len(todo)
           S == {i \in 1 .. n + 1 : i <= n => Group(todo[i].m[1]) # Group(This.m[1])}
           b == Behind(This)
           k == b - 1
<1>1. IsSequence(todo) /\ n \in Nat /\ DOMAIN todo = 1 .. n
  BY TodoRanks, SequenceFacts
<1>2. S \subseteq Nat /\ S # {}
  <2>1. n + 1 \in S
    BY <1>1
  <2> QED BY <1>1, <2>1
<1>3. b = Min(S)
  BY DEF Behind
<1> HIDE DEF S
<1>4. b \in S /\ \A i \in S : b <= i
  BY <1>2, <1>3, LeastOf
<1>5. b \in 1 .. n + 1
  BY <1>4 DEF S
<1>6. ASSUME NEW i \in 1 .. n, i < b PROVE Group(todo[i].m[1]) = Group(This.m[1])
  <2>1. i \notin S /\ i \in 1 .. n + 1
    BY <1>1, <1>2, <1>4, <1>5, <1>6
  <2> QED BY <1>1, <2>1 DEF S
<1> DEFINE R == {todo[i] : i \in DOMAIN todo}
<1>7. todo \in Seq(R)
  BY <1>1 DEF IsSequence
<1> HIDE DEF R, n, b
<1>8. /\ t \in Seq(R) /\ Len(t) = n - k
      /\ \A i \in 1 .. Len(t) : t[i] = todo[i + k]
  <2>1. b \in 1 .. Len(todo) + 1 /\ n \in Nat /\ n = Len(todo) /\ t = SubSeq(todo, b, Len(todo))
    BY <1>1, <1>5 DEF n, b
  <2>2. CASE b <= n
    <3>1. b \in 1 .. Len(todo) /\ Len(todo) \in b .. Len(todo)
      BY <2>1, <2>2
    <3>2. /\ SubSeq(todo, b, Len(todo)) \in Seq(R)
          /\ Len(SubSeq(todo, b, Len(todo))) = (IF b <= Len(todo) THEN Len(todo) - b + 1 ELSE 0)
          /\ \A i \in 1 .. Len(todo) - b + 1 : SubSeq(todo, b, Len(todo))[i] = todo[b + i - 1]
      BY <1>7, <3>1, SubSeqProperties
    <3>3. Len(t) = n - k /\ Len(t) = Len(todo) - b + 1
      BY <2>1, <2>2, <3>2
    <3>4. \A i \in 1 .. Len(t) : b + i - 1 = i + k
      BY <2>1, <3>3
    <3> QED BY <2>1, <3>2, <3>3, <3>4
  <2>3. CASE ~(b <= n)
    <3>1. b = n + 1 /\ k = n
      BY <2>1, <2>3
    <3>2. t = <<>>
      BY <2>1, <3>1, <1>7, SubSeqProperties
    <3>3. Len(<<>>) = 0 /\ <<>> \in Seq(R) /\ n - n = 0 /\ \A i \in 1 .. 0 : FALSE
      BY <2>1
    <3> QED BY <3>1, <3>2, <3>3
  <2> QED BY <2>2, <2>3
<1>9. k \in 0 .. Len(todo)
  BY <1>1, <1>5 DEF n
<1>10. Later(todo, t, k)
  BY <1>8, <1>9, SeqIsSequence DEF Later, n
<1>11. ASSUME NEW op \in Ops(todo) PROVE op \in Ops(t) \/ Group(op.m[1]) = Group(This.m[1])
  <2>1. PICK i \in 1 .. n : op = todo[i]
    BY <1>1 DEF Ops, n
  <2>2. CASE i < b
    BY <1>6, <2>1, <2>2
  <2>3. CASE ~(i < b)
    <3> DEFINE j == i - k
    <3>1. j \in 1 .. Len(t) /\ j + k = i
      BY <1>1, <1>5, <1>8, <2>1, <2>3 DEF n
    <3> HIDE DEF j, k
    <3>2. t[j] = op /\ j \in DOMAIN t
      BY <1>8, <2>1, <3>1, SeqIsSequence, SequenceFacts
    <3> QED BY <3>2 DEF Ops
  <2> QED BY <2>2, <2>3
<1> HIDE DEF k
<1> QED BY <1>10, <1>11

(* The main thread goes on with what it has to do.                         *)
LEMMA AheadTodo ==
  ASSUME TodoInv, UNCHANGED config, phase' = phase, NEW k, Later(todo, todo', k),
         \A m \in Monitors : state'[m] # "none" => Possible(m)
  PROVE  TodoInv'
<1>1. Ordered(todo, 1, CloseRank)
  BY DEF TodoInv
<1>2. /\ Ordered(todo', 1, CloseRank) /\ Ops(todo') \subseteq Ops(todo)
      /\ \A i \in DOMAIN todo' : i + k \in DOMAIN todo /\ todo'[i] = todo[i + k]
      /\ k \in Nat /\ \A i \in DOMAIN todo' : i \in Nat
  BY <1>1, LaterFacts
<1>3. OpsKnown(todo)'
  BY <1>2, ConfigKept DEF TodoInv, OpsKnown
<1>4. ByPhase(phase, todo)'
  BY <1>2, ConfigKept DEF TodoInv, ByPhase
<1>5. ASSUME NEW i \in DOMAIN todo', todo'[i].do = "join" PROVE i = 1
  <2>1. i + k \in DOMAIN todo /\ todo[i + k].do = "join" /\ i \in Nat /\ k \in Nat
    BY <1>2, <1>5
  <2>2. i + k = 1
    BY <2>1 DEF TodoInv
  <2>3. DOMAIN todo' = 1 .. Len(todo') /\ Len(todo') \in Nat
    BY <1>2, SequenceFacts DEF Ordered
  <2> QED BY <2>1, <2>2, <2>3
<1>6. \A m \in Monitors : state'[m] # "none" => Possible(m)'
  BY ConfigKept
<1> QED BY <1>2, <1>3, <1>4, <1>5, <1>6 DEF TodoInv, CloseRank

NothingStarts == \A m \in Monitors : Joinable(m)' => Joinable(m)

(* Before the end nothing is to be said about it.                          *)
LEMMA BeforeEnd ==
  ASSUME TodoInv', phase' \in {"construct", "run"}
  PROVE  AllCovered' /\ EndInv' /\ FinalizedAlone'
<1>1. \A op \in Ops(todo') : op.do \notin {"end_record", "finalize", "close"}
  BY DEF TodoInv, ByPhase, Building, Threading
<1>2. phase' \notin {"destruct", "finalize", "close"}
  OBVIOUS
<1>3. AllCovered'
  BY <1>1 DEF AllCovered
<1>4. EndInv'
  BY <1>2 DEF EndInv, EndPhase
<1> QED BY <1>2, <1>3, <1>4 DEF FinalizedAlone

LEMMA AheadStarted ==
  ASSUME TodoInv, StartedInOrder, phase' = phase, NEW k, Later(todo, todo', k), NothingStarts
  PROVE  StartedInOrder'
<1>1. Ops(todo') \subseteq Ops(todo)
  BY LaterFacts DEF TodoInv
<1> QED BY <1>1 DEF StartedInOrder, NothingStarts

LEMMA RemainingLater ==
  ASSUME TodoInv, NEW t, NEW k, Later(todo, t, k), Remaining(todo)
  PROVE  Remaining(t)
<1>1. Ordered(todo, 1, CloseRank) /\ 1 \in Nat /\ CloseRank \in Nat
  BY DEF TodoInv, CloseRank
<1>2. Ops(t) \subseteq Ops(todo)
  BY <1>1, LaterFacts
<1>3. Rank(Do("end_record")) = EndRank /\ Rank(Do("metrics_destroy")) = FetchRank
  BY EndRanks
<1>4. ASSUME NEW op \in Ops(t), Rank(op) < EndRank PROVE Do("end_record") \in Ops(t)
  <2>1. Do("end_record") \in Ops(todo)
    BY <1>2, <1>4 DEF Remaining
  <2>2. Rank(op) < Rank(Do("end_record"))
    BY <1>3, <1>4
  <2> QED BY <1>1, <2>1, <2>2, LaterKeeps
<1>5. ASSUME NEW op \in Ops(t), Rank(op) < FetchRank PROVE Do("metrics_destroy") \in Ops(t)
  <2>1. Do("metrics_destroy") \in Ops(todo)
    BY <1>2, <1>5 DEF Remaining
  <2>2. Rank(op) < Rank(Do("metrics_destroy"))
    BY <1>3, <1>5
  <2> QED BY <1>1, <2>1, <2>2, LaterKeeps
<1> QED BY <1>4, <1>5 DEF Remaining

(* Who is not ended yet is still to be ended.                              *)
StillEnds ==
  \A op \in Ops(todo) : op.do \in {"stop", "join", "destroy"} /\ op.m \in Monitors /\ Joinable(op.m)' => op \in Ops(todo')

LEMMA AheadEnd ==
  ASSUME TodoInv, AllCovered, EndInv, FinalizedAlone, EndPhase, phase' = phase, NEW k, Later(todo, todo', k),
         NothingStarts, StillEnds, phase = "close" => ~crashed'
  PROVE  AllCovered' /\ EndInv' /\ FinalizedAlone'
<1>1. Ops(todo') \subseteq Ops(todo)
  BY LaterFacts DEF TodoInv
<1>2. AllCovered'
  <2>1. SUFFICES ASSUME NEW e \in Ops(todo'), e.do \in {"end_record", "finalize", "close"},
                        NEW m \in Monitors, Joinable(m)'
                 PROVE  Covered(todo', e, m)
    BY DEF AllCovered, Covered
  <2>2. Joinable(m) /\ e \in Ops(todo)
    BY <1>1, <2>1 DEF NothingStarts
  <2>3. PICK op \in Ops(todo) : op.m = m /\ op.do \in {"stop", "join", "destroy"} /\ Rank(op) < Rank(e)
    BY <2>1, <2>2 DEF AllCovered, Covered
  <2>4. op \in Ops(todo')
    BY <2>1, <2>3 DEF StillEnds
  <2> QED BY <2>3, <2>4 DEF Covered
<1>3. Remaining(todo')
  BY RemainingLater DEF EndInv
<1>4. EndInv'
  BY <1>1, <1>3 DEF EndInv, Remaining
<1>5. FinalizedAlone'
  BY DEF FinalizedAlone, NothingStarts
<1> QED BY <1>2, <1>4, <1>5

Orderly == TodoInv /\ StartedInOrder /\ AllCovered /\ EndInv /\ FinalizedAlone

LEMMA Ahead ==
  ASSUME LifeTypeOK, Orderly, UNCHANGED config, phase' = phase, NEW k, Later(todo, todo', k),
         \A m \in Monitors : state'[m] # "none" => Possible(m),
         NothingStarts, StillEnds, phase = "close" => ~crashed'
  PROVE  Orderly'
<1>1. TodoInv'
  BY AheadTodo DEF Orderly
<1>2. StartedInOrder'
  BY AheadStarted DEF Orderly
<1>3. CASE phase \in {"construct", "run"}
  BY <1>1, <1>2, <1>3, BeforeEnd DEF Orderly
<1>4. CASE EndPhase
  BY <1>1, <1>2, <1>4, AheadEnd DEF Orderly
<1> QED BY <1>3, <1>4 DEF LifeTypeOK, EndPhase

(* The main thread does not move, nor does a thread start or end.          *)
LEMMA Stays ==
  ASSUME LifeTypeOK, Orderly, UNCHANGED <<config, phase, todo, crashed>>,
         \A m \in Monitors : state'[m] # "none" => state[m] # "none", NothingStarts
  PROVE  Orderly'
<1>1. IsSequence(todo) /\ \A m \in Monitors : state[m] # "none" => Possible(m)
  BY TodoRanks DEF Orderly, TodoInv
<1>2. Later(todo, todo', 0)
  BY <1>1, NothingLater
<1>3. phase = "close" => ~crashed'
  BY DEF Orderly, EndInv
<1>4. StillEnds
  BY DEF StillEnds
<1>5. UNCHANGED config /\ phase' = phase
  BY DEF config
<1>6. \A m \in Monitors : state'[m] # "none" => Possible(m)
  BY <1>1
<1> QED BY <1>2, <1>3, <1>4, <1>5, <1>6, Ahead

LEMMA TailStep ==
  ASSUME LifeTypeOK, Orderly, Running, UNCHANGED config, phase' = phase, todo' = Tail(todo),
         \A m \in Monitors : state'[m] # "none" => Possible(m), NothingStarts,
         This.do \in {"stop", "join", "destroy"} => \A m \in Monitors : m = This.m => ~Joinable(m)',
         phase = "close" => ~crashed'
  PROVE  Orderly'
<1>1. /\ Ops(todo) = {This} \cup Ops(Tail(todo))
      /\ Later(todo, todo', 1)
  BY ThisFacts DEF Running, Orderly
<1>2. StillEnds
  BY <1>1 DEF StillEnds
<1> QED BY <1>1, <1>2, Ahead

LEMMA MonitorOp ==
  ASSUME Orderly, Running, This.do \in OnMonitor
  PROVE  This = Op(This.do, This.m) /\ This.m \in Monitors /\ This \in Ops(todo)
  BY ThisFacts, KnownFacts DEF Running, Orderly

LEMMA PossibleMade ==
  ASSUME Orderly, Running, This.do \in {"make", "start"}
  PROVE  This.m \in Monitors /\ Possible(This.m) /\ \A m \in Monitors : state[m] # "none" => Possible(m)
<1>1. OpKnown(This)
  BY ThisFacts DEF Running, Orderly
<1>2. Possible(This.m)
  BY <1>1 DEF OpKnown
<1> QED BY <1>2 DEF Possible, Orderly, TodoInv

LEMMA MakeOrderly ==
  ASSUME LifeTypeOK, Orderly, Make
  PROVE  Orderly' /\ NothingStarts
<1>1. Running /\ This.do = "make" /\ todo' = Tail(todo) /\ state' = [state EXCEPT ![This.m] = "made"]
  BY DEF Make, Went
<1>2. UNCHANGED config /\ phase' = phase /\ crashed' = crashed /\ ~crashed
  BY <1>1 DEF Make, Running
<1>3. This.m \in Monitors /\ Possible(This.m) /\ \A m \in Monitors : state[m] # "none" => Possible(m)
  BY <1>1, PossibleMade
<1>4. \A m \in Monitors : state'[m] = IF m = This.m THEN "made" ELSE state[m]
  BY <1>1, <1>3 DEF LifeTypeOK
<1>5. NothingStarts
  BY <1>4 DEF NothingStarts, Joinable
<1>6. \A m \in Monitors : state'[m] # "none" => Possible(m)
  BY <1>3, <1>4
<1>7. This.do \notin {"stop", "join", "destroy"}
  BY <1>1
<1> QED BY <1>1, <1>2, <1>5, <1>6, <1>7, TailStep

LEMMA JoinOrderly ==
  ASSUME LifeTypeOK, Orderly, Join
  PROVE  Orderly'
<1>1. Running /\ This.do = "join" /\ todo' = Tail(todo) /\ state' = [state EXCEPT ![This.m] = "joined"]
  BY DEF Join, Went
<1>2. UNCHANGED config /\ phase' = phase /\ crashed' = crashed /\ ~crashed /\ state[This.m] = "ended"
  BY <1>1 DEF Join, Running
<1>3. This.m \in Monitors
  BY <1>1, MonitorOp DEF OnMonitor
<1>4. \A m \in Monitors : state'[m] = IF m = This.m THEN "joined" ELSE state[m]
  BY <1>1, <1>3 DEF LifeTypeOK
<1>5. NothingStarts /\ \A m \in Monitors : m = This.m => ~Joinable(m)'
  BY <1>4 DEF NothingStarts, Joinable
<1>6. \A m \in Monitors : state'[m] # "none" => Possible(m)
  BY <1>2, <1>3, <1>4 DEF Orderly, TodoInv
<1> QED BY <1>1, <1>2, <1>5, <1>6, TailStep

LEMMA DestroyOrderly ==
  ASSUME LifeTypeOK, Orderly, Destroy
  PROVE  Orderly'
<1>1. Running /\ This.do = "destroy" /\ todo' = Tail(todo) /\ state' = [state EXCEPT ![This.m] = "none"]
  BY DEF Destroy, Went
<1>2. UNCHANGED config /\ phase' = phase /\ crashed' = Joinable(This.m)
  BY <1>1 DEF Destroy
<1>3. This.m \in Monitors
  BY <1>1, MonitorOp DEF OnMonitor
<1>4. \A m \in Monitors : state'[m] = IF m = This.m THEN "none" ELSE state[m]
  BY <1>1, <1>3 DEF LifeTypeOK
<1>5. NothingStarts /\ \A m \in Monitors : m = This.m => ~Joinable(m)'
  BY <1>4 DEF NothingStarts, Joinable
<1>6. \A m \in Monitors : state'[m] # "none" => Possible(m)
  BY <1>4 DEF Orderly, TodoInv
<1>7. phase = "close" => ~crashed'
  BY <1>2, <1>3 DEF Orderly, FinalizedAlone
<1> QED BY <1>1, <1>2, <1>5, <1>6, <1>7, TailStep

LEMMA CallOrderly ==
  ASSUME LifeTypeOK, Orderly, PluginCall \/ Record
  PROVE  Orderly'
<1>1. /\ Running /\ todo' = Tail(todo) /\ state' = state /\ UNCHANGED config /\ phase' = phase /\ crashed' = crashed
      /\ This.do \in {"metrics_start", "metrics_stop", "metrics_destroy", "begin_record", "end_record"}
  BY DEF PluginCall, Record, Went
<1>2. NothingStarts /\ This.do \notin {"stop", "join", "destroy"}
  BY <1>1 DEF NothingStarts, Joinable
<1>3. ~crashed' /\ \A m \in Monitors : state'[m] # "none" => Possible(m)
  BY <1>1 DEF Running, Orderly, TodoInv
<1> QED BY <1>1, <1>2, <1>3, TailStep

LEMMA StartOrderly ==
  ASSUME LifeTypeOK, Orderly, Start
  PROVE  Orderly'
<1>1. Running /\ This.do = "start" /\ todo' = Tail(todo) /\ state' = [state EXCEPT ![This.m] = "started"]
  BY DEF Start, Went
<1>2. UNCHANGED config /\ phase' = phase /\ TodoInv /\ todo # <<>>
  BY <1>1 DEF Start, Running, Orderly
<1>3. This.m \in Monitors /\ Possible(This.m) /\ \A m \in Monitors : state[m] # "none" => Possible(m)
  BY <1>1, PossibleMade
<1>4. \A m \in Monitors : state'[m] = IF m = This.m THEN "started" ELSE state[m]
  BY <1>1, <1>3 DEF LifeTypeOK
<1>5. /\ Later(todo, todo', 1) /\ This \in Ops(todo) /\ OpKnown(This)
      /\ Ops(todo) = {This} \cup Ops(todo') /\ \A op \in Ops(todo') : Precedes(This, op)
  BY <1>1, <1>2, ThisFacts
<1>6. TodoInv'
  <2>1. \A m \in Monitors : state'[m] # "none" => Possible(m)
    BY <1>3, <1>4
  <2> QED BY <1>2, <1>5, <2>1, AheadTodo
<1>7. phase' \in {"construct", "run"}
  <2>1. ~EndPhase
    BY <1>1, <1>2, <1>5 DEF TodoInv, ByPhase, Ending, EndPhase
  <2> QED BY <1>2, <2>1 DEF LifeTypeOK, EndPhase
<1>8. StartedInOrder'
  <2>1. SUFFICES ASSUME phase = "construct", NEW m \in Monitors, Joinable(m)', NEW op \in Ops(todo')
                 PROVE  StartRank[m[1]] <= Rank(op) /\ op.m # m
    BY <1>2 DEF StartedInOrder
  <2>2. CASE m # This.m
    BY <1>4, <1>5, <2>1, <2>2 DEF Joinable, Orderly, StartedInOrder
  <2>3. CASE m = This.m
    <3>1. This = Op("start", m)
      BY <1>1, <1>5, <2>3 DEF OpKnown
    <3>2. StartRank[m[1]] <= Rank(op) /\ op # This /\ op # Op("make", This.m)
      BY <1>1, <1>5, <3>1, EndRanks DEF Precedes
    <3>3. op.do \in Building /\ OpKnown(op)
      BY <1>2, <1>5, <2>1 DEF TodoInv, ByPhase, OpsKnown
    <3>4. ASSUME op.m = m PROVE FALSE
      <4>1. op.do \in OnMonitor /\ op = Op(op.do, m)
        BY <3>3, <3>4, KnownFacts
      <4>2. op.do \in {"make", "start"}
        BY <3>3, <4>1 DEF Building, OnMonitor
      <4> QED BY <2>3, <3>1, <3>2, <4>1, <4>2
    <3> QED BY <3>2, <3>4
  <2> QED BY <2>2, <2>3
<1> QED BY <1>6, <1>7, <1>8, BeforeEnd DEF Orderly

(* stop() of a thread that runs is joined next.                            *)
LEMMA JoinFirst ==
  ASSUME TodoInv, todo # <<>>, This.do = "stop", NEW t, t = <<Op("join", This.m)>> \o Tail(todo)
  PROVE  /\ Ordered(t, 1, CloseRank) /\ Ops(t) = {Op("join", This.m)} \cup Ops(Tail(todo))
         /\ This.m \in Monitors /\ Rank(Op("join", This.m)) = Rank(This)
         /\ \A i \in DOMAIN t : t[i].do = "join" => i = 1
<1> DEFINE j == Op("join", This.m)
           n == Len(todo)
<1>1. /\ This \in Ops(todo) /\ OpKnown(This) /\ Later(todo, Tail(todo), 1)
      /\ \A op \in Ops(Tail(todo)) : Precedes(This, op)
  BY ThisFacts
<1>2. This.m \in Monitors /\ This = Op("stop", This.m)
  BY <1>1, KnownFacts DEF OnMonitor
<1>3. Rank(j) = Rank(This) /\ Rank(This) \in Nat
  BY <1>2, EndRanks
<1>4. IsSequence(todo) /\ n \in Nat /\ DOMAIN todo = 1 .. n /\ n >= 1
  BY TodoRanks, SequenceFacts, TailFacts
<1>5. IsSequence(<<j>>) /\ Len(<<j>>) = 1 /\ <<j>>[1] = j
  <2>1. <<j>> \in Seq({j})
    OBVIOUS
  <2>2. Len(<<j>>) = 1 /\ <<j>>[1] = j
    OBVIOUS
  <2> QED BY <2>1, <2>2, SeqIsSequence
<1>6. IsSequence(Tail(todo)) /\ Len(Tail(todo)) = n - 1
  BY <1>4, TailFacts
<1>7. j.do = "join" /\ j.m = This.m
  BY DEF Op
<1> HIDE DEF j, n
<1>8. t = <<j>> \o Tail(todo)
  BY DEF j
<1>9. /\ IsSequence(t) /\ Len(t) = 1 + (n - 1) /\ t[1] = j
      /\ \A i \in 1 .. n - 1 : t[1 + i] = Tail(todo)[i]
  <2>1. 1 \in 1 .. 1
    OBVIOUS
  <2> QED BY <1>5, <1>6, <1>8, <2>1, ConcatFacts
<1>10. DOMAIN t = 1 .. n
  <2>1. Len(t) = n
    BY <1>4, <1>9
  <2> QED BY <1>9, <2>1, SequenceFacts
<1>11. ASSUME NEW i \in 2 .. n PROVE t[i] = todo[i] /\ t[i] \in Ops(Tail(todo)) /\ i \in DOMAIN todo
  <2> DEFINE p == i - 1
  <2>1. p \in 1 .. n - 1 /\ 1 + p = i /\ p + 1 = i /\ i \in 1 .. n
    BY <1>4
  <2> HIDE DEF p
  <2>2. t[i] = Tail(todo)[p]
    BY <1>9, <2>1
  <2>3. Tail(todo)[p] = todo[p + 1]
    BY <1>1, <1>6, <2>1 DEF Later
  <2>4. p \in DOMAIN Tail(todo)
    BY <1>6, <2>1, SequenceFacts
  <2> QED BY <1>4, <2>1, <2>2, <2>3, <2>4 DEF Ops
<1>12. \A i \in 1 .. n : i = 1 \/ i \in 2 .. n
  BY <1>4
<1>13. ASSUME NEW i \in DOMAIN t, t[i].do = "join" PROVE i = 1
  <2>1. ASSUME i \in 2 .. n PROVE FALSE
    <3>1. todo[i].do = "join" /\ i \in DOMAIN todo
      BY <1>11, <1>13, <2>1
    <3>2. i = 1
      BY <3>1 DEF TodoInv
    <3> QED BY <1>4, <2>1, <3>2
  <2> QED BY <1>10, <1>12, <2>1
<1>14. \A i \in DOMAIN t : Rank(t[i]) \in 1 .. CloseRank
  <2>1. Rank(j) \in 1 .. CloseRank
    BY <1>1, <1>3 DEF TodoInv, Ordered, Ops
  <2>2. \A i \in 2 .. n : Rank(t[i]) \in 1 .. CloseRank
    BY <1>11 DEF TodoInv, Ordered
  <2> QED BY <1>9, <1>10, <1>12, <2>1, <2>2
<1>15. ASSUME NEW i \in DOMAIN t, NEW k \in DOMAIN t, i < k PROVE Precedes(t[i], t[k])
  <2>1. k \in 2 .. n
    BY <1>4, <1>10, <1>15
  <2>2. CASE i = 1
    <3>1. Precedes(This, t[k]) /\ t[k].do # "join"
      BY <1>1, <1>11, <1>13, <1>15, <2>1, <1>4
    <3> QED BY <1>3, <1>7, <1>9, <2>2, <3>1 DEF Precedes
  <2>3. CASE i \in 2 .. n
    BY <1>11, <1>15, <2>1, <2>3 DEF TodoInv, Ordered
  <2> QED BY <1>10, <1>12, <2>2, <2>3
<1>16. Ordered(t, 1, CloseRank)
  BY <1>9, <1>14, <1>15 DEF Ordered
<1>17. Ops(t) = {j} \cup Ops(Tail(todo))
  <2>1. Ops(t) = Ops(<<j>>) \cup Ops(Tail(todo))
    BY <1>5, <1>6, <1>8, OpsConcat
  <2>2. Ops(<<j>>) = {j}
    <3>1. DOMAIN <<j>> = 1 .. 1
      BY <1>5, SequenceFacts
    <3>2. \A i \in 1 .. 1 : i = 1
      OBVIOUS
    <3>3. 1 \in 1 .. 1
      OBVIOUS
    <3> QED BY <1>5, <3>1, <3>2, <3>3 DEF Ops
  <2> QED BY <2>1, <2>2
<1> QED BY <1>2, <1>3, <1>13, <1>16, <1>17 DEF j

LEMMA StopOrderly ==
  ASSUME LifeTypeOK, Orderly, StopMonitor
  PROVE  Orderly'
<1>1. /\ Running /\ This.do = "stop" /\ state' = state /\ UNCHANGED config /\ phase' = phase
      /\ todo' = IF Joinable(This.m) THEN <<Op("join", This.m)>> \o Tail(todo) ELSE Tail(todo)
  BY DEF StopMonitor
<1>2. /\ TodoInv /\ todo # <<>> /\ StartedInOrder /\ AllCovered /\ EndInv /\ FinalizedAlone
      /\ \A m \in Monitors : state'[m] # "none" => Possible(m)
  BY <1>1 DEF Running, Orderly, TodoInv
<1>3. /\ This \in Ops(todo) /\ OpKnown(This) /\ Ops(todo) = {This} \cup Ops(Tail(todo))
      /\ This.m \in Monitors /\ This = Op("stop", This.m)
  BY <1>1, <1>2, ThisFacts, KnownFacts DEF OnMonitor
<1>4. phase # "close" /\ Rank(This) < EndRank /\ Rank(This) \in Nat
  <2>1. Rank(This) < EndRank /\ Rank(This) \in Nat
    BY <1>3, EndRanks
  <2>2. EndRank = 32 /\ CloseRank = 43
    BY DEF EndRank, CloseRank
  <2> QED BY <1>2, <1>3, <2>1, <2>2 DEF EndInv
<1>5. \A m : Joinable(m)' <=> Joinable(m)
  BY <1>1 DEF Joinable
<1>6. CASE ~Joinable(This.m)
  <2>1. todo' = Tail(todo) /\ NothingStarts
    BY <1>1, <1>5, <1>6 DEF NothingStarts
  <2>2. \A m \in Monitors : m = This.m => ~Joinable(m)'
    BY <1>5, <1>6
  <2> QED BY <1>1, <1>2, <1>4, <2>1, <2>2, TailStep
<1>7. CASE Joinable(This.m)
  <2> DEFINE j == Op("join", This.m)
  <2>1. /\ Ordered(todo', 1, CloseRank) /\ Ops(todo') = {j} \cup Ops(Tail(todo))
        /\ Rank(j) = Rank(This) /\ \A i \in DOMAIN todo' : todo'[i].do = "join" => i = 1
    BY <1>1, <1>2, <1>7, JoinFirst
  <2>2. j.do = "join" /\ j.m = This.m /\ j = Op(j.do, j.m)
    BY DEF Op
  <2> HIDE DEF j
  <2>3. OpsKnown(todo)'
    <3>1. OpKnown(j)
      BY <1>3, <2>2 DEF OpKnown, OnMonitor
    <3>2. \A op \in Ops(todo') : OpKnown(op)
      BY <1>2, <1>3, <2>1, <3>1 DEF TodoInv, OpsKnown
    <3> QED BY <1>1, <3>2, ConfigKept DEF OpsKnown
  <2>4. phase # "construct"
    BY <1>1, <1>2, <1>3 DEF TodoInv, ByPhase, Building
  <2>5. ByPhase(phase, todo)'
    <3>1. phase = "run" => \A op \in Ops(todo') : op.do \in Threading /\ op.m[1] = "scope" /\ mode = "process"
      BY <1>2, <1>3, <2>1, <2>2 DEF TodoInv, ByPhase, Threading
    <3>2. phase \in {"destruct", "finalize", "close"} => \A op \in Ops(todo') : op.do \in Ending
      BY <1>2, <1>3, <2>1, <2>2 DEF TodoInv, ByPhase, Ending
    <3> QED BY <1>1, <2>4, <3>1, <3>2, ConfigKept DEF ByPhase
  <2>6. TodoInv'
    BY <1>1, <1>2, <2>1, <2>3, <2>5, ConfigKept DEF TodoInv, CloseRank
  <2>7. StartedInOrder'
    BY <1>1, <2>4 DEF StartedInOrder
  <2>8. CASE phase \in {"construct", "run"}
    BY <1>1, <2>6, <2>7, <2>8, BeforeEnd DEF Orderly
  <2>9. CASE EndPhase
    <3>1. AllCovered'
      <4>1. SUFFICES ASSUME NEW e \in Ops(todo'), e.do \in {"end_record", "finalize", "close"},
                            NEW m \in Monitors, Joinable(m)'
                     PROVE  Covered(todo', e, m)
        BY DEF AllCovered, Covered
      <4>2. e \in Ops(todo) /\ Joinable(m)
        BY <1>3, <1>5, <2>1, <2>2, <4>1
      <4>3. PICK op \in Ops(todo) : op.m = m /\ op.do \in {"stop", "join", "destroy"} /\ Rank(op) < Rank(e)
        BY <1>2, <4>1, <4>2 DEF AllCovered, Covered
      <4>4. CASE op = This
        BY <2>1, <2>2, <4>3, <4>4 DEF Covered
      <4>5. CASE op \in Ops(Tail(todo))
        BY <2>1, <4>3, <4>5 DEF Covered
      <4> QED BY <1>3, <4>4, <4>5
    <3>2. Remaining(todo) /\ EndRank < FetchRank
      BY <1>2, <2>9 DEF EndInv, EndRank, FetchRank
    <3>3. This # Do("end_record") /\ This # Do("metrics_destroy")
      <4>1. Do("end_record").do = "end_record" /\ Do("metrics_destroy").do = "metrics_destroy"
        BY DEF Do, Op
      <4> QED BY <1>1, <4>1
    <3>4. Do("end_record") \in Ops(todo')
      BY <1>3, <1>4, <2>1, <3>2, <3>3 DEF Remaining
    <3>5. Do("metrics_destroy") \in Ops(todo')
      <4>1. Rank(This) < FetchRank
        BY <1>4, <3>2 DEF EndRank, FetchRank
      <4> QED BY <1>3, <2>1, <3>2, <3>3, <4>1 DEF Remaining
    <3>6. EndInv'
      BY <1>1, <1>4, <3>4, <3>5 DEF EndInv, Remaining
    <3>7. FinalizedAlone'
      BY <1>1, <1>2, <1>5 DEF FinalizedAlone
    <3> QED BY <2>6, <2>7, <3>1, <3>6, <3>7 DEF Orderly
  <2> QED BY <2>8, <2>9 DEF LifeTypeOK, EndPhase
<1> QED BY <1>6, <1>7

LEMMA BuildingRanks ==
  ASSUME NEW op, OpKnown(op), op.do \in Building
  PROVE  Rank(op) <= 20 /\ (op.do # "run" => Rank(op) < 20)
<1>1. CASE op.do \in {"make", "start"}
  <2>1. op.m \in Monitors /\ op = Op(op.do, op.m)
    BY <1>1, KnownFacts DEF OnMonitor
  <2>2. Rank(op) = MakeRank[op.m[1]] \/ Rank(op) = StartRank[op.m[1]]
    BY <1>1, <2>1, EndRanks
  <2>3. \A kind \in Kinds : MakeRank[kind] \in 3 .. 18 /\ StartRank[kind] \in 3 .. 18
    BY DEF Kinds, MakeRank, StartRank
  <2>4. Rank(op) \in 3 .. 18
    BY <2>1, <2>2, <2>3, MonitorShape
  <2> QED BY <2>4
<1>2. CASE op.do \in {"metrics_start", "begin_record", "run"}
  <2>1. op = Do(op.do) /\ op.do \in Calls
    BY <1>2, KnownFacts DEF Calls
  <2>2. Rank(op) = CallRank[op.do]
    BY <2>1, CallFacts
  <2>3. CallRank["metrics_start"] = 1 /\ CallRank["begin_record"] = 2 /\ CallRank["run"] = 20
    BY DEF CallRank
  <2>4. \/ op.do = "metrics_start" /\ Rank(op) = 1
        \/ op.do = "begin_record" /\ Rank(op) = 2
        \/ op.do = "run" /\ Rank(op) = 20
    BY <1>2, <2>2, <2>3
  <2> QED BY <2>4
<1> QED BY <1>1, <1>2 DEF Building

LEMMA ProceedOrderly ==
  ASSUME LifeTypeOK, Orderly, Proceed
  PROVE  Orderly'
<1>1. /\ Running /\ This.do \in {"run", "finalize", "close"} /\ phase' = This.do /\ todo' = Tail(todo)
      /\ state' = state /\ UNCHANGED config /\ crashed' = crashed
  BY DEF Proceed, Went
<1>2. /\ TodoInv /\ todo # <<>> /\ ~crashed /\ StartedInOrder /\ AllCovered /\ EndInv /\ FinalizedAlone
      /\ \A m \in Monitors : state'[m] # "none" => Possible(m)
  BY <1>1 DEF Running, Orderly, TodoInv
<1>3. /\ This \in Ops(todo) /\ OpKnown(This) /\ Ops(todo) = {This} \cup Ops(todo')
      /\ \A op \in Ops(todo') : Precedes(This, op)
      /\ \A op \in Ops(todo) : Rank(This) <= Rank(op)
      /\ Later(todo, todo', 1)
  BY <1>1, <1>2, ThisFacts
<1>4. This = Do(This.do) /\ Rank(This) = CallRank[This.do]
  <2>1. This.do \in Calls
    BY <1>1 DEF Calls
  <2> QED BY <1>3, <2>1, KnownFacts, CallFacts
<1>5. \A m : Joinable(m)' <=> Joinable(m)
  BY <1>1 DEF Joinable
<1>6. ASSUME ByPhase(phase, todo)' PROVE TodoInv'
  <2>1. Ordered(todo, 1, CloseRank)
    BY <1>2 DEF TodoInv
  <2>2. /\ Ordered(todo', 1, CloseRank) /\ Ops(todo') \subseteq Ops(todo)
        /\ \A i \in DOMAIN todo' : i + 1 \in DOMAIN todo /\ todo'[i] = todo[i + 1]
        /\ \A i \in DOMAIN todo' : i \in Nat
    BY <1>3, <2>1, LaterFacts
  <2>3. OpsKnown(todo)'
    BY <1>1, <1>2, <2>2, ConfigKept DEF TodoInv, OpsKnown
  <2>4. ASSUME NEW i \in DOMAIN todo', todo'[i].do = "join" PROVE FALSE
    <3>1. i + 1 = 1
      BY <1>2, <2>2, <2>4 DEF TodoInv
    <3>2. DOMAIN todo' = 1 .. Len(todo') /\ Len(todo') \in Nat
      BY <2>2, SequenceFacts DEF Ordered
    <3> QED BY <3>1, <3>2
  <2> QED BY <1>1, <1>2, <1>6, <2>2, <2>3, <2>4, ConfigKept DEF TodoInv, CloseRank
<1>7. CASE This.do = "run"
  <2>1. phase = "construct"
    <3>1. This.do \notin Threading /\ This.do \notin Ending
      BY <1>7 DEF Threading, Ending
    <3> QED BY <1>2, <1>3, <3>1 DEF TodoInv, ByPhase, LifeTypeOK
  <2>2. ASSUME NEW op \in Ops(todo') PROVE FALSE
    <3>1. op.do \in Building /\ OpKnown(op) /\ op # This /\ Rank(This) = 20 /\ Rank(This) <= Rank(op)
      BY <1>2, <1>3, <1>4, <1>7, <2>1 DEF TodoInv, ByPhase, OpsKnown, Precedes, CallRank
    <3>2. op.do = "run"
      BY <3>1, BuildingRanks, <1>2, <1>3, TodoRanks
    <3>3. op = Do("run")
      BY <3>1, <3>2, KnownFacts DEF Calls
    <3> QED BY <1>4, <1>7, <3>1, <3>3
  <2>3. ByPhase(phase, todo)'
    BY <2>2 DEF ByPhase
  <2>4. StartedInOrder'
    BY <1>1, <1>7 DEF StartedInOrder
  <2>5. phase' \in {"construct", "run"}
    BY <1>1, <1>7
  <2> QED BY <1>6, <2>3, <2>4, <2>5, BeforeEnd DEF Orderly
<1>8. CASE This.do \in {"finalize", "close"}
  <2>1. EndPhase
    <3>1. This.do \notin Threading /\ This.do \notin Building
      BY <1>8 DEF Threading, Building
    <3> QED BY <1>2, <1>3, <3>1 DEF TodoInv, ByPhase, LifeTypeOK, EndPhase
  <2>2. ByPhase(phase, todo)'
    <3>1. \A op \in Ops(todo') : op.do \in Ending
      BY <1>2, <1>3, <2>1 DEF TodoInv, ByPhase, EndPhase
    <3> QED BY <1>1, <1>8, <3>1 DEF ByPhase
  <2>3. ASSUME NEW m \in Monitors, Joinable(m) PROVE FALSE
    <3>1. PICK op \in Ops(todo) : Rank(op) < Rank(This)
      BY <1>2, <1>3, <1>8, <2>3 DEF AllCovered, Covered
    <3>2. Rank(This) <= Rank(op) /\ Rank(op) \in Nat /\ Rank(This) \in Nat
      BY <1>2, <1>3, TodoRanks
    <3> QED BY <3>1, <3>2
  <2>4. AllCovered' /\ FinalizedAlone'
    BY <1>5, <2>3 DEF AllCovered, FinalizedAlone
  <2>5. Remaining(todo')
    BY <1>2, <1>3, <2>1, RemainingLater DEF EndInv
  <2>6. phase' = "close" => ~crashed' /\ \A op \in Ops(todo') : Rank(op) >= CloseRank
    <3>1. ASSUME This.do = "close", NEW op \in Ops(todo') PROVE Rank(op) >= CloseRank
      <4>1. Rank(This) = CloseRank /\ Rank(This) <= Rank(op) /\ Rank(op) \in Nat
        BY <1>2, <1>3, <1>4, <3>1, TodoRanks DEF CallRank, CloseRank
      <4> QED BY <4>1 DEF CloseRank
    <3> QED BY <1>1, <1>2, <3>1
  <2>7. EndInv'
    BY <2>5, <2>6 DEF EndInv, Remaining
  <2>8. StartedInOrder'
    BY <1>1, <1>8 DEF StartedInOrder
  <2> QED BY <1>6, <2>2, <2>4, <2>7, <2>8 DEF Orderly
<1> QED BY <1>1, <1>7, <1>8

-----------------------------------------------------------------------------
(* The measurement ends, or a constructor is left                          *)

EndsWithRecord(s) ==
  /\ Do("end_record") \in Ops(s)
  /\ \A m \in Monitors : Joinable(m) =>
       \E op \in Ops(s) : op.m = m /\ op.do \in {"stop", "destroy"} /\ Rank(op) < EndRank

EndsWithout(s) ==
  /\ \A op \in Ops(s) : Rank(op) >= 35
  /\ \A m \in Monitors : Joinable(m) => Op("destroy", m) \in Ops(s)

LEMMA EndStarts ==
  ASSUME Orderly, UNCHANGED config, phase' = "destruct", Ends(todo'),
         \A m \in Monitors : state'[m] # "none" => Possible(m),
         \A m \in Monitors : Joinable(m)' => Joinable(m),
         EndsWithRecord(todo') \/ EndsWithout(todo')
  PROVE  Orderly'
<1>1. /\ Ordered(todo', 1, CloseRank) /\ Ops(todo') \subseteq EndOps
      /\ Do("metrics_destroy") \in Ops(todo') /\ Do("close") \in Ops(todo')
  BY DEF Ends
<1>2. ASSUME NEW op \in Ops(todo')
      PROVE  /\ OpKnown(op) /\ op.do \in Ending /\ op.do # "join"
             /\ op.do = "end_record" => op = Do("end_record")
             /\ op.do = "finalize" => op = Do("finalize")
             /\ op.do = "close" => op = Do("close")
  <2>1. op \in EndOps
    BY <1>1
  <2>2. OpKnown(op) /\ op.do \in Ending /\ op.do # "join"
    BY <2>1, EndOpsFacts
  <2> QED BY <2>2, KnownFacts DEF Calls
<1>3. TodoInv'
  <2>1. OpsKnown(todo)'
    BY <1>2, ConfigKept DEF OpsKnown
  <2>2. ByPhase(phase, todo)'
    BY <1>2 DEF ByPhase
  <2>3. \A i \in DOMAIN todo' : todo'[i].do # "join"
    BY <1>2 DEF Ops
  <2> QED BY <1>1, <2>1, <2>2, <2>3, ConfigKept DEF TodoInv, CloseRank
<1>4. AllCovered'
  <2>1. SUFFICES ASSUME NEW e \in Ops(todo'), e.do \in {"end_record", "finalize", "close"},
                        NEW m \in Monitors, Joinable(m)'
                 PROVE  Covered(todo', e, m)
    BY DEF AllCovered, Covered
  <2>2. Joinable(m)
    BY <2>1
  <2>3. /\ Rank(e) \in {32, 34, 43} /\ e = Do(e.do) /\ (e.do # "close" => Rank(e) < 35)
        /\ (e.do = "close" => Rank(e) = CloseRank)
    <3>1. /\ Rank(Do("end_record")) = 32 /\ Rank(Do("finalize")) = 34 /\ Rank(Do("close")) = 43
      BY EndRanks DEF EndRank, CloseRank
    <3>2. \/ e.do = "end_record" /\ e = Do("end_record") /\ Rank(e) = 32
          \/ e.do = "finalize" /\ e = Do("finalize") /\ Rank(e) = 34
          \/ e.do = "close" /\ e = Do("close") /\ Rank(e) = 43
      BY <1>2, <2>1, <3>1
    <3> QED BY <3>2 DEF CloseRank
  <2>4. CASE EndsWithRecord(todo')
    <3>1. PICK op \in Ops(todo') : op.m = m /\ op.do \in {"stop", "destroy"} /\ Rank(op) < EndRank
      BY <2>2, <2>4 DEF EndsWithRecord
    <3>2. Rank(op) \in Nat
      <4>1. Rank(op) \in 1 .. CloseRank /\ CloseRank \in Nat
        BY <1>1 DEF Ordered, Ops, CloseRank
      <4> QED BY <4>1
    <3>3. Rank(op) < Rank(e)
      BY <2>3, <3>1, <3>2 DEF EndRank
    <3> QED BY <3>1, <3>3 DEF Covered
  <2>5. CASE EndsWithout(todo')
    <3> DEFINE op == Op("destroy", m)
    <3>1. op \in Ops(todo') /\ Rank(e) >= 35
      BY <2>2, <2>5 DEF EndsWithout
    <3>2. Rank(e) = CloseRank
      BY <2>3, <3>1
    <3>3. op.m = m /\ op.do = "destroy" /\ Rank(op) \in Nat /\ Rank(op) < FetchRank
      BY EndRanks DEF Op
    <3> HIDE DEF op
    <3>4. Rank(op) < Rank(e)
      BY <3>2, <3>3 DEF FetchRank, CloseRank
    <3> QED BY <3>1, <3>3, <3>4 DEF Covered
  <2> QED BY <2>4, <2>5
<1>5. EndInv'
  <2>1. \A op \in Ops(todo') : Rank(op) < EndRank => Do("end_record") \in Ops(todo')
    <3>1. CASE EndsWithRecord(todo')
      BY <3>1 DEF EndsWithRecord
    <3>2. CASE EndsWithout(todo')
      <4>1. ASSUME NEW op \in Ops(todo') PROVE ~(Rank(op) < EndRank)
        <5>1. Rank(op) \in 1 .. CloseRank /\ CloseRank \in Nat /\ Rank(op) >= 35
          BY <1>1, <3>2 DEF Ordered, Ops, CloseRank, EndsWithout
        <5> QED BY <5>1 DEF EndRank
      <4> QED BY <4>1
    <3> QED BY <3>1, <3>2
  <2> QED BY <1>1, <2>1 DEF EndInv, Remaining
<1>6. StartedInOrder' /\ FinalizedAlone'
  BY DEF StartedInOrder, FinalizedAlone
<1> QED BY <1>3, <1>4, <1>5, <1>6 DEF Orderly

(* Everything that there can be is stopped.                                *)
LEMMA StopsAll ==
  ASSUME NEW m \in Monitors, Possible(m)
  PROVE  /\ m[1] \notin {"scope", "posix"} => Op("stop", m) \in Ops(MainDestructor)
         /\ m[1] = "scope" => Op("stop", m) \in Ops(StopScopes) /\ Op("destroy", m) \in Ops(DestroyScopes)
         /\ m[1] = "posix" => m = <<"posix", 1>> /\ mode = "process"
<1>1. m = <<m[1], m[2]>> /\ (m[1] = "posix" => m[2] = 1)
  BY MonitorShape
<1>2. m[1] \notin {"scope", "posix"} => Op("stop", m) \in Ops(MainDestructor)
  BY StopMonitorsFacts, MainDestructorFacts
<1>3. m[1] = "scope" => m[2] \in 1 .. Scopes
  BY DEF Possible
<1>4. m[1] = "scope" => Op("stop", m) \in Ops(StopScopes) /\ Op("destroy", m) \in Ops(DestroyScopes)
  BY <1>1, <1>3, ScopesFacts
<1> QED BY <1>1, <1>2, <1>4 DEF Possible

StopsThem(s) == \A m \in Monitors : Joinable(m) => Op("stop", m) \in Ops(s)

LEMMA StopsEnd ==
  ASSUME NEW s, Do("end_record") \in Ops(s), StopsThem(s)
  PROVE  EndsWithRecord(s)
<1>1. \A m \in Monitors : /\ Op("stop", m).m = m /\ Op("stop", m).do = "stop"
                          /\ Rank(Op("stop", m)) < EndRank
  BY EndRanks DEF Op
<1> QED BY <1>1 DEF StopsThem, EndsWithRecord

LEMMA FinishStops ==
  ASSUME Orderly
  PROVE  StopsThem(Finish)
<1>1. ASSUME NEW m \in Monitors, Joinable(m) PROVE Op("stop", m) \in Ops(Finish)
  <2>1. Possible(m)
    BY <1>1 DEF Joinable, Orderly, TodoInv
  <2> QED BY <2>1, StopsAll, FinishFacts
<1> QED BY <1>1 DEF StopsThem

LEMMA ScopesEnd ==
  ASSUME Orderly, mode # "process"
  PROVE  EndsWithRecord(DestroyScopes \o MainDestructor) /\ StopsThem(Unwind("scope"))
<1> DEFINE s == DestroyScopes \o MainDestructor
<1>1. Do("end_record") \in Ops(s) /\ Ops(s) = Ops(DestroyScopes) \cup Ops(MainDestructor)
  BY EndSequences, UnwindFacts
<1> HIDE DEF s
<1>2. ASSUME NEW m \in Monitors, Joinable(m)
      PROVE  /\ \/ Op("stop", m) \in Ops(s)
                \/ Op("destroy", m) \in Ops(s) /\ m[1] = "scope"
             /\ Op("stop", m) \in Ops(Unwind("scope"))
  <2>1. Possible(m)
    BY <1>2 DEF Joinable, Orderly, TodoInv
  <2> QED BY <1>1, <2>1, StopsAll, UnwindFacts
<1>3. ASSUME NEW m \in Monitors
      PROVE  /\ Op("stop", m).m = m /\ Op("stop", m).do = "stop" /\ Rank(Op("stop", m)) < EndRank
             /\ Op("destroy", m).m = m /\ Op("destroy", m).do = "destroy"
             /\ m[1] = "scope" => Rank(Op("destroy", m)) < EndRank
  <2>1. DestroyRank["scope"] = 23 /\ EndRank = 32
    BY DEF DestroyRank, EndRank
  <2>2. Rank(Op("stop", m)) < EndRank /\ (m[1] = "scope" => Rank(Op("destroy", m)) = 23)
    BY <2>1, EndRanks
  <2> QED BY <2>1, <2>2 DEF Op
<1>4. EndsWithRecord(s)
  BY <1>1, <1>2, <1>3 DEF EndsWithRecord
<1> QED BY <1>2, <1>4 DEF StopsThem, s

LEMMA EndRunOrderly ==
  ASSUME LifeTypeOK, Orderly, EndRun \/ (Attach /\ todo' # todo)
  PROVE  Orderly'
<1>1. /\ UNCHANGED <<config, state>> /\ phase' = "destruct"
      /\ \/ todo' = Finish
         \/ mode # "process" /\ todo' = DestroyScopes \o MainDestructor
  BY DEF EndRun, Attach
<1>2. UNCHANGED config /\ (\A m \in Monitors : state'[m] # "none" => Possible(m))
  BY <1>1 DEF Orderly, TodoInv
<1>3. \A m \in Monitors : Joinable(m)' => Joinable(m)
  BY <1>1 DEF Joinable
<1>4. Ends(todo') /\ EndsWithRecord(todo')
  <2>1. CASE todo' = Finish
    BY <2>1, EndSequences, FinishStops, StopsEnd
  <2>2. CASE mode # "process" /\ todo' = DestroyScopes \o MainDestructor
    BY <2>2, EndSequences, ScopesEnd
  <2> QED BY <1>1, <2>1, <2>2
<1> QED BY <1>1, <1>2, <1>3, <1>4, EndStarts

LEMMA ThrowFacts ==
  ASSUME LifeTypeOK, Orderly, Throw
  PROVE  /\ Running /\ This \in Ops(todo) /\ This.do \in {"make", "start"} /\ This = Op(This.do, This.m)
         /\ This.m \in Monitors /\ Possible(This.m) /\ This.m[1] \in MayFail
         /\ UNCHANGED config /\ state' = Undone(This) /\ phase \in {"construct", "run"}
         /\ todo # <<>> /\ ~crashed
<1>1. Running /\ This.do \in {"make", "start"} /\ This.m[1] \in MayFail /\ UNCHANGED config /\ state' = Undone(This)
  BY DEF Throw
<1>2. TodoInv /\ todo # <<>> /\ ~crashed
  BY <1>1 DEF Running, Orderly
<1>3. This.m \in Monitors /\ Possible(This.m)
  BY <1>1, PossibleMade
<1>4. This \in Ops(todo) /\ This = Op(This.do, This.m)
  BY <1>1, MonitorOp DEF OnMonitor
<1>5. phase \in {"construct", "run"}
  <2>1. This.do \notin Ending
    BY <1>1 DEF Ending
  <2> QED BY <1>2, <1>4, <2>1 DEF TodoInv, ByPhase, LifeTypeOK
<1> QED BY <1>1, <1>2, <1>3, <1>4, <1>5

(* What goes with a constructor that throws was not started.               *)
LEMMA UndoneFacts ==
  ASSUME LifeTypeOK, Orderly, Throw
  PROVE  /\ \A m \in Monitors : state'[m] # state[m] => state'[m] = "none" /\ Group(m[1]) \in {"adapt", "energy"}
         /\ phase = "construct" => \A m \in Monitors : Joinable(m)' <=> Joinable(m)
         /\ NothingStarts
         /\ \A m \in Monitors : state'[m] # "none" => Possible(m)
<1>1. /\ This \in Ops(todo) /\ This.do \in {"make", "start"} /\ This = Op(This.do, This.m)
      /\ This.m \in Monitors /\ state' = Undone(This)
  BY ThrowFacts
<1>2. \A m \in Monitors : state'[m] = IF /\ This.do = "make" /\ Group(m[1]) = Group(This.m[1])
                                         /\ Group(This.m[1]) \in {"adapt", "energy"}
                                        THEN "none" ELSE state[m]
  BY <1>1 DEF Undone
<1>3. \A m \in Monitors : state'[m] # state[m] => state'[m] = "none" /\ Group(m[1]) \in {"adapt", "energy"}
  BY <1>2
<1>4. NothingStarts
  BY <1>3 DEF NothingStarts, Joinable
<1>5. \A m \in Monitors : state'[m] # "none" => Possible(m)
  BY <1>3 DEF Orderly, TodoInv
<1>6. ASSUME phase = "construct", NEW m \in Monitors, Joinable(m) PROVE Joinable(m)'
  <2>1. StartRank[m[1]] <= Rank(This)
    BY <1>1, <1>6 DEF Orderly, StartedInOrder
  <2>2. ASSUME This.do = "make", Group(m[1]) = Group(This.m[1]), Group(This.m[1]) \in {"adapt", "energy"} PROVE FALSE
    <3>1. Rank(This) = MakeRank[This.m[1]]
      BY <1>1, <2>2, EndRanks
    <3>2. \/ m[1] \in {"adapt", "node"} /\ This.m[1] \in {"adapt", "node"}
          \/ m[1] = "energy" /\ This.m[1] = "energy"
      BY <2>2 DEF Group
    <3>3. \A a, b \in {"adapt", "node"} : ~(StartRank[a] <= MakeRank[b])
      BY DEF StartRank, MakeRank
    <3>4. ~(StartRank["energy"] <= MakeRank["energy"])
      BY DEF StartRank, MakeRank
    <3> QED BY <2>1, <3>1, <3>2, <3>3, <3>4
  <2>3. state'[m] = state[m]
    BY <1>2, <2>2
  <2> QED BY <1>6, <2>3 DEF Joinable
<1>7. phase = "construct" => \A m \in Monitors : Joinable(m)' <=> Joinable(m)
  BY <1>4, <1>6 DEF NothingStarts
<1> QED BY <1>3, <1>4, <1>5, <1>7

LEMMA CaughtFacts ==
  ASSUME LifeTypeOK, Orderly, Throw, Group(This.m[1]) \in Caught
  PROVE  /\ phase' = phase
         /\ \E k : Later(todo, todo', k)
         /\ \A op \in Ops(todo) : op \in Ops(todo') \/ Group(op.m[1]) = Group(This.m[1])
<1>1. phase' = phase /\ todo' = SubSeq(todo, Behind(This), Len(todo))
  BY DEF Throw, AfterFailure
<1>2. TodoInv /\ todo # <<>>
  BY ThrowFacts DEF Orderly
<1> QED BY <1>1, <1>2, BehindFacts

LEMMA CaughtOrderly ==
  ASSUME LifeTypeOK, Orderly, Throw, Group(This.m[1]) \in Caught
  PROVE  Orderly'
<1>1. PICK k : Later(todo, todo', k)
  BY CaughtFacts
<1>2. phase' = phase /\ UNCHANGED config /\ phase \in {"construct", "run"}
  BY CaughtFacts, ThrowFacts
<1>3. NothingStarts /\ \A m \in Monitors : state'[m] # "none" => Possible(m)
  BY UndoneFacts
<1>4. TodoInv'
  BY <1>1, <1>2, <1>3, AheadTodo DEF Orderly
<1>5. StartedInOrder'
  BY <1>1, <1>2, <1>3, AheadStarted DEF Orderly
<1> QED BY <1>2, <1>4, <1>5, BeforeEnd DEF Orderly

(* The exceptions that nobody catches are of these constructors; nothing   *)
(* that is made later runs yet.                                            *)
LEMMA UncaughtFacts ==
  ASSUME LifeTypeOK, Orderly, Throw, Group(This.m[1]) \notin Caught
  PROVE  /\ phase = "construct" /\ phase' = "destruct" /\ todo' = Unwind(This.m[1])
         /\ \/ This.m[1] = "bio" /\ \A m \in Monitors : Joinable(m) => m[1] = "tracepoint"
            \/ This.m[1] = "posix" /\ \A m \in Monitors : Joinable(m) => m[1] \notin {"posix", "scope"}
            \/ This.m[1] = "scope" /\ mode # "process"
         /\ \A m \in Monitors : Joinable(m)' <=> Joinable(m)
<1>1. /\ This \in Ops(todo) /\ This.do \in {"make", "start"} /\ This = Op(This.do, This.m)
      /\ This.m \in Monitors /\ phase \in {"construct", "run"}
  BY ThrowFacts
<1>2. This.m[1] \in Kinds
  BY <1>1, MonitorShape
<1>3. This.m[1] \in {"bio", "posix"} \/ (This.m[1] = "scope" /\ mode # "process")
  BY <1>2 DEF Kinds, Caught, Group
<1>4. phase = "construct"
  BY <1>1, <1>3 DEF Orderly, TodoInv, ByPhase
<1>5. phase' = "destruct" /\ todo' = Unwind(This.m[1])
  BY DEF Throw, AfterFailure
<1>6. ASSUME NEW m \in Monitors, Joinable(m)
      PROVE  /\ m[1] \in Kinds /\ m # This.m /\ StartRank[m[1]] <= Rank(This)
             /\ m[1] = This.m[1] /\ m[1] \in {"bio", "posix"} => m = This.m
  <2>1. m # This.m /\ StartRank[m[1]] <= Rank(This)
    BY <1>1, <1>4, <1>6 DEF Orderly, StartedInOrder
  <2>2. /\ m[1] \in Kinds /\ m = <<m[1], m[2]>> /\ (m[1] \in {"bio", "posix"} => m[2] = 1)
        /\ This.m = <<This.m[1], This.m[2]>> /\ (This.m[1] \in {"bio", "posix"} => This.m[2] = 1)
    BY <1>1, MonitorShape
  <2> QED BY <2>1, <2>2
<1>7. Rank(This) = MakeRank[This.m[1]] \/ Rank(This) = StartRank[This.m[1]]
  BY <1>1, EndRanks
<1>8. ASSUME This.m[1] = "bio", NEW m \in Monitors, Joinable(m) PROVE m[1] = "tracepoint"
  <2>1. \A kind \in Kinds : StartRank[kind] <= MakeRank["bio"] \/ StartRank[kind] <= StartRank["bio"]
                              => kind \in {"tracepoint", "bio"}
    BY DEF Kinds, StartRank, MakeRank
  <2> QED BY <1>6, <1>7, <1>8, <2>1
<1>9. ASSUME This.m[1] = "posix", NEW m \in Monitors, Joinable(m) PROVE m[1] \notin {"posix", "scope"}
  <2>1. /\ ~(StartRank["scope"] <= MakeRank["posix"])
        /\ ~(StartRank["scope"] <= StartRank["posix"])
    BY DEF StartRank, MakeRank
  <2> QED BY <1>6, <1>7, <1>9, <2>1
<1>10. \A m \in Monitors : Joinable(m)' <=> Joinable(m)
  BY <1>4, UndoneFacts
<1> QED BY <1>3, <1>4, <1>5, <1>8, <1>9, <1>10

LEMMA UnwindStops ==
  ASSUME LifeTypeOK, Orderly, Throw, Group(This.m[1]) \notin Caught
  PROVE  /\ This.m[1] = "bio" => EndsWithout(todo') /\ todo' = Members
         /\ This.m[1] # "bio" => StopsThem(todo') /\ Do("end_record") \in Ops(todo')
         /\ Ends(todo')
<1>1. todo' = Unwind(This.m[1])
  BY UncaughtFacts
<1>2. CASE This.m[1] = "bio"
  <2>1. todo' = Members /\ \A op \in Ops(Members) : Rank(op) >= 35
    BY <1>1, <1>2, UnwindFacts, EndSequences
  <2>2. \A m \in Monitors : Joinable(m) => m[1] = "tracepoint"
    BY <1>2, UncaughtFacts
  <2>3. \A m \in Monitors : Joinable(m) => Op("destroy", m) \in Ops(Members)
    BY <2>2, MembersFacts
  <2>4. EndsWithout(todo')
    BY <2>1, <2>3 DEF EndsWithout
  <2> QED BY <1>2, <2>1, <2>4, EndSequences
<1>3. CASE This.m[1] = "posix"
  <2>1. ASSUME NEW m \in Monitors, Joinable(m) PROVE Op("stop", m) \in Ops(todo')
    <3>1. m[1] \notin {"posix", "scope"} /\ Possible(m)
      BY <1>3, <2>1, UncaughtFacts DEF Joinable, Orderly, TodoInv
    <3> QED BY <1>1, <1>3, <3>1, StopsAll, UnwindFacts
  <2> QED BY <1>1, <1>3, <2>1, EndSequences DEF StopsThem
<1>4. CASE This.m[1] = "scope"
  <2>1. mode # "process"
    BY <1>4, UncaughtFacts
  <2> QED BY <1>1, <1>4, <2>1, ScopesEnd, EndSequences
<1> QED BY <1>2, <1>3, <1>4, UncaughtFacts

LEMMA ThrowOrderly ==
  ASSUME LifeTypeOK, Orderly, Throw
  PROVE  Orderly'
<1>1. CASE Group(This.m[1]) \in Caught
  BY <1>1, CaughtOrderly
<1>2. CASE Group(This.m[1]) \notin Caught
  <2>1. Ends(todo') /\ (EndsWithRecord(todo') \/ EndsWithout(todo'))
    BY <1>2, UnwindStops, StopsEnd
  <2>2. phase' = "destruct" /\ UNCHANGED config /\ \A m \in Monitors : Joinable(m)' => Joinable(m)
    BY <1>2, UncaughtFacts, ThrowFacts
  <2>3. \A m \in Monitors : state'[m] # "none" => Possible(m)
    BY UndoneFacts
  <2> QED BY <2>1, <2>2, <2>3, EndStarts
<1> QED BY <1>1, <1>2

-----------------------------------------------------------------------------
(* Threads of the command, and the threads of the monitors                 *)

LEMMA ScopePair ==
  ASSUME TodoInv, UNCHANGED <<config, phase, state>>, mode = "process", phase = "run", NEW m, m[1] = "scope",
         Possible(m), NEW a, NEW b, \/ a = Op("make", m) /\ b = Op("start", m)
                                    \/ a = Op("stop", m) /\ b = Op("destroy", m),
         todo' = <<a, b>>
  PROVE  TodoInv' /\ Ops(todo') = {a, b}
<1>1. m \in Monitors
  BY DEF Possible
<1>2. a.m = m /\ b.m = m /\ a = Op(a.do, a.m) /\ b = Op(b.do, b.m)
  BY DEF Op
<1>3. (a.do = "make" /\ b.do = "start") \/ (a.do = "stop" /\ b.do = "destroy")
  BY DEF Op
<1>4. PICK lo \in Nat, hi \in Nat : /\ Rank(a) = lo /\ Rank(b) = hi /\ lo <= hi /\ 1 <= lo /\ hi <= CloseRank
                                    /\ CloseRank \in Nat
  <2>1. /\ MakeRank["scope"] = 18 /\ StartRank["scope"] = 18 /\ StopRank["scope"] = 21
        /\ DestroyRank["scope"] = 23 /\ CloseRank = 43
    BY DEF MakeRank, StartRank, StopRank, DestroyRank, CloseRank
  <2>2. (Rank(a) = 18 /\ Rank(b) = 18) \/ (Rank(a) = 21 /\ Rank(b) = 23)
    BY <1>1, <2>1, EndRanks
  <2> QED BY <2>1, <2>2
<1>5. Precedes(a, b)
  BY <1>3, <1>4 DEF Precedes
<1>6. Ordered(todo', 1, CloseRank) /\ Ops(todo') = {a, b}
  <2>1. Ordered(<<a, b>>, lo, hi) /\ Ops(<<a, b>>) = {a, b}
    BY <1>4, <1>5, TwoFacts
  <2> QED BY <1>4, <2>1, OrderedWider
<1>7. UNCHANGED config /\ phase' = "run"
  BY DEF config
<1>8. OpsKnown(todo)'
  <2>1. OpKnown(a) /\ OpKnown(b)
    BY <1>1, <1>2, <1>3 DEF OpKnown, OnMonitor
  <2> QED BY <1>6, <1>7, <2>1, ConfigKept DEF OpsKnown
<1>9. ByPhase(phase, todo)'
  <2>1. \A op \in Ops(todo') : op.do \in Threading /\ op.m[1] = "scope"
    BY <1>2, <1>3, <1>6 DEF Threading
  <2> QED BY <1>7, <2>1, ConfigKept DEF ByPhase
<1>10. \A i \in DOMAIN todo' : todo'[i].do # "join"
  <2>1. \A op \in Ops(todo') : op.do # "join"
    BY <1>3, <1>6
  <2> QED BY <2>1 DEF Ops
<1>11. \A m_1 \in Monitors : state'[m_1] # "none" => Possible(m_1)'
  BY <1>7, ConfigKept DEF TodoInv
<1> QED BY <1>6, <1>8, <1>9, <1>10, <1>11 DEF TodoInv, CloseRank

LEMMA ThreadPair ==
  ASSUME LifeTypeOK, Orderly, NEW t \in 1 .. Tasks, InsertThread(t) \/ ExitThread(t)
  PROVE  /\ Orderly' /\ UNCHANGED <<config, phase, state, crashed, plugin, times>> /\ phase = "run" /\ todo = <<>>
         /\ \/ Ops(todo') = {Op("make", <<"scope", t>>), Op("start", <<"scope", t>>)}
            \/ Ops(todo') = {Op("stop", <<"scope", t>>), Op("destroy", <<"scope", t>>)}
<1>1. /\ UNCHANGED <<config, phase, state, crashed, plugin, times>> /\ mode = "process" /\ phase = "run" /\ todo = <<>>
      /\ \/ todo' = <<Op("make", <<"scope", t>>), Op("start", <<"scope", t>>)>>
         \/ todo' = <<Op("stop", <<"scope", t>>), Op("destroy", <<"scope", t>>)>>
  BY DEF InsertThread, ExitThread, Measuring
<1> DEFINE m == <<"scope", t>>
<1>2. m[1] = "scope" /\ Possible(m) /\ UNCHANGED <<config, phase, state>> /\ TodoInv
  BY <1>1, PossibleFacts DEF Scopes, Orderly
<1> HIDE DEF m
<1>3. PICK a, b : /\ \/ a = Op("make", m) /\ b = Op("start", m)
                     \/ a = Op("stop", m) /\ b = Op("destroy", m)
                  /\ todo' = <<a, b>>
  BY <1>1 DEF m
<1>4. TodoInv' /\ Ops(todo') = {a, b}
  BY <1>1, <1>2, <1>3, ScopePair
<1>5. phase' = "run"
  BY <1>1
<1>6. StartedInOrder'
  BY <1>5 DEF StartedInOrder
<1> QED BY <1>1, <1>3, <1>4, <1>5, <1>6, BeforeEnd DEF Orderly, m

Runs(m) == Begin(m) \/ LastRound(m) \/ Round(m) \/ Panic(m) \/ Spin(m)

LEMMA RunsFacts ==
  ASSUME LifeTypeOK, NEW m \in Monitors, Runs(m)
  PROVE  /\ UNCHANGED <<config, phase, todo, crashed, plugin, clock, to>>
         /\ \A n \in Monitors : Joinable(n)' <=> Joinable(n)
         /\ \A n \in Monitors : state'[n] = "none" <=> state[n] = "none"
         /\ Joinable(m) /\ Joinable(m)'
         /\ last' = last \/ last' = clock
         /\ state' \in [Monitors -> States]
<1>1. \E s \in {"started", "looping"}, t \in {"looping", "spinning", "ended"} : Thread(m, s, t)
  BY DEF Runs, Begin, LastRound, Round, Panic, Spin
<1>2. PICK s \in {"started", "looping"}, t \in {"looping", "spinning", "ended"} : Thread(m, s, t)
  BY <1>1
<1>3. /\ state[m] = s /\ state' = [state EXCEPT ![m] = t]
      /\ UNCHANGED <<config, todo, phase, crashed, plugin, clock, to>>
  BY <1>2 DEF Thread
<1>4. \A n \in Monitors : state'[n] = IF n = m THEN t ELSE state[n]
  BY <1>3 DEF LifeTypeOK
<1>5. last' = last \/ last' = clock
  BY DEF Runs, Begin, LastRound, Round, Panic, Spin
<1>6. state' \in [Monitors -> States]
  BY <1>3 DEF LifeTypeOK, States
<1> QED BY <1>3, <1>4, <1>5, <1>6 DEF Joinable

LEMMA RunsOrderly ==
  ASSUME LifeTypeOK, Orderly, NEW m \in Monitors, Runs(m)
  PROVE  Orderly'
<1>1. /\ UNCHANGED <<config, phase, todo, crashed>>
      /\ \A n \in Monitors : state'[n] # "none" => state[n] # "none"
      /\ NothingStarts
  BY RunsFacts DEF NothingStarts
<1> QED BY <1>1, Stays

(* Steps of the environment and of the child.                              *)
Outside == Fork \/ RunCommand \/ ChildUnwinds \/ (Attach /\ todo' = todo /\ phase' = phase) \/ Tick \/ PluginSamples

LEMMA OutsideOrderly ==
  ASSUME LifeTypeOK, Orderly, Outside \/ UNCHANGED vars
  PROVE  Orderly' /\ UNCHANGED <<config, phase, todo, crashed, state, to, last>>
<1>1. UNCHANGED <<config, phase, todo, crashed, state, to, last>>
  BY DEF Outside, Fork, RunCommand, ChildUnwinds, Attach, Tick, PluginSamples, vars, config, times
<1>2. NothingStarts /\ \A n \in Monitors : state'[n] # "none" => state[n] # "none"
  BY <1>1 DEF NothingStarts, Joinable
<1>3. UNCHANGED <<config, phase, todo, crashed>>
  BY <1>1
<1> QED BY <1>1, <1>2, <1>3, Stays

LEMMA AttachCases ==
  ASSUME Attach
  PROVE  \/ todo' = todo /\ phase' = phase
         \/ /\ phase' = "destruct"
            /\ \/ todo' = Finish
               \/ mode # "process" /\ "attach_system" \in MayFail /\ todo' = DestroyScopes \o MainDestructor
  BY DEF Attach

LEMMA InitOrderly ==
  ASSUME Init
  PROVE  LifeTypeOK /\ Orderly
<1>1. /\ todo = Construct /\ phase = "construct" /\ state = [m \in Monitors |-> "none"] /\ crashed = FALSE
      /\ clock = 0 /\ to = 0 /\ last = 0 /\ plugin \in Metrics
  BY DEF Init
<1>2. /\ DOMAIN plugin = {"loaded", "channel", "recording", "values", "written"}
      /\ plugin.values = {}
  <2>1. /\ DOMAIN Skipped = {"loaded", "channel", "recording", "values", "written"}
        /\ Skipped.values = {}
    BY DEF Skipped
  <2>2. plugin = Skipped \/ \E i \in PluginInfo, given \in BOOLEAN : plugin = Plugin(i, given)
    BY <1>1 DEF Metrics
  <2>3. ASSUME NEW i, NEW given, plugin = Plugin(i, given)
        PROVE  DOMAIN plugin = DOMAIN Skipped /\ plugin.values = Skipped.values
    <3>1. PICK l, c : plugin = [Skipped EXCEPT !.loaded = l, !.channel = c]
      BY <2>3 DEF Plugin
    <3> QED BY <2>1, <3>1
  <2> QED BY <2>1, <2>2, <2>3
<1>3. LifeTypeOK
  <2>1. state \in [Monitors -> States] /\ phase \in {"construct", "run", "destruct", "finalize", "close"}
    BY <1>1 DEF States
  <2>2. clock \in Nat /\ to \in 0 .. clock /\ last \in 0 .. clock /\ plugin.values \subseteq 0 .. clock
    BY <1>1, <1>2
  <2>3. crashed \in BOOLEAN
    BY <1>1
  <2> QED BY <1>2, <2>1, <2>2, <2>3 DEF LifeTypeOK
<1>4. /\ Ordered(todo, 1, 20) /\ \A op \in Ops(todo) : Builds(op)
  BY <1>1, ConstructFacts
<1>5. Ordered(todo, 1, CloseRank)
  <2>1. 1 \in Nat /\ 20 \in Nat /\ CloseRank \in Nat /\ 20 <= CloseRank
    BY DEF CloseRank
  <2> QED BY <1>4, <2>1, OrderedWider
<1>6. OpsKnown(todo) /\ ByPhase(phase, todo)
  BY <1>1, <1>4 DEF OpsKnown, ByPhase, Builds
<1>7. \A i \in DOMAIN todo : todo[i].do # "join"
  <2>1. \A op \in Ops(todo) : op.do \in Building
    BY <1>4 DEF Builds
  <2> QED BY <2>1 DEF Ops, Building
<1>8. \A m \in Monitors : state[m] = "none" /\ ~Joinable(m)
  BY <1>1 DEF Joinable
<1>9. TodoInv
  BY <1>5, <1>6, <1>7, <1>8 DEF TodoInv
<1>10. StartedInOrder /\ AllCovered /\ EndInv /\ FinalizedAlone
  BY <1>1, <1>8 DEF StartedInOrder, AllCovered, EndInv, EndPhase, FinalizedAlone
<1> QED BY <1>3, <1>9, <1>10 DEF Orderly

-----------------------------------------------------------------------------
(* Every step                                                              *)

(* The disjuncts of Next, those that make the same case taken together.    *)
LEMMA NextCases ==
  ASSUME [Next]_vars
  PROVE  \/ Make \/ Start \/ Throw \/ StopMonitor \/ Join \/ Destroy \/ PluginCall \/ Record \/ Proceed
         \/ EndRun \/ (Attach /\ ~(todo' = todo /\ phase' = phase))
         \/ \E t \in 1 .. Tasks : InsertThread(t) \/ ExitThread(t)
         \/ \E m \in Monitors : Runs(m)
         \/ Outside \/ UNCHANGED vars
<1>1. CASE Main
  BY <1>1 DEF Main
<1>2. CASE \E m \in Monitors : ThreadStep(m) \/ Round(m) \/ Panic(m) \/ Spin(m)
  BY <1>2 DEF ThreadStep, Runs
<1>3. CASE Fork \/ RunCommand \/ ChildUnwinds \/ Attach \/ EndRun \/ Tick \/ PluginSamples
  BY <1>3 DEF Outside
<1>4. CASE \E t \in 1 .. Tasks : InsertThread(t) \/ ExitThread(t)
  BY <1>4
<1>5. CASE UNCHANGED vars
  BY <1>5
<1> QED BY <1>1, <1>2, <1>3, <1>4, <1>5 DEF Next

LEMMA StepOrderly ==
  ASSUME LifeTypeOK, Orderly, [Next]_vars
  PROVE  Orderly'
<1>1. CASE Make \/ Start \/ Throw \/ StopMonitor
  BY <1>1, MakeOrderly, StartOrderly, ThrowOrderly, StopOrderly
<1>2. CASE Join \/ Destroy \/ PluginCall \/ Record \/ Proceed
  BY <1>2, JoinOrderly, DestroyOrderly, CallOrderly, ProceedOrderly
<1>3. CASE EndRun
  BY <1>3, EndRunOrderly
<1>4. CASE Attach /\ ~(todo' = todo /\ phase' = phase)
  <2>1. CASE todo' # todo
    BY <1>4, <2>1, EndRunOrderly
  <2>2. CASE todo' = todo
    <3>1. todo = <<>>
      BY <1>4 DEF Attach, Measuring
    <3>2. todo' = Finish \/ todo' = DestroyScopes \o MainDestructor
      BY <1>4, AttachCases
    <3>3. Do("close") \in Ops(todo')
      BY <3>2, EndSequences DEF Ends
    <3> QED BY <2>2, <3>1, <3>3, OrderedEmpty
  <2> QED BY <2>1, <2>2
<1>5. CASE \E t \in 1 .. Tasks : InsertThread(t) \/ ExitThread(t)
  BY <1>5, ThreadPair
<1>6. CASE \E m \in Monitors : Runs(m)
  BY <1>6, RunsOrderly
<1>7. CASE Outside \/ UNCHANGED vars
  BY <1>7, OutsideOrderly
<1> QED BY <1>1, <1>2, <1>3, <1>4, <1>5, <1>6, <1>7, NextCases

(* Fields of the plugin that a step leaves alone.                          *)
LEMMA PluginFacts ==
  ASSUME NEW p, DOMAIN p = {"loaded", "channel", "recording", "values", "written"}, NEW x, NEW y
  PROVE  /\ LET q == [p EXCEPT !.recording = x] IN
              DOMAIN q = DOMAIN p /\ q.values = p.values /\ q.channel = p.channel /\ q.written = p.written /\ q.recording = x
         /\ LET q == [p EXCEPT !.recording = x, !.written = y] IN
              DOMAIN q = DOMAIN p /\ q.values = p.values /\ q.channel = p.channel /\ q.written = y /\ q.recording = x
         /\ LET q == [p EXCEPT !.values = x] IN
              DOMAIN q = DOMAIN p /\ q.values = x /\ q.channel = p.channel /\ q.written = p.written
                /\ q.recording = p.recording
  OBVIOUS

LEMMA StateTyped ==
  ASSUME LifeTypeOK, NEW n, NEW s \in States, state' = [state EXCEPT ![n] = s]
  PROVE  state' \in [Monitors -> States]
  BY DEF LifeTypeOK

LEMMA PluginCallFacts ==
  ASSUME LifeTypeOK, PluginCall
  PROVE  /\ DOMAIN plugin' = DOMAIN plugin /\ plugin'.values = plugin.values /\ plugin'.channel = plugin.channel
         /\ This.do = "metrics_destroy" =>
              plugin'.recording = FALSE /\ plugin'.written = fetch_data(starting_time, to)
<1>1. CASE This.do = "metrics_destroy"
  <2>1. plugin' = [plugin EXCEPT !.recording = FALSE, !.written = fetch_data(starting_time, to)]
    BY <1>1 DEF PluginCall
  <2>2. DOMAIN plugin = {"loaded", "channel", "recording", "values", "written"}
    BY DEF LifeTypeOK
  <2>3. PICK y : y = fetch_data(starting_time, to)
    OBVIOUS
  <2>4. plugin' = [plugin EXCEPT !.recording = FALSE, !.written = y]
    BY <2>1, <2>3
  <2>5. /\ DOMAIN plugin' = DOMAIN plugin /\ plugin'.values = plugin.values /\ plugin'.channel = plugin.channel
        /\ plugin'.recording = FALSE /\ plugin'.written = y
    BY ONLY <2>2, <2>4
  <2> QED BY <2>3, <2>5
<1>2. CASE This.do # "metrics_destroy"
  <2>1. PICK x : plugin' = [plugin EXCEPT !.recording = x]
    BY <1>2 DEF PluginCall
  <2> QED BY <1>2, <2>1, PluginFacts DEF LifeTypeOK
<1> QED BY <1>1, <1>2

LEMMA StepTyped ==
  ASSUME LifeTypeOK, Orderly, [Next]_vars
  PROVE  LifeTypeOK'
<1> DEFINE Phases == {"construct", "run", "destruct", "finalize", "close"}
           Clocks == /\ clock \in Nat /\ to \in 0 .. clock /\ last \in 0 .. clock
           Plug == /\ DOMAIN plugin = {"loaded", "channel", "recording", "values", "written"}
                   /\ plugin.values \subseteq 0 .. clock
<1>1. phase \in Phases /\ state \in [Monitors -> States] /\ crashed \in BOOLEAN /\ Clocks /\ Plug
  BY DEF LifeTypeOK
<1>2. ASSUME phase' \in Phases, state' \in [Monitors -> States], crashed' \in BOOLEAN, Clocks', Plug' PROVE LifeTypeOK'
  BY <1>2 DEF LifeTypeOK
<1>3. ASSUME UNCHANGED times, plugin' = plugin PROVE Clocks' /\ Plug'
  BY <1>1, <1>3 DEF times
<1>4. CASE Make \/ Start \/ Join
  <2>1. state' \in [Monitors -> States]
    BY <1>4, StateTyped DEF Make, Start, Join, Went, States
  <2> QED BY <1>1, <1>2, <1>3, <1>4, <2>1 DEF Make, Start, Join
<1>5. CASE Throw
  <2>1. state' \in [Monitors -> States]
    BY <1>1, <1>5, ThrowFacts DEF Undone, States
  <2>2. phase' \in Phases /\ crashed' = crashed /\ UNCHANGED times /\ plugin' = plugin
    BY <1>1, <1>5 DEF Throw
  <2> QED BY <1>1, <1>2, <1>3, <2>1, <2>2
<1>6. CASE StopMonitor
  <2>1. crashed' \in BOOLEAN /\ state' = state /\ phase' = phase /\ UNCHANGED times /\ plugin' = plugin
    BY <1>6 DEF StopMonitor
  <2> QED BY <1>1, <1>2, <1>3, <2>1
<1>7. CASE Destroy
  <2>1. crashed' \in BOOLEAN /\ phase' = phase /\ UNCHANGED times /\ plugin' = plugin
    BY <1>7 DEF Destroy, Joinable
  <2>2. state' \in [Monitors -> States]
    BY <1>7, StateTyped DEF Destroy, Went, States
  <2> QED BY <1>1, <1>2, <1>3, <2>1, <2>2
<1>8. CASE PluginCall
  <2>1. UNCHANGED <<state, phase, crashed, clock, to, last>>
    BY <1>8 DEF PluginCall, Went, times
  <2>2. Clocks' /\ Plug'
    BY <1>1, <1>8, <2>1, PluginCallFacts
  <2> QED BY <1>1, <1>2, <2>1, <2>2
<1>9. CASE Record
  <2>1. /\ UNCHANGED <<state, phase, crashed, clock, last, plugin>>
        /\ to' = clock \/ to' = to
    BY <1>9 DEF Record, Went
  <2>2. Clocks' /\ Plug'
    BY <1>1, <2>1
  <2> QED BY <1>1, <1>2, <2>1, <2>2
<1>10. CASE Proceed \/ EndRun \/ Attach
  <2>1. phase' \in Phases /\ UNCHANGED <<state, crashed, plugin, times>>
    BY <1>1, <1>10 DEF Proceed, EndRun, Attach, Went
  <2> QED BY <1>1, <1>2, <1>3, <2>1
<1>11. CASE \E t \in 1 .. Tasks : InsertThread(t) \/ ExitThread(t)
  <2>1. UNCHANGED <<phase, state, crashed, plugin, times>>
    BY <1>11, ThreadPair
  <2> QED BY <1>1, <1>2, <1>3, <2>1
<1>12. CASE \E m \in Monitors : Runs(m)
  <2>1. PICK m \in Monitors : Runs(m)
    BY <1>12
  <2>2. /\ UNCHANGED <<phase, crashed, plugin, clock, to>>
        /\ last' = last \/ last' = clock
        /\ state' \in [Monitors -> States]
    BY <2>1, RunsFacts
  <2>3. Clocks' /\ Plug'
    BY <1>1, <2>2
  <2> QED BY <1>1, <1>2, <2>2, <2>3
<1>13. CASE Outside \/ UNCHANGED vars
  <2>1. UNCHANGED <<phase, crashed, state, to, last>>
    BY <1>13, OutsideOrderly
  <2>2. CASE Tick
    <3>1. clock' = clock + 1 /\ plugin' = plugin
      BY <2>2 DEF Tick
    <3>2. \A x \in 0 .. clock : x \in 0 .. clock + 1
      BY <1>1
    <3>3. Clocks' /\ Plug'
      BY <1>1, <2>1, <3>1, <3>2
    <3> QED BY <1>1, <1>2, <2>1, <3>3
  <2>3. CASE PluginSamples
    <3>1. clock' = clock /\ plugin' = [plugin EXCEPT !.values = plugin.values \cup {clock}]
      BY <2>3 DEF PluginSamples, times
    <3>2. DOMAIN plugin' = DOMAIN plugin /\ plugin'.values = plugin.values \cup {clock}
      BY <1>1, <3>1, PluginFacts
    <3>3. clock \in 0 .. clock
      BY <1>1
    <3>4. Clocks' /\ Plug'
      BY <1>1, <2>1, <3>1, <3>2, <3>3
    <3> QED BY <1>1, <1>2, <2>1, <3>4
  <2>4. CASE Fork \/ RunCommand \/ ChildUnwinds \/ Attach \/ UNCHANGED vars
    <3>1. UNCHANGED <<plugin, times>>
      BY <2>4 DEF Fork, RunCommand, ChildUnwinds, Attach, vars, times
    <3> QED BY <1>1, <1>2, <1>3, <2>1, <3>1
  <2> QED BY <1>13, <2>2, <2>3, <2>4 DEF Outside
<1> QED BY <1>4, <1>5, <1>6, <1>7, <1>8, <1>9, <1>10, <1>11, <1>12, <1>13, NextCases

-----------------------------------------------------------------------------
(* The recorded interval                                                   *)

LEMMA SameThreads ==
  ASSUME \A m \in Monitors : Joinable(m)' <=> Joinable(m)
  PROVE  SomeJoinable' <=> SomeJoinable
  BY DEF SomeJoinable

LEMMA DoFacts ==
  /\ Do("end_record").do = "end_record" /\ Do("metrics_destroy").do = "metrics_destroy"
  BY DEF Do, Op

(* In the constructor.                                                     *)
LEMMA ConstructInterval ==
  ASSUME LifeTypeOK, Orderly, IntervalInv, [Next]_vars, phase' = "construct"
  PROVE  last' = 0 \/ SomeJoinable'
<1>1. ASSUME phase = "construct", last' = last, \A m \in Monitors : Joinable(m) => Joinable(m)'
      PROVE  last' = 0 \/ SomeJoinable'
  BY <1>1 DEF IntervalInv, SomeJoinable
<1>2. ASSUME Running, phase = "construct" PROVE This \in Ops(todo) /\ This.do \in Building
  BY <1>2, ThisFacts DEF Running, Orderly, TodoInv, ByPhase
<1>3. CASE Make
  <2>1. /\ Running /\ phase = "construct" /\ last' = last /\ This.do = "make"
        /\ state' = [state EXCEPT ![This.m] = "made"]
    BY <1>3 DEF Make, Went, times
  <2>2. \A m \in Monitors : Joinable(m) => m # This.m
    BY <1>2, <2>1 DEF Orderly, StartedInOrder
  <2>3. \A m \in Monitors : m # This.m => state'[m] = state[m]
    BY <2>1 DEF LifeTypeOK
  <2>4. \A m \in Monitors : Joinable(m) => Joinable(m)'
    BY <2>2, <2>3 DEF Joinable
  <2> QED BY <1>1, <2>1, <2>4
<1>4. CASE Start
  <2>1. Running /\ This.do = "start" /\ state' = [state EXCEPT ![This.m] = "started"]
    BY <1>4 DEF Start, Went
  <2>2. PICK m \in Monitors : m = This.m
    BY <2>1, PossibleMade
  <2>3. Joinable(m)'
    BY <2>1, <2>2 DEF LifeTypeOK, Joinable
  <2> QED BY <2>3 DEF SomeJoinable
<1>5. CASE Throw
  <2>1. Group(This.m[1]) \in Caught /\ phase = "construct" /\ last' = last
    BY <1>5, UncaughtFacts, CaughtFacts DEF Throw, times
  <2> QED BY <1>1, <1>5, <2>1, UndoneFacts
<1>6. CASE StopMonitor \/ Join \/ Destroy
  <2>1. Running /\ phase = "construct" /\ This.do \in {"stop", "join", "destroy"}
    BY <1>6 DEF StopMonitor, Join, Destroy
  <2> QED BY <1>2, <2>1 DEF Building
<1>7. CASE PluginCall \/ Record
  <2>1. phase = "construct" /\ last' = last /\ state' = state
    BY <1>7 DEF PluginCall, Record, Went, times
  <2> QED BY <1>1, <2>1 DEF Joinable
<1>8. CASE Proceed \/ EndRun \/ (Attach /\ ~(todo' = todo /\ phase' = phase))
  BY <1>8, AttachCases DEF Proceed, EndRun
<1>9. CASE \E t \in 1 .. Tasks : InsertThread(t) \/ ExitThread(t)
  BY <1>9, ThreadPair
<1>10. CASE \E m \in Monitors : Runs(m)
  BY <1>10, RunsFacts DEF SomeJoinable
<1>11. CASE Outside \/ UNCHANGED vars
  <2>1. UNCHANGED <<phase, state, last>>
    BY <1>11, OutsideOrderly
  <2> QED BY <1>1, <2>1 DEF Joinable
<1> QED BY <1>3, <1>4, <1>5, <1>6, <1>7, <1>8, <1>9, <1>10, <1>11, NextCases

Ended == EndPhase /\ ~crashed /\ Do("end_record") \notin Ops(todo)

(* No event is recorded behind the end.                                    *)
LEMMA EndInterval ==
  ASSUME LifeTypeOK, Orderly, IntervalInv, [Next]_vars, Ended'
  PROVE  last' <= to' \/ SomeJoinable'
<1>1. EndPhase' /\ ~crashed' /\ Do("end_record") \notin Ops(todo')
  BY DEF Ended
<1>2. ASSUME Ended, last' = last, to' = to, \A m \in Monitors : Joinable(m) => Joinable(m)'
      PROVE  last' <= to' \/ SomeJoinable'
  BY <1>2 DEF IntervalInv, SomeJoinable, Ended
<1>3. ASSUME Running, todo' = Tail(todo), phase' = phase, This.do # "end_record" PROVE Ended
  <2>1. Ops(todo) = {This} \cup Ops(todo')
    BY <1>3, ThisFacts DEF Running, Orderly
  <2> QED BY <1>1, <1>3, <2>1, DoFacts DEF Ended, Running, EndPhase
<1>4. ASSUME Running PROVE This \in Ops(todo) /\ OpKnown(This) /\ Ops(todo) = {This} \cup Ops(Tail(todo))
  BY <1>4, ThisFacts DEF Running, Orderly
<1>5. CASE Make \/ Start
  <2>1. Running /\ This.do \in {"make", "start"} /\ phase' = phase
    BY <1>5 DEF Make, Start
  <2> QED BY <1>1, <1>4, <2>1 DEF Orderly, TodoInv, ByPhase, EndPhase, Ending
<1>6. CASE Throw
  <2>1. Group(This.m[1]) \notin Caught
    BY <1>1, <1>6, CaughtFacts, ThrowFacts DEF EndPhase
  <2>2. This.m[1] = "bio" /\ phase = "construct" /\ \A m \in Monitors : Joinable(m)' <=> Joinable(m)
    BY <1>1, <1>6, <2>1, UnwindStops, UncaughtFacts
  <2>3. last' = last /\ to' = to /\ last \in Nat /\ to \in Nat
    BY <1>6 DEF Throw, times, LifeTypeOK
  <2>4. last = 0 \/ SomeJoinable
    BY <2>2 DEF IntervalInv
  <2>5. SomeJoinable' <=> SomeJoinable
    BY <2>2, SameThreads
  <2>6. last = 0 => last <= to
    BY <2>3
  <2> QED BY <2>3, <2>4, <2>5, <2>6
<1>7. CASE StopMonitor
  <2>1. /\ Running /\ This.do = "stop" /\ state' = state /\ phase' = phase /\ UNCHANGED times
        /\ todo' = IF Joinable(This.m) THEN <<Op("join", This.m)>> \o Tail(todo) ELSE Tail(todo)
    BY <1>7 DEF StopMonitor
  <2>2. Ops(Tail(todo)) \subseteq Ops(todo')
    <3>1. CASE Joinable(This.m)
      <4>1. TodoInv /\ todo # <<>> /\ todo' = <<Op("join", This.m)>> \o Tail(todo)
        BY <2>1, <3>1 DEF Orderly, Running
      <4> QED BY <2>1, <4>1, JoinFirst
    <3>2. CASE ~Joinable(This.m)
      BY <2>1, <3>2
    <3> QED BY <3>1, <3>2
  <2>3. Ended
    BY <1>1, <1>4, <2>1, <2>2, DoFacts DEF Ended, Running, EndPhase
  <2> QED BY <1>2, <2>1, <2>3 DEF Joinable, times
<1>8. CASE Join
  <2>1. Running /\ This.do = "join" /\ todo' = Tail(todo) /\ phase' = phase
    BY <1>8 DEF Join, Went
  <2>2. Ended
    BY <1>3, <2>1
  <2>3. This.m \in Monitors /\ This = Op("join", This.m) /\ This \in Ops(todo)
    BY <2>1, MonitorOp DEF OnMonitor
  <2>4. Rank(This) < EndRank
    BY <2>3, EndRanks
  <2> QED BY <2>2, <2>3, <2>4 DEF Orderly, EndInv, Remaining, Ended
<1>9. CASE Destroy
  <2>1. /\ Running /\ This.do = "destroy" /\ todo' = Tail(todo) /\ phase' = phase /\ ~Joinable(This.m) /\ UNCHANGED times
        /\ state' = [state EXCEPT ![This.m] = "none"]
    BY <1>1, <1>9 DEF Destroy, Went
  <2>2. Ended
    BY <1>3, <2>1
  <2>3. \A m \in Monitors : m # This.m => state'[m] = state[m]
    BY <2>1 DEF LifeTypeOK
  <2>4. \A m \in Monitors : Joinable(m) => Joinable(m)'
    BY <2>1, <2>3 DEF Joinable
  <2> QED BY <1>2, <2>1, <2>2, <2>4 DEF times
<1>10. CASE PluginCall
  <2>1. Running /\ This.do # "end_record" /\ todo' = Tail(todo) /\ phase' = phase /\ state' = state /\ UNCHANGED times
    BY <1>10 DEF PluginCall, Went
  <2> QED BY <1>2, <1>3, <2>1 DEF times, Joinable
<1>11. CASE Record
  <2>1. /\ Running /\ todo' = Tail(todo) /\ phase' = phase /\ state' = state /\ last' = last
        /\ to' = IF This.do = "end_record" THEN clock ELSE to
    BY <1>11 DEF Record, Went
  <2>2. CASE This.do = "end_record"
    BY <2>1, <2>2 DEF LifeTypeOK
  <2>3. CASE This.do # "end_record"
    BY <1>2, <1>3, <2>1, <2>3 DEF Joinable
  <2> QED BY <2>2, <2>3
<1>12. CASE Proceed
  <2>1. /\ Running /\ This.do \in {"run", "finalize", "close"} /\ phase' = This.do /\ todo' = Tail(todo) /\ state' = state
        /\ UNCHANGED times
    BY <1>12 DEF Proceed, Went
  <2>2. EndPhase
    <3>1. This.do \in {"finalize", "close"}
      BY <1>1, <2>1 DEF EndPhase
    <3>2. This.do \notin Threading /\ This.do \notin Building
      BY <3>1 DEF Threading, Building
    <3> QED BY <1>4, <2>1, <3>2 DEF Orderly, TodoInv, ByPhase, LifeTypeOK, EndPhase
  <2>3. Ended
    BY <1>1, <1>4, <2>1, <2>2, DoFacts DEF Ended, Running
  <2> QED BY <1>2, <2>1, <2>3 DEF times, Joinable
<1>13. CASE EndRun \/ (Attach /\ ~(todo' = todo /\ phase' = phase))
  <2>1. todo' = Finish \/ todo' = DestroyScopes \o MainDestructor
    BY <1>13, AttachCases DEF EndRun
  <2> QED BY <1>1, <2>1, EndSequences
<1>14. CASE \E t \in 1 .. Tasks : InsertThread(t) \/ ExitThread(t)
  BY <1>1, <1>14, ThreadPair DEF EndPhase
<1>15. CASE \E m \in Monitors : Runs(m)
  BY <1>15, RunsFacts DEF SomeJoinable
<1>16. CASE Outside \/ UNCHANGED vars
  <2>1. UNCHANGED <<phase, todo, crashed, state, to, last>>
    BY <1>16, OutsideOrderly
  <2> QED BY <1>1, <1>2, <2>1 DEF Joinable, Ended, EndPhase
<1> QED BY <1>5, <1>6, <1>7, <1>8, <1>9, <1>10, <1>11, <1>12, <1>13, <1>14, <1>15, <1>16, NextCases

Fetched == EndPhase /\ Do("metrics_destroy") \notin Ops(todo)
Delivered == plugin.recording = FALSE /\ plugin.written = fetch_data(starting_time, to)

(* What the plugin recorded is delivered once, after the end was recorded. *)
LEMMA FetchInterval ==
  ASSUME LifeTypeOK, Orderly, Fetched => Delivered, [Next]_vars, Fetched'
  PROVE  Delivered'
<1>1. EndPhase' /\ Do("metrics_destroy") \notin Ops(todo')
  BY DEF Fetched
<1>2. ASSUME Fetched, plugin' = plugin, to' = to PROVE Delivered'
  BY <1>2 DEF Delivered, fetch_data
<1>3. ASSUME Running PROVE This \in Ops(todo) /\ OpKnown(This) /\ Ops(todo) = {This} \cup Ops(Tail(todo))
  BY <1>3, ThisFacts DEF Running, Orderly
<1>4. ASSUME Running, EndPhase, Ops(Tail(todo)) \subseteq Ops(todo'), This.do # "metrics_destroy" PROVE Fetched
  BY <1>1, <1>3, <1>4, DoFacts DEF Fetched
<1>5. CASE Make \/ Start
  <2>1. Running /\ This.do \in {"make", "start"} /\ phase' = phase
    BY <1>5 DEF Make, Start
  <2> QED BY <1>1, <1>3, <2>1 DEF Orderly, TodoInv, ByPhase, EndPhase, Ending
<1>6. CASE Throw
  <2>1. Group(This.m[1]) \notin Caught
    BY <1>1, <1>6, CaughtFacts, ThrowFacts DEF EndPhase
  <2> QED BY <1>1, <1>6, <2>1, UnwindStops DEF Ends
<1>7. CASE StopMonitor
  <2>1. /\ Running /\ This.do = "stop" /\ phase' = phase /\ plugin' = plugin /\ to' = to
        /\ todo' = IF Joinable(This.m) THEN <<Op("join", This.m)>> \o Tail(todo) ELSE Tail(todo)
    BY <1>7 DEF StopMonitor, times
  <2>2. Ops(Tail(todo)) \subseteq Ops(todo')
    <3>1. CASE Joinable(This.m)
      <4>1. TodoInv /\ todo # <<>> /\ todo' = <<Op("join", This.m)>> \o Tail(todo)
        BY <2>1, <3>1 DEF Orderly, Running
      <4> QED BY <2>1, <4>1, JoinFirst
    <3>2. CASE ~Joinable(This.m)
      BY <2>1, <3>2
    <3> QED BY <3>1, <3>2
  <2> QED BY <1>1, <1>2, <1>4, <2>1, <2>2 DEF EndPhase
<1>8. CASE Join \/ Destroy
  <2>1. /\ Running /\ This.do \in {"join", "destroy"} /\ todo' = Tail(todo) /\ phase' = phase /\ plugin' = plugin
        /\ to' = to
    BY <1>8 DEF Join, Destroy, Went, times
  <2> QED BY <1>1, <1>2, <1>4, <2>1 DEF EndPhase
<1>9. ASSUME Running, EndPhase, This.do \in {"metrics_start", "metrics_stop", "begin_record", "end_record"},
             todo' = Tail(todo)
      PROVE  FALSE
  <2>1. This.do \in Ending
    BY <1>3, <1>9 DEF Orderly, TodoInv, ByPhase, EndPhase
  <2>2. This.do \in {"metrics_stop", "end_record"}
    BY <1>9, <2>1 DEF Ending
  <2>3. This = Do(This.do) /\ This.do \in Calls
    BY <1>3, <1>9, <2>2, KnownFacts DEF Calls
  <2>4. Rank(This) = CallRank[This.do]
    BY <2>3, CallFacts
  <2>5. CallRank["metrics_stop"] < FetchRank /\ CallRank["end_record"] < FetchRank
    BY DEF CallRank, FetchRank
  <2>6. Do("metrics_destroy") \in Ops(todo)
    BY <1>3, <1>9, <2>2, <2>4, <2>5 DEF Orderly, EndInv, Remaining
  <2> QED BY <1>1, <1>3, <1>9, <2>2, <2>6, DoFacts
<1>10. CASE PluginCall
  <2>1. /\ Running /\ This.do \in {"metrics_start", "metrics_stop", "metrics_destroy"} /\ todo' = Tail(todo)
        /\ phase' = phase /\ to' = to
    BY <1>10 DEF PluginCall, Went, times
  <2>2. This.do = "metrics_destroy"
    BY <1>1, <1>9, <2>1 DEF EndPhase
  <2> QED BY <1>10, <2>1, <2>2, PluginCallFacts DEF Delivered, fetch_data
<1>11. CASE Record
  <2>1. Running /\ This.do \in {"begin_record", "end_record"} /\ todo' = Tail(todo) /\ phase' = phase
    BY <1>11 DEF Record, Went
  <2> QED BY <1>1, <1>9, <2>1 DEF EndPhase
<1>12. CASE Proceed
  <2>1. /\ Running /\ This.do \in {"run", "finalize", "close"} /\ phase' = This.do /\ todo' = Tail(todo)
        /\ plugin' = plugin /\ to' = to
    BY <1>12 DEF Proceed, Went, times
  <2>2. EndPhase
    <3>1. This.do \in {"finalize", "close"}
      BY <1>1, <2>1 DEF EndPhase
    <3>2. This.do \notin Threading /\ This.do \notin Building
      BY <3>1 DEF Threading, Building
    <3> QED BY <1>3, <2>1, <3>2 DEF Orderly, TodoInv, ByPhase, LifeTypeOK, EndPhase
  <2> QED BY <1>2, <1>4, <2>1, <2>2
<1>13. CASE EndRun \/ (Attach /\ ~(todo' = todo /\ phase' = phase))
  <2>1. todo' = Finish \/ todo' = DestroyScopes \o MainDestructor
    BY <1>13, AttachCases DEF EndRun
  <2> QED BY <1>1, <2>1, EndSequences DEF Ends
<1>14. CASE \E t \in 1 .. Tasks : InsertThread(t) \/ ExitThread(t)
  BY <1>1, <1>14, ThreadPair DEF EndPhase
<1>15. CASE \E m \in Monitors : Runs(m)
  <2>1. UNCHANGED <<phase, todo, plugin, to>>
    BY <1>15, RunsFacts
  <2> QED BY <1>1, <1>2, <2>1 DEF Fetched, EndPhase
<1>16. CASE Outside \/ UNCHANGED vars
  <2>1. UNCHANGED <<phase, todo, to>>
    BY <1>16, OutsideOrderly
  <2>2. Fetched
    BY <1>1, <2>1 DEF Fetched, EndPhase
  <2>3. plugin.recording = FALSE
    BY <2>2 DEF Delivered
  <2>4. ~PluginSamples
    BY <2>3 DEF PluginSamples
  <2>5. plugin' = plugin
    BY <1>16, <2>4 DEF Outside, Fork, RunCommand, ChildUnwinds, Attach, Tick, vars
  <2> QED BY <1>2, <2>1, <2>2, <2>5
<1> QED BY <1>5, <1>6, <1>7, <1>8, <1>10, <1>11, <1>12, <1>13, <1>14, <1>15, <1>16, NextCases

LEMMA LifeParts ==
  /\ LifeInv <=> LifeTypeOK /\ Orderly /\ IntervalInv
  /\ IntervalInv <=> /\ phase = "construct" => last = 0 \/ SomeJoinable
                     /\ Ended => last <= to \/ SomeJoinable
                     /\ Fetched => Delivered
  BY DEF LifeInv, Orderly, IntervalInv, Ended, Fetched, Delivered

LEMMA InitLife ==
  ASSUME Init
  PROVE  LifeInv
<1>1. LifeTypeOK /\ Orderly
  BY InitOrderly
<1>2. phase = "construct" /\ last = 0
  BY DEF Init
<1>3. IntervalInv
  BY <1>2 DEF IntervalInv, EndPhase
<1> QED BY <1>1, <1>3, LifeParts

LEMMA StepLife ==
  ASSUME LifeInv, [Next]_vars
  PROVE  LifeInv'
<1>1. LifeTypeOK /\ Orderly /\ IntervalInv /\ (Fetched => Delivered)
  BY LifeParts
<1>2. LifeTypeOK' /\ Orderly'
  BY <1>1, StepTyped, StepOrderly
<1>3. phase' = "construct" => last' = 0 \/ SomeJoinable'
  BY <1>1, ConstructInterval
<1>4. Ended' => last' <= to' \/ SomeJoinable'
  BY <1>1, EndInterval
<1>5. Fetched' => Delivered'
  BY <1>1, FetchInterval
<1>6. IntervalInv'
  BY <1>3, <1>4, <1>5 DEF IntervalInv, Ended, Fetched, Delivered
<1> QED BY <1>2, <1>6 DEF LifeInv, Orderly

(* What is left to do is always in order and complete: everything that     *)
(* runs is still to be ended before the end of the recording, the          *)
(* finalization and the closing of the trace that are left.                *)
THEOREM LifeInOrder == Spec => []LifeInv
<1>1. Init => LifeInv
  BY InitLife
<1>2. LifeInv /\ [Next]_vars => LifeInv'
  BY StepLife
<1> QED BY <1>1, <1>2, PTL DEF Spec

(* When the trace is finalized and closed (~MainMonitor, ~Trace), no       *)
(* thread of a monitor is left that could still write to it: for any       *)
(* number of monitors, any options and any failures of constructors.       *)
THEOREM TraceFinalizedAlone == Spec => []FinalizedAlone
<1>1. LifeInv => FinalizedAlone
  BY DEF LifeInv
<1> QED BY <1>1, LifeInOrder, PTL

(* The time end_record() notes is the last possible one in the trace:      *)
(* when the trace is closed, no event of a monitor and no value of the     *)
(* metric plugin is later, and all its values taken until the last event   *)
(* were delivered (those taken before begin_record() among them).          *)
THEOREM IntervalRecorded == Spec => []RecordedInterval
<1>1. LifeInv => RecordedInterval
  <2>1. SUFFICES ASSUME LifeInv, phase = "close"
                 PROVE  /\ last <= to
                        /\ \A t \in plugin.written : t <= to
                        /\ plugin.channel => {t \in plugin.values : t <= last} \subseteq plugin.written
    BY DEF RecordedInterval
  <2>2. LifeTypeOK /\ Orderly /\ IntervalInv
    BY <2>1, LifeParts
  <2>3. EndPhase /\ ~crashed /\ ~SomeJoinable /\ \A op \in Ops(todo) : Rank(op) >= CloseRank
    BY <2>1, <2>2 DEF EndPhase, Orderly, EndInv, FinalizedAlone, SomeJoinable
  <2>4. Do("end_record") \notin Ops(todo) /\ Do("metrics_destroy") \notin Ops(todo)
    <3>1. ~(Rank(Do("end_record")) >= CloseRank) /\ ~(Rank(Do("metrics_destroy")) >= CloseRank)
      BY EndRanks DEF EndRank, FetchRank, CloseRank
    <3> QED BY <2>3, <3>1
  <2>5. last <= to /\ plugin.written = {t \in plugin.values : plugin.channel /\ starting_time <= t /\ t <= to}
    BY <2>2, <2>3, <2>4 DEF IntervalInv, fetch_data
  <2>6. last \in Nat /\ to \in Nat /\ clock \in Nat /\ plugin.values \subseteq 0 .. clock /\ starting_time = 0
    BY <2>2 DEF LifeTypeOK, starting_time
  <2>7. \A t \in plugin.written : t <= to
    BY <2>5, <2>6
  <2>8. plugin.channel => {t \in plugin.values : t <= last} \subseteq plugin.written
    BY <2>5, <2>6
  <2> QED BY <2>5, <2>7, <2>8
<1> QED BY <1>1, LifeInOrder, PTL

-----------------------------------------------------------------------------
(* No failure ends lo2s                                                    *)

LEMMA BuildingOnly ==
  ASSUME LifeTypeOK, Orderly, OneWay, Running, This.do \in {"make", "start"}
  PROVE  /\ ~EndPhase /\ This \in Ops(todo) /\ Ops(todo) = {This} \cup Ops(Tail(todo))
         /\ \A op \in Ops(todo) : op.do \notin {"stop", "join", "destroy"}
<1>1. TodoInv /\ todo # <<>> /\ This \in Ops(todo) /\ Ops(todo) = {This} \cup Ops(Tail(todo))
  BY ThisFacts DEF Running, Orderly
<1>2. ~EndPhase
  BY <1>1 DEF TodoInv, ByPhase, EndPhase, Ending
<1>3. CASE phase = "construct"
  BY <1>1, <1>2, <1>3 DEF TodoInv, ByPhase, Building
<1>4. CASE phase = "run"
  BY <1>1, <1>2, <1>4 DEF OneWay
<1> QED BY <1>1, <1>2, <1>3, <1>4 DEF LifeTypeOK, EndPhase

LEMMA NothingToEnd ==
  ASSUME \A op \in Ops(todo') : op.do \notin {"stop", "join", "destroy"}
  PROVE  /\ StoppedFirst'
         /\ \A kind : Op("stop", <<kind, 1>>) \notin Ops(todo')
<1>1. \A do, m : Op(do, m).do = do
  BY DEF Op
<1> QED BY <1>1 DEF StoppedFirst

LEMMA BuildSurvives ==
  ASSUME LifeTypeOK, Orderly, SurviveInv, Make \/ Start
  PROVE  SurviveInv'
<1>1. /\ Running /\ This.do \in {"make", "start"} /\ todo' = Tail(todo) /\ phase' = phase /\ crashed' = crashed
      /\ UNCHANGED config
      /\ \/ This.do = "make" /\ state' = [state EXCEPT ![This.m] = "made"]
         \/ This.do = "start" /\ state' = [state EXCEPT ![This.m] = "started"]
  BY DEF Make, Start, Went
<1>2. /\ ~EndPhase /\ Ops(todo) = {This} \cup Ops(todo')
      /\ \A op \in Ops(todo) : op.do \notin {"stop", "join", "destroy"}
  BY <1>1, BuildingOnly DEF SurviveInv
<1>3. StoppedFirst' /\ \A kind : Op("stop", <<kind, 1>>) \notin Ops(todo')
  BY <1>2, NothingToEnd
<1>4. ~crashed' /\ (enabled \in Features)' /\ OneWay'
  BY <1>1, <1>2, ConfigKept DEF SurviveInv, OneWay
<1>5. ASSUME NEW m \in Monitors
      PROVE  /\ state[m] # "none" => state'[m] # "none"
             /\ This = Op("make", m) => state'[m] # "none"
  <2>1. This.m \in Monitors
    BY <1>1, PossibleMade
  <2>2. This = Op("make", m) => This.m = m
    BY DEF Op
  <2> QED BY <1>1, <2>1, <2>2 DEF LifeTypeOK
<1>6. ASSUME NEW kind, Made(kind), <<kind, 1>> \in Monitors PROVE Made(kind)'
  BY <1>1, <1>2, <1>3, <1>5, <1>6, ConfigKept DEF Made
<1> QED BY <1>3, <1>4, <1>6, MonitorMembers DEF SurviveInv

LEMMA CaughtSurvives ==
  ASSUME Survivable, LifeTypeOK, Orderly, SurviveInv, Throw, Group(This.m[1]) \in Caught
  PROVE  SurviveInv'
<1>1. /\ Running /\ This.do \in {"make", "start"} /\ This.m \in Monitors /\ This.m[1] \in MayFail
      /\ UNCHANGED config /\ phase' = phase /\ crashed' = crashed
  BY ThrowFacts, CaughtFacts DEF Throw
<1>2. ~EndPhase /\ \A op \in Ops(todo) : op.do \notin {"stop", "join", "destroy"}
  BY <1>1, BuildingOnly DEF SurviveInv
<1>3. Ops(todo') \subseteq Ops(todo)
  <2>1. PICK k : Later(todo, todo', k)
    BY CaughtFacts
  <2> QED BY <2>1, LaterFacts DEF Orderly, TodoInv
<1>4. StoppedFirst' /\ \A kind : Op("stop", <<kind, 1>>) \notin Ops(todo')
  BY <1>2, <1>3, NothingToEnd
<1>5. ~crashed' /\ (enabled \in Features)' /\ OneWay'
  BY <1>1, <1>3, ConfigKept DEF SurviveInv, OneWay
<1>6. This.m[1] \notin {"bio", "sensors"}
  BY <1>1 DEF Survivable, Caught, Group
<1>7. ASSUME NEW kind \in {"bio", "sensors"}
      PROVE  /\ Op("make", <<kind, 1>>) \in Ops(todo) => Op("make", <<kind, 1>>) \in Ops(todo')
             /\ state'[<<kind, 1>>] = state[<<kind, 1>>]
  <2>1. Op("make", <<kind, 1>>).m[1] = kind
    BY DEF Op
  <2>2. Group(kind) # Group(This.m[1]) /\ Group(kind) \notin {"adapt", "energy"}
    BY <1>6 DEF Group
  <2>3. Op("make", <<kind, 1>>) \in Ops(todo) => Op("make", <<kind, 1>>) \in Ops(todo')
    BY <2>1, <2>2, CaughtFacts
  <2>4. <<kind, 1>> \in Monitors /\ <<kind, 1>>[1] = kind
    BY MonitorMembers
  <2> QED BY <2>2, <2>3, <2>4, UndoneFacts
<1>8. ASSUME NEW kind \in {"bio", "sensors"}, Made(kind) PROVE Made(kind)'
  BY <1>1, <1>2, <1>4, <1>7, <1>8, ConfigKept DEF Made
<1> QED BY <1>4, <1>5, <1>8 DEF SurviveInv

LEMMA KindStops ==
  ASSUME NEW kind \in {"bio", "sensors"}
  PROVE  /\ Op("stop", <<kind, 1>>) \notin Ops(Members)
         /\ \A s \in {Finish, Unwind("posix"), Unwind("scope")} : Op("stop", <<kind, 1>>) \in Ops(s) => kind \in enabled
<1> DEFINE op == Op("stop", <<kind, 1>>)
<1>1. op.do = "stop" /\ op.m[1] = kind
  BY DEF Op
<1> HIDE DEF op
<1>2. \A m : Op("destroy", m).do = "destroy"
  BY DEF Op
<1>3. \A what : Do(what).do = what
  BY DEF Do, Op
<1>4. op \notin Ops(Members)
  <2>1. op \notin DestroyOrder /\ op \notin {Do("metrics_destroy"), Do("close")}
    BY <1>1, <1>2, <1>3 DEF DestroyOrder
  <2> QED BY <2>1, MembersFacts
<1>5. op \in Ops(MainDestructor) => op \in Ops(StopMonitors)
  <2>1. op \notin {Do("end_record"), Do("metrics_stop"), Do("finalize")}
    BY <1>1, <1>3
  <2> QED BY <1>4, <2>1, MainDestructorFacts
<1>6. op \notin Ops(StopScopes) /\ op \notin Ops(DestroyScopes)
  <2>1. \A i : Op("stop", <<"scope", i>>).m[1] = "scope"
    BY DEF Op
  <2> QED BY <1>1, <1>2, <2>1, ScopesFacts
<1>7. op # Op("stop", <<"posix", 1>>) /\ op # Op("destroy", <<"posix", 1>>)
  <2>1. Op("stop", <<"posix", 1>>).m[1] = "posix"
    BY DEF Op
  <2> QED BY <1>1, <1>2, <2>1
<1>8. op \in Ops(StopMonitors) => kind \in enabled
  BY StopMonitorsFacts DEF op
<1>9. op \in Ops(Finish) => op \in Ops(MainDestructor)
  BY <1>6, <1>7, FinishFacts
<1>10. op \in Ops(Unwind("posix")) => op \in Ops(MainDestructor)
  BY <1>7, UnwindFacts
<1>11. op \in Ops(Unwind("scope")) => op \in Ops(MainDestructor)
  BY <1>6, UnwindFacts
<1> QED BY <1>4, <1>5, <1>8, <1>9, <1>10, <1>11 DEF op

LEMMA UncaughtSurvives ==
  ASSUME Survivable, LifeTypeOK, Orderly, SurviveInv, Throw, Group(This.m[1]) \notin Caught
  PROVE  SurviveInv'
<1>1. /\ This \in Ops(todo) /\ This.do \in {"make", "start"} /\ This = Op(This.do, This.m) /\ todo # <<>>
      /\ This.m \in Monitors /\ Possible(This.m) /\ This.m[1] \in MayFail /\ UNCHANGED config /\ crashed' = crashed
  BY ThrowFacts DEF Throw
<1>2. /\ phase = "construct" /\ phase' = "destruct" /\ todo' = Unwind(This.m[1])
      /\ \/ This.m[1] = "bio" /\ \A m \in Monitors : Joinable(m) => m[1] = "tracepoint"
         \/ This.m[1] = "posix" \/ This.m[1] = "scope"
      /\ \A m \in Monitors : Joinable(m)' <=> Joinable(m)
  BY UncaughtFacts
<1>3. ~crashed' /\ (enabled \in Features)' /\ OneWay' /\ EndPhase'
  BY <1>1, <1>2, ConfigKept DEF SurviveInv, OneWay, EndPhase
<1>4. StoppedFirst'
  <2>1. CASE This.m[1] = "bio"
    <3>1. ASSUME NEW m \in Monitors, Joinable(m) PROVE FALSE
      <4>1. m[1] = "tracepoint" /\ Possible(m)
        BY <1>2, <2>1, <3>1 DEF Joinable, Orderly, TodoInv
      <4>2. "tracepoint" \in enabled /\ "bio" \in enabled /\ enabled \in Features /\ "bio" \in MayFail
        BY <1>1, <2>1, <4>1 DEF Possible, SurviveInv
      <4> QED BY <4>2 DEF Survivable
    <3> QED BY <1>2, <3>1 DEF StoppedFirst
  <2>2. CASE This.m[1] # "bio"
    <3>1. StopsThem(todo')
      BY <2>2, UnwindStops
    <3> QED BY <1>2, <3>1 DEF StopsThem, StoppedFirst
  <2> QED BY <2>1, <2>2
<1>5. ASSUME NEW kind \in {"bio", "sensors"}, Made(kind) PROVE Made(kind)'
  <2>1. <<kind, 1>> \in Monitors /\ <<kind, 1>>[1] = kind
    BY MonitorMembers
  <2>2. state'[<<kind, 1>>] = state[<<kind, 1>>]
    BY <2>1, UndoneFacts DEF Group
  <2>3. ASSUME Op("stop", <<kind, 1>>) \in Ops(todo') PROVE state[<<kind, 1>>] # "none"
    <3>1. This.m[1] # "bio"
      BY <1>2, <2>3, KindStops, UnwindFacts
    <3>2. kind \in enabled
      BY <1>2, <2>3, <3>1, KindStops
    <3>3. Op("make", <<kind, 1>>) \notin Ops(todo)
      <4>1. Rank(Op("make", <<kind, 1>>)) = MakeRank[kind]
        BY <2>1, EndRanks
      <4>2. Rank(This) = MakeRank[This.m[1]] \/ Rank(This) = StartRank[This.m[1]]
        BY <1>1, EndRanks
      <4>3. /\ MakeRank["bio"] = 4 /\ MakeRank["sensors"] = 12 /\ MakeRank["posix"] = 16 /\ StartRank["posix"] = 17
            /\ MakeRank["scope"] = 18 /\ StartRank["scope"] = 18
        BY DEF MakeRank, StartRank
      <4>4. Rank(This) \in {16, 17, 18} /\ MakeRank[kind] \in {4, 12}
        BY <1>2, <3>1, <4>2, <4>3
      <4>5. ~(Rank(This) <= Rank(Op("make", <<kind, 1>>)))
        BY <4>1, <4>4
      <4> QED BY <1>1, <4>5, ThisFacts DEF Orderly
    <3>4. ~EndPhase
      BY <1>2 DEF EndPhase
    <3> QED BY <1>5, <3>2, <3>3, <3>4 DEF Made
  <2> QED BY <1>3, <2>2, <2>3 DEF Made
<1> QED BY <1>3, <1>4, <1>5 DEF SurviveInv

LEMMA EndSurvives ==
  ASSUME Survivable, LifeTypeOK, Orderly, SurviveInv, EndRun \/ (Attach /\ ~(todo' = todo /\ phase' = phase))
  PROVE  SurviveInv'
<1>1. /\ todo' = Finish /\ phase' = "destruct" /\ UNCHANGED <<config, state, crashed>> /\ todo = <<>> /\ phase = "run"
  BY AttachCases DEF EndRun, Attach, Measuring, Survivable
<1>2. UNCHANGED config /\ state' = state /\ crashed' = crashed
  BY <1>1 DEF config
<1>3. ~crashed' /\ (enabled \in Features)' /\ OneWay' /\ EndPhase' /\ ~EndPhase
  BY <1>1, <1>2, ConfigKept DEF SurviveInv, OneWay, EndPhase
<1>4. StoppedFirst'
  <2>1. StopsThem(todo')
    BY <1>1, FinishStops
  <2> QED BY <1>2, <2>1 DEF StopsThem, StoppedFirst, Joinable
<1>5. ASSUME NEW kind \in {"bio", "sensors"}, Made(kind) PROVE Made(kind)'
  <2>1. Ops(todo) = {}
    BY <1>1, OrderedEmpty
  <2>2. Op("stop", <<kind, 1>>) \in Ops(todo') => kind \in enabled
    BY <1>1, KindStops
  <2> QED BY <1>2, <1>3, <1>5, <2>1, <2>2 DEF Made
<1> QED BY <1>3, <1>4, <1>5 DEF SurviveInv

LEMMA TailSurvives ==
  ASSUME Orderly, SurviveInv, Running, todo' = Tail(todo), UNCHANGED config, ~crashed', OneWay',
         EndPhase => EndPhase', This.do \notin {"make", "start", "stop"}, NothingStarts,
         This.do = "join" => \A m \in Monitors : m = This.m => ~Joinable(m)',
         \A kind \in {"bio", "sensors"} :
           state[<<kind, 1>>] # "none" /\ (~EndPhase' \/ Op("stop", <<kind, 1>>) \in Ops(todo')) => state'[<<kind, 1>>] # "none"
  PROVE  SurviveInv'
<1>1. Ops(todo) = {This} \cup Ops(todo')
  BY ThisFacts DEF Running, Orderly
<1>2. \A do, m : Op(do, m).do = do /\ Op(do, m).m = m
  BY DEF Op
<1>3. StoppedFirst'
  <2>1. SUFFICES ASSUME NEW m \in Monitors, Joinable(m)', Op("destroy", m) \in Ops(todo')
                 PROVE  Op("stop", m) \in Ops(todo') \/ Op("join", m) \in Ops(todo')
    BY DEF StoppedFirst
  <2>2. Joinable(m) /\ Op("destroy", m) \in Ops(todo)
    BY <1>1, <2>1 DEF NothingStarts
  <2>3. Op("stop", m) \in Ops(todo) \/ Op("join", m) \in Ops(todo)
    BY <2>2 DEF SurviveInv, StoppedFirst
  <2>4. Op("stop", m) # This /\ Op("join", m) # This
    BY <1>2, <2>1
  <2> QED BY <1>1, <2>3, <2>4
<1>4. ASSUME NEW kind \in {"bio", "sensors"}, Made(kind) PROVE Made(kind)'
  <2>1. Op("make", <<kind, 1>>) # This
    BY <1>2
  <2>2. Op("make", <<kind, 1>>) \in Ops(todo) => Op("make", <<kind, 1>>) \in Ops(todo')
    BY <1>1, <2>1
  <2>3. Op("stop", <<kind, 1>>) \in Ops(todo') => state'[<<kind, 1>>] # "none"
    BY <1>1, <1>4 DEF Made
  <2>4. ASSUME ~EndPhase', kind \in enabled
        PROVE  Op("make", <<kind, 1>>) \in Ops(todo') \/ state'[<<kind, 1>>] # "none"
    BY <1>4, <2>2, <2>4 DEF Made
  <2> QED BY <2>3, <2>4, ConfigKept DEF Made
<1>5. (enabled \in Features)'
  BY ConfigKept DEF SurviveInv
<1> QED BY <1>3, <1>4, <1>5 DEF SurviveInv

LEMMA OneWayTail ==
  ASSUME Orderly, OneWay, Running, todo' = Tail(todo), phase' = phase
  PROVE  OneWay'
<1>1. Ops(todo) = {This} \cup Ops(todo')
  BY ThisFacts DEF Running, Orderly
<1> QED BY <1>1 DEF OneWay

LEMMA JoinSurvives ==
  ASSUME LifeTypeOK, Orderly, SurviveInv, Join
  PROVE  SurviveInv'
<1>1. /\ Running /\ This.do = "join" /\ todo' = Tail(todo) /\ state' = [state EXCEPT ![This.m] = "joined"]
      /\ UNCHANGED config /\ phase' = phase /\ crashed' = crashed /\ state[This.m] = "ended"
  BY DEF Join, Went
<1>2. \A m \in Monitors : state'[m] = IF m = This.m THEN "joined" ELSE state[m]
  BY <1>1 DEF LifeTypeOK
<1>3. NothingStarts /\ \A m \in Monitors : m = This.m => ~Joinable(m)'
  BY <1>2 DEF NothingStarts, Joinable
<1>4. \A kind \in {"bio", "sensors"} : state[<<kind, 1>>] # "none" => state'[<<kind, 1>>] # "none"
  BY <1>2, MonitorMembers
<1>5. ~crashed' /\ OneWay' /\ (EndPhase => EndPhase')
  BY <1>1, OneWayTail DEF SurviveInv, EndPhase
<1> QED BY <1>1, <1>3, <1>4, <1>5, TailSurvives

LEMMA DestroySurvives ==
  ASSUME LifeTypeOK, Orderly, SurviveInv, Destroy
  PROVE  SurviveInv'
<1>1. /\ Running /\ This.do = "destroy" /\ todo' = Tail(todo) /\ state' = [state EXCEPT ![This.m] = "none"]
      /\ UNCHANGED config /\ phase' = phase /\ crashed' = Joinable(This.m)
  BY DEF Destroy, Went
<1>2. This = Op("destroy", This.m) /\ This.m \in Monitors /\ This \in Ops(todo)
  BY <1>1, MonitorOp DEF OnMonitor
<1>3. ASSUME NEW m \in Monitors, m = This.m PROVE Op("stop", m) \notin Ops(todo) /\ Op("join", m) \notin Ops(todo)
  <2>1. /\ Rank(Op("stop", m)) = StopRank[m[1]] /\ Rank(Op("join", m)) = StopRank[m[1]]
        /\ Rank(This) = DestroyRank[m[1]] /\ StopRank[m[1]] \in Nat /\ DestroyRank[m[1]] \in Nat
        /\ StopRank[m[1]] < DestroyRank[m[1]]
    BY <1>2, <1>3, EndRanks
  <2>2. ~(Rank(This) <= Rank(Op("stop", m))) /\ ~(Rank(This) <= Rank(Op("join", m)))
    BY <2>1
  <2> QED BY <1>1, <2>2, ThisFacts DEF Running, Orderly
<1>4. ~crashed'
  BY <1>1, <1>2, <1>3 DEF SurviveInv, StoppedFirst
<1>5. \A m \in Monitors : state'[m] = IF m = This.m THEN "none" ELSE state[m]
  BY <1>1 DEF LifeTypeOK
<1>6. NothingStarts
  BY <1>5 DEF NothingStarts, Joinable
<1>7. Ops(todo) = {This} \cup Ops(todo')
  BY <1>1, ThisFacts DEF Running, Orderly
<1>8. ASSUME NEW kind \in {"bio", "sensors"}, state[<<kind, 1>>] # "none",
             ~EndPhase' \/ Op("stop", <<kind, 1>>) \in Ops(todo')
      PROVE  state'[<<kind, 1>>] # "none"
  <2>1. <<kind, 1>> \in Monitors /\ <<kind, 1>>[1] = kind
    BY MonitorMembers
  <2>2. ASSUME <<kind, 1>> = This.m PROVE FALSE
    <3>1. Op("stop", <<kind, 1>>) \notin Ops(todo')
      BY <1>3, <1>7, <2>1, <2>2
    <3>2. phase \in {"construct", "run"}
      BY <1>1, <1>8, <3>1 DEF EndPhase, LifeTypeOK
    <3>3. This.do \in Building \/ This.m[1] = "scope"
      BY <1>2, <3>2 DEF Orderly, TodoInv, ByPhase
    <3> QED BY <1>1, <2>1, <2>2, <3>3 DEF Building
  <2> QED BY <1>5, <1>8, <2>1, <2>2
<1>9. OneWay' /\ (EndPhase => EndPhase')
  BY <1>1, OneWayTail DEF SurviveInv, EndPhase
<1> QED BY <1>1, <1>4, <1>6, <1>8, <1>9, TailSurvives

LEMMA CallSurvives ==
  ASSUME LifeTypeOK, Orderly, SurviveInv, PluginCall \/ Record \/ Proceed
  PROVE  SurviveInv'
<1>1. /\ Running /\ This.do \in {"metrics_start", "metrics_stop", "metrics_destroy", "begin_record", "end_record",
                                 "run", "finalize", "close"}
      /\ todo' = Tail(todo) /\ state' = state /\ UNCHANGED config /\ crashed' = crashed
      /\ phase' = phase \/ (This.do \in {"run", "finalize", "close"} /\ phase' = This.do)
  BY DEF PluginCall, Record, Proceed, Went
<1>2. This \in Ops(todo) /\ Ops(todo) = {This} \cup Ops(todo')
  BY <1>1, ThisFacts DEF Running, Orderly
<1>3. CASE phase' = phase
  <2>1. ~crashed' /\ OneWay' /\ (EndPhase => EndPhase') /\ NothingStarts
    BY <1>1, <1>3, OneWayTail DEF SurviveInv, EndPhase, NothingStarts, Joinable
  <2> QED BY <1>1, <2>1, TailSurvives
<1>4. CASE This.do \in {"run", "finalize", "close"} /\ phase' = This.do
  <2>1. ASSUME This.do = "run" PROVE phase = "construct"
    BY <1>2, <2>1 DEF Orderly, TodoInv, ByPhase, LifeTypeOK, Threading, Ending
  <2>2. EndPhase => EndPhase'
    BY <1>4, <2>1 DEF EndPhase
  <2>3. OneWay'
    <3>1. ASSUME This.do = "run", NEW op \in Ops(todo') PROVE op.do \in {"make", "start"}
      <4>1. op.do \in Building
        BY <1>2, <2>1, <3>1 DEF Orderly, TodoInv, ByPhase
      <4>2. TodoInv'
        BY StepOrderly, <1>1 DEF Orderly, Next, Main
      <4>3. op.do \in Threading
        BY <1>4, <3>1, <4>2 DEF TodoInv, ByPhase
      <4> QED BY <4>1, <4>3 DEF Building, Threading
    <3> QED BY <1>4, <3>1 DEF OneWay
  <2>4. ~crashed' /\ NothingStarts
    BY <1>1 DEF SurviveInv, NothingStarts, Joinable
  <2> QED BY <1>1, <2>2, <2>3, <2>4, TailSurvives
<1> QED BY <1>1, <1>3, <1>4

LEMMA StopSurvives ==
  ASSUME LifeTypeOK, Orderly, SurviveInv, StopMonitor
  PROVE  SurviveInv'
<1>1. /\ Running /\ This.do = "stop" /\ state' = state /\ UNCHANGED config /\ phase' = phase
      /\ todo' = IF Joinable(This.m) THEN <<Op("join", This.m)>> \o Tail(todo) ELSE Tail(todo)
      /\ crashed' = (state[This.m] = "none" /\ This.m[1] \in {"sensors", "bio"})
  BY DEF StopMonitor
<1>2. /\ This = Op("stop", This.m) /\ This.m \in Monitors /\ This \in Ops(todo)
      /\ Ops(todo) = {This} \cup Ops(Tail(todo))
  BY <1>1, MonitorOp, ThisFacts DEF OnMonitor, Running, Orderly
<1>3. \A do, m : Op(do, m).do = do /\ Op(do, m).m = m
  BY DEF Op
<1>4. ~crashed'
  <2>1. ASSUME This.m[1] \in {"sensors", "bio"} PROVE state[This.m] # "none"
    <3>1. This.m = <<This.m[1], 1>>
      BY <1>2, <2>1, MonitorShape
    <3> QED BY <1>2, <2>1, <3>1 DEF SurviveInv, Made
  <2> QED BY <1>1, <2>1
<1>5. /\ Ops(Tail(todo)) \subseteq Ops(todo')
      /\ Joinable(This.m) => Ops(todo') = {Op("join", This.m)} \cup Ops(Tail(todo))
      /\ ~Joinable(This.m) => todo' = Tail(todo)
  <2>1. CASE Joinable(This.m)
    <3>1. TodoInv /\ todo # <<>> /\ todo' = <<Op("join", This.m)>> \o Tail(todo)
      BY <1>1, <2>1 DEF Orderly, Running
    <3> QED BY <1>1, <2>1, <3>1, JoinFirst
  <2>2. CASE ~Joinable(This.m)
    BY <1>1, <2>2
  <2> QED BY <2>1, <2>2
<1>6. \A op \in Ops(todo') : op \in Ops(todo) \/ op = Op("join", This.m)
  BY <1>2, <1>5
<1>7. OneWay'
  BY <1>1, <1>2, <1>3, <1>6 DEF SurviveInv, OneWay
<1>8. StoppedFirst'
  <2>1. SUFFICES ASSUME NEW m \in Monitors, Joinable(m), Op("destroy", m) \in Ops(todo')
                 PROVE  Op("stop", m) \in Ops(todo') \/ Op("join", m) \in Ops(todo')
    BY <1>1 DEF StoppedFirst, Joinable
  <2>2. Op("destroy", m) \in Ops(todo)
    BY <1>3, <1>6, <2>1
  <2>3. Op("stop", m) \in Ops(todo) \/ Op("join", m) \in Ops(todo)
    BY <2>1, <2>2 DEF SurviveInv, StoppedFirst
  <2>4. CASE m = This.m
    BY <1>5, <2>1, <2>4
  <2>5. CASE m # This.m
    <3>1. Op("stop", m) # This /\ Op("join", m) # This
      BY <1>3, <2>5
    <3> QED BY <1>2, <1>5, <2>3, <3>1
  <2> QED BY <2>4, <2>5
<1>9. ASSUME NEW kind \in {"bio", "sensors"}, Made(kind) PROVE Made(kind)'
  <2>1. Op("make", <<kind, 1>>) \in Ops(todo) => Op("make", <<kind, 1>>) \in Ops(todo')
    BY <1>1, <1>2, <1>3, <1>5
  <2>2. Op("stop", <<kind, 1>>) \in Ops(todo') => Op("stop", <<kind, 1>>) \in Ops(todo)
    BY <1>3, <1>6
  <2> QED BY <1>1, <1>9, <2>1, <2>2, ConfigKept DEF Made, EndPhase
<1>10. (enabled \in Features)'
  BY <1>1, ConfigKept DEF SurviveInv
<1> QED BY <1>4, <1>7, <1>8, <1>9, <1>10 DEF SurviveInv

LEMMA PairSurvives ==
  ASSUME LifeTypeOK, Orderly, SurviveInv, NEW t \in 1 .. Tasks, InsertThread(t) \/ ExitThread(t)
  PROVE  SurviveInv'
<1> DEFINE n == <<"scope", t>>
<1>1. /\ UNCHANGED <<config, phase, state, crashed>> /\ phase = "run" /\ todo = <<>>
      /\ \/ Ops(todo') = {Op("make", n), Op("start", n)}
         \/ Ops(todo') = {Op("stop", n), Op("destroy", n)}
  BY ThreadPair
<1>2. UNCHANGED config /\ phase' = phase /\ state' = state /\ ~crashed' /\ n[1] = "scope"
  BY <1>1 DEF config, SurviveInv
<1> HIDE DEF n
<1>3. \A do, m : Op(do, m).do = do /\ Op(do, m).m = m
  BY DEF Op
<1>4. OneWay'
  BY <1>1, <1>3 DEF OneWay
<1>5. StoppedFirst'
  <2>1. ASSUME NEW m \in Monitors, Op("destroy", m) \in Ops(todo') PROVE Op("stop", m) \in Ops(todo')
    <3>1. Ops(todo') = {Op("stop", n), Op("destroy", n)} /\ m = n
      BY <1>1, <1>3, <2>1
    <3> QED BY <3>1
  <2> QED BY <2>1 DEF StoppedFirst
<1>6. ASSUME NEW kind \in {"bio", "sensors"}, Made(kind) PROVE Made(kind)'
  <2>1. Ops(todo) = {} /\ ~EndPhase
    BY <1>1, OrderedEmpty DEF EndPhase
  <2>2. Op("stop", <<kind, 1>>) \notin Ops(todo')
    <3>1. <<kind, 1>>[1] # n[1]
      BY <1>2
    <3> QED BY <1>1, <1>3, <3>1
  <2> QED BY <1>2, <1>6, <2>1, <2>2, ConfigKept DEF Made
<1>7. (enabled \in Features)'
  BY <1>2, ConfigKept DEF SurviveInv
<1> QED BY <1>2, <1>4, <1>5, <1>6, <1>7 DEF SurviveInv

LEMMA StaysSurvives ==
  ASSUME SurviveInv, UNCHANGED <<config, phase, todo, crashed>>,
         \A n \in Monitors : Joinable(n)' <=> Joinable(n),
         \A n \in Monitors : state'[n] = "none" <=> state[n] = "none"
  PROVE  SurviveInv'
<1>1. UNCHANGED config /\ phase' = phase /\ todo' = todo /\ crashed' = crashed
  BY DEF config
<1>2. ~crashed' /\ (enabled \in Features)' /\ OneWay' /\ StoppedFirst'
  BY <1>1, ConfigKept DEF SurviveInv, OneWay, StoppedFirst
<1>3. ASSUME NEW kind, Made(kind), <<kind, 1>> \in Monitors PROVE Made(kind)'
  BY <1>1, <1>3, ConfigKept DEF Made, EndPhase
<1> QED BY <1>2, <1>3, MonitorMembers DEF SurviveInv

LEMMA InitSurvives ==
  ASSUME Init
  PROVE  SurviveInv
<1>1. /\ todo = Construct /\ phase = "construct" /\ state = [m \in Monitors |-> "none"] /\ crashed = FALSE
      /\ enabled \in Features
  BY DEF Init
<1>2. ~EndPhase /\ OneWay
  BY <1>1 DEF EndPhase, OneWay
<1>3. StoppedFirst
  BY <1>1 DEF StoppedFirst, Joinable
<1>4. \A op \in Ops(todo) : op.do \in Building
  BY <1>1, ConstructFacts DEF Builds
<1>5. ASSUME NEW kind \in {"bio", "sensors"} PROVE Made(kind)
  <2>1. Op("stop", <<kind, 1>>).do = "stop"
    BY DEF Op
  <2>2. Op("stop", <<kind, 1>>) \notin Ops(todo)
    BY <1>4, <2>1 DEF Building
  <2>3. kind \in enabled => Op("make", <<kind, 1>>) \in Ops(todo)
    BY <1>1, ConstructFacts
  <2> QED BY <2>2, <2>3 DEF Made
<1> QED BY <1>1, <1>2, <1>3, <1>5 DEF SurviveInv

LEMMA StepSurvives ==
  ASSUME Survivable, LifeInv, SurviveInv, [Next]_vars
  PROVE  SurviveInv'
<1>1. LifeTypeOK /\ Orderly
  BY LifeParts
<1>2. CASE Make \/ Start
  BY <1>1, <1>2, BuildSurvives
<1>3. CASE Throw
  <2>1. CASE Group(This.m[1]) \in Caught
    BY <1>1, <1>3, <2>1, CaughtSurvives
  <2>2. CASE Group(This.m[1]) \notin Caught
    BY <1>1, <1>3, <2>2, UncaughtSurvives
  <2> QED BY <2>1, <2>2
<1>4. CASE StopMonitor \/ Join \/ Destroy
  BY <1>1, <1>4, StopSurvives, JoinSurvives, DestroySurvives
<1>5. CASE PluginCall \/ Record \/ Proceed
  BY <1>1, <1>5, CallSurvives
<1>6. CASE EndRun \/ (Attach /\ ~(todo' = todo /\ phase' = phase))
  BY <1>1, <1>6, EndSurvives
<1>7. CASE \E t \in 1 .. Tasks : InsertThread(t) \/ ExitThread(t)
  BY <1>1, <1>7, PairSurvives
<1>8. CASE \E m \in Monitors : Runs(m)
  <2>1. PICK m \in Monitors : Runs(m)
    BY <1>8
  <2>2. /\ UNCHANGED <<config, phase, todo, crashed>>
        /\ \A n \in Monitors : Joinable(n)' <=> Joinable(n)
        /\ \A n \in Monitors : state'[n] = "none" <=> state[n] = "none"
    BY <1>1, <2>1, RunsFacts
  <2> QED BY <2>2, StaysSurvives
<1>9. CASE Outside \/ UNCHANGED vars
  <2>1. UNCHANGED <<config, phase, todo, crashed, state>>
    BY <1>1, <1>9, OutsideOrderly
  <2>2. /\ UNCHANGED <<config, phase, todo, crashed>>
        /\ \A n \in Monitors : Joinable(n)' <=> Joinable(n)
        /\ \A n \in Monitors : state'[n] = "none" <=> state[n] = "none"
    BY <2>1 DEF Joinable
  <2> QED BY <2>2, StaysSurvives
<1> QED BY <1>2, <1>3, <1>4, <1>5, <1>6, <1>7, <1>8, <1>9, NextCases

(* lo2s is never ended by the destruction of a monitor whose thread runs   *)
(* ("assert(!thread_.joinable())") or by stopping one that was not made,   *)
(* if the failures are among those it survives.                            *)
THEOREM SurvivesFailures ==
  ASSUME Survivable
  PROVE  Spec => []NeverTerminated
<1>1. Init => SurviveInv
  BY InitSurvives
<1>2. LifeInv /\ SurviveInv /\ [Next]_vars => SurviveInv'
  BY StepSurvives
<1>3. SurviveInv => NeverTerminated
  BY DEF SurviveInv, NeverTerminated
<1> QED BY <1>1, <1>2, <1>3, LifeInOrder, PTL DEF Spec
=============================================================================
