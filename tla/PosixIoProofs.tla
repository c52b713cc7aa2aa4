---------------------------- MODULE PosixIoProofs ----------------------------
(***************************************************************************)
(* Proofs about POSIX I/O recording for every number of threads,           *)
(* descriptors and calls and every size of the ring.                       *)
(*                                                                         *)
(* An exit record says neither which call it ends nor on which file, and   *)
(* an event names a file by thread, descriptor and a count that lo2s keeps *)
(* itself.  That both are right depends on what lies between the program   *)
(* and the monitor, in the ring.  The invariant therefore follows each     *)
(* thread and each descriptor through the events written, the records in   *)
(* the ring and the kernel's table.                                        *)
(***************************************************************************)
EXTENDS PosixIo, SequenceTheorems, WellFoundedInduction, TLAPS

(* No two threads use one table: descriptors are named by thread.          *)
OwnTables == \A t, u \in Threads : TableOf[t] = TableOf[u] => t = u

-----------------------------------------------------------------------------
(* The inductive invariant of the operations                               *)

IsSequence(s) == s \in Seq({s[i] : i \in DOMAIN s})

FileSet == {NoFile} \cup [name : Names \cup {""}, nr : Nat \ {0}]
CallSet == [call : {"none", "open", "rw", "exited"}, name : Names \cup {""}]
LastSet == [fd : Fds \cup {-1}, buf : Nat]

(* Threads that are or were recorded; what is noted of the call they are   *)
(* in.                                                                     *)
Tracked == DOMAIN last \cup inserting
Pending(t) == IF t \in DOMAIN last THEN last[t].fd ELSE -1

TypeOK ==
  /\ files \in [Threads -> [Fds -> FileSet]] /\ opened \in Nat /\ calls \in Nat
  /\ sys \in [Threads -> CallSet]
  /\ pids \subseteq Threads /\ lost \in BOOLEAN
  /\ DOMAIN last \subseteq Threads /\ last \in [DOMAIN last -> LastSet] /\ inserting \subseteq Threads
  /\ IsSequence(rb) /\ IsSequence(out)

(* A thread that was ever recorded is recorded until it exits.             *)
Recorded ==
  /\ pids \subseteq Tracked /\ inserting \subseteq pids
  /\ \A t, u \in inserting : t = u
  /\ \A t \in Tracked : t \in pids \/ sys[t].call = "exited"
  /\ DOMAIN open_cache \subseteq Tracked
  /\ \A t \in DOMAIN open_cache : sys[t].call = "open" => open_cache[t] = sys[t].name

RecordOK(r) ==
  /\ r.pid \in Tracked /\ r.type \in {"OPEN", "CLOSE", "ENTER", "EXIT"} /\ r.buf \in Nat
  /\ IF r.type = "EXIT" THEN r.fd = -1 ELSE r.fd \in Fds
  /\ r.type = "OPEN" => r.name = r.file.name

RecordsOK == \A i \in 1 .. Len(rb) : RecordOK(rb[i])

(* A handle in use has a count that is not above the current one.          *)
KnownIn(h, counts) ==
  /\ h = <<h[1], h[2], h[3]>> /\ <<h[1], h[2]>> \in DOMAIN counts
  /\ h[3] \in Nat /\ h[3] <= counts[<<h[1], h[2]>>]
Known(h) == KnownIn(h, instance_)

Counting ==
  /\ \A x \in DOMAIN instance_ : instance_[x] \in Nat
  /\ \A h \in DOMAIN handles : Known(h)
  /\ \A i \in 1 .. Len(out) :
       /\ Known(out[i].handle) /\ out[i].handle[1] = out[i].thread
       /\ out[i].thread \in Tracked

(* Operations are noted.                                                   *)
OpsNoted == \A i \in 1 .. Len(out) : out[i].type \in {"begin", "complete"} => out[i].thread \in DOMAIN last

Operation(e, t) == e.thread = t /\ e.type \in {"begin", "complete"}

(* The operation j is the last of thread t.                                *)
LastOf(s, j, t) ==
  j \in 1 .. Len(s) /\ Operation(s[j], t) /\ \A l \in 1 .. Len(s) : Operation(s[l], t) => l <= j

(* last_fd_ and last_buf_ are those of a thread's last operation, if that  *)
(* is not complete.                                                        *)
Begun(t) ==
  last[t].fd # -1 =>
    /\ <<t, last[t].fd>> \in DOMAIN instance_
    /\ \E j \in 1 .. Len(out) :
         /\ LastOf(out, j, t) /\ out[j].type = "begin"
         /\ out[j].buf = last[t].buf /\ out[j].handle[2] = last[t].fd
         /\ ~lost => out[j].handle[3] = instance_[<<t, last[t].fd>>]

AllBegun == \A t \in DOMAIN last : Begun(t)

(* Before position i of the ring, operations of thread t are complete.     *)
Is(r, t, type) == r.pid = t /\ r.type = type

Closed(s, fd, t, i) ==
  /\ fd # -1 => \E k \in 1 .. i - 1 : Is(s[k], t, "EXIT")
  /\ \A j \in 1 .. i - 1 : Is(s[j], t, "ENTER") => \E k \in j + 1 .. i - 1 : Is(s[k], t, "EXIT")

(* A thread does not open files while it reads or writes.                  *)
Quiet(t) ==
  /\ sys[t].call # "rw" => Closed(rb, Pending(t), t, Len(rb) + 1)
  /\ \A i \in 1 .. Len(rb) : Is(rb[i], t, "OPEN") => Closed(rb, Pending(t), t, i)

AllQuiet == ~lost => \A t \in Tracked : Quiet(t)

(* CompletesMatch, event by event.                                         *)
MatchedAt(s, i, lossy) ==
  s[i].type = "complete" =>
    \/ s[i].early /\ s[i].handle[2] = 0 /\ \A l \in 1 .. i - 1 : ~Operation(s[l], s[i].thread)
    \/ \E j \in 1 .. i - 1 :
         /\ Operation(s[j], s[i].thread) /\ s[j].type = "begin"
         /\ \A l \in 1 .. i - 1 : Operation(s[l], s[i].thread) => l <= j
         /\ s[i].buf = s[j].buf /\ s[i].handle[2] = s[j].handle[2]
         /\ ~lossy => s[i].handle = s[j].handle

AllMatched == \A i \in 1 .. Len(out) : MatchedAt(out, i, lost)

IInv == TypeOK /\ Recorded /\ RecordsOK /\ Counting /\ OpsNoted /\ AllBegun /\ AllQuiet /\ AllMatched

-----------------------------------------------------------------------------
(* The inductive invariant of the files                                    *)

About(r, t, fd) == r.pid = t /\ r.fd = fd
Closes(r, t, fd) == About(r, t, fd) /\ r.type = "CLOSE"

(* From the first that is about a file up to its close, what records in    *)
(* the ring say of a descriptor is about one file,                         *)
Chained(s, t, fd) ==
  \A i \in 1 .. Len(s) : \A j \in 1 .. i - 1 :
    /\ About(s[j], t, fd) /\ About(s[i], t, fd) /\ s[j].file # NoFile
    /\ \A k \in j .. i - 1 : ~Closes(s[k], t, fd)
    => s[i].file = s[j].file /\ s[i].type # "OPEN"

(* the one that is open at the end of the ring.                            *)
Ends(s, t, fd, file) ==
  \A j \in 1 .. Len(s) :
    About(s[j], t, fd) /\ s[j].file # NoFile /\ (\A k \in j .. Len(s) : ~Closes(s[k], t, fd)) => s[j].file = file

(* The records go on with the file f, and so does the kernel.              *)
Continues(s, t, fd, f, file) ==
  /\ \A i \in 1 .. Len(s) :
       About(s[i], t, fd) /\ (\A k \in 1 .. i - 1 : ~Closes(s[k], t, fd))
       => s[i].file = f /\ s[i].type # "OPEN"
  /\ (\A k \in 1 .. Len(s) : ~Closes(s[k], t, fd)) => file = f

(* The handle of event k is that of its descriptor and not destroyed.      *)
Live(s, counts, k) ==
  LET h == s[k].handle
  IN /\ s[k].type # "complete" /\ h[3] = counts[<<h[1], h[2]>>]
     /\ \A l \in k .. Len(s) : s[l].handle = h => s[l].type # "destroy"

RingFiles == \A t \in Threads, fd \in Fds : Chained(rb, t, fd) /\ Ends(rb, t, fd, File(t, fd))

EventFiles ==
  \A k \in 1 .. Len(out) : out[k].type # "complete" => out[k].handle[2] \in Fds

LiveFiles ==
  \A k \in 1 .. Len(out) : Live(out, instance_, k) /\ out[k].file # NoFile =>
    \A t \in Threads, fd \in Fds : t = out[k].handle[1] /\ fd = out[k].handle[2] =>
      Continues(rb, t, fd, out[k].file, File(t, fd))

Created == \A k \in 1 .. Len(out) : out[k].type = "create" => out[k].handle \in DOMAIN handles

(* HandleIsFile, event by event.                                           *)
HandleAt(s, names, j) ==
  /\ s[j].type = "create" =>
       /\ names[s[j].handle] = s[j].file.name
       /\ \A i \in 1 .. j - 1 : s[i].handle # s[j].handle
  /\ \A i \in 1 .. j - 1 :
       /\ s[i].handle = s[j].handle /\ s[i].file # NoFile
       /\ "complete" \notin {s[i].type, s[j].type}
       /\ \A k \in i .. j - 1 : s[k].handle = s[j].handle => s[k].type # "destroy"
       => s[i].file = s[j].file

AllHandles == \A j \in 1 .. Len(out) : HandleAt(out, handles, j)

FileInv == ~lost /\ ~silent => RingFiles /\ EventFiles /\ LiveFiles /\ Created /\ AllHandles

-----------------------------------------------------------------------------
(* Sequences and maps                                                      *)

LEMMA SequenceFacts ==
  ASSUME NEW s, IsSequence(s)
  PROVE  Len(s) \in Nat /\ DOMAIN s = 1 .. Len(s)
  BY DEF IsSequence

LEMMA SeqIsSequence ==
  ASSUME NEW S, NEW s \in Seq(S)
  PROVE  IsSequence(s)
<1>1. Len(s) \in Nat /\ DOMAIN s = 1 .. Len(s) /\ s = [i \in 1 .. Len(s) |-> s[i]]
  BY LenProperties
<1> DEFINE E == {s[i] : i \in DOMAIN s}
<1>2. \A i \in 1 .. Len(s) : s[i] \in E
  BY <1>1
<1> HIDE DEF E
<1>3. s \in [1 .. Len(s) -> E]
  BY <1>1, <1>2
<1>4. s \in Seq(E)
  BY <1>1, <1>3, IsASeq
<1> QED BY <1>4 DEF IsSequence, E

LEMMA AppendFacts ==
  ASSUME NEW s, IsSequence(s), NEW x
  PROVE  /\ IsSequence(Append(s, x)) /\ Len(Append(s, x)) = Len(s) + 1
         /\ \A i \in 1 .. Len(s) : Append(s, x)[i] = s[i]
         /\ Append(s, x)[Len(s) + 1] = x
<1> DEFINE S == {s[i] : i \in DOMAIN s}
<1>1. s \in Seq(S)
  BY DEF IsSequence
<1> HIDE DEF S
<1> DEFINE T == S \cup {x}
<1>2. s \in Seq(T) /\ x \in T
  BY <1>1, SeqMonotonic
<1> HIDE DEF T
<1>3. /\ Append(s, x) \in Seq(T) /\ Len(Append(s, x)) = Len(s) + 1
      /\ \A i \in 1 .. Len(s) : Append(s, x)[i] = s[i]
      /\ Append(s, x)[Len(s) + 1] = x
  BY <1>2, AppendProperties
<1> QED BY <1>3, SeqIsSequence

LEMMA TailFacts ==
  ASSUME NEW s, IsSequence(s), s # <<>>
  PROVE  /\ IsSequence(Tail(s)) /\ Len(s) \in Nat \ {0} /\ Len(Tail(s)) = Len(s) - 1
         /\ \A i \in 1 .. Len(s) - 1 : Tail(s)[i] = s[i + 1]
         /\ Head(s) = s[1]
<1> DEFINE S == {s[i] : i \in DOMAIN s}
<1>1. s \in Seq(S)
  BY DEF IsSequence
<1> HIDE DEF S
<1>2. /\ Tail(s) \in Seq(S) /\ Len(Tail(s)) = Len(s) - 1
      /\ \A i \in 1 .. Len(s) - 1 : Tail(s)[i] = s[i + 1]
      /\ Head(s) = s[1]
  BY <1>1, HeadTailProperties
<1>3. Len(s) \in Nat \ {0}
  BY <1>1, EmptySeq
<1> QED BY <1>2, <1>3, SeqIsSequence

LEMMA EmptyIsSequence == IsSequence(<<>>) /\ Len(<<>>) = 0
<1>1. <<>> \in Seq({}) /\ Len(<<>>) = 0
  OBVIOUS
<1> QED BY <1>1, SeqIsSequence

LEMMA WithFacts ==
  ASSUME NEW map, NEW key, NEW value, NEW m, m = With(map, key, value)
  PROVE  /\ DOMAIN m = DOMAIN map \cup {key} /\ m[key] = value
         /\ \A k \in DOMAIN map : k # key => m[k] = map[k]
  BY DEF With

(* What an append and the removal of the first do to Closed.               *)
LEMMA ClosedPrefix ==
  ASSUME NEW s, IsSequence(s), NEW r, NEW fd, NEW t, NEW i \in 1 .. Len(s) + 1, Closed(s, fd, t, i)
  PROVE  Closed(Append(s, r), fd, t, i)
<1> DEFINE a == Append(s, r)
<1>1. Len(s) \in Nat /\ \A k \in 1 .. Len(s) : a[k] = s[k]
  BY SequenceFacts, AppendFacts
<1> HIDE DEF a
<1>2. \A k \in 1 .. i - 1 : a[k] = s[k]
  BY <1>1
<1>3. \A j \in 1 .. i - 1 : \A k \in j + 1 .. i - 1 : k \in 1 .. i - 1
  BY <1>1
<1>4. Closed(a, fd, t, i)
  BY <1>2, <1>3 DEF Closed, Is
<1> QED BY <1>4 DEF a

LEMMA ClosedAppend ==
  ASSUME NEW s, IsSequence(s), NEW r, NEW fd, NEW t,
         (~Is(r, t, "ENTER") /\ Closed(s, fd, t, Len(s) + 1)) \/ Is(r, t, "EXIT")
  PROVE  Closed(Append(s, r), fd, t, Len(s) + 2)
<1> DEFINE a == Append(s, r)
           n == Len(s)
<1>1. n \in Nat /\ (\A k \in 1 .. n : a[k] = s[k]) /\ a[n + 1] = r
  BY SequenceFacts, AppendFacts
<1> HIDE DEF a
<1>2. CASE Is(r, t, "EXIT")
  <2>1. Is(a[n + 1], t, "EXIT") /\ ~Is(a[n + 1], t, "ENTER") /\ n + 1 \in 1 .. n + 2 - 1
    BY <1>1, <1>2 DEF Is
  <2>2. \A j \in 1 .. n + 2 - 1 : j = n + 1 \/ n + 1 \in j + 1 .. n + 2 - 1
    BY <1>1
  <2>3. Closed(a, fd, t, n + 2)
    BY <2>1, <2>2 DEF Closed
  <2> QED BY <2>3 DEF a
<1>3. CASE ~Is(r, t, "ENTER") /\ Closed(s, fd, t, n + 1)
  <2>1. fd # -1 => \E k \in 1 .. n + 2 - 1 : Is(a[k], t, "EXIT")
    <3>1. fd # -1 => \E k \in 1 .. n + 1 - 1 : Is(s[k], t, "EXIT")
      BY <1>3 DEF Closed
    <3>2. \A k \in 1 .. n + 1 - 1 : k \in 1 .. n + 2 - 1 /\ a[k] = s[k]
      BY <1>1
    <3> QED BY <3>1, <3>2
  <2>2. ASSUME NEW j \in 1 .. n + 2 - 1, Is(a[j], t, "ENTER")
        PROVE  \E k \in j + 1 .. n + 2 - 1 : Is(a[k], t, "EXIT")
    <3>1. j \in 1 .. n + 1 - 1 /\ a[j] = s[j]
      BY <1>1, <1>3, <2>2 DEF Is
    <3>2. PICK k \in j + 1 .. n + 1 - 1 : Is(s[k], t, "EXIT")
      BY <1>3, <2>2, <3>1 DEF Closed
    <3>3. k \in j + 1 .. n + 2 - 1 /\ a[k] = s[k]
      BY <1>1, <3>1
    <3> QED BY <3>2, <3>3
  <2>3. Closed(a, fd, t, n + 2)
    BY <2>1, <2>2 DEF Closed
  <2> QED BY <2>3 DEF a
<1> QED BY <1>2, <1>3

LEMMA ClosedTail ==
  ASSUME NEW s, IsSequence(s), s # <<>>, NEW fd, NEW t, NEW i \in 1 .. Len(s),
         Closed(s, fd, t, i + 1), NEW fd2,
         fd2 # -1 => Is(s[1], t, "ENTER") \/ (fd2 = fd /\ ~Is(s[1], t, "EXIT"))
  PROVE  Closed(Tail(s), fd2, t, i)
<1> DEFINE a == Tail(s)
           n == Len(s)
<1>1. n \in Nat \ {0} /\ \A k \in 1 .. n - 1 : a[k] = s[k + 1]
  BY TailFacts
<1> HIDE DEF a, n
<1>2. \A k \in 2 .. i : k - 1 \in 1 .. i - 1 /\ a[k - 1] = s[k]
  <2>1. i \in 1 .. n
    BY DEF n
  <2>2. \A k \in 2 .. i : k - 1 \in 1 .. i - 1 /\ k - 1 \in 1 .. n - 1 /\ k - 1 + 1 = k
    BY <1>1, <2>1
  <2> QED BY <1>1, <2>2
<1>3. i + 1 - 1 = i /\ i \in Nat
  BY <1>1 DEF n
<1>4. fd2 # -1 => \E k \in 1 .. i - 1 : Is(a[k], t, "EXIT")
  <2> SUFFICES ASSUME fd2 # -1 PROVE \E k \in 1 .. i - 1 : Is(a[k], t, "EXIT")
    OBVIOUS
  <2>1. \E k \in 2 .. i : Is(s[k], t, "EXIT")
    <3>1. CASE Is(s[1], t, "ENTER")
      <4>1. 1 \in 1 .. i + 1 - 1 /\ 1 + 1 = 2
        BY <1>3
      <4> QED BY <1>3, <3>1, <4>1 DEF Closed
    <3>2. CASE fd2 = fd /\ ~Is(s[1], t, "EXIT")
      <4>1. PICK k \in 1 .. i : Is(s[k], t, "EXIT")
        BY <1>3, <3>2 DEF Closed
      <4>2. k \in 2 .. i
        BY <1>3, <3>2, <4>1
      <4> QED BY <4>1, <4>2
    <3> QED BY <3>1, <3>2
  <2> QED BY <1>2, <2>1
<1>5. ASSUME NEW j \in 1 .. i - 1, Is(a[j], t, "ENTER")
      PROVE  \E k \in j + 1 .. i - 1 : Is(a[k], t, "EXIT")
  <2>1. j + 1 \in 1 .. i + 1 - 1 /\ a[j] = s[j + 1]
    BY <1>1, <1>3 DEF n
  <2>2. PICK k \in j + 1 + 1 .. i + 1 - 1 : Is(s[k], t, "EXIT")
    BY <1>5, <2>1 DEF Closed
  <2>3. k \in 2 .. i /\ k - 1 \in j + 1 .. i - 1
    BY <1>3
  <2> QED BY <1>2, <2>2, <2>3
<1>6. Closed(a, fd2, t, i)
  BY <1>4, <1>5 DEF Closed
<1> QED BY <1>6 DEF a

-----------------------------------------------------------------------------
(* The operations match: steps of the program                              *)

LEMMA InitHolds == Init => IInv
<1> SUFFICES ASSUME Init PROVE IInv
  OBVIOUS
<1>1. /\ IsSequence(rb) /\ Len(rb) = 0 /\ IsSequence(out) /\ Len(out) = 0 /\ DOMAIN last = {} /\ inserting = {}
      /\ Tracked = {} /\ DOMAIN open_cache = {} /\ DOMAIN instance_ = {} /\ DOMAIN handles = {}
  BY EmptyIsSequence DEF Init, Tracked
<1>2. 1 .. 0 = {}
  OBVIOUS
<1>3. TypeOK
  <2>1. NoFile \in FileSet /\ User \in CallSet
    BY DEF User, FileSet, CallSet
  <2>2. files \in [Threads -> [Fds -> FileSet]] /\ sys \in [Threads -> CallSet]
    BY <2>1 DEF Init
  <2>3. last \in [DOMAIN last -> LastSet]
    BY DEF Init
  <2> QED BY <1>1, <2>2, <2>3 DEF Init, TypeOK
<1>4. Recorded /\ RecordsOK /\ Counting /\ OpsNoted /\ AllBegun /\ AllQuiet /\ AllMatched
  BY <1>1, <1>2 DEF Init, Recorded, RecordsOK, Counting, OpsNoted, AllBegun, AllQuiet, AllMatched
<1> QED BY <1>3, <1>4 DEF IInv

(* A step that leaves the monitor alone.                                   *)
LEMMA SameFacts ==
  ASSUME last' = last, inserting' = inserting
  PROVE  Tracked' = Tracked /\ \A u : Pending(u)' = Pending(u)
  BY DEF Tracked, Pending

LEMMA MonitorUnchanged ==
  ASSUME IInv, UNCHANGED monitor, Tracked \subseteq Tracked', lost => lost',
         TypeOK', Recorded', RecordsOK', AllQuiet'
  PROVE  IInv'
<1>1. last' = last /\ instance_' = instance_ /\ handles' = handles /\ out' = out
  BY DEF monitor
<1>2. Counting' /\ OpsNoted'
  BY <1>1 DEF IInv, Counting, Known, OpsNoted
<1>3. AllBegun'
  BY <1>1 DEF IInv, AllBegun, Begun
<1>4. AllMatched'
  BY <1>1 DEF IInv, AllMatched, MatchedAt
<1> QED BY <1>2, <1>3, <1>4 DEF IInv

(* What a BPF program puts into the ring.                                  *)
LEMMA SubmitFacts ==
  ASSUME TypeOK, NEW t, NEW rec, Submit(t, rec)
  PROVE  /\ rb' = rb \/ (t \in pids /\ rb' = Append(rb, rec))
         /\ IsSequence(rb') /\ lost' \in BOOLEAN /\ (lost => lost')
         /\ ~lost' /\ t \in pids => rb' = Append(rb, rec)
<1>1. IsSequence(rb) /\ lost \in BOOLEAN
  BY DEF TypeOK
<1>2. IsSequence(Append(rb, rec))
  BY <1>1, AppendFacts
<1> QED BY <1>1, <1>2 DEF Submit

LEMMA RecordsKept ==
  ASSUME TypeOK, RecordsOK, Tracked' = Tracked, NEW rec, RecordOK(rec), rb' = rb \/ rb' = Append(rb, rec)
  PROVE  RecordsOK'
<1>1. CASE rb' = rb
  BY <1>1 DEF RecordsOK, RecordOK
<1>2. CASE rb' = Append(rb, rec)
  <2>1. /\ Len(rb) \in Nat /\ Len(rb') = Len(rb) + 1
        /\ \A i \in 1 .. Len(rb) : rb'[i] = rb[i]
        /\ rb'[Len(rb) + 1] = rec
    BY <1>2, SequenceFacts, AppendFacts DEF TypeOK
  <2>2. ASSUME NEW i \in 1 .. Len(rb') PROVE RecordOK(rb'[i])
    <3>1. CASE i \in 1 .. Len(rb)
      BY <2>1, <3>1 DEF RecordsOK
    <3>2. CASE i = Len(rb) + 1
      BY <2>1, <3>2
    <3> QED BY <2>1, <3>1, <3>2
  <2> QED BY <2>2 DEF RecordsOK, RecordOK
<1> QED BY <1>1, <1>2

(* A thread that makes a call is recorded now or was never recorded.       *)
LEMMA CallerRecorded ==
  ASSUME Recorded, NEW t \in Tracked, sys[t].call # "exited"
  PROVE  t \in pids
  BY DEF Recorded

(* Steps of thread t that put a record into the ring keep the order of     *)
(* operations and opens.                                                   *)
LEMMA QuietKept ==
  ASSUME TypeOK, Recorded, AllQuiet, NEW t \in Threads, NEW rec, rec.pid = t,
         Submit(t, rec), last' = last, inserting' = inserting, sys[t].call # "exited",
         \A u \in Threads \ {t} : sys'[u] = sys[u],
         rec.type = "OPEN" => sys[t].call # "rw",
         rec.type = "ENTER" => sys'[t].call = "rw",
         sys'[t].call # "rw" => sys[t].call # "rw" \/ rec.type = "EXIT"
  PROVE  AllQuiet'
<1>0. Tracked' = Tracked /\ \A u : Pending(u)' = Pending(u)
  BY SameFacts
<1> SUFFICES ASSUME ~lost', NEW u \in Tracked PROVE Quiet(u)'
  BY <1>0 DEF AllQuiet
<1> DEFINE n == Len(rb)
           fd == Pending(u)
<1>1. /\ ~lost /\ (rb' = rb \/ (t \in pids /\ rb' = Append(rb, rec)))
      /\ t \in pids => rb' = Append(rb, rec)
  BY SubmitFacts
<1>2. Quiet(u) /\ n \in Nat /\ u \in Threads /\ IsSequence(rb) /\ fd' = fd
  BY <1>0, <1>1, SequenceFacts DEF AllQuiet, TypeOK, Tracked
<1>3. CASE rb' = rb /\ t \notin pids
  <2>1. u # t
    BY <1>3, CallerRecorded
  <2>2. sys'[u] = sys[u]
    BY <1>2, <2>1
  <2> QED BY <1>2, <1>3, <2>2 DEF Quiet
<1>4. CASE t \in pids
  <2>1. /\ rb' = Append(rb, rec) /\ Len(rb') = n + 1 /\ rb'[n + 1] = rec
        /\ \A i \in 1 .. n : rb'[i] = rb[i]
    BY <1>1, <1>2, <1>4, AppendFacts
  <2>2. ASSUME NEW i \in 1 .. n + 1, Is(rb'[i], u, "OPEN") PROVE Closed(rb', fd, u, i)
    <3>1. Closed(rb, fd, u, i)
      <4>1. CASE i \in 1 .. n
        BY <1>2, <2>1, <2>2, <4>1 DEF Quiet
      <4>2. CASE i = n + 1
        BY <1>2, <2>1, <2>2, <4>2 DEF Quiet, Is
      <4> QED BY <1>2, <4>1, <4>2
    <3> QED BY <1>2, <2>1, <3>1, ClosedPrefix
  <2>3. ASSUME sys'[u].call # "rw" PROVE Closed(rb', fd, u, n + 1 + 1)
    <3>1. (~Is(rec, u, "ENTER") /\ Closed(rb, fd, u, n + 1)) \/ Is(rec, u, "EXIT")
      <4>1. CASE u = t
        BY <1>2, <2>3, <4>1 DEF Quiet, Is
      <4>2. CASE u # t
        BY <1>2, <2>3, <4>2 DEF Quiet, Is
      <4> QED BY <4>1, <4>2
    <3>2. Closed(rb', fd, u, n + 2)
      BY <1>2, <2>1, <3>1, ClosedAppend
    <3>3. n + 1 + 1 = n + 2
      BY <1>2
    <3> QED BY <3>2, <3>3
  <2> QED BY <1>2, <2>1, <2>2, <2>3 DEF Quiet
<1> QED BY <1>1, <1>3, <1>4

LEMMA QuietUnchanged ==
  ASSUME TypeOK, AllQuiet, last' = last, inserting' = inserting, rb' = rb, lost' = lost,
         \A u \in Tracked : sys'[u].call # "rw" => sys[u].call # "rw"
  PROVE  AllQuiet'
  BY SameFacts DEF AllQuiet, Quiet

LEMMA LeastOf ==
  ASSUME NEW S, S \subseteq Nat, S # {}
  PROVE  (CHOOSE n \in S : \A k \in S : n <= k) \in S
<1>1. \E x \in S : \A y \in S : ~ (<<y, x>> \in OpToRel(<, Nat))
  BY NatLessThanWellFounded, WFMin
<1>2. PICK x \in S : \A y \in S : ~ (<<y, x>> \in OpToRel(<, Nat))
  BY <1>1
<1>3. ASSUME NEW y \in S PROVE x <= y
  <2>1. x \in Nat /\ y \in Nat
    OBVIOUS
  <2>2. ~ (y < x)
    BY <1>2, <2>1 DEF OpToRel
  <2> QED BY <2>1, <2>2
<1> QED BY <1>3

LEMMA FilesTyped ==
  ASSUME TypeOK, NEW t \in Threads, NEW fd \in Fds, NEW file \in FileSet,
         files' = [files EXCEPT ![TableOf[t]][fd] = file]
  PROVE  files' \in [Threads -> [Fds -> FileSet]]
  BY DescriptorsAssumption DEF TypeOK

(* Records that the programs make.                                         *)
LEMMA RecordFacts ==
  ASSUME NEW type \in {"OPEN", "CLOSE", "ENTER", "EXIT"}, NEW t \in Tracked, NEW fd,
         NEW buf \in Nat, NEW file, NEW name,
         IF type = "EXIT" THEN fd = -1 ELSE fd \in Fds,
         type = "OPEN" => name = file.name
  PROVE  RecordOK(Record(type, t, fd, buf, file, name))
<1> DEFINE r == Record(type, t, fd, buf, file, name)
<1>1. r.type = type /\ r.pid = t /\ r.fd = fd /\ r.buf = buf /\ r.file = file /\ r.name = name
  BY DEF Record
<1> HIDE DEF r
<1>2. RecordOK(r)
  BY <1>1 DEF RecordOK
<1> QED BY <1>2 DEF r

LEMMA NewFile ==
  ASSUME NEW n \in Nat, NEW c \in CallSet, NEW f, f = [name |-> c.name, nr |-> n + 1]
  PROVE  f \in FileSet /\ f.name = c.name /\ n + 1 \in Nat
<1>1. c.name \in Names \cup {""}
  BY DEF CallSet
<1>2. n + 1 \in Nat \ {0}
  OBVIOUS
<1> QED BY <1>1, <1>2 DEF FileSet

LEMMA OpenStep ==
  ASSUME IInv, NEW t \in Threads, NEW name \in Names, do_filp_open(t, name)
  PROVE  IInv'
<1> DEFINE c == [call |-> "open", name |-> name]
<1>1. /\ sys[t] = User /\ calls' = calls + 1 /\ sys' = [sys EXCEPT ![t] = c]
      /\ open_cache' = IF t \in pids THEN With(open_cache, t, name) ELSE open_cache
      /\ files' = files /\ opened' = opened /\ rb' = rb /\ lost' = lost /\ pids' = pids
      /\ last' = last /\ inserting' = inserting /\ out' = out /\ UNCHANGED monitor
  BY DEF do_filp_open, Calls, monitor, threads
<1>0. Tracked' = Tracked /\ Tracked \subseteq Tracked'
  BY <1>1, SameFacts
<1>2. TypeOK /\ Recorded /\ RecordsOK /\ AllQuiet
  BY DEF IInv
<1>3. c \in CallSet /\ c.call = "open" /\ c.name = name /\ sys[t].call = "none"
  <2>1. c \in CallSet /\ c.call = "open" /\ c.name = name
    BY DEF CallSet
  <2>2. User.call = "none"
    BY DEF User
  <2> QED BY <1>1, <2>1, <2>2
<1> HIDE DEF c
<1>4. /\ sys' \in [Threads -> CallSet] /\ sys'[t] = c
      /\ \A u \in Threads \ {t} : sys'[u] = sys[u]
  BY <1>1, <1>2, <1>3 DEF TypeOK
<1>5. TypeOK'
  BY <1>1, <1>2, <1>4 DEF TypeOK
<1>6. Recorded'
  <2>1. t \in Tracked => t \in pids
    BY <1>2, <1>3, CallerRecorded
  <2>2. \A u \in Tracked : u \in pids \/ sys'[u].call = "exited"
    BY <1>2, <1>4, <2>1 DEF Recorded, TypeOK, Tracked
  <2>3. /\ DOMAIN open_cache' \subseteq DOMAIN open_cache \cup {t}
        /\ t \in DOMAIN open_cache' => t \in pids /\ open_cache'[t] = name
        /\ \A u \in DOMAIN open_cache : u # t => open_cache'[u] = open_cache[u]
    <3>1. CASE t \in pids
      <4>1. open_cache' = With(open_cache, t, name)
        BY <1>1, <3>1
      <4>2. /\ DOMAIN open_cache' = DOMAIN open_cache \cup {t} /\ open_cache'[t] = name
            /\ \A u \in DOMAIN open_cache : u # t => open_cache'[u] = open_cache[u]
        BY <4>1 DEF With
      <4> QED BY <3>1, <4>2
    <3>2. CASE t \notin pids
      BY <1>1, <1>2, <2>1, <3>2 DEF Recorded
    <3> QED BY <3>1, <3>2
  <2>4. DOMAIN open_cache' \subseteq Tracked
    BY <1>2, <2>3 DEF Recorded
  <2>5. ASSUME NEW u \in DOMAIN open_cache', sys'[u].call = "open"
        PROVE  open_cache'[u] = sys'[u].name
    <3>1. CASE u = t
      BY <1>3, <1>4, <2>3, <3>1
    <3>2. CASE u # t
      <4>1. u \in DOMAIN open_cache /\ sys'[u] = sys[u]
        BY <1>2, <1>4, <2>3, <3>2 DEF Recorded, TypeOK, Tracked
      <4> QED BY <1>2, <2>3, <2>5, <3>2, <4>1 DEF Recorded
    <3> QED BY <3>1, <3>2
  <2> QED BY <1>0, <1>1, <1>2, <2>2, <2>4, <2>5 DEF Recorded
<1>7. RecordsOK'
  BY <1>0, <1>1, <1>2 DEF RecordsOK, RecordOK
<1>8. AllQuiet'
  <2>1. \A u \in Tracked : sys'[u].call # "rw" => sys[u].call # "rw"
    BY <1>2, <1>3, <1>4 DEF TypeOK, Tracked
  <2> QED BY <1>1, <1>2, <2>1, QuietUnchanged
<1> QED BY <1>0, <1>1, <1>5, <1>6, <1>7, <1>8, MonitorUnchanged

(* The calls of a thread that changes no table of the monitor.             *)
LEMMA CallStep ==
  ASSUME IInv, NEW t \in Threads, sys[t].call \in {"none", "open", "rw"},
         sys' \in [Threads -> CallSet], \A u \in Threads \ {t} : sys'[u] = sys[u],
         sys'[t].call \in {"none", "rw"},
         files' \in [Threads -> [Fds -> FileSet]], opened' \in Nat, calls' \in Nat,
         UNCHANGED threads, open_cache' = open_cache, UNCHANGED monitor,
         IsSequence(rb'), lost' \in BOOLEAN, lost => lost', RecordsOK', AllQuiet'
  PROVE  IInv'
<1>1. last' = last /\ out' = out /\ pids' = pids /\ inserting' = inserting
  BY DEF monitor, threads
<1>0. Tracked' = Tracked /\ Tracked \subseteq Tracked'
  BY <1>1, SameFacts
<1>2. TypeOK /\ Recorded
  BY DEF IInv
<1>3. TypeOK'
  BY <1>1, <1>2 DEF TypeOK
<1>4. Recorded'
  <2>1. t \in Tracked => t \in pids
    BY <1>2, CallerRecorded
  <2>2. \A u \in Tracked : u \in pids \/ sys'[u].call = "exited"
    BY <1>2, <2>1 DEF Recorded, TypeOK, Tracked
  <2>3. \A u \in DOMAIN open_cache : sys'[u].call = "open" => open_cache[u] = sys'[u].name
    BY <1>2 DEF Recorded, TypeOK, Tracked
  <2> QED BY <1>0, <1>1, <1>2, <2>2, <2>3 DEF Recorded
<1> QED BY <1>0, <1>1, <1>3, <1>4, MonitorUnchanged

LEMMA OpenRetStep ==
  ASSUME IInv, NEW t \in Threads, handle_openat_ret(t)
  PROVE  IInv'
<1> DEFINE free == {fd \in Fds : File(t, fd) = NoFile}
           fd == CHOOSE n \in free : \A k \in free : n <= k
           file == [name |-> sys[t].name, nr |-> opened + 1]
           rec == Record("OPEN", t, fd, 0, file, open_cache[t])
<1>1. /\ sys[t].call = "open" /\ sys' = [sys EXCEPT ![t] = User]
      /\ calls' = calls /\ open_cache' = open_cache /\ UNCHANGED threads /\ UNCHANGED monitor
      /\ last' = last /\ inserting' = inserting /\ Tracked' = Tracked
  BY SameFacts DEF handle_openat_ret, monitor, threads
<1>2. TypeOK /\ Recorded /\ RecordsOK /\ AllQuiet
  BY DEF IInv
<1>3. User \in CallSet /\ User.call = "none"
  BY DEF User, CallSet
<1>4. /\ sys' \in [Threads -> CallSet] /\ sys'[t] = User
      /\ \A u \in Threads \ {t} : sys'[u] = sys[u]
  BY <1>1, <1>2, <1>3 DEF TypeOK
<1>5. calls' \in Nat
  BY <1>1, <1>2 DEF TypeOK
<1>6. ASSUME rb' = rb, lost' = lost, files' \in [Threads -> [Fds -> FileSet]], opened' \in Nat
      PROVE  IInv'
  <2>1. RecordsOK'
    BY <1>1, <1>2, <1>6 DEF RecordsOK, RecordOK
  <2>2. AllQuiet'
    <3>1. \A u \in Tracked : sys'[u].call # "rw" => sys[u].call # "rw"
      BY <1>1, <1>2, <1>4 DEF TypeOK, Tracked
    <3> QED BY <1>1, <1>2, <1>6, <3>1, QuietUnchanged
  <2>3. IsSequence(rb') /\ lost' \in BOOLEAN
    BY <1>2, <1>6 DEF TypeOK
  <2> QED BY <1>1, <1>3, <1>4, <1>5, <1>6, <2>1, <2>2, <2>3, CallStep
<1>7. CASE UNCHANGED <<files, opened, rb, lost>>
  BY <1>2, <1>6, <1>7 DEF TypeOK
<1>8. ASSUME free # {}, files' = [files EXCEPT ![TableOf[t]][fd] = file], opened' = opened + 1,
             IF t \in DOMAIN open_cache THEN Submit(t, rec) ELSE UNCHANGED <<rb, lost>>
      PROVE  IInv'
  <2>1. fd \in free
    <3>1. free \subseteq Nat
      BY DescriptorsAssumption
    <3> QED BY <1>8, <3>1, LeastOf
  <2> HIDE DEF fd
  <2>2. fd \in Fds
    BY <2>1
  <2> HIDE DEF free
  <2>3. file \in FileSet /\ file.name = sys[t].name /\ opened' \in Nat
    <3>1. opened \in Nat /\ sys[t] \in CallSet
      BY <1>2 DEF TypeOK
    <3> QED BY <1>8, <3>1, NewFile
  <2> HIDE DEF file
  <2>4. files' \in [Threads -> [Fds -> FileSet]]
    BY <1>2, <1>8, <2>2, <2>3, FilesTyped
  <2>5. CASE t \notin DOMAIN open_cache
    BY <1>6, <1>8, <2>3, <2>4, <2>5
  <2>6. CASE t \in DOMAIN open_cache
    <3>1. Submit(t, rec)
      BY <1>8, <2>6
    <3>2. open_cache[t] = file.name /\ t \in Tracked
      BY <1>1, <1>2, <2>3, <2>6 DEF Recorded
    <3>3. RecordOK(rec)
      <4>1. 0 \in Nat
        OBVIOUS
      <4> QED BY <2>2, <2>3, <3>2, <4>1, RecordFacts
    <3>4. rec.pid = t /\ rec.type = "OPEN"
      BY DEF Record
    <3> HIDE DEF rec
    <3>5. /\ rb' = rb \/ rb' = Append(rb, rec)
          /\ IsSequence(rb') /\ lost' \in BOOLEAN /\ (lost => lost')
      BY <1>2, <3>1, SubmitFacts
    <3>6. RecordsOK'
      BY <1>1, <1>2, <3>3, <3>5, RecordsKept
    <3>7. AllQuiet'
      BY <1>1, <1>2, <1>3, <1>4, <3>1, <3>4, QuietKept
    <3> QED BY <1>1, <1>3, <1>4, <1>5, <2>3, <2>4, <3>5, <3>6, <3>7, CallStep
  <2> QED BY <2>5, <2>6
<1>9. \/ UNCHANGED <<files, opened, rb, lost>>
      \/ /\ free # {} /\ files' = [files EXCEPT ![TableOf[t]][fd] = file] /\ opened' = opened + 1
         /\ IF t \in DOMAIN open_cache THEN Submit(t, rec) ELSE UNCHANGED <<rb, lost>>
  BY DEF handle_openat_ret
<1> QED BY <1>7, <1>8, <1>9

LEMMA OtherCallStep ==
  ASSUME IInv, NEW t \in Threads, OtherCall(t)
  PROVE  IInv'
<1>1. /\ sys[t] = User /\ calls' = calls + 1 /\ opened' = opened + 1 /\ sys' = sys /\ UNCHANGED threads
      /\ open_cache' = open_cache /\ rb' = rb /\ lost' = lost /\ UNCHANGED monitor
      /\ last' = last /\ inserting' = inserting /\ Tracked' = Tracked
  BY SameFacts DEF OtherCall, Calls, bpf, monitor, threads
<1>2. TypeOK /\ Recorded /\ RecordsOK /\ AllQuiet
  BY DEF IInv
<1>3. PICK fd, file :
         /\ fd \in Fds /\ file \in {NoFile, [name |-> "", nr |-> opened + 1]}
         /\ files' = [files EXCEPT ![TableOf[t]][fd] = file]
  BY DEF OtherCall
<1>4. User \in CallSet /\ User.call = "none" /\ User.name = ""
  BY DEF User, CallSet
<1>5. file \in FileSet /\ opened' \in Nat /\ calls' \in Nat
  <2>1. opened \in Nat /\ calls \in Nat /\ NoFile \in FileSet
    BY <1>2 DEF TypeOK, FileSet
  <2>2. [name |-> "", nr |-> opened + 1] \in FileSet
    <3>1. opened + 1 \in Nat \ {0}
      BY <2>1
    <3> QED BY <3>1 DEF FileSet
  <2>3. opened + 1 \in Nat /\ calls + 1 \in Nat
    BY <2>1
  <2> QED BY <1>1, <1>3, <2>1, <2>2, <2>3
<1>6. files' \in [Threads -> [Fds -> FileSet]]
  BY <1>2, <1>3, <1>5, FilesTyped
<1>7. sys' \in [Threads -> CallSet] /\ sys[t].call = "none" /\ IsSequence(rb') /\ lost' \in BOOLEAN
  BY <1>1, <1>2, <1>4 DEF TypeOK
<1>8. RecordsOK'
  BY <1>1, <1>2 DEF RecordsOK, RecordOK
<1>9. AllQuiet'
  BY <1>1, <1>2, QuietUnchanged
<1> QED BY <1>1, <1>5, <1>6, <1>7, <1>8, <1>9, CallStep

(* A call of a recorded or unrecorded thread that puts one record.         *)
LEMMA RecordStep ==
  ASSUME IInv, NEW t \in Threads, NEW rec, rec.pid = t, Submit(t, rec), t \in Tracked => RecordOK(rec),
         sys[t].call \in {"none", "open", "rw"},
         sys' \in [Threads -> CallSet], \A u \in Threads \ {t} : sys'[u] = sys[u],
         sys'[t].call \in {"none", "rw"},
         rec.type = "OPEN" => sys[t].call # "rw",
         rec.type = "ENTER" => sys'[t].call = "rw",
         sys'[t].call # "rw" => sys[t].call # "rw" \/ rec.type = "EXIT",
         files' \in [Threads -> [Fds -> FileSet]], opened' \in Nat, calls' \in Nat,
         UNCHANGED threads, open_cache' = open_cache, UNCHANGED monitor
  PROVE  IInv'
<1>1. last' = last /\ inserting' = inserting /\ Tracked' = Tracked
  BY SameFacts DEF monitor, threads
<1>2. TypeOK /\ Recorded /\ RecordsOK /\ AllQuiet
  BY DEF IInv
<1>3. /\ rb' = rb \/ (t \in pids /\ rb' = Append(rb, rec))
      /\ IsSequence(rb') /\ lost' \in BOOLEAN /\ (lost => lost')
  BY <1>2, SubmitFacts
<1>4. RecordsOK'
  <2>1. CASE rb' = rb
    BY <1>1, <1>2, <2>1 DEF RecordsOK, RecordOK
  <2>2. CASE t \in pids /\ rb' = Append(rb, rec)
    <3>1. RecordOK(rec)
      BY <1>2, <2>2 DEF Recorded
    <3> QED BY <1>1, <1>2, <2>2, <3>1, RecordsKept
  <2> QED BY <1>3, <2>1, <2>2
<1>5. AllQuiet'
  BY <1>1, <1>2, QuietKept
<1> QED BY <1>3, <1>4, <1>5, CallStep

LEMMA CloseStep ==
  ASSUME IInv, NEW t \in Threads, NEW fd \in Fds, handle_close(t, fd)
  PROVE  IInv'
<1> DEFINE file == File(t, fd)
           rec == Record("CLOSE", t, fd, 0, file, "")
<1>1. /\ sys[t] = User /\ calls' = calls + 1 /\ opened' = opened /\ sys' = sys /\ UNCHANGED threads
      /\ open_cache' = open_cache /\ UNCHANGED monitor
      /\ Submit(t, rec)
      /\ files' = [files EXCEPT ![TableOf[t]][fd] = NoFile]
  BY DEF handle_close, Calls
<1>2. TypeOK
  BY DEF IInv
<1> HIDE DEF file
<1>4. User.call = "none"
  BY DEF User
<1>5. files' \in [Threads -> [Fds -> FileSet]]
  <2>1. NoFile \in FileSet
    BY DEF FileSet
  <2> QED BY <1>1, <1>2, <2>1, FilesTyped
<1>6. sys' \in [Threads -> CallSet] /\ sys[t].call = "none" /\ opened' \in Nat /\ calls' \in Nat
  <2>1. sys \in [Threads -> CallSet] /\ opened \in Nat /\ calls \in Nat
    BY <1>2 DEF TypeOK
  <2>2. calls + 1 \in Nat
    BY <2>1
  <2> QED BY <1>1, <1>4, <2>1, <2>2
<1>7. t \in Tracked => RecordOK(rec)
  <2>1. 0 \in Nat
    OBVIOUS
  <2> QED BY <2>1, RecordFacts
<1>8. rec.pid = t /\ rec.type = "CLOSE"
  BY DEF Record
<1> HIDE DEF rec
<1> QED BY <1>1, <1>5, <1>6, <1>7, <1>8, RecordStep

LEMMA EnterStep ==
  ASSUME IInv, NEW t \in Threads, NEW fd \in Fds, handle_enter_rw(t, fd)
  PROVE  IInv'
<1> DEFINE file == File(t, fd)
           c == [call |-> "rw", name |-> ""]
           rec == Record("ENTER", t, fd, calls', file, "")
<1>1. /\ sys[t] = User /\ calls' = calls + 1 /\ opened' = opened /\ sys' = [sys EXCEPT ![t] = c]
      /\ UNCHANGED threads /\ open_cache' = open_cache /\ UNCHANGED monitor
      /\ Submit(t, rec) /\ files' = files
  BY DEF handle_enter_rw, Calls
<1>2. TypeOK
  BY DEF IInv
<1> HIDE DEF file
<1>4. User.call = "none" /\ c \in CallSet /\ c.call = "rw"
  BY DEF User, CallSet
<1> HIDE DEF c
<1>5. /\ sys' \in [Threads -> CallSet] /\ sys'[t] = c
      /\ \A u \in Threads \ {t} : sys'[u] = sys[u]
  BY <1>1, <1>2, <1>4 DEF TypeOK
<1>6. files' \in [Threads -> [Fds -> FileSet]] /\ opened' \in Nat /\ calls' \in Nat
  <2>1. files \in [Threads -> [Fds -> FileSet]] /\ opened \in Nat /\ calls \in Nat
    BY <1>2 DEF TypeOK
  <2>2. calls + 1 \in Nat
    BY <2>1
  <2> QED BY <1>1, <2>1, <2>2
<1>7. t \in Tracked => RecordOK(rec)
  BY <1>6, RecordFacts
<1>8. rec.pid = t /\ rec.type = "ENTER"
  BY DEF Record
<1> HIDE DEF rec
<1> QED BY <1>1, <1>4, <1>5, <1>6, <1>7, <1>8, RecordStep

LEMMA ExitStep ==
  ASSUME IInv, NEW t \in Threads, handle_exit_rw(t)
  PROVE  IInv'
<1> DEFINE rec == Record("EXIT", t, -1, 0, NoFile, "")
<1>1. /\ sys[t].call = "rw" /\ calls' = calls /\ opened' = opened /\ sys' = [sys EXCEPT ![t] = User]
      /\ UNCHANGED threads /\ open_cache' = open_cache /\ UNCHANGED monitor
      /\ Submit(t, rec) /\ files' = files
  BY DEF handle_exit_rw
<1>2. TypeOK
  BY DEF IInv
<1>3. User.call = "none" /\ User \in CallSet
  BY DEF User, CallSet
<1>4. /\ sys' \in [Threads -> CallSet] /\ sys'[t] = User
      /\ \A u \in Threads \ {t} : sys'[u] = sys[u]
  BY <1>1, <1>2, <1>3 DEF TypeOK
<1>5. files' \in [Threads -> [Fds -> FileSet]] /\ opened' \in Nat /\ calls' \in Nat
  BY <1>1, <1>2 DEF TypeOK
<1>6. t \in Tracked => RecordOK(rec)
  <2>1. 0 \in Nat
    OBVIOUS
  <2> QED BY <2>1, RecordFacts
<1>7. rec.pid = t /\ rec.type = "EXIT"
  BY DEF Record
<1> HIDE DEF rec
<1> QED BY <1>1, <1>3, <1>4, <1>5, <1>6, <1>7, RecordStep

-----------------------------------------------------------------------------
(* The operations match: the filter and the poll loop                      *)

LEMMA NotedTyped ==
  ASSUME TypeOK, NEW t
  PROVE  Noted(t).buf \in Nat /\ (t \in DOMAIN last => Noted(t) = last[t] /\ last[t] \in LastSet)
<1>1. \A l \in LastSet : l.buf \in Nat
  BY DEF LastSet
<1>2. CASE t \in DOMAIN last
  BY <1>1, <1>2 DEF Noted, TypeOK
<1>3. CASE t \notin DOMAIN last
  BY <1>3 DEF Noted
<1> QED BY <1>2, <1>3

LEMMA InsertStep ==
  ASSUME IInv, NEW t \in Threads, insert_thread(t)
  PROVE  IInv'
<1>1. /\ t \notin pids /\ inserting = {} /\ sys[t].call # "exited" /\ pids' = pids \cup {t} /\ inserting' = {t}
      /\ files' = files /\ opened' = opened /\ calls' = calls /\ sys' = sys
      /\ open_cache' = open_cache /\ rb' = rb /\ lost' = lost /\ last' = last /\ out' = out
      /\ UNCHANGED monitor
  BY DEF insert_thread, kernel, bpf, monitor
<1>2. TypeOK /\ Recorded /\ RecordsOK /\ AllQuiet
  BY DEF IInv
<1>3. t \notin Tracked
  BY <1>1, <1>2, CallerRecorded
<1>4. Tracked' = Tracked \cup {t} /\ Tracked \subseteq Tracked' /\ \A u : Pending(u)' = Pending(u)
  BY <1>1 DEF Tracked, Pending
<1>5. TypeOK'
  BY <1>1, <1>2 DEF TypeOK
<1>6. Recorded'
  BY <1>1, <1>2, <1>4 DEF Recorded
<1>7. RecordsOK'
  BY <1>1, <1>2, <1>4 DEF RecordsOK, RecordOK
<1>8. AllQuiet'
  <2> SUFFICES ASSUME ~lost, NEW u \in Tracked' PROVE Quiet(u)'
    BY <1>1 DEF AllQuiet
  <2>1. CASE u = t
    <3>1. Len(rb) \in Nat /\ \A i \in 1 .. Len(rb) : rb[i].pid # t
      BY <1>2, <1>3, SequenceFacts DEF RecordsOK, RecordOK, TypeOK
    <3>2. \A i \in 1 .. Len(rb) + 1 - 1 : i \in 1 .. Len(rb)
      BY <3>1
    <3>3. Pending(t)' = -1
      BY <1>1, <1>3 DEF Pending, Tracked
    <3>4. Closed(rb, -1, t, Len(rb) + 1)
      BY <3>1, <3>2 DEF Closed, Is
    <3> QED BY <1>1, <2>1, <3>1, <3>3, <3>4 DEF Quiet, Is
  <2>2. CASE u # t
    BY <1>1, <1>2, <1>4, <2>2 DEF AllQuiet, Quiet
  <2> QED BY <2>1, <2>2
<1> QED BY <1>1, <1>4, <1>5, <1>6, <1>7, <1>8, MonitorUnchanged

(* The second half of insert_thread(): nothing is pending any more.        *)
LEMMA InsertLastStep ==
  ASSUME IInv, NEW t \in Threads, insert_last_fd(t)
  PROVE  IInv'
<1> DEFINE l == [fd |-> -1, buf |-> Noted(t).buf]
<1>1. /\ t \in inserting /\ inserting' = {} /\ last' = With(last, t, l)
      /\ files' = files /\ opened' = opened /\ calls' = calls /\ sys' = sys /\ pids' = pids
      /\ open_cache' = open_cache /\ rb' = rb /\ lost' = lost
      /\ instance_' = instance_ /\ handles' = handles /\ out' = out
  BY DEF insert_last_fd, kernel, bpf
<1>2. TypeOK /\ Recorded /\ RecordsOK /\ Counting /\ OpsNoted /\ AllBegun /\ AllQuiet /\ AllMatched
  BY DEF IInv
<1>3. l \in LastSet /\ l.fd = -1
  BY <1>2, NotedTyped DEF LastSet
<1> HIDE DEF l
<1>4. /\ DOMAIN last' = DOMAIN last \cup {t} /\ last'[t] = l
      /\ \A u \in DOMAIN last : u # t => last'[u] = last[u]
      /\ last' \in [DOMAIN last' -> LastSet]
  BY <1>1, <1>2, <1>3 DEF With, TypeOK
<1>5. inserting = {t}
  BY <1>1, <1>2 DEF Recorded
<1>6. Tracked' = Tracked
  BY <1>1, <1>4, <1>5 DEF Tracked
<1>7. Pending(t)' = -1 /\ \A u : u # t => Pending(u)' = Pending(u)
  BY <1>3, <1>4 DEF Pending
<1>8. TypeOK'
  BY <1>1, <1>2, <1>4 DEF TypeOK
<1>9. Recorded'
  BY <1>1, <1>2, <1>6 DEF Recorded
<1>10. RecordsOK'
  BY <1>1, <1>2, <1>6 DEF RecordsOK, RecordOK
<1>11. Counting' /\ OpsNoted'
  BY <1>1, <1>2, <1>4, <1>6 DEF Counting, Known, OpsNoted
<1>12. AllBegun'
  BY <1>1, <1>2, <1>3, <1>4 DEF AllBegun, Begun
<1>13. AllQuiet'
  <2> SUFFICES ASSUME ~lost, NEW u \in Tracked PROVE Quiet(u)'
    BY <1>1, <1>6 DEF AllQuiet
  <2>1. Quiet(u)
    BY <1>2 DEF AllQuiet
  <2>2. \A i : Closed(rb, Pending(u), u, i) => Closed(rb, Pending(u)', u, i)
    <3>1. Pending(u)' = -1 \/ Pending(u)' = Pending(u)
      BY <1>7
    <3> QED BY <3>1 DEF Closed
  <2> QED BY <1>1, <2>1, <2>2 DEF Quiet
<1>14. AllMatched'
  BY <1>1, <1>2 DEF AllMatched, MatchedAt
<1> QED BY <1>8, <1>9, <1>10, <1>11, <1>12, <1>13, <1>14 DEF IInv

LEMMA ExitThreadStep ==
  ASSUME IInv, NEW t \in Threads, exit_thread(t)
  PROVE  IInv'
<1>1. /\ t \in pids /\ sys[t] = User /\ pids' = pids \ {t} /\ sys' = [sys EXCEPT ![t].call = "exited"]
      /\ files' = files /\ opened' = opened /\ calls' = calls
      /\ open_cache' = open_cache /\ rb' = rb /\ lost' = lost /\ UNCHANGED monitor
      /\ last' = last /\ out' = out /\ inserting = {} /\ inserting' = inserting
  BY DEF exit_thread, bpf, monitor
<1>0. Tracked' = Tracked /\ Tracked \subseteq Tracked'
  BY <1>1, SameFacts
<1>2. TypeOK /\ Recorded /\ RecordsOK /\ AllQuiet
  BY DEF IInv
<1>3. /\ sys' \in [Threads -> CallSet] /\ sys'[t].call = "exited" /\ sys[t].call = "none"
      /\ \A u \in Threads \ {t} : sys'[u] = sys[u]
  <2>1. User.call = "none" /\ \A c \in CallSet : [c EXCEPT !.call = "exited"] \in CallSet
                              /\ [c EXCEPT !.call = "exited"].call = "exited"
    BY DEF User, CallSet
  <2>2. sys[t] \in CallSet /\ sys' = [sys EXCEPT ![t] = [sys[t] EXCEPT !.call = "exited"]]
    BY <1>1, <1>2 DEF TypeOK
  <2> QED BY <1>1, <1>2, <2>1, <2>2 DEF TypeOK
<1>4. TypeOK'
  BY <1>1, <1>2, <1>3 DEF TypeOK
<1>5. Recorded'
  <2>1. \A u \in Tracked : u \in pids' \/ sys'[u].call = "exited"
    BY <1>1, <1>2, <1>3 DEF Recorded, TypeOK, Tracked
  <2>2. \A u \in DOMAIN open_cache : sys'[u].call = "open" => open_cache[u] = sys'[u].name
    BY <1>1, <1>2, <1>3 DEF Recorded, TypeOK, Tracked
  <2> QED BY <1>0, <1>1, <1>2, <2>1, <2>2 DEF Recorded
<1>6. RecordsOK'
  BY <1>0, <1>1, <1>2 DEF RecordsOK, RecordOK
<1>7. AllQuiet'
  <2>1. \A u \in Tracked : sys'[u].call # "rw" => sys[u].call # "rw"
    BY <1>2, <1>3 DEF TypeOK, Tracked
  <2> QED BY <1>1, <1>2, <2>1, QuietUnchanged
<1> QED BY <1>0, <1>1, <1>4, <1>5, <1>6, <1>7, MonitorUnchanged

(* The poll loop itself, and steps that change nothing.                    *)
LEMMA LoopStep ==
  ASSUME IInv, UNCHANGED <<kernel, threads, bpf, monitor>>
  PROVE  IInv'
<1>1. /\ files' = files /\ opened' = opened /\ calls' = calls /\ sys' = sys /\ pids' = pids
      /\ open_cache' = open_cache /\ rb' = rb /\ lost' = lost /\ last' = last /\ out' = out
      /\ UNCHANGED monitor /\ inserting' = inserting
  BY DEF kernel, bpf, monitor, threads
<1>0. Tracked' = Tracked /\ Tracked \subseteq Tracked' /\ \A u : Pending(u)' = Pending(u)
  BY <1>1, SameFacts
<1>2. TypeOK' /\ Recorded' /\ RecordsOK' /\ AllQuiet'
  BY <1>0, <1>1 DEF IInv, TypeOK, Recorded, RecordsOK, RecordOK, AllQuiet, Quiet
<1> QED BY <1>0, <1>1, <1>2, MonitorUnchanged

-----------------------------------------------------------------------------
(* The operations match: handle_event                                      *)

(* The monitor takes the first record out of the ring.                     *)
LEMMA PopKept ==
  ASSUME TypeOK, RecordsOK, AllQuiet, rb # <<>>, rb' = Tail(rb), sys' = sys, lost' = lost,
         Tracked' = Tracked,
         \A u \in Tracked : Pending(u)' # -1 =>
            Is(rb[1], u, "ENTER") \/ (Pending(u)' = Pending(u) /\ ~Is(rb[1], u, "EXIT"))
  PROVE  RecordsOK' /\ AllQuiet' /\ IsSequence(rb')
<1> DEFINE n == Len(rb)
<1>1. /\ IsSequence(rb) /\ IsSequence(rb') /\ n \in Nat \ {0} /\ Len(rb') = n - 1
      /\ \A i \in 1 .. n - 1 : rb'[i] = rb[i + 1] /\ i + 1 \in 1 .. n /\ i \in 1 .. n
  BY TailFacts DEF TypeOK
<1>2. RecordsOK'
  BY <1>1 DEF RecordsOK, RecordOK
<1>3. ASSUME ~lost, NEW u \in Tracked PROVE Quiet(u)'
  <2>1. Quiet(u)
    BY <1>3 DEF AllQuiet
  <2>2. ASSUME sys[u].call # "rw" PROVE Closed(rb', Pending(u)', u, n - 1 + 1)
    <3>1. Closed(rb, Pending(u), u, n + 1) /\ n \in 1 .. n
      BY <1>1, <2>1, <2>2 DEF Quiet
    <3>2. Closed(rb', Pending(u)', u, n)
      BY <1>1, <3>1, ClosedTail
    <3>3. n - 1 + 1 = n
      BY <1>1
    <3> QED BY <3>2, <3>3
  <2>3. ASSUME NEW i \in 1 .. n - 1, Is(rb'[i], u, "OPEN") PROVE Closed(rb', Pending(u)', u, i)
    <3>1. Closed(rb, Pending(u), u, i + 1) /\ i \in 1 .. n
      BY <1>1, <2>1, <2>3 DEF Quiet
    <3> QED BY <1>1, <3>1, ClosedTail
  <2> QED BY <1>1, <2>2, <2>3 DEF Quiet
<1>4. AllQuiet'
  BY <1>3 DEF AllQuiet
<1> QED BY <1>1, <1>2, <1>4

LEMMA LastAppend ==
  ASSUME NEW s, IsSequence(s), NEW ev, NEW t, ~Operation(ev, t), NEW j, LastOf(s, j, t)
  PROVE  LastOf(Append(s, ev), j, t) /\ Append(s, ev)[j] = s[j]
<1> DEFINE a == Append(s, ev)
<1>1. /\ Len(s) \in Nat /\ Len(a) = Len(s) + 1 /\ a[Len(s) + 1] = ev
      /\ \A i \in 1 .. Len(s) : a[i] = s[i]
  BY SequenceFacts, AppendFacts
<1> HIDE DEF a
<1>2. j \in 1 .. Len(s) /\ a[j] = s[j] /\ j \in 1 .. Len(a)
  BY <1>1 DEF LastOf
<1>3. \A l \in 1 .. Len(a) : l = Len(s) + 1 \/ l \in 1 .. Len(s)
  BY <1>1
<1>4. LastOf(a, j, t)
  BY <1>1, <1>2, <1>3 DEF LastOf
<1> QED BY <1>2, <1>4 DEF a

LEMMA LastIsNew ==
  ASSUME NEW s, IsSequence(s), NEW ev, NEW t, Operation(ev, t)
  PROVE  LastOf(Append(s, ev), Len(s) + 1, t)
<1> DEFINE a == Append(s, ev)
<1>1. Len(s) \in Nat /\ Len(a) = Len(s) + 1 /\ a[Len(s) + 1] = ev
  BY SequenceFacts, AppendFacts
<1> HIDE DEF a
<1>2. LastOf(a, Len(s) + 1, t)
  BY <1>1 DEF LastOf
<1> QED BY <1>2 DEF a

(* The operation that ev completes, if it does.                            *)
Completed(s, ev, j, lossy) ==
  /\ LastOf(s, j, ev.thread) /\ s[j].type = "begin"
  /\ ev.buf = s[j].buf /\ ev.handle[2] = s[j].handle[2]
  /\ ~lossy => ev.handle = s[j].handle

(* Or there is none.                                                       *)
Unbegun(s, ev) ==
  ev.early /\ ev.handle[2] = 0 /\ \A l \in 1 .. Len(s) : ~Operation(s[l], ev.thread)

LEMMA MatchedAppend ==
  ASSUME NEW s, IsSequence(s), NEW lossy, \A i \in 1 .. Len(s) : MatchedAt(s, i, lossy), NEW ev,
         ev.type = "complete" => Unbegun(s, ev) \/ \E j \in 1 .. Len(s) : Completed(s, ev, j, lossy)
  PROVE  \A i \in 1 .. Len(Append(s, ev)) : MatchedAt(Append(s, ev), i, lossy)
<1> DEFINE a == Append(s, ev)
           n == Len(s)
<1>1. n \in Nat /\ Len(a) = n + 1 /\ a[n + 1] = ev /\ \A i \in 1 .. n : a[i] = s[i]
  BY SequenceFacts, AppendFacts
<1> HIDE DEF a
<1>2. ASSUME NEW i \in 1 .. n PROVE MatchedAt(a, i, lossy)
  <2>1. MatchedAt(s, i, lossy) /\ a[i] = s[i] /\ \A j \in 1 .. i - 1 : a[j] = s[j]
    BY <1>1
  <2> QED BY <2>1 DEF MatchedAt
<1>3. MatchedAt(a, n + 1, lossy)
  <2> SUFFICES ASSUME ev.type = "complete" PROVE MatchedAt(a, n + 1, lossy)
    BY <1>1 DEF MatchedAt
  <2>0. CASE Unbegun(s, ev)
    <3>1. \A l \in 1 .. n + 1 - 1 : a[l] = s[l] /\ l \in 1 .. n
      BY <1>1
    <3> QED BY <1>1, <2>0, <3>1 DEF MatchedAt, Unbegun
  <2> SUFFICES ASSUME ~Unbegun(s, ev) PROVE MatchedAt(a, n + 1, lossy)
    BY <2>0
  <2>1. PICK j \in 1 .. n : Completed(s, ev, j, lossy)
    OBVIOUS
  <2>2. /\ j \in 1 .. n + 1 - 1 /\ a[j] = s[j] /\ Operation(s[j], ev.thread)
        /\ \A l \in 1 .. n + 1 - 1 : a[l] = s[l] /\ l \in 1 .. n
        /\ \A l \in 1 .. n : Operation(s[l], ev.thread) => l <= j
    BY <1>1, <2>1 DEF Completed, LastOf
  <2>3. \A l \in 1 .. n + 1 - 1 : Operation(a[l], ev.thread) => l <= j
    BY <2>2
  <2> QED BY <1>1, <2>1, <2>2, <2>3 DEF MatchedAt, Completed
<1>4. \A i \in 1 .. n + 1 : i \in 1 .. n \/ i = n + 1
  BY <1>1
<1>5. \A i \in 1 .. Len(a) : MatchedAt(a, i, lossy)
  BY <1>1, <1>2, <1>3, <1>4
<1> QED BY <1>5 DEF a

(* A new count for a descriptor, and the event with its handle.            *)
Counts(x, n) ==
  /\ n \in Nat /\ instance_' = With(instance_, x, n)
  /\ x \in DOMAIN instance_ => n >= instance_[x]

LEMMA KnownKept ==
  ASSUME Counting, NEW x, NEW n, Counts(x, n), NEW h, Known(h)
  PROVE  KnownIn(h, instance_')
<1>1. /\ DOMAIN instance_' = DOMAIN instance_ \cup {x} /\ instance_'[x] = n
      /\ \A k \in DOMAIN instance_ : k # x => instance_'[k] = instance_[k]
  BY DEF Counts, With
<1>2. <<h[1], h[2]>> \in DOMAIN instance_ /\ h[3] \in Nat /\ h[3] <= instance_[<<h[1], h[2]>>]
  BY DEF Known, KnownIn
<1>3. h[3] <= instance_'[<<h[1], h[2]>>]
  <2>1. CASE <<h[1], h[2]>> = x
    BY <1>1, <1>2, <2>1 DEF Counts, Counting
  <2>2. CASE <<h[1], h[2]>> # x
    BY <1>1, <1>2, <2>2
  <2> QED BY <2>1, <2>2
<1> QED BY <1>1, <1>2, <1>3 DEF Known, KnownIn

LEMMA KnownNew ==
  ASSUME NEW t, NEW fd, NEW n, Counts(<<t, fd>>, n), NEW h, h = Handle(t, fd, n)
  PROVE  KnownIn(h, instance_') /\ h[1] = t /\ h[2] = fd /\ h[3] = n
<1>1. h[1] = t /\ h[2] = fd /\ h[3] = n /\ h = <<t, fd, n>>
  BY DEF Handle
<1>2. <<t, fd>> \in DOMAIN instance_' /\ instance_'[<<t, fd>>] = n /\ n \in Nat /\ n <= n
  BY DEF Counts, With
<1> QED BY <1>1, <1>2 DEF KnownIn

LEMMA CountingKept ==
  ASSUME TypeOK, Counting, Tracked' = Tracked, NEW t \in Tracked, NEW fd, NEW n,
         Counts(<<t, fd>>, n), NEW h, h = Handle(t, fd, n), NEW name, handles' = Define(h, name),
         NEW ev, out' = Append(out, ev), ev.handle = h, ev.thread = t
  PROVE  Counting'
<1>1. \A x \in DOMAIN instance_' : instance_'[x] \in Nat
  BY DEF Counting, Counts, With
<1>2. KnownIn(h, instance_') /\ h[1] = t
  BY KnownNew
<1>3. \A g : Known(g) => KnownIn(g, instance_')
  BY KnownKept
<1>4. \A g \in DOMAIN handles' : KnownIn(g, instance_')
  <2>1. DOMAIN handles' \subseteq DOMAIN handles \cup {h}
    BY DEF Define, With
  <2> QED BY <1>2, <1>3, <2>1 DEF Counting
<1>5. /\ Len(out) \in Nat /\ Len(out') = Len(out) + 1 /\ out'[Len(out) + 1] = ev
      /\ \A i \in 1 .. Len(out) : out'[i] = out[i]
  BY SequenceFacts, AppendFacts DEF TypeOK
<1>6. ASSUME NEW i \in 1 .. Len(out')
      PROVE  KnownIn(out'[i].handle, instance_') /\ out'[i].handle[1] = out'[i].thread /\ out'[i].thread \in Tracked'
  <2>1. CASE i = Len(out) + 1
    BY <1>2, <1>5, <2>1
  <2>2. CASE i \in 1 .. Len(out)
    BY <1>3, <1>5, <2>2 DEF Counting
  <2> QED BY <1>5, <2>1, <2>2
<1> QED BY <1>1, <1>4, <1>6 DEF Counting, Known

(* What the monitor leaves alone when it takes a record.                   *)
Pops ==
  /\ rb # <<>> /\ rb' = Tail(rb) /\ files' = files /\ opened' = opened /\ calls' = calls
  /\ sys' = sys /\ pids' = pids /\ inserting' = inserting /\ open_cache' = open_cache /\ lost' = lost
  /\ silent' = silent

LEMMA PopTyped ==
  ASSUME TypeOK, Recorded, Pops, Tracked' = Tracked, last' \in [DOMAIN last' -> LastSet],
         IsSequence(rb'), IsSequence(out')
  PROVE  TypeOK' /\ Recorded'
<1>1. TypeOK'
  <2>1. DOMAIN last' \subseteq Threads
    BY DEF TypeOK, Tracked
  <2> QED BY <2>1 DEF Pops, TypeOK
<1>2. Recorded'
  BY DEF Pops, Recorded
<1> QED BY <1>1, <1>2

(* An event of the monitor for the first record e: its type, the count of  *)
(* its descriptor, and what is remembered of the thread.                   *)
Writes(e, type, n, name, buf) ==
  LET x == <<e.pid, e.fd>>
      h == Handle(e.pid, e.fd, n)
  IN /\ Counts(x, n)
     /\ handles' = Define(h, name)
     /\ out' = Append(out, Event(type, h, buf, e))
     /\ IF type = "create" THEN (x \in DOMAIN instance_ => n > instance_[x]) /\ name = e.name
                           ELSE n = Instance(e.pid, e.fd)
     /\ \/ e.type = "OPEN" /\ type = "create" /\ last' = last
        \/ e.type = "CLOSE" /\ type = "destroy" /\ last' = last
        \/ e.type = "ENTER" /\ type = "begin" /\ last' = With(last, e.pid, [fd |-> e.fd, buf |-> buf])

LEMMA CountFacts ==
  ASSUME NEW x, NEW n, Counts(x, n)
  PROVE  /\ n \in Nat /\ DOMAIN instance_' = DOMAIN instance_ \cup {x} /\ instance_'[x] = n
         /\ \A k \in DOMAIN instance_ : k # x => instance_'[k] = instance_[k]
  BY DEF Counts, With

LEMMA EventFacts ==
  ASSUME NEW type, NEW h, NEW buf, NEW rec, NEW ev, ev = Event(type, h, buf, rec)
  PROVE  /\ ev.type = type /\ ev.handle = h /\ ev.buf = buf
         /\ ev.thread = rec.pid /\ ev.file = rec.file /\ (ev.early <=> rec.pid \in inserting)
  BY DEF Event

(* The count of an operation that has begun does not change.               *)
LEMMA CountKept ==
  ASSUME IInv, rb # <<>>, NEW e, e = rb[1], NEW type, NEW n, NEW name, NEW buf,
         Writes(e, type, n, name, buf), ~lost, NEW u \in DOMAIN last, last[u].fd # -1,
         <<u, last[u].fd>> \in DOMAIN instance_
  PROVE  instance_'[<<u, last[u].fd>>] = instance_[<<u, last[u].fd>>]
<1> DEFINE x == <<e.pid, e.fd>>
           y == <<u, last[u].fd>>
<1>1. /\ DOMAIN instance_' = DOMAIN instance_ \cup {x} /\ instance_'[x] = n
      /\ \A k \in DOMAIN instance_ : k # x => instance_'[k] = instance_[k]
  <2>1. Counts(x, n)
    BY DEF Writes
  <2> QED BY <2>1, CountFacts
<1>2. CASE y # x
  BY <1>1, <1>2
<1>3. CASE y = x
  <2>1. u = e.pid
    BY <1>3
  <2>2. type # "create"
    <3>1. Len(rb) \in Nat \ {0} /\ 1 \in 1 .. Len(rb)
      <4>1. Len(rb) \in Nat \ {0}
        BY TailFacts DEF IInv, TypeOK
      <4> QED BY <4>1
    <3>2. SUFFICES ASSUME type = "create" PROVE FALSE
      OBVIOUS
    <3>3. Is(rb[1], u, "OPEN")
      BY <2>1, <3>2 DEF Writes, Is
    <3>4. Closed(rb, last[u].fd, u, 1)
      <4>1. u \in Tracked /\ Pending(u) = last[u].fd
        BY DEF Tracked, Pending
      <4> QED BY <3>1, <3>3, <4>1 DEF IInv, AllQuiet, Quiet
    <3>5. \E k \in 1 .. 1 - 1 : Is(rb[k], u, "EXIT")
      BY <3>4 DEF Closed
    <3>6. 1 .. 1 - 1 = {}
      OBVIOUS
    <3> QED BY <3>5, <3>6
  <2>3. n = Instance(e.pid, e.fd)
    BY <2>2 DEF Writes
  <2>4. n = instance_[x]
    BY <1>3, <2>3 DEF Instance
  <2> QED BY <1>1, <1>3, <2>4
<1> QED BY <1>2, <1>3

LEMMA BegunKept ==
  ASSUME IInv, rb # <<>>, NEW e, e = rb[1], NEW type, NEW n, NEW name, NEW buf,
         Writes(e, type, n, name, buf), lost' = lost, NEW u \in DOMAIN last,
         last'[u] = last[u], type = "begin" => u # e.pid
  PROVE  Begun(u)'
<1> DEFINE x == <<e.pid, e.fd>>
           h == Handle(e.pid, e.fd, n)
           ev == Event(type, h, buf, e)
           fd == last[u].fd
<1> SUFFICES ASSUME fd # -1 PROVE Begun(u)'
  BY DEF Begun
<1>1. <<u, fd>> \in DOMAIN instance_
  BY DEF IInv, AllBegun, Begun
<1>2. PICK j \in 1 .. Len(out) :
         /\ LastOf(out, j, u) /\ out[j].type = "begin"
         /\ out[j].buf = last[u].buf /\ out[j].handle[2] = fd
         /\ ~lost => out[j].handle[3] = instance_[<<u, fd>>]
  BY DEF IInv, AllBegun, Begun
<1>3. out' = Append(out, ev) /\ IsSequence(out)
  BY DEF Writes, IInv, TypeOK
<1>4. ~Operation(ev, u)
  <2>1. ev.type = type /\ ev.thread = e.pid
    BY EventFacts
  <2>2. type \in {"create", "destroy", "begin"}
    BY DEF Writes
  <2> QED BY <2>1, <2>2 DEF Operation
<1> HIDE DEF ev
<1>5. LastOf(out', j, u) /\ out'[j] = out[j]
  BY <1>2, <1>3, <1>4, LastAppend
<1>6. j \in 1 .. Len(out')
  BY <1>5 DEF LastOf
<1>7. <<u, fd>> \in DOMAIN instance_'
  <2>1. Counts(x, n)
    BY DEF Writes
  <2> QED BY <1>1, <2>1, CountFacts
<1>8. ~lost => instance_'[<<u, fd>>] = instance_[<<u, fd>>]
  BY <1>1, CountKept
<1>9. ~lost' => out'[j].handle[3] = instance_'[<<u, fd>>]
  BY <1>2, <1>5, <1>8
<1>10. /\ out'[j].type = "begin" /\ out'[j].buf = last'[u].buf /\ out'[j].handle[2] = last'[u].fd
       /\ last'[u].fd = fd
  BY <1>2, <1>5
<1> HIDE DEF fd
<1> QED BY <1>5, <1>6, <1>7, <1>9, <1>10 DEF Begun

LEMMA BegunNew ==
  ASSUME IInv, NEW e, NEW n, NEW name, NEW buf, Writes(e, "begin", n, name, buf)
  PROVE  Begun(e.pid)'
<1> DEFINE x == <<e.pid, e.fd>>
           h == Handle(e.pid, e.fd, n)
           ev == Event("begin", h, buf, e)
           l == [fd |-> e.fd, buf |-> buf]
           j == Len(out) + 1
<1>1. /\ Counts(x, n) /\ out' = Append(out, ev) /\ last' = With(last, e.pid, l)
  BY DEF Writes
<1>2. last'[e.pid] = l /\ l.fd = e.fd /\ l.buf = buf
  BY <1>1 DEF With
<1>3. ev.type = "begin" /\ ev.handle = h /\ ev.buf = buf /\ ev.thread = e.pid
  BY EventFacts
<1> HIDE DEF ev
<1>4. Operation(ev, e.pid)
  BY <1>3 DEF Operation
<1>5. IsSequence(out) /\ out'[j] = ev
  BY <1>1, AppendFacts DEF IInv, TypeOK
<1>6. LastOf(out', j, e.pid)
  BY <1>1, <1>4, <1>5, LastIsNew
<1>7. x \in DOMAIN instance_' /\ instance_'[x] = n
  <2>1. Counts(x, n)
    BY <1>1
  <2> HIDE DEF x
  <2> QED BY <2>1, CountFacts
<1>8. h[2] = e.fd /\ h[3] = n
  BY DEF Handle
<1> HIDE DEF h, l, x
<1>9. j \in 1 .. Len(out')
  BY <1>6 DEF LastOf
<1>10. x = <<e.pid, last'[e.pid].fd>>
  BY <1>2 DEF x
<1> HIDE DEF j
<1> QED BY <1>2, <1>3, <1>5, <1>6, <1>7, <1>8, <1>9, <1>10 DEF Begun

LEMMA NotedKept ==
  ASSUME IsSequence(out), OpsNoted, NEW ev, out' = Append(out, ev), DOMAIN last \subseteq DOMAIN last',
         ev.type \in {"begin", "complete"} => ev.thread \in DOMAIN last'
  PROVE  OpsNoted'
<1>1. /\ Len(out) \in Nat /\ Len(out') = Len(out) + 1 /\ out'[Len(out) + 1] = ev
      /\ \A i \in 1 .. Len(out) : out'[i] = out[i]
  BY SequenceFacts, AppendFacts
<1>2. \A i \in 1 .. Len(out') : i \in 1 .. Len(out) \/ i = Len(out) + 1
  BY <1>1
<1> QED BY <1>1, <1>2 DEF OpsNoted

LEMMA WriteStep ==
  ASSUME IInv, Pops, NEW e, e = rb[1], NEW type, NEW n, NEW name, NEW buf \in Nat,
         Writes(e, type, n, name, buf)
  PROVE  IInv'
<1> DEFINE x == <<e.pid, e.fd>>
           h == Handle(e.pid, e.fd, n)
           ev == Event(type, h, buf, e)
<1>1. TypeOK /\ Recorded /\ RecordsOK /\ Counting /\ OpsNoted /\ AllBegun /\ AllQuiet /\ AllMatched
  BY DEF IInv
<1>2. rb # <<>> /\ rb' = Tail(rb) /\ sys' = sys /\ lost' = lost /\ inserting' = inserting
  BY DEF Pops
<1>3. RecordOK(e)
  <2>1. Len(rb) \in Nat \ {0}
    BY <1>1, <1>2, TailFacts DEF TypeOK
  <2>2. 1 \in 1 .. Len(rb)
    BY <2>1
  <2> QED BY <1>1, <2>2 DEF RecordsOK
<1>4. e.pid \in Tracked
  BY <1>3 DEF RecordOK
<1>5. /\ last' \in [DOMAIN last' -> LastSet] /\ DOMAIN last \subseteq DOMAIN last' /\ e.type # "EXIT"
      /\ \/ last' = last /\ type # "begin"
         \/ /\ type = "begin" /\ e.type = "ENTER" /\ DOMAIN last' = DOMAIN last \cup {e.pid}
            /\ \A u \in DOMAIN last : u # e.pid => last'[u] = last[u]
  <2>1. CASE last' = last /\ e.type \in {"OPEN", "CLOSE"} /\ type # "begin"
    BY <1>1, <2>1 DEF TypeOK
  <2>2. CASE e.type = "ENTER" /\ type = "begin" /\ last' = With(last, e.pid, [fd |-> e.fd, buf |-> buf])
    <3>1. [fd |-> e.fd, buf |-> buf] \in LastSet
      BY <1>3, <2>2 DEF RecordOK, LastSet
    <3> QED BY <1>1, <2>2, <3>1 DEF TypeOK, With
  <2> QED BY <2>1, <2>2 DEF Writes
<1>0. Tracked' = Tracked
  BY <1>2, <1>4, <1>5 DEF Tracked
<1>6. RecordsOK' /\ AllQuiet' /\ IsSequence(rb')
  <2>1. ASSUME NEW u \in Tracked, Pending(u)' # -1
        PROVE  Is(rb[1], u, "ENTER") \/ (Pending(u)' = Pending(u) /\ ~Is(rb[1], u, "EXIT"))
    <3>1. CASE type = "begin" /\ u = e.pid
      BY <1>5, <3>1 DEF Is
    <3>2. CASE ~(type = "begin" /\ u = e.pid)
      BY <1>5, <3>2 DEF Is, Pending
    <3> QED BY <3>1, <3>2
  <2> QED BY <1>0, <1>1, <1>2, <2>1, PopKept
<1>7. Counts(x, n) /\ handles' = Define(h, name) /\ out' = Append(out, ev)
  BY DEF Writes
<1>8. ev.type = type /\ ev.handle = h /\ ev.buf = buf /\ ev.thread = e.pid
  BY EventFacts
<1> HIDE DEF ev
<1>9. IsSequence(out) /\ IsSequence(out')
  BY <1>1, <1>7, AppendFacts DEF TypeOK
<1>10. TypeOK' /\ Recorded'
  BY <1>0, <1>1, <1>5, <1>6, <1>9, PopTyped
<1>11. Counting'
  BY <1>0, <1>1, <1>4, <1>7, <1>8, CountingKept
<1>12. AllBegun'
  <2>1. ASSUME NEW u \in DOMAIN last' PROVE Begun(u)'
    <3>1. CASE type = "begin" /\ u = e.pid
      BY <3>1, BegunNew
    <3>2. CASE type # "begin" \/ u # e.pid
      <4>1. u \in DOMAIN last /\ last'[u] = last[u]
        BY <1>5, <3>2
      <4> QED BY <1>2, <3>2, <4>1, BegunKept
    <3> QED BY <3>1, <3>2
  <2> QED BY <2>1 DEF AllBegun
<1>14. OpsNoted'
  <2>1. type # "complete" /\ (type = "begin" => e.pid \in DOMAIN last')
    BY <1>5 DEF Writes
  <2> QED BY <1>1, <1>5, <1>7, <1>8, <1>9, <2>1, NotedKept
<1>13. AllMatched'
  <2>1. ev.type # "complete"
    BY <1>8 DEF Writes
  <2>2. \A i \in 1 .. Len(out') : MatchedAt(out', i, lost)
    BY <1>1, <1>7, <1>9, <2>1, MatchedAppend DEF AllMatched
  <2> QED BY <1>2, <2>2 DEF AllMatched
<1> QED BY <1>6, <1>10, <1>11, <1>12, <1>13, <1>14 DEF IInv

LEMMA CountsFacts ==
  ASSUME Counting, NEW t, NEW fd
  PROVE  /\ Instance(t, fd) \in Nat
         /\ <<t, fd>> \in DOMAIN instance_ => Instance(t, fd) = instance_[<<t, fd>>]
  BY DEF Counting, Instance

(* The event of an exit, and the operation it completes, if that was seen. *)
LEMMA CompleteFacts ==
  ASSUME IInv, NEW e, e.pid \in Tracked, Noted(e.pid).fd # -1, Complete(e)
  PROVE  \E fd, n, ev :
           /\ Counts(<<e.pid, fd>>, n) /\ n = Instance(e.pid, fd) /\ handles' = Define(Handle(e.pid, fd, n), "")
           /\ out' = Append(out, ev) /\ ev.type = "complete" /\ ev.thread = e.pid
           /\ ev.handle = Handle(e.pid, fd, n)
           /\ Unbegun(out, ev) \/ \E j \in 1 .. Len(out) : Completed(out, ev, j, lost)
<1> DEFINE t == e.pid
           fd == Noted(t).fd
           x == <<t, fd>>
           n == Instance(t, fd)
           h == Handle(t, fd, n)
           ev == Event("complete", h, Noted(t).buf, e)
<1>1. instance_' = With(instance_, x, n) /\ handles' = Define(h, "") /\ out' = Append(out, ev)
  BY DEF Complete, Counted
<1>2. ev.type = "complete" /\ ev.handle = h /\ ev.buf = Noted(t).buf /\ ev.thread = t /\ (ev.early <=> t \in inserting)
  BY EventFacts
<1> HIDE DEF ev
<1>3. n \in Nat /\ (x \in DOMAIN instance_ => n = instance_[x])
  <2>1. Counting
    BY DEF IInv
  <2> HIDE DEF fd
  <2> QED BY <2>1, CountsFacts
<1>4. Counts(x, n)
  <2> HIDE DEF n, x
  <2>1. instance_' = With(instance_, x, n)
    BY <1>1
  <2>2. n >= n
    BY <1>3
  <2>3. x \in DOMAIN instance_ => n >= instance_[x]
    BY <1>3, <2>2
  <2> QED BY <1>3, <2>1, <2>3 DEF Counts
<1> HIDE DEF n
<1>5. h = <<t, fd, n>> /\ h[1] = t /\ h[2] = fd /\ h[3] = n
  BY DEF Handle
<1> HIDE DEF h
<1>6. CASE t \notin DOMAIN last
  <2>1. t \in inserting /\ fd = 0
    BY <1>6 DEF Tracked, Noted
  <2>2. \A l \in 1 .. Len(out) : ~Operation(out[l], t)
    BY <1>6 DEF IInv, OpsNoted, Operation
  <2>3. Unbegun(out, ev)
    BY <1>2, <1>5, <2>1, <2>2 DEF Unbegun
  <2> QED BY <1>1, <1>2, <1>4, <2>3 DEF h, n
<1>7. CASE t \in DOMAIN last
  <2>1. Noted(t) = last[t]
    BY <1>7 DEF Noted
  <2>2. x \in DOMAIN instance_
    BY <1>7, <2>1 DEF IInv, AllBegun, Begun
  <2>3. PICK j \in 1 .. Len(out) :
           /\ LastOf(out, j, t) /\ out[j].type = "begin"
           /\ out[j].buf = last[t].buf /\ out[j].handle[2] = fd
           /\ ~lost => out[j].handle[3] = instance_[x]
    BY <1>7, <2>1 DEF IInv, AllBegun, Begun
  <2>4. Known(out[j].handle) /\ out[j].handle[1] = out[j].thread /\ out[j].thread = t
    BY <2>3 DEF IInv, Counting, LastOf, Operation
  <2>5. ASSUME ~lost PROVE h = out[j].handle
    <3>1. out[j].handle = <<out[j].handle[1], out[j].handle[2], out[j].handle[3]>>
      BY <2>4 DEF Known, KnownIn
    <3>2. out[j].handle[1] = t /\ out[j].handle[2] = fd /\ out[j].handle[3] = n
      BY <1>3, <2>2, <2>3, <2>4, <2>5
    <3>3. out[j].handle = <<t, fd, n>>
      BY <3>1, <3>2
    <3> QED BY <1>5, <3>3
  <2>6. Completed(out, ev, j, lost)
    BY <1>2, <1>5, <2>1, <2>3, <2>5 DEF Completed
  <2> QED BY <1>1, <1>2, <1>4, <2>6 DEF h, n
<1> QED BY <1>6, <1>7

LEMMA OnExitStep ==
  ASSUME IInv, Pops, NEW e, e = rb[1], e.type = "EXIT", OnExit(e)
  PROVE  IInv'
<1>1. TypeOK /\ Recorded /\ RecordsOK /\ Counting /\ OpsNoted /\ AllBegun /\ AllQuiet /\ AllMatched
  BY DEF IInv
<1>2. rb # <<>> /\ rb' = Tail(rb) /\ sys' = sys /\ lost' = lost /\ inserting' = inserting
  BY DEF Pops
<1>3. e.pid \in Tracked
  <2>1. Len(rb) \in Nat \ {0}
    BY <1>1, <1>2, TailFacts DEF TypeOK
  <2>2. 1 \in 1 .. Len(rb)
    BY <2>1
  <2> QED BY <1>1, <2>2 DEF RecordsOK, RecordOK
<1>4. /\ last' \in [DOMAIN last' -> LastSet] /\ DOMAIN last' = DOMAIN last \cup {e.pid} /\ last'[e.pid].fd = -1
      /\ \A u \in DOMAIN last : u # e.pid => last'[u] = last[u]
  <2> DEFINE l == [fd |-> -1, buf |-> Noted(e.pid).buf]
  <2>1. l \in LastSet /\ l.fd = -1
    BY <1>1, NotedTyped DEF LastSet
  <2>2. last' = With(last, e.pid, l)
    BY DEF OnExit
  <2> HIDE DEF l
  <2> QED BY <1>1, <2>1, <2>2 DEF TypeOK, With
<1>5. Tracked' = Tracked
  BY <1>2, <1>3, <1>4 DEF Tracked
<1>6. RecordsOK' /\ AllQuiet' /\ IsSequence(rb')
  <2>1. ASSUME NEW u \in Tracked, Pending(u)' # -1
        PROVE  Is(rb[1], u, "ENTER") \/ (Pending(u)' = Pending(u) /\ ~Is(rb[1], u, "EXIT"))
    <3>1. u # e.pid
      BY <1>4, <2>1 DEF Pending
    <3> QED BY <1>4, <3>1 DEF Pending, Is
  <2> QED BY <1>1, <1>2, <1>5, <2>1, PopKept
<1>7. CASE Noted(e.pid).fd = -1
  <2>1. out' = out /\ instance_' = instance_ /\ handles' = handles
    BY <1>7 DEF OnExit
  <2>2. TypeOK' /\ Recorded'
    <3>1. IsSequence(out')
      BY <1>1, <2>1 DEF TypeOK
    <3> QED BY <1>1, <1>4, <1>5, <1>6, <3>1, PopTyped
  <2>3. Counting' /\ OpsNoted'
    BY <1>1, <1>4, <1>5, <2>1 DEF Counting, Known, OpsNoted
  <2>4. AllBegun'
    BY <1>1, <1>2, <1>4, <2>1 DEF AllBegun, Begun
  <2>5. AllMatched'
    BY <1>1, <1>2, <2>1 DEF AllMatched
  <2> QED BY <1>6, <2>2, <2>3, <2>4, <2>5 DEF IInv
<1>8. CASE Noted(e.pid).fd # -1
  <2>1. Complete(e)
    BY <1>8 DEF OnExit
  <2>2. PICK fd, n, ev :
          /\ Counts(<<e.pid, fd>>, n) /\ n = Instance(e.pid, fd) /\ handles' = Define(Handle(e.pid, fd, n), "")
          /\ out' = Append(out, ev) /\ ev.type = "complete" /\ ev.thread = e.pid
          /\ ev.handle = Handle(e.pid, fd, n)
          /\ Unbegun(out, ev) \/ \E j \in 1 .. Len(out) : Completed(out, ev, j, lost)
    BY <1>3, <1>8, <2>1, CompleteFacts
  <2>3. IsSequence(out) /\ IsSequence(out')
    BY <1>1, <2>2, AppendFacts DEF TypeOK
  <2>4. TypeOK' /\ Recorded'
    BY <1>1, <1>4, <1>5, <1>6, <2>3, PopTyped
  <2>5. Counting'
    BY <1>1, <1>3, <1>5, <2>2, CountingKept
  <2>6. OpsNoted'
    BY <1>1, <1>4, <2>2, <2>3, NotedKept
  <2>7. /\ DOMAIN instance_ \subseteq DOMAIN instance_'
        /\ \A k \in DOMAIN instance_ : k # <<e.pid, fd>> => instance_'[k] = instance_[k]
    BY <2>2, CountFacts
  <2>8. AllBegun'
    <3>1. ASSUME NEW u \in DOMAIN last', last'[u].fd # -1 PROVE Begun(u)'
      <4>1. u \in DOMAIN last /\ u # e.pid /\ last'[u] = last[u] /\ ~Operation(ev, u)
        BY <1>4, <2>2, <3>1 DEF Operation
      <4>2. <<u, last[u].fd>> \in DOMAIN instance_ /\ <<u, last[u].fd>> # <<e.pid, fd>>
        BY <1>1, <3>1, <4>1 DEF AllBegun, Begun
      <4>3. PICK j \in 1 .. Len(out) :
              /\ LastOf(out, j, u) /\ out[j].type = "begin"
              /\ out[j].buf = last[u].buf /\ out[j].handle[2] = last[u].fd
              /\ ~lost => out[j].handle[3] = instance_[<<u, last[u].fd>>]
        BY <1>1, <3>1, <4>1 DEF AllBegun, Begun
      <4>4. LastOf(out', j, u) /\ out'[j] = out[j]
        <5>1. out' = Append(out, ev) /\ LastOf(out, j, u) /\ ~Operation(ev, u)
          BY <2>2, <4>1, <4>3
        <5>2. LastOf(Append(out, ev), j, u) /\ Append(out, ev)[j] = out[j]
          BY <2>3, <5>1, LastAppend
        <5> QED BY <5>1, <5>2
      <4>5. j \in 1 .. Len(out')
        BY <4>4 DEF LastOf
      <4> QED BY <1>2, <2>7, <4>1, <4>2, <4>3, <4>4, <4>5 DEF Begun
    <3>2. \A u \in DOMAIN last' : last'[u].fd = -1 => Begun(u)'
      BY DEF Begun
    <3> QED BY <3>1, <3>2 DEF AllBegun
  <2>9. AllMatched'
    <3>1. \A i \in 1 .. Len(out') : MatchedAt(out', i, lost)
      BY <1>1, <2>2, <2>3, MatchedAppend DEF AllMatched
    <3> QED BY <1>2, <3>1 DEF AllMatched
  <2> QED BY <1>6, <2>4, <2>5, <2>6, <2>8, <2>9 DEF IInv
<1> QED BY <1>7, <1>8

(* Every branch of handle_event that counts is a step that Writes.         *)
LEMMA BranchWrites ==
  ASSUME Counting, NEW e, e.buf \in Nat,
         (e.type = "OPEN" /\ OnOpen(e)) \/ (e.type = "CLOSE" /\ OnClose(e)) \/ (e.type = "ENTER" /\ OnEnter(e))
  PROVE  \E type, name : \E n \in Nat, buf \in Nat : Writes(e, type, n, name, buf)
<1> DEFINE x == <<e.pid, e.fd>>
           i == Instance(e.pid, e.fd)
<1>1. i \in Nat /\ (x \in DOMAIN instance_ => i = instance_[x]) /\ i + 1 \in Nat /\ i + 1 >= i /\ i >= i /\ i + 1 > i
  <2>1. i \in Nat /\ (x \in DOMAIN instance_ => i = instance_[x])
    BY CountsFacts
  <2> HIDE DEF i
  <2> QED BY <2>1
<1>2. CASE e.type = "OPEN" /\ OnOpen(e)
  <2> DEFINE n == IF x \in DOMAIN instance_ THEN i + 1 ELSE 0
  <2>1. /\ instance_' = With(instance_, x, n) /\ handles' = Define(Handle(e.pid, e.fd, n), e.name)
        /\ out' = Append(out, Event("create", Handle(e.pid, e.fd, n), 0, e)) /\ last' = last
    BY <1>2 DEF OnOpen, Counted
  <2>2. n \in Nat /\ (x \in DOMAIN instance_ => n >= instance_[x] /\ n > instance_[x])
    BY <1>1
  <2> HIDE DEF n
  <2>3. Writes(e, "create", n, e.name, 0)
    BY <1>2, <2>1, <2>2 DEF Writes, Counts
  <2>4. 0 \in Nat
    OBVIOUS
  <2> QED BY <2>2, <2>3, <2>4
<1>3. CASE e.type = "CLOSE" /\ OnClose(e)
  <2>1. /\ instance_' = With(instance_, x, i) /\ handles' = Define(Handle(e.pid, e.fd, i), "")
        /\ out' = Append(out, Event("destroy", Handle(e.pid, e.fd, i), 0, e)) /\ last' = last
    BY <1>3 DEF OnClose, Counted
  <2>2. Writes(e, "destroy", i, "", 0)
    BY <1>1, <1>3, <2>1 DEF Writes, Counts
  <2>4. 0 \in Nat
    OBVIOUS
  <2> QED BY <1>1, <2>2, <2>4
<1>4. CASE e.type = "ENTER" /\ OnEnter(e)
  <2>1. /\ instance_' = With(instance_, x, i) /\ handles' = Define(Handle(e.pid, e.fd, i), "")
        /\ out' = Append(out, Event("begin", Handle(e.pid, e.fd, i), e.buf, e))
        /\ last' = With(last, e.pid, [fd |-> e.fd, buf |-> e.buf])
    BY <1>4 DEF OnEnter, Counted
  <2>2. Writes(e, "begin", i, "", e.buf)
    BY <1>1, <1>4, <2>1 DEF Writes, Counts
  <2> QED BY <1>1, <2>2
<1> QED BY <1>2, <1>3, <1>4

LEMMA EventStep ==
  ASSUME IInv, handle_event
  PROVE  IInv'
<1> DEFINE e == rb[1]
<1>1. Pops
  BY DEF handle_event, Pops, kernel, threads
<1>2. TypeOK /\ RecordsOK /\ Counting
  BY DEF IInv
<1>3. Head(rb) = e /\ e.buf \in Nat
  <2>1. Len(rb) \in Nat \ {0} /\ Head(rb) = rb[1]
    BY <1>1, <1>2, TailFacts DEF TypeOK, Pops
  <2>2. 1 \in 1 .. Len(rb)
    BY <2>1
  <2> QED BY <1>2, <2>1, <2>2 DEF RecordsOK, RecordOK
<1>4. \/ (e.type = "OPEN" /\ OnOpen(e)) \/ (e.type = "CLOSE" /\ OnClose(e)) \/ (e.type = "ENTER" /\ OnEnter(e))
      \/ (e.type = "EXIT" /\ OnExit(e))
  BY <1>3 DEF handle_event
<1> HIDE DEF e
<1>5. CASE e.type = "EXIT" /\ OnExit(e)
  BY <1>1, <1>5, OnExitStep DEF e
<1>6. CASE (e.type = "OPEN" /\ OnOpen(e)) \/ (e.type = "CLOSE" /\ OnClose(e)) \/ (e.type = "ENTER" /\ OnEnter(e))
  <2>1. \E type, name : \E n \in Nat, buf \in Nat : Writes(e, type, n, name, buf)
    BY <1>2, <1>3, <1>6, BranchWrites
  <2> QED BY <1>1, <2>1, WriteStep DEF e
<1> QED BY <1>4, <1>5, <1>6

LEMMA NextHolds ==
  ASSUME IInv, [Next]_vars
  PROVE  IInv'
<1>1. CASE UNCHANGED vars
  BY <1>1, LoopStep DEF vars, kernel, threads, bpf, monitor
<1>2. CASE handle_event
  BY <1>2, EventStep
<1>3. CASE PollReturns \/ Check \/ stop
  BY <1>3, LoopStep DEF PollReturns, Check, stop
<1>4. ASSUME NEW t \in Threads,
             \/ \E name \in Names : do_filp_open(t, name)
             \/ handle_openat_ret(t)
             \/ OtherCall(t)
             \/ \E fd \in Fds : handle_close(t, fd)
             \/ \E fd \in Fds : handle_enter_rw(t, fd)
             \/ handle_exit_rw(t)
             \/ insert_thread(t) \/ insert_last_fd(t)
             \/ exit_thread(t)
      PROVE  IInv'
  BY <1>4, OpenStep, OpenRetStep, OtherCallStep, CloseStep, EnterStep, ExitStep,
     InsertStep, InsertLastStep, ExitThreadStep
<1> QED BY <1>1, <1>2, <1>3, <1>4 DEF Next

LEMMA MatchedIsMatch == IInv => CompletesMatch
<1> SUFFICES ASSUME IInv, NEW i \in DOMAIN out, out[i].type = "complete"
             PROVE  LET b == Before(i, out[i].thread)
                        j == CHOOSE k \in b : \A l \in b : l <= k
                    IN \/ /\ b # {} /\ out[j].type = "begin"
                          /\ out[i].buf = out[j].buf /\ out[i].handle[2] = out[j].handle[2]
                          /\ ~lost => out[i].handle = out[j].handle
                       \/ b = {} /\ out[i].early /\ out[i].handle[2] = 0
  BY DEF CompletesMatch
<1> DEFINE b == Before(i, out[i].thread)
           m == CHOOSE k \in b : \A l \in b : l <= k
<1>1. Len(out) \in Nat /\ i \in 1 .. Len(out)
  BY SequenceFacts DEF IInv, TypeOK
<1>3. b = {k \in 1 .. i - 1 : Operation(out[k], out[i].thread)}
  BY DEF Before, Operation
<1>0. CASE out[i].early /\ out[i].handle[2] = 0 /\ \A l \in 1 .. i - 1 : ~Operation(out[l], out[i].thread)
  <2>1. b = {}
    BY <1>0, <1>3
  <2> QED BY <1>0, <2>1
<1> SUFFICES ASSUME ~(out[i].early /\ out[i].handle[2] = 0 /\ \A l \in 1 .. i - 1 : ~Operation(out[l], out[i].thread))
             PROVE  /\ b # {} /\ out[m].type = "begin"
                    /\ out[i].buf = out[m].buf /\ out[i].handle[2] = out[m].handle[2]
                    /\ ~lost => out[i].handle = out[m].handle
  BY <1>0
<1>2. PICK j \in 1 .. i - 1 :
      /\ Operation(out[j], out[i].thread) /\ out[j].type = "begin"
      /\ \A l \in 1 .. i - 1 : Operation(out[l], out[i].thread) => l <= j
      /\ out[i].buf = out[j].buf /\ out[i].handle[2] = out[j].handle[2]
      /\ ~lost => out[i].handle = out[j].handle
  BY <1>1 DEF IInv, AllMatched, MatchedAt
<1>4. j \in b /\ b \subseteq 1 .. i - 1 /\ \A l \in b : l <= j
  BY <1>2, <1>3
<1> HIDE DEF b
<1>5. m \in b /\ \A l \in b : l <= m
  BY <1>4
<1> HIDE DEF m
<1>6. j <= m /\ m <= j /\ j \in Int /\ m \in Int
  BY <1>1, <1>4, <1>5
<1>7. m = j
  BY <1>6
<1>8. b # {} /\ out[m].type = "begin" /\ out[i].buf = out[m].buf /\ out[i].handle[2] = out[m].handle[2]
      /\ (~lost => out[i].handle = out[m].handle)
  BY <1>2, <1>4, <1>7
<1> QED BY <1>8

(* What handle_event reports as the end of an operation ends the operation *)
(* its thread began last, with the same descriptor and matching id, and,   *)
(* when no record was dropped, on the same handle; or it is the first      *)
(* operation of a thread, on descriptor 0, and was handled between the     *)
(* statements of insert_thread().  This holds for any number of threads    *)
(* and calls, any ring and threads that share a table.                     *)
THEOREM OperationsMatch == Spec => []CompletesMatch
<1>1. Init => IInv
  BY InitHolds
<1>2. IInv /\ [Next]_vars => IInv'
  BY NextHolds
<1>3. IInv => CompletesMatch
  BY MatchedIsMatch
<1> QED BY <1>1, <1>2, <1>3, PTL DEF Spec

-----------------------------------------------------------------------------
(* Handles are files: records                                              *)

(* The record r about a descriptor is what takes its file from old to new. *)
Takes(r, t, fd, old, new) ==
  \/ ~About(r, t, fd) /\ new = old
  \/ About(r, t, fd) /\ r.type = "OPEN" /\ old = NoFile /\ r.file = new
  \/ About(r, t, fd) /\ r.type = "CLOSE" /\ r.file = old
  \/ About(r, t, fd) /\ r.type = "ENTER" /\ r.file = old /\ new = old

LEMMA ChainAppend ==
  ASSUME NEW s, IsSequence(s), NEW t, NEW fd, NEW old, NEW new, NEW r, Takes(r, t, fd, old, new),
         Chained(s, t, fd), Ends(s, t, fd, old)
  PROVE  Chained(Append(s, r), t, fd) /\ Ends(Append(s, r), t, fd, new)
<1> DEFINE a == Append(s, r)
           n == Len(s)
<1>1. n \in Nat /\ Len(a) = n + 1 /\ a[n + 1] = r /\ \A i \in 1 .. n : a[i] = s[i]
  BY SequenceFacts, AppendFacts
<1> HIDE DEF a, n
<1>2. n = Len(s)
  BY DEF n
<1>3. ASSUME NEW i \in 1 .. n + 1, NEW j \in 1 .. i - 1, About(a[j], t, fd), About(a[i], t, fd), a[j].file # NoFile,
             \A k \in j .. i - 1 : ~Closes(a[k], t, fd)
      PROVE  a[i].file = a[j].file /\ a[i].type # "OPEN"
  <2>1. j \in 1 .. n /\ a[j] = s[j] /\ \A k \in j .. i - 1 : k \in 1 .. n /\ a[k] = s[k]
    BY <1>1
  <2>2. CASE i \in 1 .. n
    <3>1. a[i] = s[i] /\ i \in 1 .. Len(s)
      BY <1>1, <1>2, <2>2
    <3>2. About(s[j], t, fd) /\ About(s[i], t, fd) /\ s[j].file # NoFile /\ \A k \in j .. i - 1 : ~Closes(s[k], t, fd)
      BY <1>3, <2>1, <3>1
    <3> QED BY <2>1, <3>1, <3>2 DEF Chained
  <2>3. CASE i = n + 1
    <3>1. \A k \in j .. Len(s) : ~Closes(s[k], t, fd)
      <4>1. \A k \in j .. Len(s) : k \in j .. i - 1
        BY <1>1, <1>2, <2>3
      <4> QED BY <1>3, <2>1, <4>1
    <3>2. s[j].file = old /\ s[j].file # NoFile
      BY <1>2, <1>3, <2>1, <3>1 DEF Ends
    <3> QED BY <1>1, <1>3, <2>1, <2>3, <3>2 DEF Takes
  <2> QED BY <1>1, <2>2, <2>3
<1>4. ASSUME NEW j \in 1 .. n + 1, About(a[j], t, fd), a[j].file # NoFile, \A k \in j .. n + 1 : ~Closes(a[k], t, fd)
      PROVE  a[j].file = new
  <2>1. ~Closes(r, t, fd)
    <3>1. n + 1 \in j .. n + 1
      BY <1>1
    <3> QED BY <1>1, <1>4, <3>1
  <2>2. CASE j = n + 1
    BY <1>1, <1>4, <2>1, <2>2 DEF Takes, Closes
  <2>3. CASE j \in 1 .. n
    <3>1. a[j] = s[j] /\ \A k \in j .. Len(s) : k \in j .. n + 1 /\ a[k] = s[k]
      BY <1>1, <1>2, <2>3
    <3>2. s[j].file = old /\ s[j].file # NoFile
      BY <1>2, <1>4, <2>3, <3>1 DEF Ends
    <3>3. old = new
      BY <2>1, <3>2 DEF Takes, Closes
    <3> QED BY <3>1, <3>2, <3>3
  <2> QED BY <1>1, <2>2, <2>3
<1>5. Chained(a, t, fd)
  BY <1>1, <1>3 DEF Chained
<1>6. Ends(a, t, fd, new)
  BY <1>1, <1>4 DEF Ends
<1> QED BY <1>5, <1>6 DEF a

LEMMA ContinuesAppend ==
  ASSUME NEW s, IsSequence(s), NEW t, NEW fd, NEW old, NEW new, NEW r, Takes(r, t, fd, old, new),
         NEW f, f # NoFile, Continues(s, t, fd, f, old)
  PROVE  Continues(Append(s, r), t, fd, f, new)
<1> DEFINE a == Append(s, r)
           n == Len(s)
<1>1. n \in Nat /\ Len(a) = n + 1 /\ a[n + 1] = r /\ \A i \in 1 .. n : a[i] = s[i]
  BY SequenceFacts, AppendFacts
<1> HIDE DEF a
<1>2. ASSUME NEW i \in 1 .. n + 1, About(a[i], t, fd), \A k \in 1 .. i - 1 : ~Closes(a[k], t, fd)
      PROVE  a[i].file = f /\ a[i].type # "OPEN"
  <2>1. \A k \in 1 .. i - 1 : k \in 1 .. n /\ a[k] = s[k]
    BY <1>1
  <2>2. \A k \in 1 .. i - 1 : ~Closes(s[k], t, fd)
    BY <1>2, <2>1
  <2>3. CASE i \in 1 .. n
    BY <1>1, <1>2, <2>2, <2>3 DEF Continues
  <2>4. CASE i = n + 1
    <3>1. \A k \in 1 .. n : k \in 1 .. i - 1
      BY <1>1, <2>4
    <3>2. old = f
      BY <2>2, <3>1 DEF Continues
    <3> QED BY <1>1, <1>2, <2>4, <3>2 DEF Takes
  <2> QED BY <1>1, <2>3, <2>4
<1>3. ASSUME \A k \in 1 .. n + 1 : ~Closes(a[k], t, fd) PROVE new = f
  <2>1. \A k \in 1 .. n : k \in 1 .. n + 1 /\ a[k] = s[k]
    BY <1>1
  <2>2. n + 1 \in 1 .. n + 1
    BY <1>1
  <2>3. ~Closes(r, t, fd)
    BY <1>1, <1>3, <2>2
  <2>4. old = f
    BY <1>3, <2>1 DEF Continues
  <2> QED BY <2>3, <2>4 DEF Takes, Closes
<1>4. Continues(a, t, fd, f, new)
  BY <1>1, <1>2, <1>3 DEF Continues
<1> QED BY <1>4 DEF a

(* A file that no record says was opened takes a free descriptor.          *)
LEMMA ChainOpen ==
  ASSUME NEW s, NEW t, NEW fd, NEW new, Ends(s, t, fd, NoFile)
  PROVE  Ends(s, t, fd, new)
  BY DEF Ends

LEMMA ContinuesOpen ==
  ASSUME NEW s, NEW t, NEW fd, NEW new, NEW f, f # NoFile, Continues(s, t, fd, f, NoFile)
  PROVE  Continues(s, t, fd, f, new)
  BY DEF Continues

(* The first record leaves the ring.                                       *)
LEMMA ChainTail ==
  ASSUME NEW s, IsSequence(s), s # <<>>, NEW t, NEW fd, NEW file, Chained(s, t, fd), Ends(s, t, fd, file)
  PROVE  Chained(Tail(s), t, fd) /\ Ends(Tail(s), t, fd, file)
<1> DEFINE a == Tail(s)
           n == Len(s)
<1>1. n \in Nat \ {0} /\ Len(a) = n - 1 /\ \A i \in 1 .. n - 1 : a[i] = s[i + 1]
  BY TailFacts
<1> HIDE DEF a, n
<1>2. n = Len(s)
  BY DEF n
<1>3. ASSUME NEW i \in 1 .. n - 1, NEW j \in 1 .. i - 1, About(a[j], t, fd), About(a[i], t, fd), a[j].file # NoFile,
             \A k \in j .. i - 1 : ~Closes(a[k], t, fd)
      PROVE  a[i].file = a[j].file /\ a[i].type # "OPEN"
  <2>1. /\ i + 1 \in 1 .. n /\ j + 1 \in 1 .. (i + 1) - 1 /\ a[i] = s[i + 1] /\ a[j] = s[j + 1]
        /\ \A k \in j + 1 .. (i + 1) - 1 : k - 1 \in j .. i - 1 /\ a[k - 1] = s[k]
    <3>1. /\ i + 1 \in 1 .. n /\ j + 1 \in 1 .. (i + 1) - 1 /\ j \in 1 .. n - 1
          /\ \A k \in j + 1 .. (i + 1) - 1 : k - 1 \in j .. i - 1 /\ k - 1 \in 1 .. n - 1 /\ (k - 1) + 1 = k
      BY <1>1
    <3> QED BY <1>1, <3>1
  <2>2. \A k \in j + 1 .. (i + 1) - 1 : ~Closes(s[k], t, fd)
    BY <1>3, <2>1
  <2>3. About(s[j + 1], t, fd) /\ About(s[i + 1], t, fd) /\ s[j + 1].file # NoFile
    BY <1>3, <2>1
  <2>4. s[i + 1].file = s[j + 1].file /\ s[i + 1].type # "OPEN"
    BY <1>2, <2>1, <2>2, <2>3 DEF Chained
  <2> QED BY <2>1, <2>4
<1>4. ASSUME NEW j \in 1 .. n - 1, About(a[j], t, fd), a[j].file # NoFile, \A k \in j .. n - 1 : ~Closes(a[k], t, fd)
      PROVE  a[j].file = file
  <2>1. /\ j + 1 \in 1 .. n /\ a[j] = s[j + 1]
        /\ \A k \in j + 1 .. n : k - 1 \in j .. n - 1 /\ a[k - 1] = s[k]
    <3>1. /\ j + 1 \in 1 .. n
          /\ \A k \in j + 1 .. n : k - 1 \in j .. n - 1 /\ k - 1 \in 1 .. n - 1 /\ (k - 1) + 1 = k
      BY <1>1
    <3> QED BY <1>1, <3>1
  <2>2. \A k \in j + 1 .. n : ~Closes(s[k], t, fd)
    BY <1>4, <2>1
  <2> QED BY <1>2, <1>4, <2>1, <2>2 DEF Ends
<1>5. Chained(a, t, fd)
  BY <1>1, <1>3 DEF Chained
<1>6. Ends(a, t, fd, file)
  BY <1>1, <1>4 DEF Ends
<1> QED BY <1>5, <1>6 DEF a

LEMMA ContinuesTail ==
  ASSUME NEW s, IsSequence(s), s # <<>>, NEW t, NEW fd, NEW f, NEW file,
         Continues(s, t, fd, f, file), ~Closes(s[1], t, fd)
  PROVE  Continues(Tail(s), t, fd, f, file)
<1> DEFINE a == Tail(s)
           n == Len(s)
<1>1. n \in Nat \ {0} /\ Len(a) = n - 1 /\ \A i \in 1 .. n - 1 : a[i] = s[i + 1]
  BY TailFacts
<1> HIDE DEF a, n
<1>2. n = Len(s)
  BY DEF n
<1>3. ASSUME NEW i \in 1 .. n - 1, About(a[i], t, fd), \A k \in 1 .. i - 1 : ~Closes(a[k], t, fd)
      PROVE  a[i].file = f /\ a[i].type # "OPEN"
  <2>1. /\ i + 1 \in 1 .. n /\ a[i] = s[i + 1]
        /\ \A k \in 1 .. (i + 1) - 1 : k = 1 \/ (k - 1 \in 1 .. i - 1 /\ a[k - 1] = s[k])
    <3>1. /\ i + 1 \in 1 .. n
          /\ \A k \in 1 .. (i + 1) - 1 : k = 1 \/ (k - 1 \in 1 .. i - 1 /\ k - 1 \in 1 .. n - 1 /\ (k - 1) + 1 = k)
      BY <1>1
    <3> QED BY <1>1, <3>1
  <2>2. \A k \in 1 .. (i + 1) - 1 : ~Closes(s[k], t, fd)
    BY <1>3, <2>1
  <2> QED BY <1>2, <1>3, <2>1, <2>2 DEF Continues
<1>4. ASSUME \A k \in 1 .. n - 1 : ~Closes(a[k], t, fd) PROVE file = f
  <2>1. \A k \in 1 .. n : k = 1 \/ (k - 1 \in 1 .. n - 1 /\ a[k - 1] = s[k])
    <3>1. \A k \in 1 .. n : k = 1 \/ (k - 1 \in 1 .. n - 1 /\ (k - 1) + 1 = k)
      BY <1>1
    <3> QED BY <1>1, <3>1
  <2>2. \A k \in 1 .. n : ~Closes(s[k], t, fd)
    BY <1>4, <2>1
  <2> QED BY <1>2, <2>2 DEF Continues
<1>5. Continues(a, t, fd, f, file)
  BY <1>1, <1>3, <1>4 DEF Continues
<1> QED BY <1>5 DEF a

(* The records after the first go on with its file.                        *)
LEMMA ContinuesNew ==
  ASSUME NEW s, IsSequence(s), s # <<>>, NEW t, NEW fd, NEW file, Chained(s, t, fd), Ends(s, t, fd, file),
         About(s[1], t, fd), s[1].file # NoFile, ~Closes(s[1], t, fd)
  PROVE  Continues(Tail(s), t, fd, s[1].file, file)
<1> DEFINE a == Tail(s)
           n == Len(s)
<1>1. n \in Nat \ {0} /\ Len(a) = n - 1 /\ \A i \in 1 .. n - 1 : a[i] = s[i + 1]
  BY TailFacts
<1> HIDE DEF a, n
<1>2. n = Len(s) /\ 1 \in 1 .. n
  <2>1. 1 \in 1 .. n
    BY <1>1
  <2> QED BY <2>1 DEF n
<1>3. ASSUME NEW i \in 1 .. n - 1, About(a[i], t, fd), \A k \in 1 .. i - 1 : ~Closes(a[k], t, fd)
      PROVE  a[i].file = s[1].file /\ a[i].type # "OPEN"
  <2>1. /\ i + 1 \in 1 .. n /\ 1 \in 1 .. (i + 1) - 1 /\ a[i] = s[i + 1]
        /\ \A k \in 1 .. (i + 1) - 1 : k = 1 \/ (k - 1 \in 1 .. i - 1 /\ a[k - 1] = s[k])
    <3>1. /\ i + 1 \in 1 .. n /\ 1 \in 1 .. (i + 1) - 1
          /\ \A k \in 1 .. (i + 1) - 1 : k = 1 \/ (k - 1 \in 1 .. i - 1 /\ k - 1 \in 1 .. n - 1 /\ (k - 1) + 1 = k)
      BY <1>1
    <3> QED BY <1>1, <3>1
  <2>2. \A k \in 1 .. (i + 1) - 1 : ~Closes(s[k], t, fd)
    BY <1>3, <2>1
  <2>3. About(s[i + 1], t, fd)
    BY <1>3, <2>1
  <2>4. s[i + 1].file = s[1].file /\ s[i + 1].type # "OPEN"
    BY <1>2, <2>1, <2>2, <2>3 DEF Chained
  <2> QED BY <2>1, <2>4
<1>4. ASSUME \A k \in 1 .. n - 1 : ~Closes(a[k], t, fd) PROVE file = s[1].file
  <2>1. \A k \in 1 .. n : k = 1 \/ (k - 1 \in 1 .. n - 1 /\ a[k - 1] = s[k])
    <3>1. \A k \in 1 .. n : k = 1 \/ (k - 1 \in 1 .. n - 1 /\ (k - 1) + 1 = k)
      BY <1>1
    <3> QED BY <1>1, <3>1
  <2>2. \A k \in 1 .. n : ~Closes(s[k], t, fd)
    BY <1>4, <2>1
  <2> QED BY <1>2, <2>2 DEF Ends
<1>5. Continues(a, t, fd, s[1].file, file)
  BY <1>1, <1>3, <1>4 DEF Continues
<1> QED BY <1>5 DEF a

-----------------------------------------------------------------------------
(* Handles are files: steps of the program                                 *)

LEMMA HandleThreads ==
  ASSUME IInv, NEW k \in 1 .. Len(out)
  PROVE  out[k].handle[1] \in Tracked /\ out[k].handle[1] \in Threads
  BY DEF IInv, Counting, TypeOK, Tracked

(* What a step of the program does to a descriptor and the ring.           *)
FileStep(t, fd, new) ==
  \/ rb' = rb /\ (new = File(t, fd) \/ File(t, fd) = NoFile \/ t \notin Tracked)
  \/ \E r : rb' = Append(rb, r) /\ Takes(r, t, fd, File(t, fd), new)

LEMMA FileStepHolds ==
  ASSUME IInv, FileInv, UNCHANGED <<instance_, handles, out>>, lost => lost', silent => silent',
         ~lost' /\ ~silent' => \A u \in Threads, g \in Fds : FileStep(u, g, File(u, g)')
  PROVE  FileInv'
<1> SUFFICES ASSUME ~lost', ~silent' PROVE (RingFiles /\ EventFiles /\ LiveFiles /\ Created /\ AllHandles)'
  BY DEF FileInv
<1>1. RingFiles /\ EventFiles /\ LiveFiles /\ Created /\ AllHandles
  BY DEF FileInv
<1>2. IsSequence(rb)
  BY DEF IInv, TypeOK
<1>3. ASSUME NEW u \in Threads, NEW g \in Fds
      PROVE  Chained(rb', u, g) /\ Ends(rb', u, g, File(u, g)')
  <2>1. Chained(rb, u, g) /\ Ends(rb, u, g, File(u, g))
    BY <1>1 DEF RingFiles
  <2>2. CASE rb' = rb /\ File(u, g)' = File(u, g)
    BY <2>1, <2>2
  <2>3. CASE rb' = rb /\ File(u, g) = NoFile
    BY <2>1, <2>3, ChainOpen
  <2>4. CASE rb' = rb /\ u \notin Tracked
    <3>1. \A j \in 1 .. Len(rb) : ~About(rb[j], u, g)
      BY <2>4 DEF IInv, RecordsOK, RecordOK, About
    <3> QED BY <2>1, <2>4, <3>1 DEF Ends
  <2>5. CASE \E r : rb' = Append(rb, r) /\ Takes(r, u, g, File(u, g), File(u, g)')
    BY <1>2, <2>1, <2>5, ChainAppend
  <2>6. FileStep(u, g, File(u, g)')
    OBVIOUS
  <2> QED BY <2>2, <2>3, <2>4, <2>5, <2>6 DEF FileStep
<1>4. RingFiles'
  BY <1>3 DEF RingFiles
<1>5. ASSUME NEW k \in 1 .. Len(out), Live(out, instance_, k), out[k].file # NoFile, NEW u \in Threads, NEW g \in Fds,
             u = out[k].handle[1], g = out[k].handle[2]
      PROVE  Continues(rb', u, g, out[k].file, File(u, g)')
  <2> DEFINE f == out[k].file
  <2>1. Continues(rb, u, g, f, File(u, g)) /\ u \in Tracked
    BY <1>1, <1>5, HandleThreads DEF LiveFiles
  <2>2. f # NoFile
    BY <1>5
  <2> HIDE DEF f
  <2>3. CASE rb' = rb /\ File(u, g)' = File(u, g)
    BY <2>1, <2>3 DEF f
  <2>4. CASE rb' = rb /\ File(u, g) = NoFile
    BY <2>1, <2>2, <2>4, ContinuesOpen DEF f
  <2>5. CASE \E r : rb' = Append(rb, r) /\ Takes(r, u, g, File(u, g), File(u, g)')
    BY <1>2, <2>1, <2>2, <2>5, ContinuesAppend DEF f
  <2>6. FileStep(u, g, File(u, g)')
    OBVIOUS
  <2> QED BY <2>1, <2>3, <2>4, <2>5, <2>6 DEF FileStep
<1>6. LiveFiles'
  BY <1>5 DEF LiveFiles
<1>7. EventFiles' /\ Created' /\ AllHandles'
  BY <1>1 DEF EventFiles, Created, AllHandles
<1> QED BY <1>4, <1>6, <1>7

LEMMA FilesKept ==
  ASSUME IInv, FileInv, UNCHANGED <<files, silent, rb, lost, instance_, handles, out>>
  PROVE  FileInv'
<1>1. \A u \in Threads, g \in Fds : FileStep(u, g, File(u, g)')
  BY DEF FileStep, File
<1> QED BY <1>1, FileStepHolds

(* The table of thread t takes the file f.                                 *)
Assigns(t, fd, f) == files' = [files EXCEPT ![TableOf[t]][fd] = f]

LEMMA FileAfter ==
  ASSUME OwnTables, IInv, NEW t \in Threads, NEW fd \in Fds, NEW f,
         Assigns(t, fd, f), NEW u \in Threads, NEW g \in Fds
  PROVE  /\ u = t /\ g = fd => File(u, g)' = f
         /\ u # t \/ g # fd => File(u, g)' = File(u, g)
<1>1. TableOf[t] \in Threads /\ TableOf[u] \in Threads /\ (TableOf[t] = TableOf[u] => t = u)
  BY DescriptorsAssumption DEF OwnTables
<1>2. files \in [Threads -> [Fds -> FileSet]]
  BY DEF IInv, TypeOK
<1> QED BY <1>1, <1>2 DEF File, Assigns

(* A step that records nothing of a free descriptor.                       *)
LEMMA FreeTaken ==
  ASSUME OwnTables, IInv, FileInv, NEW t \in Threads, NEW fd \in Fds, File(t, fd) = NoFile, NEW f,
         Assigns(t, fd, f), silent => silent', UNCHANGED <<rb, lost, instance_, handles, out>>
  PROVE  FileInv'
<1>1. ASSUME NEW u \in Threads, NEW g \in Fds PROVE FileStep(u, g, File(u, g)')
  <2>1. /\ u = t /\ g = fd => File(u, g)' = f
        /\ u # t \/ g # fd => File(u, g)' = File(u, g)
    BY FileAfter
  <2> QED BY <2>1 DEF FileStep
<1> QED BY <1>1, FileStepHolds

(* A call of thread t puts the record r and takes its file to f.           *)
LEMMA RecordedCall ==
  ASSUME OwnTables, IInv, FileInv, NEW t \in Threads, sys[t].call # "exited", NEW fd \in Fds, NEW f,
         Assigns(t, fd, f),
         NEW r, About(r, t, fd), Takes(r, t, fd, File(t, fd), f), Submit(t, r),
         UNCHANGED <<silent, instance_, handles, out>>
  PROVE  FileInv'
<1>1. TypeOK /\ Recorded
  BY DEF IInv
<1>2. /\ rb' = rb \/ (t \in pids /\ rb' = Append(rb, r))
      /\ lost => lost'
      /\ ~lost' /\ t \in pids => rb' = Append(rb, r)
  BY <1>1, SubmitFacts
<1>3. t \notin pids => t \notin Tracked
  BY <1>1, CallerRecorded
<1>4. ASSUME ~lost', NEW u \in Threads, NEW g \in Fds PROVE FileStep(u, g, File(u, g)')
  <2>1. /\ u = t /\ g = fd => File(u, g)' = f
        /\ u # t \/ g # fd => File(u, g)' = File(u, g)
    BY FileAfter
  <2>2. CASE t \in pids
    <3>1. rb' = Append(rb, r)
      BY <1>2, <1>4, <2>2
    <3>2. CASE u = t /\ g = fd
      BY <2>1, <3>1, <3>2 DEF FileStep
    <3>3. CASE ~(u = t /\ g = fd)
      <4>1. ~About(r, u, g) /\ File(u, g)' = File(u, g)
        BY <2>1, <3>3 DEF About
      <4>2. Takes(r, u, g, File(u, g), File(u, g)')
        BY <4>1 DEF Takes
      <4> QED BY <3>1, <4>2 DEF FileStep
    <3> QED BY <3>2, <3>3
  <2>3. CASE t \notin pids
    <3>1. rb' = rb /\ t \notin Tracked
      BY <1>2, <1>3, <2>3
    <3> QED BY <2>1, <3>1 DEF FileStep
  <2> QED BY <2>2, <2>3
<1> QED BY <1>2, <1>4, FileStepHolds

LEMMA OpenFiles ==
  ASSUME OwnTables, IInv, FileInv, NEW t \in Threads, handle_openat_ret(t)
  PROVE  FileInv'
<1> DEFINE free == {fd \in Fds : File(t, fd) = NoFile}
           fd == CHOOSE n \in free : \A k \in free : n <= k
           file == [name |-> sys[t].name, nr |-> opened + 1]
           rec == Record("OPEN", t, fd, 0, file, open_cache[t])
<1>1. sys[t].call = "open" /\ UNCHANGED <<silent, instance_, handles, out>>
  BY DEF handle_openat_ret, monitor
<1>2. CASE UNCHANGED <<files, opened, rb, lost>>
  BY <1>1, <1>2, FilesKept
<1>3. ASSUME free # {}, files' = [files EXCEPT ![TableOf[t]][fd] = file],
             IF t \in DOMAIN open_cache THEN Submit(t, rec) ELSE UNCHANGED <<rb, lost>>
      PROVE  FileInv'
  <2>1. fd \in free
    <3>1. free \subseteq Nat
      BY DescriptorsAssumption
    <3> QED BY <1>3, <3>1, LeastOf
  <2> HIDE DEF fd
  <2>2. fd \in Fds /\ File(t, fd) = NoFile
    BY <2>1
  <2> HIDE DEF free, file
  <2>3. CASE t \notin DOMAIN open_cache
    BY <1>1, <1>3, <2>2, <2>3, FreeTaken DEF Assigns
  <2>4. CASE t \in DOMAIN open_cache
    <3>1. Submit(t, rec)
      BY <1>3, <2>4
    <3>2. rec.pid = t /\ rec.fd = fd /\ rec.type = "OPEN" /\ rec.file = file
      BY DEF Record
    <3> HIDE DEF rec
    <3>3. About(rec, t, fd) /\ Takes(rec, t, fd, File(t, fd), file)
      BY <2>2, <3>2 DEF About, Takes
    <3> QED BY <1>1, <1>3, <2>2, <3>1, <3>3, RecordedCall DEF Assigns
  <2> QED BY <2>3, <2>4
<1>4. \/ UNCHANGED <<files, opened, rb, lost>>
      \/ /\ free # {} /\ files' = [files EXCEPT ![TableOf[t]][fd] = file]
         /\ IF t \in DOMAIN open_cache THEN Submit(t, rec) ELSE UNCHANGED <<rb, lost>>
  BY DEF handle_openat_ret
<1> QED BY <1>2, <1>3, <1>4

LEMMA OtherCallFiles ==
  ASSUME OwnTables, IInv, FileInv, NEW t \in Threads, OtherCall(t)
  PROVE  FileInv'
<1>1. sys[t] = User /\ UNCHANGED <<rb, lost, instance_, handles, out>>
  BY DEF OtherCall, Calls, bpf, monitor
<1>2. PICK fd, file :
         /\ fd \in Fds /\ file \in {NoFile, [name |-> "", nr |-> opened + 1]}
         /\ files' = [files EXCEPT ![TableOf[t]][fd] = file]
         /\ silent' = (silent \/ (t \in pids /\ File(t, fd) # NoFile))
  BY DEF OtherCall
<1>3. CASE File(t, fd) = NoFile
  BY <1>1, <1>2, <1>3, FreeTaken DEF Assigns
<1>4. CASE t \in pids /\ File(t, fd) # NoFile
  BY <1>2, <1>4 DEF FileInv
<1>5. CASE t \notin pids
  <2>1. t \notin Tracked
    <3>1. User.call # "exited"
      BY DEF User
    <3> QED BY <1>1, <1>5, <3>1, CallerRecorded DEF IInv
  <2>2. ASSUME NEW u \in Threads, NEW g \in Fds PROVE FileStep(u, g, File(u, g)')
    <3>1. u # t => File(u, g)' = File(u, g)
      <4>1. fd \in Fds /\ Assigns(t, fd, file)
        BY <1>2 DEF Assigns
      <4> QED BY <4>1, FileAfter
    <3> QED BY <1>1, <2>1, <3>1 DEF FileStep
  <2> QED BY <1>1, <1>2, <2>2, FileStepHolds
<1> QED BY <1>3, <1>4, <1>5

LEMMA CloseFiles ==
  ASSUME OwnTables, IInv, FileInv, NEW t \in Threads, NEW fd \in Fds, handle_close(t, fd)
  PROVE  FileInv'
<1> DEFINE rec == Record("CLOSE", t, fd, 0, File(t, fd), "")
<1>1. /\ sys[t] = User /\ Submit(t, rec) /\ files' = [files EXCEPT ![TableOf[t]][fd] = NoFile]
      /\ UNCHANGED <<silent, instance_, handles, out>>
  BY DEF handle_close, Calls, monitor
<1>2. sys[t].call # "exited"
  <2>1. User.call = "none"
    BY DEF User
  <2> QED BY <1>1, <2>1
<1>3. rec.pid = t /\ rec.fd = fd /\ rec.type = "CLOSE" /\ rec.file = File(t, fd)
  BY DEF Record
<1> HIDE DEF rec
<1>4. About(rec, t, fd) /\ Takes(rec, t, fd, File(t, fd), NoFile)
  BY <1>3 DEF About, Takes
<1> QED BY <1>1, <1>2, <1>4, RecordedCall DEF Assigns

LEMMA EnterFiles ==
  ASSUME OwnTables, IInv, FileInv, NEW t \in Threads, NEW fd \in Fds, handle_enter_rw(t, fd)
  PROVE  FileInv'
<1> DEFINE rec == Record("ENTER", t, fd, calls', File(t, fd), "")
<1>1. /\ sys[t] = User /\ Submit(t, rec) /\ files' = files /\ UNCHANGED <<silent, instance_, handles, out>>
  BY DEF handle_enter_rw, Calls, monitor
<1>2. sys[t].call # "exited"
  <2>1. User.call = "none"
    BY DEF User
  <2> QED BY <1>1, <2>1
<1>3. rec.pid = t /\ rec.fd = fd /\ rec.type = "ENTER" /\ rec.file = File(t, fd)
  BY DEF Record
<1> HIDE DEF rec
<1>4. About(rec, t, fd) /\ Takes(rec, t, fd, File(t, fd), File(t, fd))
  BY <1>3 DEF About, Takes
<1>5. files' = [files EXCEPT ![TableOf[t]][fd] = File(t, fd)]
  <2>1. TableOf[t] \in Threads /\ files \in [Threads -> [Fds -> FileSet]]
    BY DescriptorsAssumption DEF IInv, TypeOK
  <2> QED BY <1>1, <2>1 DEF File
<1> QED BY <1>1, <1>2, <1>4, <1>5, RecordedCall DEF Assigns

LEMMA ExitFiles ==
  ASSUME IInv, FileInv, NEW t \in Threads, handle_exit_rw(t)
  PROVE  FileInv'
<1> DEFINE rec == Record("EXIT", t, -1, 0, NoFile, "")
<1>1. /\ Submit(t, rec) /\ files' = files /\ UNCHANGED <<silent, instance_, handles, out>>
  BY DEF handle_exit_rw, monitor
<1>2. rec.fd = -1
  BY DEF Record
<1> HIDE DEF rec
<1>3. (rb' = rb \/ rb' = Append(rb, rec)) /\ (lost => lost')
  <2>1. TypeOK
    BY DEF IInv
  <2> QED BY <1>1, <2>1, SubmitFacts
<1>4. ASSUME NEW u \in Threads, NEW g \in Fds PROVE FileStep(u, g, File(u, g)')
  <2>1. File(u, g)' = File(u, g) /\ g # -1
    BY <1>1, DescriptorsAssumption DEF File
  <2>2. Takes(rec, u, g, File(u, g), File(u, g)')
    BY <1>2, <2>1 DEF Takes, About
  <2> QED BY <1>3, <2>1, <2>2 DEF FileStep
<1> QED BY <1>1, <1>3, <1>4, FileStepHolds

-----------------------------------------------------------------------------
(* Handles are files: handle_event                                         *)

LEMMA RingPopped ==
  ASSUME IInv, RingFiles, Pops
  PROVE  RingFiles' /\ \A t \in Threads, fd \in Fds : File(t, fd)' = File(t, fd)
<1>1. IsSequence(rb) /\ rb # <<>> /\ rb' = Tail(rb) /\ files' = files
  BY DEF IInv, TypeOK, Pops
<1>2. \A t \in Threads, fd \in Fds : File(t, fd)' = File(t, fd)
  BY <1>1 DEF File
<1>3. ASSUME NEW t \in Threads, NEW fd \in Fds
      PROVE  Chained(rb', t, fd) /\ Ends(rb', t, fd, File(t, fd)')
  <2>1. Chained(rb, t, fd) /\ Ends(rb, t, fd, File(t, fd)) /\ File(t, fd)' = File(t, fd)
    BY <1>2 DEF RingFiles
  <2> QED BY <1>1, <2>1, ChainTail
<1> QED BY <1>2, <1>3 DEF RingFiles

LEMMA FirstRecord ==
  ASSUME IInv, rb # <<>>
  PROVE  RecordOK(rb[1])
<1>1. Len(rb) \in Nat \ {0}
  BY TailFacts DEF IInv, TypeOK
<1>2. 1 \in 1 .. Len(rb)
  BY <1>1
<1> QED BY <1>2 DEF IInv, RecordsOK

(* What Writes says of the handle h it writes and the events before.       *)
LEMMA WriteFacts ==
  ASSUME IInv, NEW e, NEW type, NEW n, NEW name, NEW buf, Writes(e, type, n, name, buf),
         NEW h, h = Handle(e.pid, e.fd, n)
  PROVE  /\ h = <<e.pid, e.fd, n>> /\ h[1] = e.pid /\ h[2] = e.fd /\ h[3] = n
         /\ \A g : Known(g) /\ g[1] = e.pid /\ g[2] = e.fd =>
              IF type = "create" THEN g[3] # n
              ELSE n = instance_[<<e.pid, e.fd>>] /\ (g[3] = n => g = h)
<1> DEFINE x == <<e.pid, e.fd>>
<1>1. h = <<e.pid, e.fd, n>> /\ h[1] = e.pid /\ h[2] = e.fd /\ h[3] = n
  BY DEF Handle
<1>2. n \in Nat
  <2>1. Counts(x, n)
    BY DEF Writes
  <2> QED BY <2>1 DEF Counts
<1>3. ASSUME NEW g, Known(g), g[1] = e.pid, g[2] = e.fd
      PROVE  IF type = "create" THEN g[3] # n ELSE n = instance_[x] /\ (g[3] = n => g = h)
  <2>1. g = <<g[1], g[2], g[3]>> /\ x \in DOMAIN instance_ /\ g[3] \in Nat /\ g[3] <= instance_[x]
    BY <1>3 DEF Known, KnownIn
  <2>2. instance_[x] \in Nat
    BY <2>1 DEF IInv, Counting
  <2>3. CASE type = "create"
    <3>1. n > instance_[x]
      BY <2>1, <2>3 DEF Writes
    <3>2. g[3] # n
      BY <1>2, <2>1, <2>2, <3>1
    <3> QED BY <2>3, <3>2
  <2>4. CASE type # "create"
    <3>1. n = instance_[x]
      BY <2>1, <2>4 DEF Writes, Instance
    <3>2. g[3] = n => g = h
      BY <1>1, <1>3, <2>1
    <3> QED BY <2>4, <3>1, <3>2
  <2> QED BY <2>3, <2>4
<1> QED BY <1>1, <1>3

(* An event before that is live after the step was live before it.         *)
LEMMA LiveBefore ==
  ASSUME IInv, NEW e, NEW type, NEW n, NEW name, NEW buf, Writes(e, type, n, name, buf),
         NEW k \in 1 .. Len(out), Live(out', instance_', k)
  PROVE  /\ Live(out, instance_, k) /\ out'[k] = out[k]
         /\ out[k].handle[1] = e.pid /\ out[k].handle[2] = e.fd => type # "destroy" /\ type # "create"
<1> DEFINE x == <<e.pid, e.fd>>
           h == Handle(e.pid, e.fd, n)
           ev == Event(type, h, buf, e)
           g == out[k].handle
           y == <<g[1], g[2]>>
           m == Len(out) + 1
<1>1. Counts(x, n) /\ out' = Append(out, ev)
  BY DEF Writes
<1>2. ev.type = type /\ ev.handle = h
  BY EventFacts
<1> HIDE DEF ev
<1>3. /\ Len(out) \in Nat /\ Len(out') = Len(out) + 1 /\ out'[Len(out) + 1] = ev
      /\ \A i \in 1 .. Len(out) : out'[i] = out[i]
  BY <1>1, SequenceFacts, AppendFacts DEF IInv, TypeOK
<1>4. out'[k] = out[k] /\ Known(g)
  BY <1>3 DEF IInv, Counting
<1>5. \A l \in k .. Len(out) : l \in k .. Len(out') /\ out'[l] = out[l]
  BY <1>3
<1>6. Len(out) + 1 \in k .. Len(out')
  BY <1>3
<1>7. /\ out[k].type # "complete" /\ g[3] = instance_'[y]
      /\ \A l \in k .. Len(out) : out[l].handle = g => out[l].type # "destroy"
      /\ h = g => type # "destroy"
  BY <1>2, <1>3, <1>4, <1>5, <1>6 DEF Live
<1>8. /\ DOMAIN instance_' = DOMAIN instance_ \cup {x} /\ instance_'[x] = n
      /\ \A z \in DOMAIN instance_ : z # x => instance_'[z] = instance_[z]
  BY <1>1, CountFacts
<1>9. y \in DOMAIN instance_
  BY <1>4 DEF Known, KnownIn
<1> HIDE DEF h
<1>10. CASE y = x
  <2>1. g[1] = e.pid /\ g[2] = e.fd
    BY <1>10
  <2>2. g[3] = n
    BY <1>7, <1>8, <1>10
  <2>3. type # "create" /\ n = instance_[x] /\ g = h
    BY <1>4, <2>1, <2>2, WriteFacts DEF h
  <2>4. type # "destroy"
    BY <1>7, <2>3
  <2>5. g[3] = instance_[y]
    BY <1>10, <2>2, <2>3
  <2> QED BY <1>4, <1>7, <2>3, <2>4, <2>5 DEF Live
<1>11. CASE y # x
  <2>1. ~(g[1] = e.pid /\ g[2] = e.fd)
    BY <1>11
  <2>2. g[3] = instance_[y]
    BY <1>7, <1>8, <1>9, <1>11
  <2> QED BY <1>4, <1>7, <2>1, <2>2 DEF Live
<1> QED BY <1>10, <1>11

LEMMA WriteLive ==
  ASSUME IInv, RingFiles, LiveFiles, Pops, NEW e, e = rb[1], NEW type, NEW n, NEW name, NEW buf,
         Writes(e, type, n, name, buf)
  PROVE  LiveFiles'
<1> DEFINE h == Handle(e.pid, e.fd, n)
           ev == Event(type, h, buf, e)
<1>1. IsSequence(rb) /\ rb # <<>> /\ rb' = Tail(rb)
  BY DEF IInv, TypeOK, Pops
<1>2. \A t \in Threads, fd \in Fds : File(t, fd)' = File(t, fd)
  BY RingPopped
<1>3. out' = Append(out, ev)
  BY DEF Writes
<1>4. ev.type = type /\ ev.handle = h /\ ev.file = e.file
  BY EventFacts
<1> HIDE DEF ev
<1>5. /\ Len(out) \in Nat /\ Len(out') = Len(out) + 1 /\ out'[Len(out) + 1] = ev
  BY <1>3, SequenceFacts, AppendFacts DEF IInv, TypeOK
<1>6. h[1] = e.pid /\ h[2] = e.fd
  BY DEF Handle
<1> HIDE DEF h
<1>7. ASSUME NEW k \in 1 .. Len(out'), Live(out', instance_', k), out'[k].file # NoFile, NEW t \in Threads, NEW fd \in Fds,
             t = out'[k].handle[1], fd = out'[k].handle[2]
      PROVE  Continues(rb', t, fd, out'[k].file, File(t, fd))
  <2>1. CASE k = Len(out) + 1
    <3>1. out'[k] = ev /\ About(e, t, fd)
      BY <1>4, <1>5, <1>6, <1>7, <2>1 DEF About
    <3>2. type # "destroy"
      <4>1. k \in k .. Len(out')
        BY <1>5
      <4> QED BY <1>4, <1>7, <3>1, <4>1 DEF Live
    <3>3. ~Closes(e, t, fd)
      BY <3>2 DEF Writes, Closes
    <3>4. Chained(rb, t, fd) /\ Ends(rb, t, fd, File(t, fd))
      BY DEF RingFiles
    <3>5. Continues(rb', t, fd, e.file, File(t, fd))
      <4>1. e.file # NoFile
        BY <1>4, <1>7, <3>1
      <4> QED BY <1>1, <3>1, <3>3, <3>4, <4>1, ContinuesNew
    <3> QED BY <1>4, <3>1, <3>5
  <2>2. CASE k \in 1 .. Len(out)
    <3>1. /\ Live(out, instance_, k) /\ out'[k] = out[k]
          /\ out[k].handle[1] = e.pid /\ out[k].handle[2] = e.fd => type # "destroy"
      BY <1>7, <2>2, LiveBefore
    <3>2. Continues(rb, t, fd, out[k].file, File(t, fd))
      BY <1>7, <2>2, <3>1 DEF LiveFiles
    <3>3. ~Closes(e, t, fd)
      BY <1>7, <3>1 DEF Closes, About, Writes
    <3> QED BY <1>1, <3>1, <3>2, <3>3, ContinuesTail
  <2> QED BY <1>5, <2>1, <2>2
<1> QED BY <1>2, <1>7 DEF LiveFiles

(* Appending an event leaves what HandleAt says of the others.             *)
LEMMA HandleAtKept ==
  ASSUME NEW s, IsSequence(s), NEW ev, NEW names, NEW names2, NEW j \in 1 .. Len(s), HandleAt(s, names, j),
         s[j].type = "create" => names2[s[j].handle] = names[s[j].handle]
  PROVE  HandleAt(Append(s, ev), names2, j)
<1> DEFINE a == Append(s, ev)
<1>1. Len(s) \in Nat /\ \A i \in 1 .. Len(s) : a[i] = s[i]
  BY SequenceFacts, AppendFacts
<1> HIDE DEF a
<1>2. a[j] = s[j] /\ \A i \in 1 .. j - 1 : a[i] = s[i] /\ \A k \in i .. j - 1 : a[k] = s[k]
  BY <1>1
<1>3. HandleAt(a, names2, j)
  BY <1>2 DEF HandleAt
<1> QED BY <1>3 DEF a

LEMMA WriteHandle ==
  ASSUME IInv, LiveFiles, EventFiles, Pops, NEW e, e = rb[1], NEW type, NEW n, NEW name, NEW buf,
         Writes(e, type, n, name, buf)
  PROVE  HandleAt(out', handles', Len(out) + 1)
<1> DEFINE h == Handle(e.pid, e.fd, n)
           ev == Event(type, h, buf, e)
           m == Len(out) + 1
<1>1. out' = Append(out, ev) /\ handles' = Define(h, name)
  BY DEF Writes
<1>2. ev.type = type /\ ev.handle = h /\ ev.file = e.file
  BY EventFacts
<1> HIDE DEF ev
<1>3. /\ Len(out) \in Nat /\ out'[m] = ev /\ \A i \in 1 .. Len(out) : out'[i] = out[i]
  BY <1>1, SequenceFacts, AppendFacts DEF IInv, TypeOK
<1>4. RecordOK(e) /\ e.type # "EXIT"
  <2>1. rb # <<>>
    BY DEF Pops
  <2> QED BY <2>1, FirstRecord DEF Writes
<1>5. h[1] = e.pid /\ h[2] = e.fd /\ h[3] = n
  BY DEF Handle
<1>6. ASSUME Known(h) PROVE type # "create" /\ n = instance_[<<e.pid, e.fd>>]
  BY <1>5, <1>6, WriteFacts
<1> HIDE DEF h
<1>7. \A i \in 1 .. Len(out) : Known(out[i].handle)
  BY DEF IInv, Counting
<1>8. \A i \in 1 .. m - 1 : i \in 1 .. Len(out) /\ out'[i] = out[i]
  BY <1>3
<1>9. ASSUME type = "create"
      PROVE  handles'[h] = e.file.name /\ \A i \in 1 .. m - 1 : out'[i].handle # h
  <2>1. ~Known(h)
    BY <1>6, <1>9
  <2>2. h \notin DOMAIN handles
    BY <2>1 DEF IInv, Counting
  <2>3. handles'[h] = name
    BY <1>1, <2>2 DEF Define, With
  <2>4. name = e.name /\ e.type = "OPEN"
    BY <1>9 DEF Writes
  <2>5. e.name = e.file.name
    BY <1>4, <2>4 DEF RecordOK
  <2> QED BY <1>7, <1>8, <2>1, <2>3, <2>4, <2>5
<1>10. ASSUME NEW i \in 1 .. m - 1, out'[i].handle = h, out'[i].file # NoFile, out'[i].type # "complete",
              \A k \in i .. m - 1 : out'[k].handle = h => out'[k].type # "destroy"
       PROVE  out'[i].file = e.file
  <2>1. i \in 1 .. Len(out) /\ out'[i] = out[i] /\ out[i].handle = h /\ Known(h)
    BY <1>7, <1>8, <1>10
  <2>2. \A k \in i .. Len(out) : k \in i .. m - 1 /\ out'[k] = out[k]
    BY <1>3
  <2>3. h[3] = instance_[<<h[1], h[2]>>]
    BY <1>5, <1>6, <2>1
  <2>4. \A k \in i .. Len(out) : out[k].handle = h => out[k].type # "destroy"
    BY <1>10, <2>2
  <2>5. Live(out, instance_, i)
    BY <1>10, <2>1, <2>3, <2>4 DEF Live
  <2>6. h[1] \in Threads /\ h[2] \in Fds
    BY <1>10, <2>1, HandleThreads DEF EventFiles
  <2>7. Continues(rb, h[1], h[2], out[i].file, File(h[1], h[2]))
    BY <1>10, <2>1, <2>5, <2>6 DEF LiveFiles
  <2>8. About(rb[1], h[1], h[2])
    BY <1>5 DEF About
  <2>9. 1 \in 1 .. Len(rb) /\ 1 .. 1 - 1 = {}
    <3>1. Len(rb) \in Nat \ {0}
      BY TailFacts DEF IInv, TypeOK, Pops
    <3> QED BY <3>1
  <2>10. rb[1].file = out[i].file
    BY <2>7, <2>8, <2>9 DEF Continues
  <2> QED BY <2>1, <2>10
<1> HIDE DEF m
<1>11. HandleAt(out', handles', m)
  BY <1>2, <1>3, <1>9, <1>10 DEF HandleAt
<1> QED BY <1>11 DEF m

LEMMA WriteFiles ==
  ASSUME IInv, FileInv, Pops, NEW e, e = rb[1], NEW type, NEW n, NEW name, NEW buf,
         Writes(e, type, n, name, buf)
  PROVE  FileInv'
<1> DEFINE h == Handle(e.pid, e.fd, n)
           ev == Event(type, h, buf, e)
           m == Len(out) + 1
<1> SUFFICES ASSUME ~lost', ~silent' PROVE (RingFiles /\ EventFiles /\ LiveFiles /\ Created /\ AllHandles)'
  BY DEF FileInv
<1>1. RingFiles /\ EventFiles /\ LiveFiles /\ Created /\ AllHandles /\ rb # <<>>
  BY DEF FileInv, Pops
<1>2. RingFiles'
  BY <1>1, RingPopped
<1>3. LiveFiles'
  BY <1>1, WriteLive
<1>4. HandleAt(out', handles', m)
  BY <1>1, WriteHandle
<1>5. out' = Append(out, ev) /\ handles' = Define(h, name)
  BY DEF Writes
<1>6. ev.type = type /\ ev.handle = h /\ ev.file = e.file
  BY EventFacts
<1> HIDE DEF ev
<1>7. /\ IsSequence(out) /\ Len(out) \in Nat /\ Len(out') = m /\ out'[m] = ev
      /\ \A i \in 1 .. Len(out) : out'[i] = out[i]
  BY <1>5, SequenceFacts, AppendFacts DEF IInv, TypeOK
<1>8. \A k \in 1 .. Len(out') : k = m \/ k \in 1 .. Len(out)
  BY <1>7
<1> HIDE DEF m
<1>9. RecordOK(e) /\ e.type # "EXIT"
  BY <1>1, FirstRecord DEF Writes
<1>10. h[2] = e.fd
  BY DEF Handle
<1> HIDE DEF h
<1>11. e.fd \in Fds
  BY <1>9 DEF RecordOK
<1>12. EventFiles'
  BY <1>1, <1>6, <1>7, <1>8, <1>10, <1>11 DEF EventFiles
<1>13. h \in DOMAIN handles' /\ \A g \in DOMAIN handles : g \in DOMAIN handles' /\ handles'[g] = handles[g]
  BY <1>5 DEF Define, With
<1>14. Created'
  BY <1>1, <1>6, <1>7, <1>8, <1>13 DEF Created
<1>15. ASSUME NEW j \in 1 .. Len(out) PROVE HandleAt(out', handles', j)
  <2>1. HandleAt(out, handles, j) /\ (out[j].type = "create" => handles'[out[j].handle] = handles[out[j].handle])
    BY <1>1, <1>13 DEF AllHandles, Created
  <2> QED BY <1>5, <1>7, <2>1, HandleAtKept
<1>16. AllHandles'
  BY <1>4, <1>8, <1>15 DEF AllHandles
<1> QED BY <1>2, <1>3, <1>12, <1>14, <1>16

LEMMA OnExitFiles ==
  ASSUME IInv, FileInv, Pops, NEW e, e = rb[1], e.type = "EXIT", OnExit(e)
  PROVE  FileInv'
<1> SUFFICES ASSUME ~lost', ~silent' PROVE (RingFiles /\ EventFiles /\ LiveFiles /\ Created /\ AllHandles)'
  BY DEF FileInv
<1>1. RingFiles /\ EventFiles /\ LiveFiles /\ Created /\ AllHandles /\ rb # <<>>
  BY DEF FileInv, Pops
<1>2. RingFiles' /\ \A t \in Threads, fd \in Fds : File(t, fd)' = File(t, fd)
  BY <1>1, RingPopped
<1>3. RecordOK(e) /\ IsSequence(rb) /\ rb' = Tail(rb)
  BY <1>1, FirstRecord DEF IInv, TypeOK, Pops
<1>4. ASSUME NEW t, NEW fd PROVE ~Closes(rb[1], t, fd)
  BY DEF Closes
<1>5. ASSUME NEW t \in Threads, NEW fd \in Fds, NEW k \in 1 .. Len(out), Live(out, instance_, k),
             out[k].file # NoFile, t = out[k].handle[1], fd = out[k].handle[2]
      PROVE  Continues(rb', t, fd, out[k].file, File(t, fd)')
  <2>1. Continues(rb, t, fd, out[k].file, File(t, fd)) /\ File(t, fd)' = File(t, fd)
    BY <1>1, <1>2, <1>5 DEF LiveFiles
  <2> QED BY <1>1, <1>3, <1>4, <2>1, ContinuesTail
<1>6. CASE Noted(e.pid).fd = -1
  <2>1. out' = out /\ instance_' = instance_ /\ handles' = handles
    BY <1>6 DEF OnExit
  <2>2. LiveFiles'
    BY <1>5, <2>1 DEF LiveFiles
  <2>3. EventFiles' /\ Created' /\ AllHandles'
    BY <1>1, <2>1 DEF EventFiles, Created, AllHandles
  <2> QED BY <1>2, <2>2, <2>3
<1>7. CASE Noted(e.pid).fd # -1
  <2> DEFINE m == Len(out) + 1
  <2>1. Complete(e) /\ e.pid \in Tracked
    BY <1>3, <1>7 DEF OnExit, RecordOK
  <2>2. PICK fd, n, ev :
          /\ Counts(<<e.pid, fd>>, n) /\ n = Instance(e.pid, fd) /\ handles' = Define(Handle(e.pid, fd, n), "")
          /\ out' = Append(out, ev) /\ ev.type = "complete" /\ ev.thread = e.pid
          /\ ev.handle = Handle(e.pid, fd, n)
          /\ Unbegun(out, ev) \/ \E j \in 1 .. Len(out) : Completed(out, ev, j, lost)
    BY <1>7, <2>1, CompleteFacts
  <2>3. /\ IsSequence(out) /\ Len(out) \in Nat /\ Len(out') = m /\ out'[m] = ev
        /\ \A i \in 1 .. Len(out) : out'[i] = out[i]
    <3>1. IsSequence(out) /\ out' = Append(out, ev)
      BY <2>2 DEF IInv, TypeOK
    <3> QED BY <3>1, SequenceFacts, AppendFacts
  <2>4. \A k \in 1 .. Len(out') : k = m \/ k \in 1 .. Len(out)
    BY <2>3
  <2>5. \A k \in 1 .. Len(out) : \A l \in k .. Len(out) : l \in k .. Len(out') /\ out'[l] = out[l]
    BY <2>3
  <2> HIDE DEF m
  <2>6. \A k \in DOMAIN instance_ : instance_'[k] = instance_[k]
    <3>1. Counts(<<e.pid, fd>>, n) /\ n = Instance(e.pid, fd)
      BY <2>2
    <3>2. /\ instance_'[<<e.pid, fd>>] = n
          /\ \A k \in DOMAIN instance_ : k # <<e.pid, fd>> => instance_'[k] = instance_[k]
      BY <3>1, CountFacts
    <3>3. <<e.pid, fd>> \in DOMAIN instance_ => n = instance_[<<e.pid, fd>>]
      BY <3>1 DEF Instance
    <3> QED BY <3>2, <3>3
  <2>7. \A g \in DOMAIN handles : g \in DOMAIN handles' /\ handles'[g] = handles[g]
    BY <2>2 DEF Define, With
  <2>8. EventFiles' /\ Created'
    BY <1>1, <2>2, <2>3, <2>4, <2>7 DEF EventFiles, Created
  <2>9. ASSUME NEW k \in 1 .. Len(out'), Live(out', instance_', k)
        PROVE  k \in 1 .. Len(out) /\ Live(out, instance_, k) /\ out'[k] = out[k]
    <3>1. k # m
      BY <2>2, <2>3, <2>9 DEF Live
    <3>2. k \in 1 .. Len(out) /\ out'[k] = out[k]
      BY <2>3, <2>4, <3>1
    <3>3. <<out[k].handle[1], out[k].handle[2]>> \in DOMAIN instance_
      BY <3>2 DEF IInv, Counting, Known, KnownIn
    <3>4. Live(out, instance_, k)
      BY <2>5, <2>6, <2>9, <3>2, <3>3 DEF Live
    <3> QED BY <3>2, <3>4
  <2>10. LiveFiles'
    BY <1>5, <2>9 DEF LiveFiles
  <2>11. HandleAt(out', handles', m)
    BY <2>2, <2>3 DEF HandleAt
  <2>12. \A j \in 1 .. Len(out) : HandleAt(out', handles', j)
    BY <1>1, <2>2, <2>3, <2>7, HandleAtKept DEF AllHandles, Created
  <2>13. AllHandles'
    BY <2>4, <2>11, <2>12 DEF AllHandles
  <2> QED BY <1>2, <2>8, <2>10, <2>13
<1> QED BY <1>6, <1>7

LEMMA EventFilesStep ==
  ASSUME IInv, FileInv, handle_event
  PROVE  FileInv'
<1> DEFINE e == rb[1]
<1>1. Pops
  BY DEF handle_event, Pops, kernel, threads
<1>2. Counting
  BY DEF IInv
<1>3. Head(rb) = e /\ e.buf \in Nat
  <2>1. Head(rb) = rb[1]
    BY <1>1, TailFacts DEF IInv, TypeOK, Pops
  <2> QED BY <1>1, <2>1, FirstRecord DEF Pops, RecordOK
<1>4. \/ (e.type = "OPEN" /\ OnOpen(e)) \/ (e.type = "CLOSE" /\ OnClose(e)) \/ (e.type = "ENTER" /\ OnEnter(e))
      \/ (e.type = "EXIT" /\ OnExit(e))
  BY <1>3 DEF handle_event
<1> HIDE DEF e
<1>5. CASE e.type = "EXIT" /\ OnExit(e)
  BY <1>1, <1>5, OnExitFiles DEF e
<1>6. CASE (e.type = "OPEN" /\ OnOpen(e)) \/ (e.type = "CLOSE" /\ OnClose(e)) \/ (e.type = "ENTER" /\ OnEnter(e))
  <2>1. \E type, name : \E n \in Nat, buf \in Nat : Writes(e, type, n, name, buf)
    BY <1>2, <1>3, <1>6, BranchWrites
  <2> QED BY <1>1, <2>1, WriteFiles DEF e
<1> QED BY <1>4, <1>5, <1>6

LEMMA FileInitHolds == Init => FileInv
<1> SUFFICES ASSUME Init PROVE FileInv
  OBVIOUS
<1>1. Len(rb) = 0 /\ Len(out) = 0 /\ 1 .. 0 = {}
  BY EmptyIsSequence DEF Init
<1> QED BY <1>1 DEF FileInv, RingFiles, EventFiles, LiveFiles, Created, AllHandles, Chained, Ends

LEMMA FileNextHolds ==
  ASSUME OwnTables, IInv, FileInv, [Next]_vars
  PROVE  FileInv'
<1>1. CASE UNCHANGED vars
  BY <1>1, FilesKept DEF vars
<1>2. CASE handle_event
  BY <1>2, EventFilesStep
<1>3. CASE PollReturns \/ Check \/ stop
  BY <1>3, FilesKept DEF PollReturns, Check, stop, kernel, bpf, monitor
<1>4. ASSUME NEW t \in Threads,
             (\E name \in Names : do_filp_open(t, name)) \/ insert_thread(t) \/ insert_last_fd(t) \/ exit_thread(t)
      PROVE  FileInv'
  BY <1>4, FilesKept DEF do_filp_open, insert_thread, insert_last_fd, exit_thread, kernel, bpf, monitor
<1>5. ASSUME NEW t \in Threads,
             \/ handle_openat_ret(t)
             \/ OtherCall(t)
             \/ \E fd \in Fds : handle_close(t, fd)
             \/ \E fd \in Fds : handle_enter_rw(t, fd)
             \/ handle_exit_rw(t)
      PROVE  FileInv'
  BY <1>5, OpenFiles, OtherCallFiles, CloseFiles, EnterFiles, ExitFiles
<1> QED BY <1>1, <1>2, <1>3, <1>4, <1>5 DEF Next

LEMMA HandlesMeanFiles == IInv /\ FileInv => HandleIsFile
<1> SUFFICES ASSUME IInv, FileInv, ~lost, ~silent PROVE HandleIsFile
  BY DEF HandleIsFile
<1>1. DOMAIN out = 1 .. Len(out)
  BY SequenceFacts DEF IInv, TypeOK
<1>2. \A j \in DOMAIN out : HandleAt(out, handles, j)
  BY <1>1 DEF FileInv, AllHandles
<1> QED BY <1>2 DEF HandleIsFile, HandleAt

(* What the code keeps of "{tid, fd, reuse count} => file should be unique"*)
(* (comment in handle_event), when no record is dropped, no call without a *)
(* record replaces or closes a file, and no two threads share a table of   *)
(* descriptors: no handle is created twice, a created one has its file's   *)
(* name, and from the first event of a handle that is about a file until   *)
(* it is destroyed all its events are about that file, wherever in a       *)
(* system call the recording of a thread begins.                           *)
THEOREM HandlesAreFiles ==
  ASSUME OwnTables
  PROVE  Spec => []HandleIsFile
<1>1. Init => IInv /\ FileInv
  BY InitHolds, FileInitHolds
<1>2. (IInv /\ FileInv) /\ [Next]_vars => (IInv /\ FileInv)'
  BY NextHolds, FileNextHolds
<1>3. IInv /\ FileInv => HandleIsFile
  BY HandlesMeanFiles
<1> QED BY <1>1, <1>2, <1>3, PTL DEF Spec
=============================================================================
