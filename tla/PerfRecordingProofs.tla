------------------------- MODULE PerfRecordingProofs -------------------------
(***************************************************************************)
(* Proofs about the perf buffer and its reader for every size of the data  *)
(* area, every size of records, every number of records and every kind of  *)
(* reader.                                                                 *)
(*                                                                         *)
(* The kernel and the reader know positions only; which record lies where  *)
(* follows from all records before it.  The invariant therefore says that  *)
(* there is a layout: a function that gives each record its start, such    *)
(* that the unread records lie end to end between data_tail and data_head, *)
(* each whole in its cells.                                                *)
(***************************************************************************)
EXTENDS PerfRecording, SequenceTheorems, TLAPS

(* A record has a header, so it takes at least one cell.                   *)
PositiveSizes == \A rec : SizeOf(rec) \in Nat \ {0}

-----------------------------------------------------------------------------
(* The inductive invariant of the ring                                     *)

IsSequence(s) == s \in Seq({s[i] : i \in DOMAIN s})

RingTypeOK ==
  /\ DOMAIN cells = 0 .. DataSize - 1
  /\ data_head \in Nat /\ data_tail \in Nat
  /\ data_tail <= data_head /\ data_head <= data_tail + DataSize
  /\ IsSequence(written) /\ IsSequence(handled)

(* Records whose bytes are consumed: between handle() and pop() the last   *)
(* one that was handled is not.                                            *)
Popped == IF pc = "pop" THEN Len(handled) - 1 ELSE Len(handled)

(* The content c of the data area holds the record from position `at' on.  *)
Stored(c, rec, at) ==
  \A p \in 1 .. SizeOf(rec) : c[(at + p - 1) % DataSize] = <<rec, p>>

(* The records recs lie end to end up to position hd; those behind the     *)
(* first k are unread, begin at tl and are whole in c.                     *)
Layout(start, recs, hd, tl, k, c) ==
  /\ start[Len(recs) + 1] = hd
  /\ start[k + 1] = tl
  /\ \A i \in 1 .. Len(recs) : start[i + 1] = start[i] + SizeOf(recs[i])
  /\ \A i, j \in 1 .. Len(recs) + 1 : i <= j => start[i] <= start[j]
  /\ \A i \in 1 .. Len(recs) : i > k => Stored(c, recs[i], start[i])

LaidOut ==
  \E start \in [1 .. Len(written) + 1 -> 0 .. data_head] :
    Layout(start, written, data_head, data_tail, Popped, cells)

Delivered ==
  /\ Len(handled) <= Len(written)
  /\ \A i \in 1 .. Len(handled) : handled[i] = written[i]
  /\ pc = "pop" => Len(handled) > 0
  /\ pc = "handle" => Len(handled) < Len(written)

(* What get() returned stands for the next record until it is handled: in  *)
(* place if it does not wrap around, in a copy if it does.                 *)
Held ==
  pc = "handle" =>
    LET rec == written[Len(handled) + 1]
    IN /\ current.at = data_tail % DataSize
       /\ current.len = SizeOf(rec)
       /\ current.copy = IF current.at + current.len > DataSize THEN Cells(rec) ELSE <<>>

RingInv == RingTypeOK /\ LaidOut /\ Delivered /\ Held

-----------------------------------------------------------------------------
(* The inductive invariant of the poll loop                                *)

Phases == {"measure", "last", "flush"}

(* The last round is entered after stop() and left when the ring is empty. *)
Drains ==
  /\ phase \in Phases /\ atStop \in Nat
  /\ IF stopping THEN atStop <= Len(written) ELSE atStop = 0
  /\ kind = "userspace" => Len(written) = 0
  /\ phase = "last" => stopping
  /\ pc \in {"destroy", "done"} => phase = "flush"
  /\ pc \in {"sync", "create", "poll", "timer", "finalize"} => phase # "flush"
  /\ pc = "timer" => kind = "userspace"
  /\ (pc = "finalize" \/ phase = "flush") /\ ~panicked =>
        stopping /\ atStop <= Len(handled)
  /\ phase = "flush" /\ kind = "syscall" => ~enabled
  /\ pc \in {"destroy", "done"} /\ kind = "syscall" => Len(handled) = Len(written)

IInv == RingInv /\ Drains

-----------------------------------------------------------------------------
(* The inductive invariant of the counters                                 *)

Counting == kind \in {"group", "userspace"}

ReadingSet == [value : Nat, time_enabled : Nat, time_running : Nat]

(* The second counter of a group counts twice what the leader does.        *)
Twice(r) == Reading(2 * r.value, r.time_enabled, r.time_running)

(* Reading b was taken after a: no value goes back, a counter runs only    *)
(* while it is enabled and counts only while it runs.                      *)
After(a, b) ==
  /\ a.value <= b.value /\ a.time_enabled <= b.time_enabled
  /\ a.time_running <= b.time_running
  /\ b.time_running - a.time_running <= b.time_enabled - a.time_enabled
  /\ b.time_running = a.time_running => b.value = a.value

(* The estimate after reading r: never below the count, and the count      *)
(* itself if the counter has run all the time.                             *)
Accurate(estimate, r) ==
  /\ r \in ReadingSet /\ r.time_running <= r.time_enabled
  /\ estimate \in Nat /\ estimate >= r.value * Unit
  /\ r.time_enabled = r.time_running => estimate = r.value * Unit

(* A record of a group carries the readings of both counters.              *)
GroupRecord(rec) == rec.v[1] \in ReadingSet /\ rec.v[2] = Twice(rec.v[1])

(* The readings on their way from the kernel to the writer are in the      *)
(* order in which they were taken.                                         *)
ReadingsInOrder ==
  kind = "group" =>
    \A i \in 1 .. Len(written) : written[i].type # "LOST" =>
      /\ GroupRecord(written[i]) /\ After(written[i].v[1], hw)
      /\ i > Len(handled) => After(buffer.previous[1], written[i].v[1])
      /\ \A j \in 1 .. Len(written) :
           i < j /\ written[j].type # "LOST" => After(written[i].v[1], written[j].v[1])

BufferAccurate ==
  /\ hw \in ReadingSet
  /\ DOMAIN buffer.accumulated = IF kind = "group" THEN 1 .. 2 ELSE 1 .. 1
  /\ After(buffer.previous[1], hw)
  /\ kind = "group" => buffer.previous[2] = Twice(buffer.previous[1])
  /\ \A c \in DOMAIN buffer.accumulated : Accurate(buffer.accumulated[c], buffer.previous[c])

ScaleOf(c) == IF kind = "userspace" \/ c = 2 THEN Counter ELSE Leader

(* What was written last is what the buffer holds.                         *)
LastShown ==
  /\ IsSequence(out) /\ "inside" \in DOMAIN w /\ w.inside = FALSE
  /\ out # <<>> => \A c \in DOMAIN buffer.accumulated :
                     out[Len(out)].values[c] = buffer.accumulated[c] * ScaleOf(c)

CounterInv == Counting => BufferAccurate /\ ReadingsInOrder /\ LastShown

-----------------------------------------------------------------------------
(* The inductive invariant of the times                                    *)

TimedTypes == {"SAMPLE", "SWITCH_IN", "SWITCH_OUT", "SYS_ENTER", "SYS_EXIT"}

(* A record was stamped before it was committed; only samplers get records *)
(* without a stamp, apart from reports of losses.                          *)
Stamped(rec) ==
  \/ rec.type = "LOST"
  \/ Sampling /\ rec.type \in {"MMAP", "OTHER"}
  \/ rec.type \in TimedTypes /\ rec.time \in Int /\ rec.time <= clock + skew

(* A synchronised conversion never maps a stamp to a later time.           *)
ClocksKnown ==
  /\ clock \in Nat /\ skew \in Int /\ offset \in Int
  /\ synced => skew + offset <= 0
  /\ \A i \in 1 .. Len(written) : Stamped(written[i])

WriterKnown ==
  /\ w \in [first_event : BOOLEAN, first : Int, last : Int, inside : BOOLEAN]
  /\ synced => w.first <= clock /\ w.last <= clock
  /\ IsSequence(out)
  /\ pc \in {"sync", "create"} => out = <<>>
  /\ pc = "sync" => synced = FALSE /\ w.first = 0 /\ w.last = 0
  /\ pc = "create" => w.first = 0 /\ w.last = 0

EventsInOrder ==
  /\ \A i \in DOMAIN out : out[i].time \in Int /\ (synced => out[i].time <= clock)
  /\ Sampling => \A i \in DOMAIN out : ~LateBegin(out[i]) => out[i].time <= w.last
  /\ TimesInOrder

TimeInv == ClocksKnown /\ WriterKnown /\ EventsInOrder

-----------------------------------------------------------------------------
(* The inductive invariant of the losses                                   *)

(* f[n] is what the first n records of recs report as lost.                *)
Sums(f, recs) ==
  f = [n \in 0 .. Len(recs) |-> IF n = 0 THEN 0 ELSE f[n - 1] + CountLost(recs[n])]

(* Such a function exists, and whichever it is, it agrees with what the    *)
(* reader has counted and with what the kernel still has to report.        *)
LossInv ==
  /\ pending \in Nat /\ dropped \in Nat /\ lost_samples \in Nat
  /\ \A i \in 1 .. Len(written) : CountLost(written[i]) \in Nat
  /\ \E f : Sums(f, written)
  /\ \A f : Sums(f, written) =>
       f[Len(handled)] = lost_samples /\ f[Len(written)] = dropped - pending

-----------------------------------------------------------------------------
(* Arithmetic of positions                                                 *)

LEMMA DivMod ==
  ASSUME NEW n \in Nat \ {0}, NEW a \in Int
  PROVE  /\ (a % n) \in 0 .. n - 1
         /\ (a \div n) \in Int
         /\ a = n * (a \div n) + (a % n)
  OBVIOUS

(* A number between -n and n that is a multiple of n is zero.              *)
LEMMA SmallMultiple ==
  ASSUME NEW n \in Nat \ {0}, NEW q \in Int, -n < n * q, n * q < n
  PROVE  q = 0
<1>1. CASE q >= 1
  <2>1. n * (q - 1) >= 0
    BY <1>1
  <2> QED BY <2>1
<1>2. CASE q <= -1
  <2>1. n * (-1 - q) >= 0
    BY <1>2
  <2> QED BY <2>1
<1> QED BY <1>1, <1>2

(* Positions less than the size of the data area apart are in different    *)
(* cells.                                                                  *)
LEMMA DistinctCells ==
  ASSUME NEW n \in Nat \ {0}, NEW a \in Int, NEW b \in Int,
         a - b < n, b - a < n, (a % n) = (b % n)
  PROVE  a = b
<1> DEFINE p == a \div n
           q == b \div n
<1>1. a = n * p + (a % n) /\ p \in Int /\ (a % n) \in Int
  BY DivMod
<1>2. b = n * q + (b % n) /\ q \in Int
  BY DivMod
<1> HIDE DEF p, q
<1>3. a - b = n * (p - q) /\ p - q \in Int
  BY <1>1, <1>2
<1>4. p - q = 0
  BY <1>3, SmallMultiple
<1> QED BY <1>3, <1>4

(* The remainder is unique.                                                *)
LEMMA ModUnique ==
  ASSUME NEW n \in Nat \ {0}, NEW a \in Int, NEW q \in Int, NEW r \in 0 .. n - 1,
         a = n * q + r
  PROVE  (a % n) = r
<1> DEFINE k == a \div n
<1>1. a = n * k + (a % n) /\ k \in Int /\ (a % n) \in 0 .. n - 1
  BY DivMod
<1>2. n * (k - q) = r - (a % n) /\ k - q \in Int
  BY <1>1
<1>3. k - q = 0
  BY <1>1, <1>2, SmallMultiple
<1> QED BY <1>1, <1>2, <1>3

(* The cell of position a + b, found from the cell of position a.          *)
LEMMA CellAfter ==
  ASSUME NEW n \in Nat \ {0}, NEW a \in Nat, NEW b \in Nat
  PROVE  /\ (a % n) + b < n => ((a + b) % n) = (a % n) + b
         /\ (((a % n) + b) % n) = ((a + b) % n)
<1> DEFINE q == a \div n
           r == a % n
           c == a + b
           d == r + b
           p == c \div n
           e == c % n
<1>1. a = n * q + r /\ q \in Int /\ r \in 0 .. n - 1
  BY DivMod
<1>2. c \in Int /\ d \in Int /\ d >= 0 /\ c = n * q + d
  BY <1>1
<1> HIDE DEF c, d, q, r
<1>3. c = n * p + e /\ p \in Int /\ e \in 0 .. n - 1
  BY <1>2, DivMod
<1> HIDE DEF p, e
<1>4. d < n => (c % n) = d
  BY <1>1, <1>2, ModUnique
<1>5. d = n * (p - q) + e /\ p - q \in Int
  BY <1>1, <1>2, <1>3
<1> DEFINE k == p - q
<1>6. d = n * k + e /\ k \in Int
  BY <1>5
<1> HIDE DEF k
<1>7. (d % n) = e
  BY <1>2, <1>3, <1>6, ModUnique
<1> QED BY <1>4, <1>7 DEF c, d, e, r

-----------------------------------------------------------------------------
(* Sequences of records and their cells                                    *)

LEMMA SeqIsSequence ==
  ASSUME NEW S, NEW s \in Seq(S)
  PROVE  IsSequence(s)
<1>1. s \in [1 .. Len(s) -> S] /\ Len(s) \in Nat
  BY LenProperties
<1>2. s \in [1 .. Len(s) -> {s[i] : i \in DOMAIN s}]
  BY <1>1
<1> QED BY <1>1, <1>2, SeqDef DEF IsSequence

LEMMA SequenceFacts ==
  ASSUME NEW s, IsSequence(s)
  PROVE  Len(s) \in Nat /\ DOMAIN s = 1 .. Len(s)
  BY LenProperties DEF IsSequence

LEMMA AppendFacts ==
  ASSUME NEW s, NEW e, IsSequence(s)
  PROVE  /\ IsSequence(Append(s, e))
         /\ Len(Append(s, e)) = Len(s) + 1
         /\ Append(s, e)[Len(s) + 1] = e
         /\ \A i \in 1 .. Len(s) : Append(s, e)[i] = s[i]
<1> DEFINE S == {s[i] : i \in DOMAIN s} \cup {e}
<1>1. s \in Seq(S) /\ e \in S
  BY SeqMonotonic DEF IsSequence
<1> HIDE DEF S
<1>2. Append(s, e) \in Seq(S)
  BY <1>1
<1>3. IsSequence(Append(s, e))
  BY <1>2, SeqIsSequence
<1> QED BY <1>1, <1>3

LEMMA CellsFacts ==
  ASSUME PositiveSizes, NEW rec
  PROVE  /\ Cells(rec) \in Seq({rec} \X Nat)
         /\ Len(Cells(rec)) = SizeOf(rec)
         /\ \A p \in 1 .. SizeOf(rec) : Cells(rec)[p] = <<rec, p>>
         /\ Cells(rec) # <<>>
<1>1. SizeOf(rec) \in Nat \ {0}
  BY DEF PositiveSizes
<1>2. Cells(rec) \in [1 .. SizeOf(rec) -> {rec} \X Nat]
  BY <1>1 DEF Cells
<1>3. Cells(rec) \in Seq({rec} \X Nat)
  BY <1>1, <1>2, SeqDef
<1>4. Len(Cells(rec)) = SizeOf(rec)
  <2>1. DOMAIN Cells(rec) = 1 .. Len(Cells(rec)) /\ Len(Cells(rec)) \in Nat
    BY <1>3, LenProperties
  <2>2. DOMAIN Cells(rec) = 1 .. SizeOf(rec)
    BY DEF Cells
  <2> QED BY <1>1, <2>1, <2>2
<1>5. Cells(rec) # <<>>
  <2>1. Len(<<>>) = 0
    OBVIOUS
  <2> QED BY <1>1, <1>4, <2>1
<1> QED BY <1>3, <1>4, <1>5 DEF Cells

(* The kernel puts one record, or a report of losses and the record.       *)
LEMMA BatchFacts ==
  ASSUME PositiveSizes, NEW rec
  PROVE  \/ /\ Batch(rec) = <<rec>>
            /\ Bytes(Batch(rec)) = Cells(rec)
         \/ /\ Batch(rec) = <<Lost(pending), rec>>
            /\ Bytes(Batch(rec)) = Cells(Lost(pending)) \o Cells(rec)
<1>1. CASE pending = 0
  <2>1. Batch(rec) = <<rec>>
    BY <1>1 DEF Batch
  <2> QED BY <2>1 DEF Bytes
<1>2. CASE pending # 0
  <2>1. Batch(rec) = <<Lost(pending), rec>>
    BY <1>2 DEF Batch
  <2> QED BY <2>1 DEF Bytes
<1> QED BY <1>1, <1>2

LEMMA TwoCells ==
  ASSUME PositiveSizes, NEW a, NEW b
  PROVE  LET s == Cells(a) \o Cells(b)
         IN  /\ Len(s) = SizeOf(a) + SizeOf(b)
             /\ \A p \in 1 .. SizeOf(a) : s[p] = <<a, p>>
             /\ \A p \in 1 .. SizeOf(b) : s[SizeOf(a) + p] = <<b, p>>
<1> DEFINE S == {a, b} \X Nat
<1>1. SizeOf(a) \in Nat \ {0} /\ SizeOf(b) \in Nat \ {0}
  BY DEF PositiveSizes
<1>2. /\ Cells(a) \in Seq(S) /\ Cells(b) \in Seq(S)
      /\ Len(Cells(a)) = SizeOf(a) /\ Len(Cells(b)) = SizeOf(b)
  <2>1. {a} \X Nat \subseteq S /\ {b} \X Nat \subseteq S
    OBVIOUS
  <2> HIDE DEF S
  <2>2. Cells(a) \in Seq({a} \X Nat) /\ Cells(b) \in Seq({b} \X Nat)
    BY CellsFacts
  <2>3. Cells(a) \in Seq(S) /\ Cells(b) \in Seq(S)
    BY <2>1, <2>2, SeqMonotonic
  <2> QED BY <2>3, CellsFacts
<1> HIDE DEF S
<1> DEFINE s == Cells(a) \o Cells(b)
<1>3. /\ Len(s) = SizeOf(a) + SizeOf(b)
      /\ \A i \in 1 .. SizeOf(a) + SizeOf(b) :
           s[i] = IF i <= SizeOf(a) THEN Cells(a)[i] ELSE Cells(b)[i - SizeOf(a)]
  BY <1>2, ConcatProperties
<1> HIDE DEF s
<1>4. ASSUME NEW p \in 1 .. SizeOf(a) PROVE s[p] = <<a, p>>
  <2>1. s[p] = Cells(a)[p]
    BY <1>1, <1>3
  <2> QED BY <2>1, CellsFacts
<1>5. ASSUME NEW p \in 1 .. SizeOf(b) PROVE s[SizeOf(a) + p] = <<b, p>>
  <2>1. s[SizeOf(a) + p] = Cells(b)[p]
    BY <1>1, <1>3
  <2> QED BY <2>1, CellsFacts
<1> QED BY <1>3, <1>4, <1>5 DEF s

-----------------------------------------------------------------------------
(* Layouts                                                                 *)

(* A layout is extended by a record that was stored at its end.            *)
LEMMA LayoutAppend ==
  ASSUME PositiveSizes, NEW recs, IsSequence(recs), NEW hd \in Nat, NEW tl \in Nat,
         NEW k \in 0 .. Len(recs), NEW c, NEW rec,
         NEW start \in [1 .. Len(recs) + 1 -> 0 .. hd],
         Layout(start, recs, hd, tl, k, c), Stored(c, rec, hd)
  PROVE  LET hd1 == hd + SizeOf(rec)
         IN  /\ hd1 \in Nat
             /\ \E s \in [1 .. Len(Append(recs, rec)) + 1 -> 0 .. hd1] :
                  Layout(s, Append(recs, rec), hd1, tl, k, c)
<1> DEFINE L == Len(recs)
           new == Append(recs, rec)
           hd1 == hd + SizeOf(rec)
           s == [i \in 1 .. L + 2 |-> IF i <= L + 1 THEN start[i] ELSE hd1]
<1>1. L \in Nat /\ SizeOf(rec) \in Nat \ {0} /\ hd1 \in Nat
  BY SequenceFacts DEF PositiveSizes
<1>2. Len(new) = L + 1 /\ new[L + 1] = rec /\ \A i \in 1 .. L : new[i] = recs[i]
  BY AppendFacts
<1> HIDE DEF new
<1>3. s \in [1 .. L + 2 -> 0 .. hd1]
  BY <1>1
<1>4. /\ \A i \in 1 .. L + 1 : s[i] = start[i] /\ s[i] <= hd
      /\ s[L + 2] = hd1 /\ s[L + 1] = hd
  BY <1>1 DEF Layout
<1> HIDE DEF s
<1>5. ASSUME NEW i \in 1 .. L + 1 PROVE s[i + 1] = s[i] + SizeOf(new[i])
  <2>1. CASE i <= L
    <3>1. start[i + 1] = start[i] + SizeOf(recs[i])
      BY <1>1, <2>1 DEF Layout
    <3> QED BY <1>1, <1>2, <1>4, <2>1, <3>1
  <2>2. CASE i = L + 1
    BY <1>1, <1>2, <1>4, <2>2
  <2> QED BY <1>1, <2>1, <2>2
<1>6. ASSUME NEW i \in 1 .. L + 2, NEW j \in 1 .. L + 2, i <= j PROVE s[i] <= s[j]
  <2>1. CASE j <= L + 1
    BY <1>1, <1>4, <1>6, <2>1 DEF Layout
  <2>2. CASE j = L + 2
    BY <1>1, <1>3, <1>4, <2>2
  <2> QED BY <1>1, <2>1, <2>2
<1>7. ASSUME NEW i \in 1 .. L + 1, i > k PROVE Stored(c, new[i], s[i])
  <2>1. CASE i <= L
    BY <1>1, <1>2, <1>4, <1>7, <2>1 DEF Layout
  <2>2. CASE i = L + 1
    BY <1>2, <1>4, <2>2
  <2> QED BY <1>1, <2>1, <2>2
<1>8. s[k + 1] = tl
  BY <1>1, <1>4 DEF Layout
<1>9. Layout(s, new, hd1, tl, k, c)
  BY <1>1, <1>2, <1>4, <1>5, <1>6, <1>7, <1>8 DEF Layout
<1> QED BY <1>1, <1>2, <1>3, <1>9 DEF new

(* A layout stays one when the unread cells stay what they are.            *)
LEMMA LayoutKept ==
  ASSUME PositiveSizes, NEW recs, IsSequence(recs), NEW hd \in Nat, NEW tl \in Nat,
         NEW k \in 0 .. Len(recs), NEW c, NEW d,
         NEW start \in [1 .. Len(recs) + 1 -> 0 .. hd],
         Layout(start, recs, hd, tl, k, c),
         \A pos \in tl .. hd - 1 : d[pos % DataSize] = c[pos % DataSize]
  PROVE  Layout(start, recs, hd, tl, k, d)
<1>1. Len(recs) \in Nat
  BY SequenceFacts
<1>2. ASSUME NEW i \in 1 .. Len(recs), i > k PROVE Stored(d, recs[i], start[i])
  <2>1. SizeOf(recs[i]) \in Nat \ {0}
    BY DEF PositiveSizes
  <2>2. start[i] \in Nat /\ start[i] >= tl /\ start[i] + SizeOf(recs[i]) <= hd
    <3>1. i \in 1 .. Len(recs) + 1 /\ i + 1 \in 1 .. Len(recs) + 1 /\ k + 1 \in 1 .. Len(recs) + 1
      BY <1>1
    <3>2. start[i] \in 0 .. hd /\ start[i + 1] \in 0 .. hd
      BY <3>1
    <3>3. start[k + 1] = tl /\ start[k + 1] <= start[i]
      BY <1>1, <1>2, <3>1 DEF Layout
    <3>4. start[i + 1] = start[i] + SizeOf(recs[i])
      BY DEF Layout
    <3> QED BY <3>2, <3>3, <3>4
  <2>3. Stored(c, recs[i], start[i])
    BY <1>2 DEF Layout
  <2>4. ASSUME NEW p \in 1 .. SizeOf(recs[i])
        PROVE  d[(start[i] + p - 1) % DataSize] = <<recs[i], p>>
    <3>1. start[i] + p - 1 \in tl .. hd - 1
      BY <2>1, <2>2
    <3>2. c[(start[i] + p - 1) % DataSize] = <<recs[i], p>>
      BY <2>3 DEF Stored
    <3> QED BY <3>1, <3>2
  <2> QED BY <2>4 DEF Stored
<1> QED BY <1>2 DEF Layout

(* The next record begins at data_tail, whole in its cells, if the ring is *)
(* not empty.                                                              *)
LEMMA NextRecord ==
  ASSUME PositiveSizes, RingInv
  PROVE  /\ Popped \in 0 .. Len(written)
         /\ empty <=> Popped = Len(written)
         /\ Popped < Len(written) => Stored(cells, written[Popped + 1], data_tail)
<1>1. Len(written) \in Nat /\ Len(handled) \in Nat
  BY SequenceFacts DEF RingInv, RingTypeOK
<1>2. Popped \in 0 .. Len(written)
  BY <1>1 DEF RingInv, Delivered, Popped
<1>3. PICK start \in [1 .. Len(written) + 1 -> 0 .. data_head] :
        Layout(start, written, data_head, data_tail, Popped, cells)
  BY DEF RingInv, LaidOut
<1>4. Popped < Len(written) => Stored(cells, written[Popped + 1], data_tail)
  BY <1>1, <1>2, <1>3 DEF Layout
<1>5. empty => Popped = Len(written)
  <2> SUFFICES ASSUME Popped < Len(written) PROVE data_tail < data_head
    BY <1>1, <1>2 DEF empty, RingInv, RingTypeOK
  <2>1. SizeOf(written[Popped + 1]) \in Nat \ {0}
    BY DEF PositiveSizes
  <2>2. start[Popped + 2] = data_tail + SizeOf(written[Popped + 1])
    BY <1>1, <1>2, <1>3 DEF Layout
  <2>3. start[Popped + 2] <= data_head
    BY <1>1, <1>2, <1>3
  <2> QED BY <2>1, <2>2, <2>3 DEF RingInv, RingTypeOK
<1>6. Popped = Len(written) => empty
  BY <1>3 DEF Layout, empty
<1> QED BY <1>2, <1>4, <1>5, <1>6

-----------------------------------------------------------------------------
(* The kernel writes                                                       *)

(* Bytes that fit go into the free cells, one byte after the other, and    *)
(* leave the unread ones alone.                                            *)
LEMMA PutCells ==
  ASSUME RingTypeOK, NEW bytes, Len(bytes) \in Nat,
         data_head + Len(bytes) - data_tail <= DataSize,
         cells' = [i \in DOMAIN cells |->
                    IF \E k \in 1 .. Len(bytes) : (data_head + k - 1) % DataSize = i
                      THEN bytes[CHOOSE k \in 1 .. Len(bytes) : (data_head + k - 1) % DataSize = i]
                      ELSE cells[i]]
  PROVE  /\ DOMAIN cells' = 0 .. DataSize - 1
         /\ \A k \in 1 .. Len(bytes) : cells'[(data_head + k - 1) % DataSize] = bytes[k]
         /\ \A pos \in data_tail .. data_head - 1 :
              cells'[pos % DataSize] = cells[pos % DataSize]
<1>1. /\ DataSize \in Nat \ {0} /\ data_head \in Nat /\ data_tail \in Nat
      /\ DOMAIN cells = 0 .. DataSize - 1
      /\ data_tail <= data_head
  BY DataSizeAssumption DEF RingTypeOK
<1>2. ASSUME NEW k \in 1 .. Len(bytes)
      PROVE  cells'[(data_head + k - 1) % DataSize] = bytes[k]
  <2> DEFINE i == (data_head + k - 1) % DataSize
             j == CHOOSE m \in 1 .. Len(bytes) : (data_head + m - 1) % DataSize = i
  <2>1. i \in 0 .. DataSize - 1
    BY <1>1
  <2>2. j \in 1 .. Len(bytes) /\ (data_head + j - 1) % DataSize = i
    OBVIOUS
  <2>3. cells'[i] = bytes[j]
    BY <1>1, <2>1
  <2> HIDE DEF j
  <2> DEFINE a == data_head + j - 1
             b == data_head + k - 1
  <2>4. a \in Int /\ b \in Int /\ a - b < DataSize /\ b - a < DataSize
    BY <1>1, <2>2
  <2>5. (a % DataSize) = (b % DataSize)
    BY <2>2
  <2> HIDE DEF a, b
  <2>6. a = b
    BY <1>1, <2>4, <2>5, DistinctCells
  <2>7. j = k
    BY <1>1, <2>2, <2>6 DEF a, b
  <2> QED BY <2>3, <2>7
<1>3. ASSUME NEW pos \in data_tail .. data_head - 1
      PROVE  cells'[pos % DataSize] = cells[pos % DataSize]
  <2>1. (pos % DataSize) \in 0 .. DataSize - 1
    BY <1>1
  <2>2. ASSUME NEW k \in 1 .. Len(bytes) PROVE (data_head + k - 1) % DataSize # pos % DataSize
    <3> DEFINE a == data_head + k - 1
    <3>1. a \in Int /\ pos \in Int /\ a - pos < DataSize /\ pos - a < DataSize /\ a # pos
      BY <1>1
    <3> HIDE DEF a
    <3>2. (a % DataSize) # (pos % DataSize)
      BY <1>1, <3>1, DistinctCells
    <3> QED BY <3>2 DEF a
  <2> QED BY <1>1, <2>1, <2>2
<1> QED BY <1>1, <1>2, <1>3

(* A batch of records is stored behind the unread ones.                    *)
LEMMA PutStored ==
  ASSUME PositiveSizes, RingInv, NEW rec, KernelPut(rec)
  PROVE  /\ DOMAIN cells' = 0 .. DataSize - 1
         /\ \A pos \in data_tail .. data_head - 1 :
              cells'[pos % DataSize] = cells[pos % DataSize]
         /\ data_head' <= data_tail + DataSize
         /\ \/ /\ written' = Append(written, rec)
               /\ data_head' = data_head + SizeOf(rec)
               /\ Stored(cells', rec, data_head)
            \/ /\ written' = Append(Append(written, Lost(pending)), rec)
               /\ data_head' = data_head + SizeOf(Lost(pending)) + SizeOf(rec)
               /\ Stored(cells', Lost(pending), data_head)
               /\ Stored(cells', rec, data_head + SizeOf(Lost(pending)))
<1> DEFINE bytes == Bytes(Batch(rec))
           lost == Lost(pending)
<1>1. RingTypeOK /\ data_head \in Nat /\ data_tail \in Nat /\ IsSequence(written)
  BY DEF RingInv, RingTypeOK
<1>2. SizeOf(rec) \in Nat \ {0} /\ SizeOf(lost) \in Nat \ {0}
  BY DEF PositiveSizes
<1>3. /\ data_head + Len(bytes) - data_tail <= DataSize
      /\ data_head' = data_head + Len(bytes)
      /\ written' = written \o Batch(rec)
  BY DEF KernelPut, Fits
<1>4. Len(bytes) \in Nat
  BY <1>2, BatchFacts, CellsFacts, TwoCells
<1>5. /\ DOMAIN cells' = 0 .. DataSize - 1
      /\ \A k \in 1 .. Len(bytes) : cells'[(data_head + k - 1) % DataSize] = bytes[k]
      /\ \A pos \in data_tail .. data_head - 1 :
           cells'[pos % DataSize] = cells[pos % DataSize]
  BY <1>1, <1>3, <1>4, PutCells DEF KernelPut
<1>6. data_head' <= data_tail + DataSize
  BY <1>1, <1>3, <1>4, DataSizeAssumption
<1>7. CASE Batch(rec) = <<rec>> /\ bytes = Cells(rec)
  <2>1. written' = Append(written, rec)
    BY <1>1, <1>3, <1>7 DEF IsSequence
  <2>2. data_head' = data_head + SizeOf(rec)
    BY <1>3, <1>7, CellsFacts
  <2>3. Stored(cells', rec, data_head)
    BY <1>5, <1>7, CellsFacts DEF Stored
  <2> QED BY <1>5, <1>6, <2>1, <2>2, <2>3
<1>8. CASE Batch(rec) = <<lost, rec>> /\ bytes = Cells(lost) \o Cells(rec)
  <2>1. written' = Append(Append(written, lost), rec)
    BY <1>1, <1>3, <1>8 DEF IsSequence
  <2> HIDE DEF bytes, lost
  <2>2. Len(bytes) = SizeOf(lost) + SizeOf(rec)
    BY <1>8, TwoCells
  <2>3. /\ \A p \in 1 .. SizeOf(lost) : bytes[p] = <<lost, p>>
        /\ \A p \in 1 .. SizeOf(rec) : bytes[SizeOf(lost) + p] = <<rec, p>>
    BY <1>8, TwoCells
  <2>4. data_head' = data_head + SizeOf(lost) + SizeOf(rec)
    BY <1>1, <1>2, <1>3, <2>2
  <2>5. Stored(cells', lost, data_head)
    BY <1>2, <1>5, <2>2, <2>3 DEF Stored
  <2>6. ASSUME NEW p \in 1 .. SizeOf(rec)
        PROVE  cells'[(data_head + SizeOf(lost) + p - 1) % DataSize] = <<rec, p>>
    <3>1. SizeOf(lost) + p \in 1 .. Len(bytes)
      BY <1>2, <2>2
    <3>2. data_head + (SizeOf(lost) + p) - 1 = data_head + SizeOf(lost) + p - 1
      BY <1>1, <1>2
    <3> QED BY <1>5, <2>3, <3>1, <3>2
  <2> QED BY <1>5, <1>6, <2>1, <2>4, <2>5, <2>6 DEF Stored, lost
<1> QED BY <1>7, <1>8, BatchFacts

LEMMA PutInv ==
  ASSUME PositiveSizes, RingInv, NEW rec, KernelPut(rec), UNCHANGED pc
  PROVE  RingInv'
<1> DEFINE lost == Lost(pending)
<1>1. UNCHANGED <<data_tail, handled, current>> /\ Popped' = Popped
  BY DEF KernelPut, Popped
<1>2. /\ IsSequence(written) /\ Len(written) \in Nat /\ Len(handled) \in Nat
      /\ data_head \in Nat /\ data_tail \in Nat /\ data_tail <= data_head
  BY SequenceFacts DEF RingInv, RingTypeOK
<1>3. Popped \in 0 .. Len(written)
  BY NextRecord
<1>4. PICK start \in [1 .. Len(written) + 1 -> 0 .. data_head] :
        Layout(start, written, data_head, data_tail, Popped, cells)
  BY DEF RingInv, LaidOut
<1>5. Layout(start, written, data_head, data_tail, Popped, cells')
  BY <1>2, <1>3, <1>4, PutStored, LayoutKept
<1>6. /\ IsSequence(written') /\ data_head' \in Nat /\ data_head <= data_head'
      /\ Len(written) <= Len(written') /\ Len(written') \in Nat
      /\ \A i \in 1 .. Len(written) : written'[i] = written[i]
      /\ LaidOut'
  <2>1. CASE /\ written' = Append(written, rec)
             /\ data_head' = data_head + SizeOf(rec)
             /\ Stored(cells', rec, data_head)
    <3>1. /\ data_head + SizeOf(rec) \in Nat
          /\ \E s \in [1 .. Len(Append(written, rec)) + 1 -> 0 .. data_head + SizeOf(rec)] :
               Layout(s, Append(written, rec), data_head + SizeOf(rec), data_tail, Popped, cells')
      BY <1>2, <1>3, <1>5, <2>1, LayoutAppend
    <3>2. LaidOut'
      BY <1>1, <2>1, <3>1 DEF LaidOut
    <3>3. SizeOf(rec) \in Nat
      BY DEF PositiveSizes
    <3> QED BY <1>2, <2>1, <3>1, <3>2, <3>3, AppendFacts
  <2>2. CASE /\ written' = Append(Append(written, lost), rec)
             /\ data_head' = data_head + SizeOf(lost) + SizeOf(rec)
             /\ Stored(cells', lost, data_head)
             /\ Stored(cells', rec, data_head + SizeOf(lost))
    <3> HIDE DEF lost
    <3> DEFINE mid == data_head + SizeOf(lost)
               w1 == Append(written, lost)
    <3>1. /\ mid \in Nat
          /\ \E s \in [1 .. Len(w1) + 1 -> 0 .. mid] :
               Layout(s, w1, mid, data_tail, Popped, cells')
      BY <1>2, <1>3, <1>5, <2>2, LayoutAppend
    <3>2. /\ IsSequence(w1) /\ Len(w1) = Len(written) + 1
          /\ \A i \in 1 .. Len(written) : w1[i] = written[i]
      BY <1>2, AppendFacts
    <3>3. Stored(cells', rec, mid) /\ written' = Append(w1, rec) /\ data_head' = mid + SizeOf(rec)
      BY <2>2
    <3>4. SizeOf(rec) \in Nat /\ SizeOf(lost) \in Nat
      BY DEF PositiveSizes
    <3>5. mid >= data_head
      BY <1>2, <3>4
    <3> HIDE DEF mid, w1
    <3>6. PICK s \in [1 .. Len(w1) + 1 -> 0 .. mid] :
            Layout(s, w1, mid, data_tail, Popped, cells')
      BY <3>1
    <3>7. Popped \in 0 .. Len(w1)
      BY <1>2, <1>3, <3>2
    <3>8. /\ mid + SizeOf(rec) \in Nat
          /\ \E t \in [1 .. Len(Append(w1, rec)) + 1 -> 0 .. mid + SizeOf(rec)] :
               Layout(t, Append(w1, rec), mid + SizeOf(rec), data_tail, Popped, cells')
      BY <1>2, <3>1, <3>2, <3>3, <3>6, <3>7, LayoutAppend
    <3>9. LaidOut'
      BY <1>1, <3>3, <3>8 DEF LaidOut
    <3>10. /\ IsSequence(written') /\ Len(written') = Len(w1) + 1
           /\ \A i \in 1 .. Len(w1) : written'[i] = w1[i]
      BY <3>2, <3>3, AppendFacts
    <3> QED BY <1>2, <3>1, <3>2, <3>3, <3>4, <3>5, <3>8, <3>9, <3>10
  <2> QED BY <2>1, <2>2, PutStored
<1>7. RingTypeOK'
  BY <1>1, <1>2, <1>6, PutStored DEF RingInv, RingTypeOK
<1>8. Delivered'
  BY <1>1, <1>2, <1>6 DEF RingInv, Delivered
<1>9. Held'
  <2>1. pc = "handle" => written'[Len(handled) + 1] = written[Len(handled) + 1]
    BY <1>2, <1>6 DEF RingInv, Delivered
  <2> QED BY <1>1, <2>1 DEF RingInv, Held, Cells
<1> QED BY <1>6, <1>7, <1>8, <1>9 DEF RingInv

-----------------------------------------------------------------------------
(* The reader gets, handles and pops                                       *)

(* get() finds the length of the next record in the cell at data_tail, and *)
(* a record that wraps around is put together as it was.                   *)
LEMMA GetFacts ==
  ASSUME PositiveSizes, RingInv, NEW rec, Stored(cells, rec, data_tail)
  PROVE  /\ get.at = data_tail % DataSize
         /\ get.len = SizeOf(rec)
         /\ get.copy = IF get.at + get.len > DataSize THEN Cells(rec) ELSE <<>>
<1> DEFINE index == data_tail % DataSize
<1>1. DataSize \in Nat \ {0} /\ data_tail \in Nat /\ SizeOf(rec) \in Nat \ {0}
  BY DataSizeAssumption DEF RingInv, RingTypeOK, PositiveSizes
<1>2. cells[index][1] = rec
  <2>1. cells[(data_tail + 1 - 1) % DataSize] = <<rec, 1>>
    BY <1>1 DEF Stored
  <2>2. data_tail + 1 - 1 = data_tail
    BY <1>1
  <2> QED BY <2>1, <2>2
<1>3. Wrapped(index, SizeOf(rec)) = Cells(rec)
  <2>1. ASSUME NEW p \in 1 .. SizeOf(rec) PROVE cells[(index + p - 1) % DataSize] = <<rec, p>>
    <3> DEFINE b == p - 1
    <3>1. b \in Nat /\ index + p - 1 = index + b /\ data_tail + p - 1 = data_tail + b
      BY <1>1
    <3>2. cells[(data_tail + b) % DataSize] = <<rec, p>>
      BY <1>1, <3>1 DEF Stored
    <3> HIDE DEF b
    <3>3. ((index + b) % DataSize) = ((data_tail + b) % DataSize)
      BY <1>1, <3>1, CellAfter
    <3> QED BY <3>1, <3>2, <3>3
  <2> QED BY <2>1 DEF Wrapped, Cells
<1>4. /\ get.at = index /\ get.len = SizeOf(rec)
      /\ get.copy = IF index + SizeOf(rec) > DataSize THEN Wrapped(index, SizeOf(rec)) ELSE <<>>
  BY <1>2 DEF get
<1> QED BY <1>3, <1>4

LEMMA GetInv ==
  ASSUME PositiveSizes, RingInv, pc = "loop", Get, pc' = "handle"
  PROVE  RingInv'
<1>1. /\ UNCHANGED <<cells, data_head, data_tail, written, handled>> /\ current' = get /\ ~empty
      /\ Popped' = Popped /\ Popped = Len(handled)
  BY DEF Get, Popped
<1>2. Len(handled) < Len(written) /\ Stored(cells, written[Len(handled) + 1], data_tail)
  BY <1>1, NextRecord, SequenceFacts DEF RingInv, RingTypeOK
<1>3. Held'
  BY <1>1, <1>2, GetFacts DEF Held, Cells
<1> QED BY <1>1, <1>2, <1>3 DEF RingInv, RingTypeOK, LaidOut, Delivered

(* The handler sees the next record, in place or in the copy.              *)
LEMMA SeenFacts ==
  ASSUME PositiveSizes, RingInv, pc = "handle"
  PROVE  RecordIn(current) = written[Len(handled) + 1]
<1> DEFINE rec == written[Len(handled) + 1]
           at == data_tail % DataSize
<1>1. DataSize \in Nat \ {0} /\ data_tail \in Nat /\ SizeOf(rec) \in Nat \ {0}
  BY DataSizeAssumption DEF RingInv, RingTypeOK, PositiveSizes
<1>2. Stored(cells, rec, data_tail)
  BY NextRecord DEF RingInv, Delivered, Popped
<1>3. /\ current.at = at /\ current.len = SizeOf(rec)
      /\ current.copy = IF at + SizeOf(rec) > DataSize THEN Cells(rec) ELSE <<>>
  BY DEF RingInv, Held
<1>4. Seen(current) = Cells(rec)
  <2>1. CASE at + SizeOf(rec) > DataSize
    BY <1>3, <2>1, CellsFacts DEF Seen
  <2>2. CASE ~(at + SizeOf(rec) > DataSize)
    <3>1. Seen(current) = InPlace(at, SizeOf(rec))
      BY <1>3, <2>2 DEF Seen
    <3>2. ASSUME NEW p \in 1 .. SizeOf(rec)
          PROVE  at + p - 1 < DataSize /\ cells[at + p - 1] = <<rec, p>>
      <4> DEFINE b == p - 1
      <4>0. at \in Nat
        BY <1>1
      <4>1. b \in Nat /\ at + p - 1 = at + b /\ data_tail + p - 1 = data_tail + b /\ at + b < DataSize
        BY <1>1, <2>2, <4>0
      <4>2. cells[(data_tail + b) % DataSize] = <<rec, p>>
        BY <1>1, <1>2, <4>1 DEF Stored
      <4> HIDE DEF b
      <4>3. ((data_tail + b) % DataSize) = at + b
        BY <1>1, <4>1, CellAfter
      <4> QED BY <4>1, <4>2, <4>3
    <3> QED BY <3>1, <3>2 DEF InPlace, Cells
  <2> QED BY <2>1, <2>2
<1> HIDE DEF rec
<1>5. Cells(rec)[1][1] = rec /\ Intact(Cells(rec))
  BY <1>1 DEF Intact, Cells
<1> QED BY <1>4, <1>5 DEF RecordIn, rec

LEMMA HandleInv ==
  ASSUME PositiveSizes, RingInv, pc = "handle", HandleRecord(RecordIn(current)), pc' = "pop"
  PROVE  RingInv'
<1>1. /\ UNCHANGED <<cells, data_head, data_tail, written>>
      /\ handled' = Append(handled, written[Len(handled) + 1])
  BY SeenFacts DEF HandleRecord
<1>2. /\ IsSequence(handled) /\ Len(handled) \in Nat /\ Len(written) \in Nat
      /\ Len(handled) < Len(written)
  BY SequenceFacts DEF RingInv, RingTypeOK, Delivered
<1>3. /\ IsSequence(handled') /\ Len(handled') = Len(handled) + 1
      /\ handled'[Len(handled) + 1] = written[Len(handled) + 1]
      /\ \A i \in 1 .. Len(handled) : handled'[i] = handled[i]
  BY <1>1, <1>2, AppendFacts
<1>4. Popped' = Popped
  BY <1>2, <1>3 DEF Popped
<1>5. RingTypeOK' /\ LaidOut'
  BY <1>1, <1>3, <1>4 DEF RingInv, RingTypeOK, LaidOut
<1>6. Delivered'
  BY <1>1, <1>2, <1>3 DEF RingInv, Delivered
<1> QED BY <1>5, <1>6 DEF RingInv, Held

LEMMA PopInv ==
  ASSUME PositiveSizes, RingInv, pc = "pop", Pop, pc' = "loop"
  PROVE  RingInv'
<1> DEFINE k == Popped
<1>1. UNCHANGED <<cells, data_head, written, handled>> /\ data_tail' = data_tail + get.len
  BY DEF Pop
<1>2. /\ Len(handled) \in Nat /\ Len(written) \in Nat /\ Len(handled) > 0
      /\ Len(handled) <= Len(written) /\ data_tail \in Nat /\ data_head \in Nat
      /\ data_tail <= data_head /\ data_head <= data_tail + DataSize
  BY SequenceFacts DEF RingInv, RingTypeOK, Delivered
<1>3. k = Len(handled) - 1 /\ Popped' = k + 1 /\ k \in Nat /\ k < Len(written)
  BY <1>1, <1>2 DEF Popped
<1>4. PICK start \in [1 .. Len(written) + 1 -> 0 .. data_head] :
        Layout(start, written, data_head, data_tail, k, cells)
  BY DEF RingInv, LaidOut
<1>5. data_tail' = start[k + 2]
  <2>1. get.len = SizeOf(written[k + 1])
    BY <1>3, NextRecord, GetFacts
  <2>2. start[k + 1] = data_tail /\ start[(k + 1) + 1] = start[k + 1] + SizeOf(written[k + 1])
    BY <1>2, <1>3, <1>4 DEF Layout
  <2>3. (k + 1) + 1 = k + 2
    BY <1>3
  <2> QED BY <1>1, <2>1, <2>2, <2>3
<1>6. data_tail' \in Nat /\ data_tail <= data_tail' /\ data_tail' <= data_head
  <2>1. k + 1 \in 1 .. Len(written) + 1 /\ k + 2 \in 1 .. Len(written) + 1 /\ k + 1 <= k + 2
    BY <1>2, <1>3
  <2>2. start[k + 1] = data_tail /\ start[k + 1] <= start[k + 2] /\ start[k + 2] \in 0 .. data_head
    BY <1>4, <2>1 DEF Layout
  <2> QED BY <1>2, <1>5, <2>2
<1> HIDE DEF k
<1>7. Layout(start, written, data_head, data_tail', k + 1, cells)
  <2>1. start[(k + 1) + 1] = data_tail'
    <3>1. (k + 1) + 1 = k + 2
      BY <1>3
    <3> QED BY <1>5, <3>1
  <2>2. \A i \in 1 .. Len(written) : i > k + 1 => i > k
    BY <1>2, <1>3
  <2> QED BY <1>4, <2>1, <2>2 DEF Layout
<1>8. LaidOut'
  BY <1>1, <1>3, <1>7 DEF LaidOut
<1>9. RingTypeOK' /\ Delivered'
  BY <1>1, <1>2, <1>6, DataSizeAssumption DEF RingInv, RingTypeOK, Delivered
<1> QED BY <1>8, <1>9 DEF RingInv, Held

(* Steps that use neither the ring nor the record at hand.                 *)
LEMMA QuietInv ==
  ASSUME RingInv, UNCHANGED <<cells, data_head, data_tail, written, handled, current>>,
         \/ pc \notin {"handle", "pop"} /\ pc' \notin {"handle", "pop"}
         \/ UNCHANGED pc
  PROVE  RingInv'
<1>1. Popped' = Popped
  BY DEF Popped
<1>2. LaidOut'
  BY <1>1 DEF RingInv, LaidOut
<1>3. RingTypeOK' /\ Delivered' /\ Held'
  BY DEF RingInv, RingTypeOK, Delivered, Held, Cells
<1> QED BY <1>2, <1>3 DEF RingInv

-----------------------------------------------------------------------------
(* The invariant is inductive                                              *)

LEMMA InitRing == Init => RingInv
<1> SUFFICES ASSUME Init PROVE RingInv
  OBVIOUS
<1>1. DataSize \in Nat \ {0}
  BY DataSizeAssumption
<1>2. IsSequence(<<>>) /\ Len(<<>>) = 0
  BY SeqIsSequence, EmptySeq
<1>3. RingTypeOK
  BY <1>1, <1>2 DEF Init, RingInit, RingTypeOK
<1>4. LaidOut
  <2> DEFINE s == [i \in 1 .. 1 |-> 0]
  <2>1. s \in [1 .. Len(written) + 1 -> 0 .. data_head]
    BY <1>2 DEF Init, RingInit
  <2>2. Layout(s, written, data_head, data_tail, Popped, cells)
    BY <1>2 DEF Init, RingInit, Layout, Popped
  <2> QED BY <2>1, <2>2 DEF LaidOut
<1>5. Delivered /\ Held
  BY <1>2 DEF Init, RingInit, Delivered, Held
<1> QED BY <1>3, <1>4, <1>5 DEF RingInv

LEMMA InitDrains == Init => Drains
<1> SUFFICES ASSUME Init PROVE Drains
  OBVIOUS
<1>1. Len(<<>>) = 0
  OBVIOUS
<1> QED BY <1>1 DEF Init, RingInit, Drains, Phases

(* Every step keeps the ring in order.                                     *)
LEMMA StepRing == PositiveSizes /\ RingInv /\ [Next]_vars => RingInv'
<1> SUFFICES ASSUME PositiveSizes, RingInv, [Next]_vars PROVE RingInv'
  OBVIOUS
<1>1. CASE Synchronize
  BY <1>1, QuietInv DEF Synchronize, ring
<1>2. CASE Create
  BY <1>2, QuietInv DEF Create, ring
<1>3. CASE Tick
  BY <1>3, QuietInv DEF Tick, ring
<1>4. CASE Count
  BY <1>4, QuietInv DEF Count, ring
<1>5. CASE Write
  <2>1. PICK rec \in Records : KernelPut(rec) \/ KernelDrop(rec)
    BY <1>5 DEF Write
  <2>2. UNCHANGED pc
    BY <1>5 DEF Write, rest
  <2>3. CASE KernelPut(rec)
    BY <2>2, <2>3, PutInv
  <2>4. CASE KernelDrop(rec)
    BY <2>2, <2>4, QuietInv DEF KernelDrop
  <2> QED BY <2>1, <2>3, <2>4
<1>6. CASE Stop
  BY <1>6, QuietInv DEF Stop, ring
<1>7. CASE Poll
  BY <1>7, QuietInv DEF Poll, ring
<1>8. CASE Panic
  BY <1>8, QuietInv DEF Panic, ring
<1>9. CASE Timer
  BY <1>9, QuietInv DEF Timer, ring
<1>10. CASE GetNext
  BY <1>10, GetInv DEF GetNext
<1>11. CASE Handle
  BY <1>11, HandleInv DEF Handle
<1>12. CASE PopRecord
  BY <1>12, PopInv DEF PopRecord
<1>13. CASE Emptied
  <2>1. AfterLoop(phase) \notin {"handle", "pop"}
    BY DEF AfterLoop
  <2> QED BY <1>13, <2>1, QuietInv DEF Emptied, ring
<1>14. CASE Finalize
  BY <1>14, QuietInv DEF Finalize, ring
<1>15. CASE Destroy
  BY <1>15, QuietInv DEF Destroy, ring
<1>16. CASE UNCHANGED vars
  BY <1>16, QuietInv DEF vars, ring, rest
<1> QED
  BY <1>1, <1>2, <1>3, <1>4, <1>5, <1>6, <1>7, <1>8, <1>9, <1>10, <1>11, <1>12, <1>13,
     <1>14, <1>15, <1>16 DEF Next

(* Every step keeps what is known of the last round.                       *)
LEMMA StepDrains == PositiveSizes /\ IInv /\ [Next]_vars => Drains'
<1> SUFFICES ASSUME PositiveSizes, IInv, [Next]_vars PROVE Drains'
  OBVIOUS
<1>0. /\ Len(written) \in Nat /\ Len(handled) \in Nat /\ Len(handled) <= Len(written)
      /\ Drains /\ RingInv
  BY SequenceFacts DEF IInv, RingInv, RingTypeOK, Delivered
<1> USE DEF Phases
<1>1. CASE Synchronize
  BY <1>0, <1>1 DEF Synchronize, ring, monitor, Drains
<1>2. CASE Create
  BY <1>0, <1>2 DEF Create, ring, Drains
<1>3. CASE Tick
  BY <1>0, <1>3 DEF Tick, ring, monitor, Drains
<1>4. CASE Count
  BY <1>0, <1>4 DEF Count, ring, monitor, Drains
<1>5. CASE Write
  <2>1. PICK rec \in Records : KernelPut(rec) \/ KernelDrop(rec)
    BY <1>5 DEF Write
  <2>2. /\ UNCHANGED <<pc, phase, kind, enabled, stopping, atStop, panicked, handled>>
        /\ enabled /\ kind # "userspace"
    BY <1>5, <2>1 DEF Write, rest, KernelPut, KernelDrop
  <2>3. Len(written') \in Nat /\ Len(written) <= Len(written')
    <3>1. CASE KernelPut(rec)
      BY <1>0, <3>1, PutStored, AppendFacts DEF RingInv, RingTypeOK
    <3>2. CASE KernelDrop(rec)
      BY <1>0, <3>2 DEF KernelDrop
    <3> QED BY <2>1, <3>1, <3>2
  <2> QED BY <1>0, <2>2, <2>3 DEF Drains
<1>6. CASE Stop
  BY <1>0, <1>6 DEF Stop, ring, Drains
<1>7. CASE Poll
  BY <1>0, <1>7 DEF Poll, ring, monitor, Drains
<1>8. CASE Panic
  BY <1>0, <1>8 DEF Panic, ring, Drains
<1>9. CASE Timer
  BY <1>0, <1>9 DEF Timer, ring, monitor, Drains
<1>10. CASE GetNext
  BY <1>0, <1>10 DEF GetNext, Get, monitor, Drains
<1>11. CASE Handle
  <2>1. /\ UNCHANGED <<phase, kind, enabled, stopping, atStop, panicked, written>>
        /\ pc = "handle" /\ pc' = "pop"
    BY <1>11 DEF Handle, HandleRecord, monitor
  <2>2. Len(handled') = Len(handled) + 1
    BY <1>0, <1>11, AppendFacts DEF Handle, HandleRecord, RingInv, RingTypeOK
  <2> QED BY <1>0, <2>1, <2>2 DEF Drains
<1>12. CASE PopRecord
  BY <1>0, <1>12 DEF PopRecord, Pop, monitor, Drains
<1>13. CASE Emptied
  <2>1. Len(handled) = Len(written)
    <3>1. Popped = Len(handled)
      BY <1>13 DEF Emptied, Popped
    <3> QED BY <1>0, <1>13, <3>1, NextRecord DEF Emptied
  <2> QED BY <1>0, <1>13, <2>1 DEF Emptied, AfterLoop, ring, monitor, Drains
<1>14. CASE Finalize
  BY <1>0, <1>14 DEF Finalize, StillEnabled, ring, Drains
<1>15. CASE Destroy
  BY <1>0, <1>15 DEF Destroy, ring, Drains
<1>16. CASE UNCHANGED vars
  BY <1>0, <1>16 DEF vars, ring, rest, Drains
<1> QED
  BY <1>1, <1>2, <1>3, <1>4, <1>5, <1>6, <1>7, <1>8, <1>9, <1>10, <1>11, <1>12, <1>13,
     <1>14, <1>15, <1>16 DEF Next

-----------------------------------------------------------------------------
(* Counters: one reading                                                   *)

(* Scaling a difference up never makes it smaller.                         *)
LEMMA ScaledFacts ==
  ASSUME NEW de \in Nat, NEW dr \in Nat \ {0}, NEW dv \in Nat, dr <= de
  PROVE  Scaled(de, dr, dv) \in Nat /\ Scaled(de, dr, dv) >= dv * Unit
<1> DEFINE x == de * dv * Unit
           y == dv * Unit
           q == x \div dr
           r == x % dr
<1>1. x \in Nat /\ y \in Nat
  BY DEF Unit
<1>2. x >= dr * y
  <2>1. (de - dr) * y >= 0
    BY <1>1
  <2>2. x = de * y
    BY DEF Unit
  <2> HIDE DEF x, y
  <2>3. (de - dr) * y = de * y - dr * y
    BY <1>1
  <2> QED BY <1>1, <2>1, <2>2, <2>3
<1> HIDE DEF x, y
<1>3. x = dr * q + r /\ q \in Int /\ r \in 0 .. dr - 1
  BY <1>1, DivMod
<1> HIDE DEF q, r
<1>4. q >= y
  <2> SUFFICES ASSUME q < y PROVE FALSE
    BY <1>1, <1>3
  <2>1. dr * (y - q - 1) >= 0
    BY <1>1, <1>3
  <2>2. dr * (y - q - 1) = dr * y - dr * q - dr
    BY <1>1, <1>3
  <2> QED BY <1>1, <1>2, <1>3, <2>1, <2>2
<1>5. q \in Nat
  BY <1>1, <1>3, <1>4
<1> QED BY <1>4, <1>5 DEF Scaled, x, y, q

(* update_buffers() keeps an estimate accurate over a reading.             *)
LEMMA IncrementAccurate ==
  ASSUME NEW a \in ReadingSet, NEW b \in ReadingSet, After(a, b),
         NEW acc, Accurate(acc, a)
  PROVE  Accurate(acc + Increment(b, a), b)
<1> DEFINE de == b.time_enabled - a.time_enabled
           dr == b.time_running - a.time_running
           dv == b.value - a.value
<1>1. /\ de \in Nat /\ dr \in Nat /\ dv \in Nat /\ dr <= de
      /\ dr = 0 => dv = 0
      /\ b.time_enabled - b.time_running = (a.time_enabled - a.time_running) + (de - dr)
      /\ a.time_enabled - a.time_running \in Nat
      /\ b.value * Unit = a.value * Unit + dv * Unit
      /\ a.value * Unit \in Nat /\ dv * Unit \in Nat
  BY DEF After, ReadingSet, Accurate, Unit
<1>2. Increment(b, a) = IF de = 0 \/ dr = 0 \/ dv = 0 THEN 0
                        ELSE IF de = dr THEN dv * Unit ELSE Scaled(de, dr, dv)
  BY DEF Increment
<1> HIDE DEF de, dr, dv
<1>3. Increment(b, a) \in Nat /\ Increment(b, a) >= dv * Unit
  <2>1. CASE de = 0 \/ dr = 0 \/ dv = 0
    <3>1. dv = 0
      BY <1>1, <2>1
    <3> QED BY <1>2, <2>1, <3>1 DEF Unit
  <2>2. CASE ~(de = 0 \/ dr = 0 \/ dv = 0)
    BY <1>1, <1>2, <2>2, ScaledFacts
  <2> QED BY <2>1, <2>2
<1>4. de = dr => Increment(b, a) = dv * Unit
  <2>1. CASE de = 0 \/ dr = 0 \/ dv = 0
    <3>1. dv = 0
      BY <1>1, <2>1
    <3> QED BY <1>2, <2>1, <3>1 DEF Unit
  <2>2. CASE ~(de = 0 \/ dr = 0 \/ dv = 0)
    BY <1>2, <2>2
  <2> QED BY <2>1, <2>2
<1> HIDE DEF Increment, Unit
<1>5. /\ acc + Increment(b, a) \in Nat
      /\ acc + Increment(b, a) >= b.value * Unit
  BY <1>1, <1>3 DEF Accurate
<1>6. b.time_enabled = b.time_running => acc + Increment(b, a) = b.value * Unit
  <2> SUFFICES ASSUME b.time_enabled = b.time_running
               PROVE  acc + Increment(b, a) = b.value * Unit
    OBVIOUS
  <2>1. b.time_enabled - b.time_running = 0
    BY DEF ReadingSet
  <2>2. a.time_enabled - a.time_running = 0 /\ de = dr
    BY <1>1, <2>1
  <2>3. acc = a.value * Unit
    BY <2>2 DEF Accurate, ReadingSet
  <2> QED BY <1>1, <1>4, <2>2, <2>3
<1>7. b.time_running <= b.time_enabled
  BY <1>1 DEF ReadingSet
<1> QED BY <1>5, <1>6, <1>7 DEF Accurate

LEMMA AfterTransitive ==
  ASSUME NEW a \in ReadingSet, NEW b \in ReadingSet, NEW c \in ReadingSet,
         After(a, b), After(b, c)
  PROVE  After(a, c)
  BY DEF After, ReadingSet

LEMMA TwiceFacts ==
  ASSUME NEW r \in ReadingSet
  PROVE  /\ Twice(r) \in ReadingSet
         /\ \A s \in ReadingSet : After(s, r) => After(Twice(s), Twice(r))
<1>1. Twice(r) \in ReadingSet
  BY DEF Twice, Reading, ReadingSet
<1>2. ASSUME NEW s \in ReadingSet, After(s, r) PROVE After(Twice(s), Twice(r))
  BY <1>2 DEF After, Twice, Reading, ReadingSet
<1> QED BY <1>1, <1>2

(* CounterBuffer::read() with readings taken after the last ones.          *)
LEMMA ReadAccurate ==
  ASSUME NEW buf, NEW inbuf,
         \A c \in DOMAIN buf.accumulated :
           /\ Accurate(buf.accumulated[c], buf.previous[c])
           /\ inbuf[c] \in ReadingSet /\ After(buf.previous[c], inbuf[c])
  PROVE  /\ DOMAIN read(buf, inbuf).accumulated = DOMAIN buf.accumulated
         /\ read(buf, inbuf).previous = inbuf
         /\ \A c \in DOMAIN buf.accumulated :
              Accurate(read(buf, inbuf).accumulated[c], inbuf[c])
<1>1. /\ DOMAIN read(buf, inbuf).accumulated = DOMAIN buf.accumulated
      /\ read(buf, inbuf).previous = inbuf
      /\ \A c \in DOMAIN buf.accumulated :
           read(buf, inbuf).accumulated[c]
             = buf.accumulated[c] + Increment(inbuf[c], buf.previous[c])
  BY DEF read
<1>2. ASSUME NEW c \in DOMAIN buf.accumulated
      PROVE  Accurate(read(buf, inbuf).accumulated[c], inbuf[c])
  <2>1. buf.previous[c] \in ReadingSet
    BY DEF Accurate
  <2> QED BY <1>1, <2>1, IncrementAccurate
<1> QED BY <1>1, <1>2

-----------------------------------------------------------------------------
(* Counters: the steps                                                     *)

LEMMA InitCounters == Init => CounterInv
<1> SUFFICES ASSUME Init, Counting PROVE BufferAccurate /\ ReadingsInOrder /\ LastShown
  BY DEF CounterInv
<1>1. /\ Len(<<>>) = 0 /\ IsSequence(<<>>)
  BY SeqIsSequence, EmptySeq
<1>2. hw = Reading(0, 0, 0) /\ Reading(0, 0, 0) \in ReadingSet
  BY DEF Init, Reading, ReadingSet
<1>3. /\ kind = "group" => buffer = NewBuffer(2)
      /\ kind # "group" => buffer = NewBuffer(1)
  BY DEF Init
<1>4. ASSUME NEW n \in {1, 2}, buffer = NewBuffer(n)
      PROVE  /\ DOMAIN buffer.accumulated = 1 .. n
             /\ \A c \in 1 .. n : buffer.accumulated[c] = 0 /\ buffer.previous[c] = Reading(0, 0, 0)
  BY <1>4 DEF NewBuffer
<1>5. Accurate(0, Reading(0, 0, 0)) /\ After(Reading(0, 0, 0), Reading(0, 0, 0))
  BY <1>2 DEF Accurate, After, Reading, Unit
<1>6. Twice(Reading(0, 0, 0)) = Reading(0, 0, 0)
  BY DEF Twice, Reading
<1>7. BufferAccurate
  <2>1. CASE kind = "group"
    BY <1>2, <1>3, <1>4, <1>5, <1>6, <2>1 DEF BufferAccurate
  <2>2. CASE kind # "group"
    BY <1>2, <1>3, <1>4, <1>5, <2>2 DEF BufferAccurate
  <2> QED BY <2>1, <2>2
<1>8. ReadingsInOrder
  BY <1>1 DEF Init, RingInit, ReadingsInOrder
<1>9. LastShown
  BY <1>1 DEF Init, LastShown
<1> QED BY <1>7, <1>8, <1>9

(* Steps that leave readings, buffer and events alone.                     *)
LEMMA QuietCounters ==
  ASSUME CounterInv, UNCHANGED <<kind, hw, buffer, out, written, handled>>,
         w'.inside = w.inside, DOMAIN w' = DOMAIN w
  PROVE  CounterInv'
  BY DEF CounterInv, Counting, BufferAccurate, ReadingsInOrder, LastShown, ScaleOf, GroupRecord

(* The hardware counts on.                                                 *)
LEMMA CountCounters ==
  ASSUME CounterInv, Count
  PROVE  CounterInv'
<1> SUFFICES ASSUME Counting' PROVE BufferAccurate' /\ ReadingsInOrder' /\ LastShown'
  BY DEF CounterInv
<1>1. UNCHANGED <<kind, buffer, out, w, written, handled>>
  BY DEF Count, ring, writer, monitor
<1>2. BufferAccurate /\ ReadingsInOrder /\ LastShown
  BY <1>1 DEF CounterInv, Counting
<1>3. PICK de \in 1 .. 2, dr \in 0 .. 2, dv \in 0 .. 1 :
        /\ dr <= de /\ (dr = 0 => dv = 0)
        /\ hw' = Reading(hw.value + dv, hw.time_enabled + de, hw.time_running + dr)
  BY DEF Count
<1>4. hw \in ReadingSet
  BY <1>2 DEF BufferAccurate
<1>5. hw' \in ReadingSet /\ After(hw, hw')
  BY <1>3, <1>4 DEF Reading, ReadingSet, After
<1>6. \A r \in ReadingSet : After(r, hw) => After(r, hw')
  BY <1>4, <1>5, AfterTransitive
<1>7. BufferAccurate'
  <2>1. buffer.previous[1] \in ReadingSet
    BY <1>2 DEF BufferAccurate, Accurate
  <2> QED BY <1>1, <1>2, <1>5, <1>6, <2>1 DEF BufferAccurate
<1>8. ReadingsInOrder'
  BY <1>1, <1>2, <1>6 DEF ReadingsInOrder, GroupRecord
<1>9. LastShown'
  BY <1>1, <1>2 DEF LastShown, ScaleOf
<1> QED BY <1>7, <1>8, <1>9

(* The kernel puts a record with the readings of now behind the others.    *)
LEMMA WriteCounters ==
  ASSUME PositiveSizes, RingInv, CounterInv, Write
  PROVE  CounterInv'
<1> SUFFICES ASSUME Counting' PROVE BufferAccurate' /\ ReadingsInOrder' /\ LastShown'
  BY DEF CounterInv
<1>1. UNCHANGED <<kind, hw, buffer, out, w>>
  BY DEF Write, rest
<1>2. BufferAccurate /\ ReadingsInOrder /\ LastShown /\ kind = "group"
  BY <1>1 DEF CounterInv, Counting, Write
<1>3. BufferAccurate' /\ LastShown'
  BY <1>1, <1>2 DEF BufferAccurate, LastShown, ScaleOf
<1>4. PICK rec \in Records : KernelPut(rec) \/ KernelDrop(rec)
  BY DEF Write
<1>5. /\ UNCHANGED handled /\ Len(handled) \in Nat /\ Len(written) \in Nat
      /\ IsSequence(written) /\ Len(handled) <= Len(written)
  BY <1>4, SequenceFacts DEF KernelPut, KernelDrop, RingInv, RingTypeOK, Delivered
<1>6. rec.type # "LOST" /\ GroupRecord(rec) /\ After(rec.v[1], hw)
      /\ \A r \in ReadingSet : After(r, hw) => After(r, rec.v[1])
  <2>1. rec.type = "SAMPLE" /\ rec.v = Readings
    BY <1>2, <1>4 DEF Records, Sampling
  <2>2. /\ rec.v[1] = Reading(hw.value, hw.time_enabled, hw.time_running)
        /\ rec.v[2] = Reading(2 * hw.value, hw.time_enabled, hw.time_running)
    BY <1>2, <2>1 DEF Readings
  <2>3. hw \in ReadingSet
    BY <1>2 DEF BufferAccurate
  <2>4. rec.v[1] \in ReadingSet /\ rec.v[2] = Twice(rec.v[1])
    BY <2>2, <2>3 DEF Reading, ReadingSet, Twice
  <2>5. After(rec.v[1], hw) /\ \A r \in ReadingSet : After(r, hw) => After(r, rec.v[1])
    BY <2>2, <2>3 DEF Reading, ReadingSet, After
  <2> QED BY <2>1, <2>4, <2>5 DEF GroupRecord
<1>7. After(buffer.previous[1], rec.v[1])
  BY <1>2, <1>6 DEF BufferAccurate, Accurate
<1>8. CASE KernelDrop(rec)
  BY <1>1, <1>2, <1>3, <1>5, <1>8 DEF KernelDrop, ReadingsInOrder, GroupRecord
<1>9. ASSUME NEW recs, IsSequence(recs), Len(recs) \in Nat, Len(written) <= Len(recs),
             \A i \in 1 .. Len(written) : recs[i] = written[i],
             \A i \in 1 .. Len(recs) : i > Len(written) => recs[i].type = "LOST",
             written' = Append(recs, rec)
      PROVE  ReadingsInOrder'
  <2>1. /\ Len(written') = Len(recs) + 1 /\ written'[Len(recs) + 1] = rec
        /\ \A i \in 1 .. Len(recs) : written'[i] = recs[i]
    BY <1>9, AppendFacts
  <2>2. ASSUME NEW i \in 1 .. Len(recs) + 1, written'[i].type # "LOST"
        PROVE  \/ i = Len(recs) + 1 /\ written'[i] = rec
               \/ i \in 1 .. Len(written) /\ written'[i] = written[i]
    BY <1>5, <1>9, <2>1, <2>2
  <2>3. ASSUME NEW i \in 1 .. Len(recs) + 1, written'[i].type # "LOST"
        PROVE  /\ GroupRecord(written'[i]) /\ After(written'[i].v[1], hw)
               /\ i > Len(handled) => After(buffer.previous[1], written'[i].v[1])
    <3>1. CASE i = Len(recs) + 1 /\ written'[i] = rec
      BY <1>6, <1>7, <3>1
    <3>2. CASE i \in 1 .. Len(written) /\ written'[i] = written[i]
      BY <1>2, <2>3, <3>2 DEF ReadingsInOrder
    <3> QED BY <2>2, <2>3, <3>1, <3>2
  <2>4. ASSUME NEW i \in 1 .. Len(recs) + 1, NEW j \in 1 .. Len(recs) + 1, i < j,
               written'[i].type # "LOST", written'[j].type # "LOST"
        PROVE  After(written'[i].v[1], written'[j].v[1])
    <3>1. i \in 1 .. Len(written) /\ written'[i] = written[i]
      BY <1>5, <1>9, <2>2, <2>4
    <3>2. CASE j = Len(recs) + 1 /\ written'[j] = rec
      BY <1>2, <1>6, <2>4, <3>1, <3>2 DEF ReadingsInOrder, GroupRecord
    <3>3. CASE j \in 1 .. Len(written) /\ written'[j] = written[j]
      BY <1>2, <2>4, <3>1, <3>3 DEF ReadingsInOrder
    <3> QED BY <2>2, <2>4, <3>2, <3>3
  <2> QED BY <1>1, <1>5, <2>1, <2>3, <2>4 DEF ReadingsInOrder, GroupRecord
<1>10. CASE KernelPut(rec)
  <2> DEFINE lost == Lost(pending)
  <2>1. CASE written' = Append(written, rec)
    BY <1>3, <1>5, <1>9, <2>1
  <2>2. CASE written' = Append(Append(written, lost), rec)
    <3>1. lost.type = "LOST"
      BY DEF Lost
    <3> HIDE DEF lost
    <3> DEFINE recs == Append(written, lost)
    <3>2. /\ IsSequence(recs) /\ Len(recs) = Len(written) + 1 /\ recs[Len(written) + 1] = lost
          /\ \A i \in 1 .. Len(written) : recs[i] = written[i]
      BY <1>5, AppendFacts
    <3>3. written' = Append(recs, rec)
      BY <2>2
    <3> HIDE DEF recs
    <3>4. \A i \in 1 .. Len(recs) : i > Len(written) => recs[i].type = "LOST"
      BY <1>5, <3>1, <3>2
    <3>5. ReadingsInOrder'
      BY <1>5, <1>9, <3>2, <3>3, <3>4
    <3> QED BY <1>3, <3>5
  <2> QED BY <1>10, <2>1, <2>2, PutStored
<1> QED BY <1>4, <1>8, <1>10

(* A metric event with the values of the buffer is written.                *)
LEMMA ShowBuffer ==
  ASSUME IsSequence(out), w'.inside = FALSE, "inside" \in DOMAIN w', NEW ev, out' = Append(out, ev),
         \A c \in DOMAIN buffer'.accumulated : ev.values[c] = buffer'.accumulated[c] * ScaleOf(c)',
         UNCHANGED kind
  PROVE  LastShown'
<1>1. IsSequence(out') /\ Len(out') = Len(out) + 1 /\ out'[Len(out) + 1] = ev
  BY AppendFacts
<1> QED BY <1>1 DEF LastShown

LEMMA TimerCounters ==
  ASSUME CounterInv, Timer, kind = "userspace"
  PROVE  CounterInv'
<1> DEFINE inbuf == <<Reading(hw.value, hw.time_enabled, hw.time_running)>>
           ev == [type |-> "metric", time |-> Now, values |-> UserspaceValues(buffer')]
<1>1. /\ UNCHANGED <<kind, hw, w, written, handled>>
      /\ buffer' = read(buffer, inbuf) /\ out' = Append(out, ev)
  BY DEF Timer, UserspaceRead, ring, monitor
<1>2. BufferAccurate /\ LastShown
  BY DEF CounterInv, Counting
<1>3. /\ hw \in ReadingSet /\ DOMAIN buffer.accumulated = 1 .. 1
      /\ After(buffer.previous[1], hw) /\ Accurate(buffer.accumulated[1], buffer.previous[1])
  BY <1>2 DEF BufferAccurate
<1>4. /\ inbuf[1] \in ReadingSet /\ After(buffer.previous[1], inbuf[1]) /\ After(inbuf[1], hw)
  BY <1>3 DEF Reading, ReadingSet, After
<1> HIDE DEF inbuf
<1>5. /\ DOMAIN buffer'.accumulated = 1 .. 1 /\ buffer'.previous = inbuf
      /\ Accurate(buffer'.accumulated[1], inbuf[1])
  <2>1. \A c \in DOMAIN buffer.accumulated :
          /\ Accurate(buffer.accumulated[c], buffer.previous[c])
          /\ inbuf[c] \in ReadingSet /\ After(buffer.previous[c], inbuf[c])
    BY <1>3, <1>4
  <2> QED BY <1>1, <1>3, <2>1, ReadAccurate
<1>6. BufferAccurate'
  BY <1>1, <1>3, <1>4, <1>5 DEF BufferAccurate
<1>7. LastShown'
  <2>1. \A c \in DOMAIN buffer'.accumulated :
          ev.values[c] = buffer'.accumulated[c] * ScaleOf(c)'
    BY <1>1, <1>5 DEF UserspaceValues, UserspaceCollection, get_scale, ScaleOf
  <2>2. IsSequence(out) /\ w'.inside = FALSE /\ "inside" \in DOMAIN w'
    BY <1>1, <1>2 DEF LastShown
  <2> HIDE DEF ev
  <2> QED BY <1>1, <2>1, <2>2, ShowBuffer
<1> QED BY <1>1, <1>6, <1>7 DEF CounterInv, ReadingsInOrder

(* The writer handles the next record of the buffer.                       *)
LEMMA HandleCounters ==
  ASSUME PositiveSizes, RingInv, CounterInv, Handle
  PROVE  CounterInv'
<1> SUFFICES ASSUME Counting' PROVE BufferAccurate' /\ ReadingsInOrder' /\ LastShown'
  BY DEF CounterInv
<1> DEFINE n == Len(handled) + 1
           rec == written[n]
<1>1. UNCHANGED <<kind, hw, written>> /\ pc = "handle"
  BY DEF Handle, HandleRecord, monitor
<1>2. BufferAccurate /\ ReadingsInOrder /\ LastShown /\ Counting
  BY <1>1 DEF CounterInv, Counting
<1>3. RecordIn(current) = rec
  BY <1>1, SeenFacts
<1>4. /\ Len(handled) \in Nat /\ Len(written) \in Nat /\ n \in 1 .. Len(written)
      /\ IsSequence(handled)
  BY <1>1, SequenceFacts DEF RingInv, RingTypeOK, Delivered
<1>5. Len(handled') = n
  BY <1>4, AppendFacts DEF Handle, HandleRecord
<1>6. handle(rec)
  BY <1>3 DEF Handle
<1> HIDE DEF rec
<1>7. CASE UNCHANGED <<w, out, buffer>>
  <2>1. BufferAccurate' /\ LastShown'
    BY <1>1, <1>2, <1>7 DEF BufferAccurate, LastShown, ScaleOf
  <2>2. ReadingsInOrder'
    BY <1>1, <1>2, <1>4, <1>5, <1>7 DEF ReadingsInOrder, GroupRecord
  <2> QED BY <2>1, <2>2
<1>8. CASE rec.type # "LOST" /\ kind = "group" /\ GroupHandle(rec)
  <2> DEFINE ev == [type |-> "metric", time |-> Convert(rec.time), values |-> GroupValues(buffer')]
  <2>1. buffer' = read(buffer, rec.v) /\ out' = Append(out, ev) /\ UNCHANGED w
    BY <1>8 DEF GroupHandle
  <2>2. /\ rec.v[1] \in ReadingSet /\ rec.v[2] = Twice(rec.v[1])
        /\ After(rec.v[1], hw) /\ After(buffer.previous[1], rec.v[1])
    BY <1>2, <1>4, <1>8 DEF ReadingsInOrder, GroupRecord, rec
  <2>3. /\ DOMAIN buffer.accumulated = 1 .. 2
        /\ \A c \in 1 .. 2 : Accurate(buffer.accumulated[c], buffer.previous[c])
        /\ buffer.previous[2] = Twice(buffer.previous[1])
    BY <1>2, <1>8 DEF BufferAccurate
  <2>4. rec.v[2] \in ReadingSet /\ After(buffer.previous[2], rec.v[2])
    BY <2>2, <2>3, TwiceFacts DEF Accurate
  <2>5. \A c \in DOMAIN buffer.accumulated :
          /\ Accurate(buffer.accumulated[c], buffer.previous[c])
          /\ rec.v[c] \in ReadingSet /\ After(buffer.previous[c], rec.v[c])
    BY <2>2, <2>3, <2>4
  <2>6. /\ DOMAIN buffer'.accumulated = 1 .. 2 /\ buffer'.previous = rec.v
        /\ \A c \in 1 .. 2 : Accurate(buffer'.accumulated[c], rec.v[c])
    BY <2>1, <2>3, <2>5, ReadAccurate
  <2>7. BufferAccurate'
    BY <1>1, <1>2, <1>8, <2>2, <2>6 DEF BufferAccurate
  <2>8. ReadingsInOrder'
    <3>1. \A i \in 1 .. Len(written) : i > n /\ written[i].type # "LOST" =>
            After(rec.v[1], written[i].v[1])
      BY <1>2, <1>4, <1>8 DEF ReadingsInOrder, rec
    <3> QED BY <1>1, <1>2, <1>4, <1>5, <2>6, <3>1 DEF ReadingsInOrder, GroupRecord
  <2>9. LastShown'
    <3>1. \A c \in 1 .. 2 : GroupValues(buffer')[c] = buffer'.accumulated[c] * ScaleOf(c)'
      <4> DEFINE s == [i \in DOMAIN buffer'.accumulated |->
                         buffer'.accumulated[i] * get_scale(GroupCollection, i - 1)]
                 times == <<buffer'.previous[1].time_enabled, buffer'.previous[1].time_running>>
      <4>1. /\ buffer'.accumulated[1] \in Nat /\ buffer'.accumulated[2] \in Nat
            /\ buffer'.previous[1] \in ReadingSet
        BY <2>6 DEF Accurate
      <4>2. s[1] = buffer'.accumulated[1] * Leader /\ s[2] = buffer'.accumulated[2] * Counter
        BY <2>6 DEF get_scale, GroupCollection
      <4>3. s \in [1 .. 2 -> Nat]
        BY <2>6, <4>1 DEF get_scale, GroupCollection, Leader, Counter
      <4> HIDE DEF s
      <4>4. s \in Seq(Nat) /\ Len(s) = 2
        <5>1. s \in Seq(Nat)
          BY <4>3, SeqDef
        <5> QED BY <4>3, <5>1, LenProperties
      <4>5. times \in Seq(Nat) /\ Len(times) = 2
        BY <4>1 DEF ReadingSet
      <4> HIDE DEF times
      <4> DEFINE values == s \o times
      <4>6. \A i \in 1 .. Len(s) + Len(times) :
              values[i] = IF i <= Len(s) THEN s[i] ELSE times[i - Len(s)]
        BY <4>4, <4>5, ConcatProperties
      <4>7. GroupValues(buffer') = values
        BY DEF GroupValues, s, times
      <4> HIDE DEF values
      <4>8. values[1] = s[1] /\ values[2] = s[2]
        BY <4>4, <4>5, <4>6
      <4>9. ScaleOf(1)' = Leader /\ ScaleOf(2)' = Counter
        BY <1>1, <1>8 DEF ScaleOf
      <4>10. ASSUME NEW c \in 1 .. 2
             PROVE  GroupValues(buffer')[c] = buffer'.accumulated[c] * ScaleOf(c)'
        <5>1. CASE c = 1
          BY <4>2, <4>7, <4>8, <4>9, <5>1
        <5>2. CASE c = 2
          BY <4>2, <4>7, <4>8, <4>9, <5>2
        <5> QED BY <5>1, <5>2
      <4> QED BY <4>10
    <3>2. \A c \in DOMAIN buffer'.accumulated :
            ev.values[c] = buffer'.accumulated[c] * ScaleOf(c)'
      BY <2>6, <3>1
    <3>3. IsSequence(out) /\ w'.inside = FALSE /\ "inside" \in DOMAIN w'
      BY <1>2, <2>1 DEF LastShown
    <3> HIDE DEF ev
    <3> QED BY <1>1, <2>1, <3>2, <3>3, ShowBuffer
  <2> QED BY <2>7, <2>8, <2>9
<1> QED BY <1>2, <1>6, <1>7, <1>8 DEF handle, Counting, Sampling

LEMMA StepCounters == PositiveSizes /\ IInv /\ CounterInv /\ [Next]_vars => CounterInv'
<1> SUFFICES ASSUME PositiveSizes, IInv, CounterInv, [Next]_vars PROVE CounterInv'
  OBVIOUS
<1> USE DEF ring, monitor, writer
<1>1. CASE Synchronize
  BY <1>1, QuietCounters DEF Synchronize
<1>2. CASE Create
  BY <1>2 DEF Create, CounterInv, Counting, BufferAccurate, ReadingsInOrder, LastShown,
              ScaleOf, GroupRecord
<1>3. CASE Tick
  BY <1>3, QuietCounters DEF Tick
<1>4. CASE Count
  BY <1>4, CountCounters
<1>5. CASE Write
  BY <1>5, WriteCounters DEF IInv
<1>6. CASE Stop
  BY <1>6, QuietCounters DEF Stop
<1>7. CASE Poll
  BY <1>7, QuietCounters DEF Poll
<1>8. CASE Panic
  BY <1>8, QuietCounters DEF Panic
<1>9. CASE Timer
  <2>1. kind = "userspace"
    BY <1>9 DEF Timer, IInv, Drains
  <2> QED BY <1>9, <2>1, TimerCounters
<1>10. CASE GetNext
  BY <1>10, QuietCounters DEF GetNext, Get
<1>11. CASE Handle
  BY <1>11, HandleCounters DEF IInv
<1>12. CASE PopRecord
  BY <1>12, QuietCounters DEF PopRecord, Pop
<1>13. CASE Emptied
  BY <1>13, QuietCounters DEF Emptied
<1>14. CASE Finalize
  <2>1. CASE kind = "thread"
    BY <1>14, <2>1 DEF Finalize, CounterInv, Counting
  <2>2. CASE kind # "thread"
    BY <1>14, <2>2, QuietCounters DEF Finalize, End
  <2> QED BY <2>1, <2>2
<1>15. CASE Destroy
  <2>1. UNCHANGED <<kind, hw, buffer, written, handled>>
    BY <1>15 DEF Destroy
  <2>2. CASE ~Counting
    BY <2>1, <2>2 DEF CounterInv, Counting
  <2>3. CASE Counting
    <3>1. w.inside = FALSE /\ IsSequence(out)
      BY <2>3 DEF CounterInv, LastShown
    <3>2. out' = out
      BY <1>15, <3>1, ConcatEmptySeq DEF Destroy, If, IsSequence
    <3>3. w'.inside = FALSE
      BY <1>15, <2>3 DEF Destroy, CounterInv, LastShown
    <3> QED BY <1>15, <2>1, <3>1, <3>2, <3>3, QuietCounters DEF Destroy
  <2> QED BY <2>2, <2>3
<1>16. CASE UNCHANGED vars
  BY <1>16, QuietCounters DEF vars, rest
<1> QED
  BY <1>1, <1>2, <1>3, <1>4, <1>5, <1>6, <1>7, <1>8, <1>9, <1>10, <1>11, <1>12, <1>13,
     <1>14, <1>15, <1>16 DEF Next

-----------------------------------------------------------------------------
(* Times                                                                   *)

WriterSet == [first_event : BOOLEAN, first : Int, last : Int, inside : BOOLEAN]

(* The offset that a synchronisation finds.                                *)
LEMMA OffsetFacts ==
  ASSUME NEW now \in Nat, NEW latency \in Nat, NEW sk \in Int, NEW triggered \in BOOLEAN
  PROVE  LET off == Offset(sk = 0, triggered, now, now + latency + sk)
         IN  off \in Int /\ (triggered => sk + off <= 0)
  BY ClockAssumption DEF Offset

(* Events are written behind the others: at the new last time of the       *)
(* writer, or the late begin of a thread.                                  *)
LEMMA WriteEvents ==
  ASSUME WriterKnown, EventsInOrder, NEW S, NEW evs \in Seq(S), out' = out \o evs,
         UNCHANGED <<kind, clock, synced>>,
         w'.first = w.first, w'.last \in Int,
         \A e \in S : e.time \in Int /\ (synced => e.time <= clock),
         Sampling => /\ w.last <= w'.last
                     /\ \A e \in S : e.time = w'.last \/ (e.type = "thread_begin" /\ e.time = w.first)
  PROVE  IsSequence(out') /\ EventsInOrder'
<1> DEFINE Old == {out[i] : i \in DOMAIN out}
           L == Len(out)
<1>1. out \in Seq(Old) /\ L \in Nat /\ DOMAIN out = 1 .. L /\ w.last \in Int
  BY SequenceFacts DEF WriterKnown, IsSequence
<1>2. out \in Seq(Old \cup S) /\ evs \in Seq(Old \cup S)
  BY <1>1, SeqMonotonic
<1> DEFINE T == Old \cup S
<1> HIDE DEF T
<1>3. /\ out' \in Seq(T) /\ Len(out') = L + Len(evs)
      /\ \A i \in 1 .. L + Len(evs) : out'[i] = IF i <= L THEN out[i] ELSE evs[i - L]
  BY <1>2, ConcatProperties DEF T
<1>4. Len(evs) \in Nat /\ DOMAIN out' = 1 .. L + Len(evs) /\ IsSequence(out')
  BY <1>3, LenProperties, SeqIsSequence
<1>5. ASSUME NEW i \in DOMAIN out'
      PROVE  (i \in DOMAIN out /\ out'[i] = out[i]) \/ (i > L /\ out'[i] \in S)
  <2>1. i \in 1 .. L + Len(evs)
    BY <1>4
  <2>2. CASE i <= L
    BY <1>1, <1>3, <2>1, <2>2
  <2>3. CASE i > L
    <3>1. i - L \in 1 .. Len(evs) /\ out'[i] = evs[i - L]
      BY <1>1, <1>3, <1>4, <2>1, <2>3
    <3> QED BY <2>3, <3>1, ElementOfSeq
  <2> QED BY <1>1, <2>1, <2>2, <2>3
<1>6. \A i \in DOMAIN out' : out'[i].time \in Int /\ (synced' => out'[i].time <= clock')
  BY <1>5 DEF EventsInOrder
<1> DEFINE Late(e) == e.type = "thread_begin" /\ e.time = w.first
<1>7. ASSUME Sampling, NEW i \in DOMAIN out', ~Late(out'[i]) PROVE out'[i].time <= w'.last
  <2>1. Sampling /\ ~(out'[i].type = "thread_begin" /\ out'[i].time = w.first)
    BY <1>7
  <2>2. CASE i \in DOMAIN out /\ out'[i] = out[i]
    <3>1. out[i].time <= w.last /\ out[i].time \in Int
      BY <2>1, <2>2 DEF EventsInOrder, LateBegin
    <3> QED BY <1>1, <2>1, <2>2, <3>1
  <2>3. CASE out'[i] \in S
    BY <2>1, <2>3
  <2> QED BY <1>5, <2>2, <2>3
<1>8. ASSUME Sampling, NEW i \in DOMAIN out', NEW j \in DOMAIN out', i < j,
             ~Late(out'[i]), ~Late(out'[j])
      PROVE  out'[i].time <= out'[j].time
  <2>1. /\ Sampling
        /\ ~(out'[i].type = "thread_begin" /\ out'[i].time = w.first)
        /\ ~(out'[j].type = "thread_begin" /\ out'[j].time = w.first)
    BY <1>8
  <2>2. CASE j \in DOMAIN out /\ out'[j] = out[j]
    <3>1. i \in DOMAIN out /\ out'[i] = out[i]
      BY <1>1, <1>4, <1>5, <1>8, <2>2
    <3> QED BY <1>8, <2>1, <2>2, <3>1 DEF EventsInOrder, TimesInOrder, LateBegin
  <2>3. CASE out'[j] \in S
    <3>1. out'[j].time = w'.last
      BY <2>1, <2>3
    <3> QED BY <1>7, <1>8, <3>1
  <2> QED BY <1>5, <2>2, <2>3
<1>9. Sampling' = Sampling
  BY DEF Sampling
<1>10. TimesInOrder'
  BY <1>6, <1>8, <1>9 DEF TimesInOrder, LateBegin
<1> QED BY <1>4, <1>6, <1>7, <1>9, <1>10 DEF EventsInOrder, LateBegin

(* Steps that write nothing and at most let time pass.                     *)
LEMMA QuietTimes ==
  ASSUME TimeInv, UNCHANGED <<kind, skew, offset, synced, w, out, written>>,
         clock' \in Nat, clock <= clock',
         pc' \in {"sync", "create"} => pc' = pc
  PROVE  TimeInv'
<1>1. ClocksKnown'
  <2>1. ASSUME NEW i \in 1 .. Len(written) PROVE Stamped(written[i])'
    <3>1. Stamped(written[i])
      BY DEF TimeInv, ClocksKnown
    <3> QED BY <3>1 DEF Stamped, Sampling, TimeInv, ClocksKnown
  <2> QED BY <2>1 DEF TimeInv, ClocksKnown
<1>2. WriterKnown'
  BY DEF TimeInv, ClocksKnown, WriterKnown
<1>3. EventsInOrder'
  BY DEF TimeInv, ClocksKnown, EventsInOrder, TimesInOrder, Sampling, LateBegin
<1> QED BY <1>1, <1>2, <1>3 DEF TimeInv

(* Steps of the writer: the clocks and the buffer stay what they are.      *)
LEMMA WriterTimes ==
  ASSUME TimeInv, UNCHANGED <<kind, clock, skew, offset, synced, written>>,
         pc' \notin {"sync", "create"}, w' \in WriterSet,
         w'.first = w.first, synced => w'.last <= clock,
         IsSequence(out'), EventsInOrder'
  PROVE  TimeInv'
<1>1. ClocksKnown'
  BY DEF TimeInv, ClocksKnown, Stamped, Sampling
<1>2. WriterKnown'
  BY DEF TimeInv, WriterKnown, WriterSet
<1> QED BY <1>1, <1>2 DEF TimeInv

LEMMA InitTimes == Init => TimeInv
<1> SUFFICES ASSUME Init PROVE TimeInv
  OBVIOUS
<1>0. Len(<<>>) = 0 /\ DOMAIN <<>> = {}
  OBVIOUS
<1>1. Len(<<>>) = 0 /\ IsSequence(<<>>) /\ DOMAIN <<>> = {}
  <2>1. <<>> \in Seq({})
    OBVIOUS
  <2> QED BY <1>0, <2>1, SeqIsSequence
<1>2. ClocksKnown
  BY <1>1, ClockAssumption DEF Init, RingInit, ClocksKnown
<1>3. WriterKnown
  BY <1>1 DEF Init, WriterKnown
<1>4. EventsInOrder
  BY <1>1 DEF Init, EventsInOrder, TimesInOrder
<1> QED BY <1>2, <1>3, <1>4 DEF TimeInv

LEMMA SynchronizeTimes ==
  ASSUME TimeInv, Synchronize
  PROVE  TimeInv'
<1>1. PICK latency \in 0 .. Tolerance + 1, triggered \in BOOLEAN :
        /\ offset' = Offset(skew = 0, triggered, clock, clock + latency + skew)
        /\ synced' = triggered
        /\ clock' = clock + latency
  BY DEF Synchronize
<1>2. UNCHANGED <<kind, skew, w, out, written>> /\ pc = "sync" /\ pc' = "create"
  BY DEF Synchronize, ring, monitor, writer
<1>3. clock \in Nat /\ skew \in Int /\ latency \in Nat
  BY ClockAssumption DEF TimeInv, ClocksKnown
<1>4. /\ offset' \in Int /\ clock' \in Nat /\ clock <= clock'
      /\ synced' => skew' + offset' <= 0
  BY <1>1, <1>2, <1>3, OffsetFacts
<1>5. ClocksKnown'
  <2>1. ASSUME NEW i \in 1 .. Len(written) PROVE Stamped(written[i])'
    <3>1. Stamped(written[i])
      BY DEF TimeInv, ClocksKnown
    <3> QED BY <1>2, <1>3, <1>4, <3>1 DEF Stamped, Sampling
  <2> QED BY <1>2, <1>3, <1>4, <2>1 DEF ClocksKnown
<1>6. WriterKnown'
  BY <1>2, <1>4 DEF TimeInv, WriterKnown
<1>7. EventsInOrder'
  <2>1. out' = <<>> /\ DOMAIN <<>> = {}
    BY <1>2 DEF TimeInv, WriterKnown
  <2> QED BY <2>1 DEF EventsInOrder, TimesInOrder
<1> QED BY <1>5, <1>6, <1>7 DEF TimeInv

LEMMA CreateTimes ==
  ASSUME TimeInv, Create
  PROVE  TimeInv'
<1>1. /\ UNCHANGED <<kind, clock, skew, offset, synced, out, written>> /\ pc = "create"
      /\ pc' = "poll" /\ w' = [w EXCEPT !.first = clock, !.last = clock]
  BY DEF Create, ring, clocks, Now
<1>2. clock \in Int /\ clock \in Nat
  BY DEF TimeInv, ClocksKnown
<1>3. w' \in WriterSet /\ w'.first = clock /\ w'.last = clock
  BY <1>1, <1>2 DEF TimeInv, WriterKnown, WriterSet
<1>4. out' = <<>> /\ DOMAIN <<>> = {} /\ IsSequence(out')
  BY <1>1 DEF TimeInv, WriterKnown
<1>5. EventsInOrder'
  BY <1>4 DEF EventsInOrder, TimesInOrder
<1>6. ClocksKnown'
  BY <1>1 DEF TimeInv, ClocksKnown, Stamped, Sampling
<1>7. WriterKnown'
  BY <1>1, <1>2, <1>3, <1>4 DEF WriterKnown, WriterSet
<1> QED BY <1>5, <1>6, <1>7 DEF TimeInv

LEMMA WriteTimes ==
  ASSUME PositiveSizes, RingInv, TimeInv, Write
  PROVE  TimeInv'
<1>1. UNCHANGED <<kind, pc, clock, skew, offset, synced, w, out>>
  BY DEF Write, rest
<1>2. PICK rec \in Records : KernelPut(rec) \/ KernelDrop(rec)
  BY DEF Write
<1>3. clock \in Nat /\ skew \in Int
  BY DEF TimeInv, ClocksKnown
<1>4. Stamped(rec)
  <2>1. ASSUME NEW t \in Stamps, NEW type \in TimedTypes
        PROVE  Stamped(Timed(type, t)) /\ Stamped(Timed(type, clock))
    BY <1>3 DEF Stamps, Stamped, Timed
  <2>2. clock \in Stamps
    BY <1>3 DEF Stamps
  <2>3. CASE Sampling
    <3>1. \/ \E t \in Stamps : rec = Timed("SAMPLE", t)
          \/ rec = Timed("SWITCH_OUT", clock) \/ rec = Timed("SWITCH_IN", clock)
          \/ rec = [type |-> "MMAP"] \/ rec = [type |-> "OTHER"]
      BY <1>2, <2>3 DEF Records
    <3>2. CASE rec = [type |-> "MMAP"] \/ rec = [type |-> "OTHER"]
      BY <2>3, <3>2 DEF Stamped
    <3> QED BY <2>1, <2>2, <3>1, <3>2 DEF TimedTypes
  <2>4. CASE ~Sampling /\ kind = "syscall"
    <3>1. \E t \in Stamps : rec = Timed("SYS_ENTER", t) \/ rec = Timed("SYS_EXIT", t)
      BY <1>2, <2>4 DEF Records
    <3> QED BY <2>1, <3>1 DEF TimedTypes
  <2>5. CASE ~Sampling /\ kind = "group"
    <3>1. rec = [type |-> "SAMPLE", time |-> clock + skew, v |-> Readings]
      BY <1>2, <2>5 DEF Records
    <3>2. rec.type = "SAMPLE" /\ rec.time = clock + skew
      BY <3>1
    <3> QED BY <1>3, <3>2 DEF Stamped, TimedTypes
  <2>6. CASE ~Sampling /\ kind # "syscall" /\ kind # "group"
    <3>1. \E t \in Stamps : rec = Timed("SAMPLE", t)
      BY <1>2, <2>6 DEF Records
    <3> QED BY <2>1, <3>1 DEF TimedTypes
  <2> QED BY <2>3, <2>4, <2>5, <2>6
<1>5. \A i \in 1 .. Len(written') : Stamped(written'[i])
  <2>1. IsSequence(written) /\ Len(written) \in Nat
    BY SequenceFacts DEF RingInv, RingTypeOK
  <2>2. \A i \in 1 .. Len(written) : Stamped(written[i])
    BY DEF TimeInv, ClocksKnown
  <2>3. CASE KernelDrop(rec)
    BY <2>2, <2>3 DEF KernelDrop
  <2>4. ASSUME NEW recs, IsSequence(recs), NEW r, Stamped(r),
               \A i \in 1 .. Len(recs) : Stamped(recs[i])
        PROVE  \A i \in 1 .. Len(Append(recs, r)) : Stamped(Append(recs, r)[i])
    <3> DEFINE new == Append(recs, r)
    <3>1. /\ Len(new) = Len(recs) + 1 /\ new[Len(recs) + 1] = r /\ Len(recs) \in Nat
          /\ \A i \in 1 .. Len(recs) : new[i] = recs[i]
      BY <2>4, AppendFacts, SequenceFacts
    <3> HIDE DEF new
    <3>2. ASSUME NEW i \in 1 .. Len(new) PROVE Stamped(new[i])
      <4>1. CASE i = Len(recs) + 1
        BY <2>4, <3>1, <4>1
      <4>2. CASE i # Len(recs) + 1
        <5>1. i \in 1 .. Len(recs)
          BY <3>1, <4>2
        <5> QED BY <2>4, <3>1, <5>1
      <4> QED BY <4>1, <4>2
    <3> QED BY <3>2 DEF new
  <2>5. CASE written' = Append(written, rec)
    BY <1>4, <2>1, <2>2, <2>4, <2>5
  <2>6. CASE written' = Append(Append(written, Lost(pending)), rec)
    <3> DEFINE recs == Append(written, Lost(pending))
    <3>1. Stamped(Lost(pending))
      BY DEF Stamped, Lost
    <3>2. IsSequence(recs)
      BY <2>1, AppendFacts
    <3>3. \A i \in 1 .. Len(recs) : Stamped(recs[i])
      BY <2>1, <2>2, <2>4, <3>1
    <3> HIDE DEF recs
    <3>4. \A i \in 1 .. Len(Append(recs, rec)) : Stamped(Append(recs, rec)[i])
      BY <1>4, <2>4, <3>2, <3>3
    <3> QED BY <2>6, <3>4 DEF recs
  <2> QED BY <1>2, <2>3, <2>5, <2>6, PutStored
<1>6. ClocksKnown'
  BY <1>1, <1>5 DEF TimeInv, ClocksKnown, Stamped, Sampling
<1>7. WriterKnown' /\ EventsInOrder'
  BY <1>1 DEF TimeInv, WriterKnown, EventsInOrder, TimesInOrder, Sampling, LateBegin
<1> QED BY <1>6, <1>7 DEF TimeInv

(* A step that appends one event to those of a location that is not        *)
(* sampled.                                                                *)
LEMMA MetricTimes ==
  ASSUME TimeInv, ~Sampling, NEW ev, ev.time \in Int, synced => ev.time <= clock,
         out' = Append(out, ev), UNCHANGED <<kind, clock, skew, offset, synced, written, w>>,
         pc' \notin {"sync", "create"}
  PROVE  TimeInv'
<1>1. WriterKnown /\ EventsInOrder /\ w \in WriterSet /\ (synced => w.last <= clock)
  BY DEF TimeInv, WriterKnown, WriterSet
<1>2. /\ <<ev>> \in Seq({ev}) /\ out' = out \o <<ev>>
  <2>1. out \in Seq({out[i] : i \in DOMAIN out})
    BY <1>1 DEF WriterKnown, IsSequence
  <2> QED BY <2>1
<1>3. w'.first = w.first /\ w'.last \in Int
  BY <1>1 DEF WriterSet
<1> DEFINE evs == <<ev>>
           S == {ev}
<1>4. /\ evs \in Seq(S) /\ out' = out \o evs
      /\ \A e \in S : e.time \in Int /\ (synced => e.time <= clock)
  BY <1>2
<1> HIDE DEF S, evs
<1>5. IsSequence(out') /\ EventsInOrder'
  BY <1>1, <1>3, <1>4, WriteEvents
<1> QED BY <1>1, <1>5, WriterTimes

(* update_calling_context() and the sample or switch itself.               *)
LEMMA SampleTimes ==
  ASSUME TimeInv, Sampling, NEW rec, Stamped(rec), SampleHandle(rec),
         UNCHANGED <<kind, clock, skew, offset, synced, written>>,
         pc' \notin {"sync", "create"}
  PROVE  TimeInv'
<1>1. /\ WriterKnown /\ EventsInOrder /\ w \in WriterSet /\ (synced => w.last <= clock)
      /\ IsSequence(out)
  BY DEF TimeInv, WriterKnown, WriterSet
<1>2. CASE rec.type \in {"SAMPLE", "SWITCH_IN", "SWITCH_OUT"}
  <2> DEFINE tp == adjust_timepoints(Convert(rec.time))
             sw == rec.type = "SWITCH_OUT"
             evs == UpdateEvents(tp, sw) \o If(rec.type = "SAMPLE", Event("sample", tp))
                      \o If(rec.type # "SAMPLE" /\ kind = "thread", Event("cpuid", tp))
             types == {"leave", "thread_begin", "enter", "sample", "cpuid"}
             S == {Event(ty, tp) : ty \in types}
  <2>1. w' = UpdateWriter(tp, sw)
    BY <1>2 DEF SampleHandle
  <2>2. tp \in Int /\ w.last <= tp /\ (synced => tp <= clock)
    <3>1. /\ rec.time \in Int /\ rec.time <= clock + skew /\ offset \in Int /\ skew \in Int
          /\ clock \in Nat /\ (synced => skew + offset <= 0)
      BY <1>2 DEF Stamped, TimeInv, ClocksKnown
    <3>2. Convert(rec.time) \in Int /\ (synced => Convert(rec.time) <= clock)
      BY <3>1 DEF Convert
    <3>3. w.last \in Int
      BY <1>1 DEF WriterSet
    <3> QED BY <1>1, <3>2, <3>3 DEF adjust_timepoints
  <2>3. sw \in BOOLEAN
    OBVIOUS
  <2> HIDE DEF tp, sw
  <2>4. w' \in WriterSet /\ w'.first = w.first /\ w'.last = tp
    BY <1>1, <2>1, <2>2, <2>3 DEF UpdateWriter, WriterSet
  <2>5. evs \in Seq(S) /\ out' = out \o evs
    <3>1. ASSUME NEW c, NEW ty \in types PROVE If(c, Event(ty, tp)) \in Seq(S)
      <4>1. Event(ty, tp) \in S
        OBVIOUS
      <4> HIDE DEF S
      <4>2. CASE c
        BY <4>1, <4>2 DEF If
      <4>3. CASE ~c
        BY <4>3 DEF If
      <4> QED BY <4>2, <4>3
    <3> HIDE DEF S
    <3> DEFINE A == If(w.first_event /\ kind = "thread", Event("thread_begin", tp))
               B == If(~w.inside, Event("enter", tp))
               C == If(w.inside, Event("leave", tp))
               D == If(rec.type = "SAMPLE", Event("sample", tp))
               E == If(rec.type # "SAMPLE" /\ kind = "thread", Event("cpuid", tp))
               U == UpdateEvents(tp, sw)
    <3>2. A \in Seq(S) /\ B \in Seq(S) /\ C \in Seq(S) /\ D \in Seq(S) /\ E \in Seq(S)
      BY <3>1
    <3>3. U = IF sw THEN C ELSE A \o B
      BY DEF UpdateEvents
    <3>4. out' = out \o U \o D \o E
      BY <1>2 DEF SampleHandle, tp, sw
    <3> HIDE DEF A, B, C, D, E, U
    <3>5. U \in Seq(S)
      BY <3>2, <3>3, ConcatProperties
    <3>6. U \o D \in Seq(S) /\ (U \o D) \o E \in Seq(S)
      BY <3>2, <3>5, ConcatProperties
    <3> DEFINE Old == {out[i] : i \in DOMAIN out}
               T == Old \cup S
    <3>7. out \in Seq(Old)
      BY <1>1 DEF IsSequence
    <3> HIDE DEF Old
    <3>8. out \in Seq(T) /\ U \in Seq(T) /\ D \in Seq(T) /\ E \in Seq(T)
      BY <3>2, <3>5, <3>7, SeqMonotonic
    <3> HIDE DEF T
    <3> DEFINE V == U \o D
    <3>9. (out \o U) \o D = out \o V /\ V \in Seq(T)
      BY <3>8, ConcatAssociative, ConcatProperties
    <3>10. evs = V \o E
      BY DEF U, D, E
    <3>11. V \o E \in Seq(S)
      BY <3>6
    <3> HIDE DEF V, evs
    <3>12. (out \o V) \o E = out \o (V \o E)
      <4>1. out \in Seq(T) /\ V \in Seq(T) /\ E \in Seq(T)
        BY <3>8, <3>9
      <4> QED BY ONLY <4>1, ConcatAssociative
    <3> QED BY <3>4, <3>9, <3>10, <3>11, <3>12
  <2>6. \A e \in S : e.time = tp
    BY DEF Event
  <2> HIDE DEF S, evs
  <2>7. IsSequence(out') /\ EventsInOrder'
    BY <1>1, <2>2, <2>4, <2>5, <2>6, WriteEvents
  <2> QED BY <2>2, <2>4, <2>7, WriterTimes
<1>3. CASE rec.type \notin {"SAMPLE", "SWITCH_IN", "SWITCH_OUT"}
  <2>1. UNCHANGED <<w, out>>
    BY <1>3 DEF SampleHandle
  <2>2. EventsInOrder'
    BY <1>1, <2>1 DEF EventsInOrder, TimesInOrder, Sampling, LateBegin
  <2> QED BY <1>1, <2>1, <2>2, WriterTimes
<1> QED BY <1>2, <1>3

LEMMA SyscallTimes ==
  ASSUME TimeInv, ~Sampling, NEW rec, Stamped(rec), rec.type # "LOST", SyscallHandle(rec),
         UNCHANGED <<kind, clock, skew, offset, synced, written>>,
         pc' \notin {"sync", "create"}
  PROVE  TimeInv'
<1> DEFINE tp == Convert(rec.time)
           enter == rec.type = "SYS_ENTER"
           ev == Event(IF enter THEN "enter" ELSE "leave", tp)
           evs == If(enter # w.inside, ev)
<1>1. WriterKnown /\ EventsInOrder /\ w \in WriterSet
  BY DEF TimeInv, WriterKnown, WriterSet
<1>2. tp \in Int /\ (synced => tp <= clock)
  <2>1. /\ rec.time \in Int /\ rec.time <= clock + skew /\ offset \in Int /\ skew \in Int
        /\ clock \in Nat /\ (synced => skew + offset <= 0)
    BY DEF Stamped, TimeInv, ClocksKnown
  <2> QED BY <2>1 DEF Convert
<1>3. w' = [w EXCEPT !.last = tp, !.inside = enter] /\ out' = out \o evs
  BY DEF SyscallHandle
<1>4. enter \in BOOLEAN
  OBVIOUS
<1>5. ev.time = tp
  BY DEF Event
<1> HIDE DEF tp, enter, ev
<1>6. w' \in WriterSet /\ w'.first = w.first /\ w'.last = tp
  BY <1>1, <1>2, <1>3, <1>4 DEF WriterSet
<1>7. evs \in Seq({ev})
  <2>1. CASE enter # w.inside
    BY <2>1 DEF If
  <2>2. CASE ~(enter # w.inside)
    BY <2>2 DEF If
  <2> QED BY <2>1, <2>2
<1> HIDE DEF evs
<1>8. IsSequence(out') /\ EventsInOrder'
  BY <1>1, <1>2, <1>3, <1>5, <1>6, <1>7, WriteEvents
<1> QED BY <1>2, <1>6, <1>8, WriterTimes

LEMMA HandleTimes ==
  ASSUME PositiveSizes, RingInv, TimeInv, Handle
  PROVE  TimeInv'
<1> DEFINE rec == written[Len(handled) + 1]
<1>1. /\ UNCHANGED <<kind, clock, skew, offset, synced, written>>
      /\ pc = "handle" /\ pc' \notin {"sync", "create"}
  BY DEF Handle, HandleRecord, monitor, clocks
<1>2. handle(rec)
  BY <1>1, SeenFacts DEF Handle
<1>3. Stamped(rec)
  <2>1. Len(handled) + 1 \in 1 .. Len(written)
    BY <1>1, SequenceFacts DEF RingInv, RingTypeOK, Delivered
  <2> QED BY <2>1 DEF TimeInv, ClocksKnown
<1> HIDE DEF rec
<1>4. CASE UNCHANGED <<w, out>>
  <2>1. w \in WriterSet /\ (synced => w.last <= clock) /\ IsSequence(out)
    BY DEF TimeInv, WriterKnown, WriterSet
  <2>2. EventsInOrder'
    BY <1>1, <1>4 DEF TimeInv, EventsInOrder, TimesInOrder, Sampling, LateBegin
  <2> QED BY <1>1, <1>4, <2>1, <2>2, WriterTimes
<1>5. CASE Sampling /\ SampleHandle(rec)
  BY <1>1, <1>3, <1>5, SampleTimes
<1>6. CASE rec.type # "LOST" /\ kind = "syscall" /\ SyscallHandle(rec)
  BY <1>1, <1>3, <1>6, SyscallTimes DEF Sampling
<1>7. ASSUME rec.type # "LOST", ~Sampling
      PROVE  Convert(rec.time) \in Int /\ (synced => Convert(rec.time) <= clock)
  <2>1. /\ rec.time \in Int /\ rec.time <= clock + skew /\ offset \in Int /\ skew \in Int
        /\ clock \in Nat /\ (synced => skew + offset <= 0)
    BY <1>3, <1>7 DEF Stamped, TimeInv, ClocksKnown
  <2> QED BY <2>1 DEF Convert
<1>8. CASE rec.type # "LOST" /\ kind = "tracepoint" /\ TracepointHandle(rec)
  <2> DEFINE ev == Event("metric", Convert(rec.time))
  <2>1. out' = Append(out, ev) /\ UNCHANGED w
    BY <1>8 DEF TracepointHandle
  <2>2. ~Sampling /\ ev.time = Convert(rec.time)
    BY <1>8 DEF Sampling, Event
  <2> HIDE DEF ev
  <2> QED BY <1>1, <1>7, <1>8, <2>1, <2>2, MetricTimes
<1>9. CASE rec.type # "LOST" /\ kind = "group" /\ GroupHandle(rec)
  <2> DEFINE ev == [type |-> "metric", time |-> Convert(rec.time), values |-> GroupValues(buffer')]
  <2>1. out' = Append(out, ev) /\ UNCHANGED w
    BY <1>9 DEF GroupHandle
  <2>2. ~Sampling /\ ev.time = Convert(rec.time)
    BY <1>9 DEF Sampling
  <2> HIDE DEF ev
  <2> QED BY <1>1, <1>7, <1>9, <2>1, <2>2, MetricTimes
<1> QED BY <1>2, <1>4, <1>5, <1>6, <1>8, <1>9 DEF handle

LEMMA TimerTimes ==
  ASSUME TimeInv, Timer, kind = "userspace"
  PROVE  TimeInv'
<1> DEFINE ev == [type |-> "metric", time |-> Now, values |-> UserspaceValues(buffer')]
<1>1. /\ UNCHANGED <<kind, clock, skew, offset, synced, written, w>> /\ out' = Append(out, ev)
      /\ pc' \notin {"sync", "create"}
  BY DEF Timer, UserspaceRead, ring, monitor, clocks
<1>2. ev.time = clock /\ clock \in Nat
  BY DEF Now, TimeInv, ClocksKnown
<1> HIDE DEF ev
<1> QED BY <1>1, <1>2, MetricTimes DEF Sampling

(* end(): the thread ends now, or when its last event was, if later.       *)
LEMMA FinalizeTimes ==
  ASSUME TimeInv, Finalize
  PROVE  TimeInv'
<1>1. /\ UNCHANGED <<kind, clock, skew, offset, synced, written>> /\ End
      /\ pc' \notin {"sync", "create"}
  BY DEF Finalize, ring, clocks
<1>2. /\ WriterKnown /\ EventsInOrder /\ w \in WriterSet /\ clock \in Nat
      /\ (synced => w.last <= clock /\ w.first <= clock) /\ IsSequence(out)
  BY DEF TimeInv, WriterKnown, WriterSet, ClocksKnown
<1>3. CASE kind # "thread"
  <2>1. UNCHANGED <<w, out>>
    BY <1>1, <1>3 DEF End
  <2>2. EventsInOrder'
    BY <1>1, <1>2, <2>1 DEF EventsInOrder, TimesInOrder, Sampling, LateBegin
  <2> QED BY <1>1, <1>2, <2>1, <2>2, WriterTimes
<1>4. CASE kind = "thread"
  <2> DEFINE last == adjust_timepoints(Now)
             begin == Event("thread_begin", w.first)
             end == Event("thread_end", last)
             S == {begin, end}
             evs == EndEvents(last)
  <2>1. w' = [w EXCEPT !.last = last] /\ out' = out \o evs
    BY <1>1, <1>4 DEF End
  <2>2. last \in Int /\ w.last <= last /\ (synced => last <= clock)
    BY <1>2 DEF adjust_timepoints, Now, WriterSet
  <2>3. begin.type = "thread_begin" /\ begin.time = w.first /\ end.time = last
    BY DEF Event
  <2>4. evs \in Seq(S)
    <3>1. evs = If(w.first_event, begin) \o <<end>>
      BY DEF EndEvents
    <3> HIDE DEF begin, end, evs
    <3>2. If(w.first_event, begin) \in Seq(S)
      <4>1. CASE w.first_event
        BY <4>1 DEF If
      <4>2. CASE ~w.first_event
        BY <4>2 DEF If
      <4> QED BY <4>1, <4>2
    <3>3. <<end>> \in Seq(S)
      OBVIOUS
    <3> QED BY <3>1, <3>2, <3>3, ConcatProperties
  <2> HIDE DEF last, begin, end, evs
  <2>5. w' \in WriterSet /\ w'.first = w.first /\ w'.last = last
    BY <1>2, <2>1, <2>2 DEF WriterSet
  <2>6. w.first \in Int
    BY <1>2 DEF WriterSet
  <2>7. /\ \A e \in S : e.time \in Int /\ (synced => e.time <= clock)
        /\ \A e \in S : e.time = w'.last \/ (e.type = "thread_begin" /\ e.time = w.first)
    BY <1>2, <2>2, <2>3, <2>5, <2>6
  <2>8. w.last <= w'.last /\ w'.last \in Int
    BY <2>2, <2>5
  <2> HIDE DEF S
  <2>9. IsSequence(out') /\ EventsInOrder'
    BY <1>1, <1>2, <2>1, <2>4, <2>5, <2>7, <2>8, WriteEvents
  <2> QED BY <1>1, <2>2, <2>5, <2>9, WriterTimes
<1> QED BY <1>3, <1>4

LEMMA DestroyTimes ==
  ASSUME TimeInv, Destroy
  PROVE  TimeInv'
<1> DEFINE ev == Event("leave", w.last)
           evs == If(w.inside, ev)
<1>1. /\ UNCHANGED <<kind, clock, skew, offset, synced, written>>
      /\ pc' \notin {"sync", "create"} /\ out' = out \o evs
      /\ w' = [w EXCEPT !.inside = FALSE]
  BY DEF Destroy, ring, clocks
<1>2. /\ WriterKnown /\ EventsInOrder /\ w \in WriterSet
      /\ (synced => w.last <= clock) /\ ev.time = w.last /\ w.last \in Int
  BY DEF TimeInv, WriterKnown, WriterSet, Event
<1> HIDE DEF ev
<1>3. evs \in Seq({ev})
  <2>1. CASE w.inside
    BY <2>1 DEF If
  <2>2. CASE ~w.inside
    BY <2>2 DEF If
  <2> QED BY <2>1, <2>2
<1> HIDE DEF evs
<1>4. w' \in WriterSet /\ w'.first = w.first /\ w'.last = w.last
  BY <1>1, <1>2 DEF WriterSet
<1>5. IsSequence(out') /\ EventsInOrder'
  BY <1>1, <1>2, <1>3, <1>4, WriteEvents
<1> QED BY <1>1, <1>2, <1>4, <1>5, WriterTimes

LEMMA StepTimes == PositiveSizes /\ IInv /\ TimeInv /\ [Next]_vars => TimeInv'
<1> SUFFICES ASSUME PositiveSizes, IInv, TimeInv, [Next]_vars PROVE TimeInv'
  OBVIOUS
<1>0. clock \in Nat
  BY DEF TimeInv, ClocksKnown
<1> USE DEF ring, monitor, writer, clocks
<1>1. CASE Synchronize
  BY <1>1, SynchronizeTimes
<1>2. CASE Create
  BY <1>2, CreateTimes
<1>3. CASE Tick
  BY <1>0, <1>3, QuietTimes DEF Tick
<1>4. CASE Count
  BY <1>0, <1>4, QuietTimes DEF Count
<1>5. CASE Write
  BY <1>5, WriteTimes DEF IInv
<1>6. CASE Stop
  BY <1>0, <1>6, QuietTimes DEF Stop
<1>7. CASE Poll
  BY <1>0, <1>7, QuietTimes DEF Poll
<1>8. CASE Panic
  BY <1>0, <1>8, QuietTimes DEF Panic
<1>9. CASE Timer
  <2>1. kind = "userspace"
    BY <1>9 DEF Timer, IInv, Drains
  <2> QED BY <1>9, <2>1, TimerTimes
<1>10. CASE GetNext
  BY <1>0, <1>10, QuietTimes DEF GetNext, Get
<1>11. CASE Handle
  BY <1>11, HandleTimes DEF IInv
<1>12. CASE PopRecord
  BY <1>0, <1>12, QuietTimes DEF PopRecord, Pop
<1>13. CASE Emptied
  BY <1>0, <1>13, QuietTimes DEF Emptied, AfterLoop
<1>14. CASE Finalize
  BY <1>14, FinalizeTimes
<1>15. CASE Destroy
  BY <1>15, DestroyTimes
<1>16. CASE UNCHANGED vars
  BY <1>0, <1>16, QuietTimes DEF vars, rest
<1> QED
  BY <1>1, <1>2, <1>3, <1>4, <1>5, <1>6, <1>7, <1>8, <1>9, <1>10, <1>11, <1>12, <1>13,
     <1>14, <1>15, <1>16 DEF Next

-----------------------------------------------------------------------------
(* Losses                                                                  *)

(* The sums of a longer sequence are those of the shorter one and one more.*)
LEMMA SumsAppend ==
  ASSUME NEW recs, NEW rec, IsSequence(recs), CountLost(rec) \in Nat
  PROVE  /\ (\E f : Sums(f, recs)) => \E g : Sums(g, Append(recs, rec))
         /\ \A g : Sums(g, Append(recs, rec)) =>
              \E f : /\ Sums(f, recs)
                    /\ \A n \in 0 .. Len(recs) : g[n] = f[n]
                    /\ g[Len(recs) + 1] = f[Len(recs)] + CountLost(rec)
<1> DEFINE len == Len(recs)
           more == Append(recs, rec)
<1>1. len \in Nat /\ Len(more) = len + 1 /\ more[len + 1] = rec /\ \A i \in 1 .. len : more[i] = recs[i]
  BY SequenceFacts, AppendFacts
<1> HIDE DEF len, more
<1>2. ASSUME NEW f, Sums(f, recs) PROVE \E g : Sums(g, more)
  <2> DEFINE g == [n \in 0 .. len + 1 |-> IF n = len + 1 THEN f[len] + CountLost(rec) ELSE f[n]]
  <2>1. f = [n \in 0 .. len |-> IF n = 0 THEN 0 ELSE f[n - 1] + CountLost(recs[n])]
    BY <1>2 DEF Sums, len
  <2>2. ASSUME NEW n \in 0 .. len + 1
        PROVE  g[n] = IF n = 0 THEN 0 ELSE g[n - 1] + CountLost(more[n])
    <3>1. CASE n = len + 1
      BY <1>1, <3>1
    <3>2. CASE n # len + 1 /\ n # 0
      <4>1. n \in 1 .. len /\ n - 1 \in 0 .. len
        BY <1>1, <3>2
      <4>2. g[n] = f[n] /\ g[n - 1] = f[n - 1]
        BY <1>1, <4>1
      <4>3. f[n] = f[n - 1] + CountLost(recs[n])
        BY <1>1, <2>1, <4>1
      <4> QED BY <1>1, <3>2, <4>1, <4>2, <4>3
    <3>3. CASE n = 0
      <4>1. 0 \in 0 .. len /\ 0 # len + 1 /\ 0 \in 0 .. len + 1
        BY <1>1
      <4>2. g[0] = f[0] /\ f[0] = 0
        BY <2>1, <4>1
      <4> QED BY <3>3, <4>2
    <3> QED BY <3>1, <3>2, <3>3
  <2>3. g = [n \in 0 .. len + 1 |-> g[n]]
    OBVIOUS
  <2> HIDE DEF g
  <2>4. g = [n \in 0 .. len + 1 |-> IF n = 0 THEN 0 ELSE g[n - 1] + CountLost(more[n])]
    BY <2>2, <2>3
  <2> QED BY <1>1, <2>4 DEF Sums
<1>3. ASSUME NEW g, Sums(g, more)
      PROVE  \E f : /\ Sums(f, recs)
                    /\ \A n \in 0 .. len : g[n] = f[n]
                    /\ g[len + 1] = f[len] + CountLost(rec)
  <2> DEFINE f == [n \in 0 .. len |-> g[n]]
  <2>1. g = [n \in 0 .. len + 1 |-> IF n = 0 THEN 0 ELSE g[n - 1] + CountLost(more[n])]
    BY <1>1, <1>3 DEF Sums
  <2>2. ASSUME NEW n \in 0 .. len
        PROVE  f[n] = IF n = 0 THEN 0 ELSE f[n - 1] + CountLost(recs[n])
    <3>1. n \in 0 .. len + 1
      BY <1>1
    <3>2. g[n] = IF n = 0 THEN 0 ELSE g[n - 1] + CountLost(more[n])
      BY <2>1, <3>1
    <3>3. CASE n = 0
      BY <3>2, <3>3
    <3>4. CASE n # 0
      <4>1. n \in 1 .. len /\ n - 1 \in 0 .. len
        BY <1>1, <3>4
      <4> QED BY <1>1, <3>2, <3>4, <4>1
    <3> QED BY <3>3, <3>4
  <2>3. Sums(f, recs)
    BY <2>2 DEF Sums, len
  <2>4. g[len + 1] = g[len] + CountLost(rec)
    <3>1. len + 1 \in 0 .. len + 1 /\ len + 1 # 0 /\ (len + 1) - 1 = len
      BY <1>1
    <3>2. g[len + 1] = g[(len + 1) - 1] + CountLost(more[len + 1])
      BY <2>1, <3>1
    <3> QED BY <1>1, <3>1, <3>2
  <2>5. \A n \in 0 .. len : g[n] = f[n]
    OBVIOUS
  <2>6. g[len + 1] = f[len] + CountLost(rec)
    BY <1>1, <2>4
  <2> HIDE DEF f
  <2> QED BY <2>3, <2>5, <2>6
<1> QED BY <1>2, <1>3 DEF len, more

(* Only the kernel's own reports are of the type LOST.                     *)
LEMMA RecordsReportNothing ==
  ASSUME NEW rec \in Records
  PROVE  CountLost(rec) = 0
<1>1. rec.type # "LOST"
  BY DEF Records, Timed
<1> QED BY <1>1 DEF CountLost

LEMMA InitLoss == Init => LossInv
<1> SUFFICES ASSUME Init PROVE LossInv
  OBVIOUS
<1>1. Len(<<>>) = 0
  OBVIOUS
<1>2. /\ pending = 0 /\ dropped = 0 /\ lost_samples = 0
      /\ Len(written) = 0 /\ Len(handled) = 0
  BY <1>1 DEF Init, RingInit
<1>3. \E f : Sums(f, written)
  <2> DEFINE f == [n \in 0 .. 0 |-> 0]
  <2>1. f = [n \in 0 .. 0 |-> IF n = 0 THEN 0 ELSE f[n - 1] + CountLost(written[n])]
    OBVIOUS
  <2> HIDE DEF f
  <2> QED BY <1>2, <2>1 DEF Sums
<1>4. ASSUME NEW f, Sums(f, written) PROVE f[0] = 0
  <2>1. f = [n \in 0 .. 0 |-> IF n = 0 THEN 0 ELSE f[n - 1] + CountLost(written[n])]
    BY <1>2, <1>4 DEF Sums
  <2> QED BY <2>1
<1> QED BY <1>2, <1>3, <1>4 DEF LossInv

LEMMA QuietLoss ==
  ASSUME LossInv, UNCHANGED <<written, handled, pending, dropped, lost_samples>>
  PROVE  LossInv'
  BY DEF LossInv

(* A record that is put is preceded by the report of all that was pending. *)
LEMMA WriteLoss ==
  ASSUME PositiveSizes, RingInv, LossInv, Write
  PROVE  LossInv'
<1>1. PICK rec \in Records : KernelPut(rec) \/ KernelDrop(rec)
  BY DEF Write
<1>2. /\ UNCHANGED <<handled, lost_samples>>
      /\ IsSequence(written) /\ Len(written) \in Nat /\ Len(handled) \in 0 .. Len(written)
      /\ pending \in Nat /\ dropped \in Nat /\ lost_samples \in Nat
  BY <1>1, SequenceFacts DEF KernelPut, KernelDrop, RingInv, RingTypeOK, Delivered, LossInv
<1>3. CASE KernelDrop(rec)
  <2>1. UNCHANGED written /\ pending' = pending + 1 /\ dropped' = dropped + 1
    BY <1>3 DEF KernelDrop
  <2>2. dropped' - pending' = dropped - pending
    BY <1>2, <2>1
  <2> QED BY <1>2, <2>1, <2>2 DEF LossInv
<1>4. CASE KernelPut(rec)
  <2>1. pending' = 0 /\ UNCHANGED dropped /\ written' = written \o Batch(rec)
    BY <1>4 DEF KernelPut
  <2>2. CountLost(rec) = 0
    BY RecordsReportNothing
  <2>3. CASE pending = 0
    <3>1. written' = Append(written, rec)
      BY <2>1, <2>3, <1>2 DEF Batch, IsSequence
    <3>2. \E g : Sums(g, written')
      <4>1. \E f : Sums(f, written)
        BY DEF LossInv
      <4>2. \E g : Sums(g, Append(written, rec))
        BY <1>2, <2>2, <4>1, SumsAppend
      <4> QED BY <3>1, <4>2
    <3>4. \A i \in 1 .. Len(written') : CountLost(written'[i]) \in Nat
      BY <1>2, <2>2, <3>1, AppendFacts DEF LossInv
    <3>3. ASSUME NEW g, Sums(g, written')
          PROVE  g[Len(handled)] = lost_samples /\ g[Len(written')] = dropped
      <4>1. PICK f : /\ Sums(f, written)
                     /\ \A n \in 0 .. Len(written) : g[n] = f[n]
                     /\ g[Len(written) + 1] = f[Len(written)] + CountLost(rec)
        BY <1>2, <2>2, <3>1, <3>3, SumsAppend
      <4>2. f[Len(handled)] = lost_samples /\ f[Len(written)] = dropped - pending
        BY <4>1 DEF LossInv
      <4>3. Len(written') = Len(written) + 1
        BY <1>2, <3>1, AppendFacts
      <4> QED BY <1>2, <2>2, <2>3, <4>1, <4>2, <4>3
    <3> QED BY <1>2, <2>1, <3>2, <3>3, <3>4 DEF LossInv
  <2>4. CASE pending # 0
    <3> DEFINE lost == Lost(pending)
               mid == Append(written, lost)
    <3>1. written' = Append(mid, rec)
      BY <2>1, <2>4, <1>2 DEF Batch, IsSequence
    <3>2. CountLost(lost) = pending
      BY DEF CountLost, Lost
    <3>3. IsSequence(mid) /\ Len(mid) = Len(written) + 1
      BY <1>2, AppendFacts
    <3> HIDE DEF lost
    <3>7. \A i \in 1 .. Len(mid) : CountLost(mid[i]) \in Nat
      BY <1>2, <3>2, AppendFacts DEF LossInv
    <3>4. /\ \E g : Sums(g, mid)
          /\ \A g : Sums(g, mid) =>
               \E f : /\ Sums(f, written)
                     /\ \A n \in 0 .. Len(written) : g[n] = f[n]
                     /\ g[Len(written) + 1] = f[Len(written)] + CountLost(lost)
      BY <1>2, <3>2, SumsAppend DEF LossInv
    <3> HIDE DEF mid
    <3>5. /\ \E g : Sums(g, written')
          /\ \A g : Sums(g, written') =>
               \E f : /\ Sums(f, mid)
                     /\ \A n \in 0 .. Len(mid) : g[n] = f[n]
                     /\ g[Len(mid) + 1] = f[Len(mid)] + CountLost(rec)
      BY <2>2, <3>1, <3>3, <3>4, SumsAppend
    <3>6. ASSUME NEW g, Sums(g, written')
          PROVE  g[Len(handled)] = lost_samples /\ g[Len(written')] = dropped
      <4>1. PICK h : /\ Sums(h, mid)
                     /\ \A n \in 0 .. Len(mid) : g[n] = h[n]
                     /\ g[Len(mid) + 1] = h[Len(mid)] + CountLost(rec)
        BY <3>5, <3>6
      <4>2. PICK f : /\ Sums(f, written)
                     /\ \A n \in 0 .. Len(written) : h[n] = f[n]
                     /\ h[Len(written) + 1] = f[Len(written)] + CountLost(lost)
        BY <3>4, <4>1
      <4>3. f[Len(handled)] = lost_samples /\ f[Len(written)] = dropped - pending
        BY <4>2 DEF LossInv
      <4>4. Len(written') = Len(mid) + 1
        BY <3>1, <3>3, AppendFacts
      <4>5. g[Len(handled)] = lost_samples
        BY <1>2, <3>3, <4>1, <4>2, <4>3
      <4>6. h[Len(mid)] = dropped
        BY <1>2, <3>2, <3>3, <4>2, <4>3
      <4> QED BY <1>2, <2>2, <4>1, <4>4, <4>5, <4>6
    <3>8. \A i \in 1 .. Len(written') : CountLost(written'[i]) \in Nat
      BY <2>2, <3>1, <3>3, <3>7, AppendFacts, SequenceFacts
    <3> QED BY <1>2, <2>1, <3>5, <3>6, <3>8 DEF LossInv
  <2> QED BY <2>3, <2>4
<1> QED BY <1>1, <1>3, <1>4

(* The reader counts what the record at hand reports.                      *)
LEMMA HandleLoss ==
  ASSUME PositiveSizes, RingInv, LossInv, Handle
  PROVE  LossInv'
<1> DEFINE k == Len(handled)
           rec == written[k + 1]
<1>1. /\ UNCHANGED <<written, pending, dropped>>
      /\ handled' = Append(handled, rec) /\ lost_samples' = lost_samples + CountLost(rec)
  BY SeenFacts DEF Handle, HandleRecord
<1>2. /\ IsSequence(handled) /\ k \in Nat /\ Len(written) \in Nat /\ k < Len(written)
      /\ pending \in Nat /\ dropped \in Nat /\ lost_samples \in Nat
  BY SequenceFacts DEF Handle, RingInv, RingTypeOK, Delivered, LossInv
<1>3. Len(handled') = k + 1
  BY <1>1, <1>2, AppendFacts
<1> HIDE DEF k
<1>4. ASSUME NEW f, Sums(f, written)
      PROVE  f[k + 1] = lost_samples' /\ f[Len(written)] = dropped - pending
  <2>1. f[k] = lost_samples /\ f[Len(written)] = dropped - pending
    BY <1>4 DEF LossInv, k
  <2>2. f = [n \in 0 .. Len(written) |-> IF n = 0 THEN 0 ELSE f[n - 1] + CountLost(written[n])]
    BY <1>4 DEF Sums
  <2>3. k + 1 \in 0 .. Len(written) /\ k + 1 # 0 /\ (k + 1) - 1 = k
    BY <1>2
  <2>4. f[k + 1] = f[(k + 1) - 1] + CountLost(written[k + 1])
    BY <2>2, <2>3
  <2> QED BY <1>1, <2>1, <2>3, <2>4
<1>5. CountLost(rec) \in Nat
  BY <1>2 DEF LossInv
<1> QED BY <1>1, <1>2, <1>3, <1>4, <1>5 DEF LossInv

(* Every step keeps the losses accounted for.                              *)
LEMMA StepLoss == PositiveSizes /\ IInv /\ LossInv /\ [Next]_vars => LossInv'
<1> SUFFICES ASSUME PositiveSizes, IInv, LossInv, [Next]_vars PROVE LossInv'
  OBVIOUS
<1>0. RingInv
  BY DEF IInv
<1>1. CASE Write
  BY <1>0, <1>1, WriteLoss
<1>2. CASE Handle
  BY <1>0, <1>2, HandleLoss
<1>3. CASE GetNext \/ PopRecord
  BY <1>3, QuietLoss DEF GetNext, PopRecord, Get, Pop
<1>4. CASE Synchronize \/ Create \/ Tick \/ Count \/ Stop \/ Poll \/ Panic
  BY <1>4, QuietLoss DEF Synchronize, Create, Tick, Count, Stop, Poll, Panic, ring
<1>5. CASE Timer \/ Emptied \/ Finalize \/ Destroy
  BY <1>5, QuietLoss DEF Timer, Emptied, Finalize, Destroy, ring
<1>6. CASE UNCHANGED vars
  BY <1>6, QuietLoss DEF vars, ring
<1> QED BY <1>1, <1>2, <1>3, <1>4, <1>5, <1>6 DEF Next

-----------------------------------------------------------------------------
(* Theorems                                                                *)

(* The invariant of the ring and of the poll loop holds in every state.    *)
THEOREM RingInOrder == ASSUME PositiveSizes PROVE Spec => []IInv
<1>1. Init => IInv
  BY InitRing, InitDrains DEF IInv
<1>2. IInv /\ [Next]_vars => IInv'
  BY PositiveSizes, StepRing, StepDrains DEF IInv
<1> QED BY <1>1, <1>2, PTL DEF Spec

(* What handle() has seen is a prefix of what the kernel committed: whole  *)
(* records, in order, none twice and none left out, although records of    *)
(* any size wrap around and the kernel writes while they are looked at.    *)
THEOREM RecordsDelivered == ASSUME PositiveSizes PROVE Spec => []DeliveredIntact
<1>1. IInv => DeliveredIntact
  <2> SUFFICES ASSUME IInv PROVE DeliveredIntact
    OBVIOUS
  <2>1. /\ Len(handled) \in Nat /\ Len(handled) <= Len(written)
        /\ \A i \in 1 .. Len(handled) : handled[i] = written[i]
    BY SequenceFacts DEF IInv, RingInv, RingTypeOK, Delivered
  <2>2. SubSeq(handled, 1, Len(handled)) = SubSeq(written, 1, Len(handled))
    BY <2>1
  <2> QED BY <2>1, <2>2 DEF DeliveredIntact, IsPrefix
<1> QED BY <1>1, RingInOrder, PTL

(* A reader that ends in the regular way has handled every record that was *)
(* committed before stop() was called; the reader of system calls, which   *)
(* disables its events first, has handled every record.                    *)
THEOREM StopIsComplete == ASSUME PositiveSizes PROVE Spec => []StopDrains
<1>1. IInv => StopDrains
  <2> SUFFICES ASSUME IInv, pc = "done", ~panicked
               PROVE  /\ Len(handled) >= atStop
                      /\ kind = "syscall" => handled = written
    BY DEF StopDrains
  <2>1. Len(handled) \in Nat /\ Len(written) \in Nat
    BY SequenceFacts DEF IInv, RingInv, RingTypeOK
  <2>2. Len(handled) >= atStop
    BY <2>1 DEF IInv, Drains
  <2>3. ASSUME kind = "syscall" PROVE handled = written
    <3>1. Len(handled) = Len(written)
      BY <2>3 DEF IInv, Drains
    <3>2. \A i \in 1 .. Len(handled) : handled[i] = written[i]
      BY DEF IInv, RingInv, Delivered
    <3> DEFINE S == {handled[i] : i \in DOMAIN handled} \cup {written[i] : i \in DOMAIN written}
    <3>3. handled \in Seq(S) /\ written \in Seq(S)
      BY SeqMonotonic DEF IInv, RingInv, RingTypeOK, IsSequence
    <3> HIDE DEF S
    <3> QED BY <3>1, <3>2, <3>3, SeqEqual
  <2> QED BY <2>2, <2>3
<1> QED BY <1>1, RingInOrder, PTL

(* What is shown of a counter is never below its count, and exact if it    *)
(* was never multiplexed, for any sequence of counts, reads and losses.    *)
THEOREM CountersFaithful == ASSUME PositiveSizes PROVE Spec => []CounterFaithful
<1>1. Init => CounterInv
  BY InitCounters
<1>2. IInv /\ CounterInv /\ [Next]_vars => CounterInv'
  BY PositiveSizes, StepCounters
<1>3. CounterInv => CounterFaithful
  <2> SUFFICES ASSUME CounterInv, NEW i \in DOMAIN out, Counting,
                      NEW c \in DOMAIN buffer.accumulated
               PROVE  LET last  == buffer.previous[c]
                          exact == last.value * Unit * ScaleOf(c)
                          shown == out[Len(out)].values[c]
                      IN  shown >= exact /\ (last.time_enabled = last.time_running => shown = exact)
    BY DEF CounterFaithful, Counting, ScaleOf
  <2> DEFINE acc == buffer.accumulated[c]
             last == buffer.previous[c]
             count == last.value * Unit
             scale == ScaleOf(c)
  <2>1. out # <<>>
    OBVIOUS
  <2>2. out[Len(out)].values[c] = acc * scale
    BY <2>1 DEF CounterInv, LastShown
  <2>3. /\ acc \in Nat /\ acc >= count /\ last \in ReadingSet
        /\ last.time_enabled = last.time_running => acc = count
    BY DEF CounterInv, BufferAccurate, Accurate
  <2>4. count \in Nat /\ scale \in Nat
    BY <2>3 DEF ReadingSet, Unit, ScaleOf, Counter, Leader
  <2> HIDE DEF acc, count, scale
  <2>5. acc * scale >= count * scale
    <3>1. (acc - count) * scale >= 0
      BY <2>3, <2>4
    <3>2. (acc - count) * scale = acc * scale - count * scale
      BY <2>3, <2>4
    <3>3. acc * scale \in Nat /\ count * scale \in Nat
      BY <2>3, <2>4
    <3> QED BY <3>1, <3>2, <3>3
  <2> QED BY <2>2, <2>3, <2>5 DEF count, scale
<1> QED BY <1>1, <1>2, <1>3, RingInOrder, PTL DEF Spec

(* The events of a sampled location never go back in time, apart from the  *)
(* late begin of a thread, and with synchronised clocks no event of any    *)
(* location is stamped later than the clock, for any clocks and latencies. *)
THEOREM TimesAreInOrder == ASSUME PositiveSizes PROVE Spec => []TimesInOrder
<1>1. Init => TimeInv
  BY InitTimes
<1>2. IInv /\ TimeInv /\ [Next]_vars => TimeInv'
  BY PositiveSizes, StepTimes
<1>3. TimeInv => TimesInOrder
  BY DEF TimeInv, EventsInOrder
<1> QED BY <1>1, <1>2, <1>3, RingInOrder, PTL DEF Spec

(* The number of lost records that is shown is what the records handled so *)
(* far report, and no loss is forgotten or reported twice, however often   *)
(* the buffer overflows and whenever the reader looks at it.               *)
THEOREM LossesAccounted == ASSUME PositiveSizes PROVE Spec => []LossAccounted
<1>1. Init => LossInv
  BY InitLoss
<1>2. IInv /\ LossInv /\ [Next]_vars => LossInv'
  BY PositiveSizes, StepLoss
<1>3. LossInv => LossAccounted
  <2> SUFFICES ASSUME LossInv PROVE LossAccounted
    OBVIOUS
  <2>1. \E f : Sums(f, written)
    BY DEF LossInv
  <2>2. Sums(Reported, written)
    BY <2>1 DEF Sums, Reported
  <2>3. Reported[Len(handled)] = lost_samples /\ Reported[Len(written)] = dropped - pending
    BY <2>2 DEF LossInv
  <2> QED BY <2>3 DEF LossAccounted, LossInv
<1> QED BY <1>1, <1>2, <1>3, RingInOrder, PTL DEF Spec
=============================================================================
