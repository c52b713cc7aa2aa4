------------------------- MODULE MultiReaderProofs --------------------------
(***************************************************************************)
(* Proofs about MultiReader for any set of readers, blocks and sizes: the  *)
(* merged stream is ordered by time, read() drops no event it could have   *)
(* written, and finalize() leaves nothing behind.                          *)
(*                                                                         *)
(* The point of the inductive invariant is Covered: a reader that has an   *)
(* event read() knows of is still to be scanned, waits in the queue with   *)
(* the time of its first event, or is the current one.  As nothing later   *)
(* than the queue's minimum is written, no write overtakes such an event.  *)
(***************************************************************************)
EXTENDS MultiReader, TLAPS

Sorted(s) == \A i, j \in 1..Len(s) : i < j => s[i].time <= s[j].time

(* Every buffer is in time order, what is not yet visible comes later, and *)
(* nothing is stamped ahead of the clock.                                  *)
Stamps ==
  \A r \in Readers :
    /\ Sorted(buf[r]) /\ Sorted(pending[r])
    /\ \A i \in 1..Len(buf[r]), j \in 1..Len(pending[r]) :
         buf[r][i].time <= pending[r][j].time
    /\ \A i \in 1..Len(buf[r]) : buf[r][i].time <= clock
    /\ \A i \in 1..Len(pending[r]) : pending[r][i].time <= clock

(* An entry of the queue is the time of its reader's first event.          *)
Entries ==
  \A s \in pq : buf[s.reader] # <<>> /\ s.time = buf[s.reader][1].time

(* What was written is ordered, and highest_written_, converted, bounds it. *)
Written ==
  /\ TimeOrdered
  /\ \A i \in 1..Len(w.out) : w.out[i].time <= Convert(highest)

Covered(r) == r \in scan \/ r = cur \/ \E s \in pq : s.reader = r

(* read() will get to every event it found, and has overtaken none.        *)
Merging ==
  /\ pc = "scan" => highest = floor
  /\ \A r \in Readers :
       /\ old[r] <= Len(buf[r])
       /\ old[r] > 0 => Covered(r)
       /\ \A i \in 1..old[r] : buf[r][i].time < floor \/ highest <= buf[r][i].time

(* A disabled reader has nothing under way, and the last read() will get   *)
(* to everything.                                                          *)
Flushing ==
  /\ \A r \in Readers \ enabled : pending[r] = <<>>
  /\ finalizing /\ pc # "stop" =>
       \A r \in Readers : buf[r] # <<>> => Covered(r)

IInv == TypeOK /\ Stamps /\ Entries /\ Written /\ Merging /\ Flushing

-----------------------------------------------------------------------------
(* The times of events are numbers.                                        *)
LEMMA TimesAreNumbers ==
  ASSUME NEW s \in Seq(Events)
  PROVE  \A i \in 1..Len(s) : s[i] \in Events /\ s[i].time \in Nat
<1>1. \A i \in 1..Len(s) : s[i] \in Events
  OBVIOUS
<1>2. \A e \in Events : e.time \in Nat
  BY DEF Events
<1> QED BY <1>1, <1>2

(* Popping keeps a buffer sorted, and what is left is not earlier than     *)
(* the event popped.                                                       *)
LEMMA TailSorted ==
  ASSUME NEW s \in Seq(Events), Sorted(s), s # <<>>
  PROVE  /\ Sorted(Tail(s)) /\ Tail(s) \in Seq(Events)
         /\ Len(Tail(s)) = Len(s) - 1
         /\ \A i \in 1..Len(Tail(s)) : Tail(s)[i] = s[i + 1] /\ s[1].time <= Tail(s)[i].time
BY DEF Sorted, Events

(* A later event at the end keeps a buffer sorted.                         *)
LEMMA AppendSorted ==
  ASSUME NEW s \in Seq(Events), Sorted(s), NEW e \in Events,
         \A i \in 1..Len(s) : s[i].time <= e.time
  PROVE  /\ Sorted(Append(s, e)) /\ Append(s, e) \in Seq(Events)
         /\ Len(Append(s, e)) = Len(s) + 1
         /\ \A i \in 1..Len(s) : Append(s, e)[i] = s[i]
         /\ Append(s, e)[Len(s) + 1] = e
<1>1. /\ Append(s, e) \in Seq(Events) /\ Len(Append(s, e)) = Len(s) + 1
      /\ \A i \in 1..Len(s) : Append(s, e)[i] = s[i]
      /\ Append(s, e)[Len(s) + 1] = e
  OBVIOUS
<1>2. \A i \in 1..Len(s) + 1 : i \in 1..Len(s) \/ i = Len(s) + 1
  OBVIOUS
<1>3. Sorted(Append(s, e))
  BY <1>1, <1>2 DEF Sorted, Events
<1> QED BY <1>1, <1>3

(* The writer adds at most one operation, with the time of the event.      *)
LEMMA WriteAppends ==
  ASSUME NEW x \in Writers, \A b \in x.cached : b[1] \in x.known,
         NEW tp \in Tracepoints, NEW e \in Events
  PROVE  LET y == write(x, tp, e) IN
         /\ y \in Writers
         /\ \A b \in y.cached : b[1] \in y.known
         /\ y.out = x.out \/ \E o \in Operations : o.time = Convert(e.time) /\ y.out = Append(x.out, o)
<1> DEFINE Op(op, n) == Operation(op, e, n)
<1>1. ASSUME NEW op \in {"begin", "issued", "complete"}, NEW n \in Nat
      PROVE  Op(op, n) \in Operations /\ Op(op, n).time = Convert(e.time)
  <2>1. e.time \in Nat /\ e.block \in Blocks
    BY DEF Events
  <2>2. Convert(e.time) \in Int
    BY <2>1, OffsetAssumption DEF Convert
  <2> QED BY <2>1, <2>2 DEF Operation, Operations
<1>2. x.bytes[e.block] \in Nat /\ e.size \in Nat /\ e.block \in Blocks
      /\ x.bytes[e.block] + e.size \in Nat
  <2>1. e.block \in Blocks /\ e.size \in Sizes
    BY DEF Events
  <2>2. x.bytes \in [Blocks -> Nat]
    BY DEF Writers
  <2>3. x.bytes[e.block] \in Nat
    BY <2>1, <2>2
  <2>4. e.size \in Nat
    BY <2>1, ReadersAssumption
  <2> QED BY <2>1, <2>3, <2>4
<1>3. CASE tp = QUEUE
  <2>1. write(x, tp, e) = WriteQueue(x, e)
    BY <1>3 DEF write, QUEUE, ISSUE, COMPLETE
  <2>2. Op("begin", e.size) \in Operations /\ Op("begin", e.size).time = Convert(e.time)
    BY <1>1, <1>2
  <2>3. CASE ~e.rw
    BY <2>1, <2>3 DEF WriteQueue
  <2>4. CASE e.rw
    BY <2>1, <2>2, <2>4, <1>2 DEF WriteQueue, Writer, Writers
  <2> QED BY <2>3, <2>4
<1>4. CASE tp = ISSUE
  <2>1. write(x, tp, e) = WriteIssue(x, e)
    BY <1>4 DEF write, QUEUE, ISSUE, COMPLETE
  <2>2. Op("issued", 0) \in Operations /\ Op("issued", 0).time = Convert(e.time)
    BY <1>1
  <2> QED BY <2>1, <2>2, <1>2 DEF WriteIssue, Writer, Writers
<1>5. CASE tp = COMPLETE
  <2>1. write(x, tp, e) = WriteComplete(x, e)
    BY <1>5 DEF write, QUEUE, ISSUE, COMPLETE
  <2>2. Op("complete", x.bytes[e.block]) \in Operations
        /\ Op("complete", x.bytes[e.block]).time = Convert(e.time)
    BY <1>1, <1>2
  <2> QED BY <2>1, <2>2, <1>2 DEF WriteComplete, Writer, Writers
<1> QED BY <1>3, <1>4, <1>5 DEF Tracepoints

(* Initially there is nothing in any buffer.                               *)
LEMMA InitIInv == Init => IInv
<1> SUFFICES ASSUME Init PROVE IInv
  OBVIOUS
<1>1. w \in Writers /\ w.out = <<>> /\ w.cached = {}
  BY DEF Init, EmptyWriter, Writer, Writers
<1>2. \A r \in Readers : buf[r] = <<>> /\ pending[r] = <<>> /\ old[r] = 0
  BY DEF Init
<1>3. TypeOK
  <2>1. pending \in [Readers -> Seq(Events)] /\ buf \in [Readers -> Seq(Events)]
        /\ old \in [Readers -> Nat]
    BY DEF Init
  <2>2. clock \in Nat /\ count \in 0..MaxEvents /\ highest \in 0..clock /\ floor \in Nat
    BY ReadersAssumption DEF Init
  <2> QED BY <1>1, <2>1, <2>2 DEF Init, TypeOK
<1>4. Stamps /\ Entries /\ Merging /\ Flushing
  BY <1>2 DEF Init, Stamps, Entries, Merging, Flushing, Sorted
<1>5. Written
  BY <1>1 DEF Written, TimeOrdered
<1> QED BY <1>3, <1>4, <1>5 DEF IInv

-----------------------------------------------------------------------------
(* The kernel stamps an event: it is the latest of its reader.             *)
LEMMA RecordStep == ASSUME IInv, NEW r \in Readers, Record(r) PROVE IInv'
<1>1. PICK e \in Events : e.time = clock' /\ pending' = [pending EXCEPT ![r] = Append(@, e)]
  <2>1. clock' \in Nat
    BY DEF IInv, TypeOK, Record
  <2> QED BY <2>1 DEF Record, Events
<1>2. clock' \in Nat /\ clock <= clock' /\ count' \in 0..MaxEvents
  <2>1. clock' \in {clock, clock + 1} /\ count' = count + 1 /\ count < MaxEvents
    BY DEF Record
  <2>2. clock \in Nat /\ count \in 0..MaxEvents
    BY DEF IInv, TypeOK
  <2>3. MaxEvents \in Nat
    BY ReadersAssumption
  <2> QED BY <2>1, <2>2, <2>3
<1>3. /\ UNCHANGED <<enabled, buf, pc, finalizing, scan, pq, cur, highest, w, old, floor>>
      /\ r \in enabled
  BY DEF Record, history
<1>4. \A q \in Readers : /\ buf[q] \in Seq(Events) /\ pending[q] \in Seq(Events)
                         /\ \A i \in 1..Len(buf[q]) : buf[q][i].time \in Nat
                         /\ \A i \in 1..Len(pending[q]) : pending[q][i].time \in Nat
  <2>1. \A q \in Readers : buf[q] \in Seq(Events) /\ pending[q] \in Seq(Events)
    BY DEF IInv, TypeOK
  <2> QED BY <2>1, TimesAreNumbers
<1>5. \A i \in 1..Len(pending[r]) : pending[r][i].time <= e.time
  <2>1. \A i \in 1..Len(pending[r]) : pending[r][i].time \in Nat /\ pending[r][i].time <= clock
    BY <1>4 DEF IInv, Stamps
  <2>2. clock \in Nat
    BY DEF IInv, TypeOK
  <2> QED BY <1>1, <1>2, <2>1, <2>2
<1>6. /\ Sorted(Append(pending[r], e)) /\ Append(pending[r], e) \in Seq(Events)
      /\ Len(Append(pending[r], e)) = Len(pending[r]) + 1
      /\ \A i \in 1..Len(pending[r]) : Append(pending[r], e)[i] = pending[r][i]
      /\ Append(pending[r], e)[Len(pending[r]) + 1] = e
  BY <1>4, <1>5, AppendSorted DEF IInv, Stamps
<1>7. /\ pending'[r] = Append(pending[r], e)
      /\ \A q \in Readers : q # r => pending'[q] = pending[q]
  BY <1>1 DEF IInv, TypeOK
<1>8. TypeOK'
  <2>1. pending' \in [Readers -> Seq(Events)]
    BY <1>1, <1>6 DEF IInv, TypeOK
  <2>2. highest \in 0..clock' /\ pq \subseteq [time : 0..clock', reader : Readers]
    BY <1>2 DEF IInv, TypeOK
  <2> QED BY <1>2, <1>3, <2>1, <2>2 DEF IInv, TypeOK
<1>9. Stamps'
  <2> SUFFICES ASSUME NEW q \in Readers
               PROVE  /\ Sorted(buf[q]) /\ Sorted(pending'[q])
                      /\ \A i \in 1..Len(buf[q]), j \in 1..Len(pending'[q]) :
                           buf[q][i].time <= pending'[q][j].time
                      /\ \A i \in 1..Len(buf[q]) : buf[q][i].time <= clock'
                      /\ \A i \in 1..Len(pending'[q]) : pending'[q][i].time <= clock'
    BY <1>3 DEF Stamps
  <2>1. \A i \in 1..Len(buf[q]) : buf[q][i].time <= clock'
    <3>1. \A i \in 1..Len(buf[q]) : buf[q][i].time \in Nat /\ buf[q][i].time <= clock
      BY <1>4 DEF IInv, Stamps
    <3>2. clock \in Nat
      BY DEF IInv, TypeOK
    <3> QED BY <1>2, <3>1, <3>2
  <2>2. CASE q = r
    <3>1. \A j \in 1..Len(pending'[q]) : j \in 1..Len(pending[r]) \/ j = Len(pending[r]) + 1
      BY <1>4, <1>6, <1>7, <2>2
    <3>2. \A j \in 1..Len(pending'[q]) : pending'[q][j].time <= clock'
      BY <1>1, <1>2, <1>5, <1>6, <1>7, <2>2, <3>1
    <3>3. \A i \in 1..Len(buf[q]), j \in 1..Len(pending'[q]) :
            buf[q][i].time <= pending'[q][j].time
      BY <1>1, <1>6, <1>7, <2>1, <2>2, <3>1 DEF IInv, Stamps
    <3> QED BY <1>6, <1>7, <2>1, <2>2, <3>2, <3>3 DEF IInv, Stamps
  <2>3. CASE q # r
    <3>1. \A i \in 1..Len(pending[q]) : pending[q][i].time <= clock'
      <4>1. \A i \in 1..Len(pending[q]) : pending[q][i].time \in Nat /\ pending[q][i].time <= clock
        BY <1>4 DEF IInv, Stamps
      <4>2. clock \in Nat
        BY DEF IInv, TypeOK
      <4> QED BY <1>2, <4>1, <4>2
    <3> QED BY <1>7, <2>1, <2>3, <3>1 DEF IInv, Stamps
  <2> QED BY <2>2, <2>3
<1>10. Entries' /\ Written' /\ Merging'
  BY <1>3 DEF IInv, Entries, Written, TimeOrdered, Merging, Covered
<1>11. Flushing'
  BY <1>3, <1>7 DEF IInv, Flushing, Covered
<1> QED BY <1>8, <1>9, <1>10, <1>11 DEF IInv

(* The kernel makes the oldest stamped event visible, behind those that    *)
(* are; the first event of the buffer stays the first.                     *)
LEMMA PublishStep == ASSUME IInv, NEW r \in Readers, Publish(r) PROVE IInv'
<1> DEFINE e == pending[r][1]
<1>1. \A q \in Readers : /\ buf[q] \in Seq(Events) /\ pending[q] \in Seq(Events)
                         /\ Sorted(buf[q]) /\ Sorted(pending[q])
  BY DEF IInv, TypeOK, Stamps
<1>2. pending[r] # <<>> /\ e \in Events /\ e = Head(pending[r]) /\ 1 \in 1..Len(pending[r])
  BY <1>1 DEF Publish
<1>3. UNCHANGED <<clock, count, enabled, pc, finalizing, scan, pq, cur, highest, w, old, floor>>
  BY DEF Publish, history
<1>4. /\ buf' \in [Readers -> Seq(Events)] /\ buf'[r] = Append(buf[r], e)
      /\ \A q \in Readers : q # r => buf'[q] = buf[q]
  BY <1>1, <1>2 DEF Publish, IInv, TypeOK
<1>5. /\ pending' \in [Readers -> Seq(Events)] /\ pending'[r] = Tail(pending[r])
      /\ \A q \in Readers : q # r => pending'[q] = pending[q]
  BY <1>1, <1>2 DEF Publish, IInv, TypeOK
<1>6. /\ Sorted(Append(buf[r], e))
      /\ Len(Append(buf[r], e)) = Len(buf[r]) + 1
      /\ \A i \in 1..Len(buf[r]) : Append(buf[r], e)[i] = buf[r][i]
      /\ Append(buf[r], e)[Len(buf[r]) + 1] = e
  <2>1. \A i \in 1..Len(buf[r]) : buf[r][i].time <= e.time
    BY <1>2 DEF IInv, Stamps
  <2> QED BY <1>1, <1>2, <2>1, AppendSorted
<1>7. /\ Sorted(Tail(pending[r])) /\ Len(Tail(pending[r])) = Len(pending[r]) - 1
      /\ \A i \in 1..Len(Tail(pending[r])) :
           Tail(pending[r])[i] = pending[r][i + 1] /\ e.time <= Tail(pending[r])[i].time
  BY <1>1, <1>2, TailSorted
<1>8. TypeOK'
  BY <1>3, <1>4, <1>5 DEF IInv, TypeOK
<1>9. Stamps'
  <2> SUFFICES ASSUME NEW q \in Readers
               PROVE  /\ Sorted(buf'[q]) /\ Sorted(pending'[q])
                      /\ \A i \in 1..Len(buf'[q]), j \in 1..Len(pending'[q]) :
                           buf'[q][i].time <= pending'[q][j].time
                      /\ \A i \in 1..Len(buf'[q]) : buf'[q][i].time <= clock
                      /\ \A i \in 1..Len(pending'[q]) : pending'[q][i].time <= clock
    BY <1>3 DEF Stamps
  <2>1. CASE q = r
    <3>1. \A i \in 1..Len(buf'[q]) : i \in 1..Len(buf[r]) \/ i = Len(buf[r]) + 1
      BY <1>1, <1>4, <1>6, <2>1
    <3>2. \A j \in 1..Len(pending'[q]) : j + 1 \in 1..Len(pending[r])
      BY <1>1, <1>5, <1>7, <2>1
    <3>3. \A i \in 1..Len(buf'[q]) : buf'[q][i].time <= clock
      BY <1>2, <1>4, <1>6, <2>1, <3>1 DEF IInv, Stamps
    <3>4. \A j \in 1..Len(pending'[q]) : pending'[q][j].time <= clock
      <4>1. \A j \in 1..Len(pending'[q]) : pending'[q][j] = pending[r][j + 1]
        BY <1>5, <1>7, <2>1
      <4>2. \A j \in 1..Len(pending[r]) : pending[r][j].time <= clock
        BY DEF IInv, Stamps
      <4> QED BY <3>2, <4>1, <4>2
    <3>5. \A i \in 1..Len(buf'[q]), j \in 1..Len(pending'[q]) :
            buf'[q][i].time <= pending'[q][j].time
      <4> SUFFICES ASSUME NEW i \in 1..Len(buf'[q]), NEW j \in 1..Len(pending'[q])
                   PROVE  buf'[q][i].time <= pending'[q][j].time
        OBVIOUS
      <4>1. pending'[q][j] = pending[r][j + 1] /\ e.time <= pending'[q][j].time
        BY <1>5, <1>7, <2>1
      <4>2. CASE i \in 1..Len(buf[r])
        <5>1. buf'[q][i] = buf[r][i] /\ j + 1 \in 1..Len(pending[r])
          BY <1>4, <1>6, <2>1, <3>2, <4>2
        <5>2. buf[r][i].time <= pending[r][j + 1].time
          BY <4>2, <5>1 DEF IInv, Stamps
        <5> QED BY <4>1, <5>1, <5>2
      <4>3. CASE i = Len(buf[r]) + 1
        <5>1. buf'[q][i] = e
          BY <1>4, <1>6, <2>1, <4>3
        <5> QED BY <4>1, <5>1
      <4> QED BY <3>1, <4>2, <4>3
    <3> QED BY <1>4, <1>5, <1>6, <1>7, <2>1, <3>3, <3>4, <3>5
  <2>2. CASE q # r
    BY <1>4, <1>5, <2>2 DEF IInv, Stamps
  <2> QED BY <2>1, <2>2
<1>10. \A q \in Readers : /\ Len(buf[q]) <= Len(buf'[q])
                          /\ \A i \in 1..Len(buf[q]) : buf'[q][i] = buf[q][i]
                          /\ buf[q] # <<>> => buf'[q] # <<>> /\ 1 \in 1..Len(buf[q])
  BY <1>1, <1>4, <1>6
<1>11. Entries'
  <2>1. \A s \in pq : s.reader \in Readers
    BY DEF IInv, TypeOK
  <2>2. \A s \in pq : buf[s.reader] # <<>> /\ s.time = buf[s.reader][1].time
    BY DEF IInv, Entries
  <2> QED BY <1>3, <1>10, <2>1, <2>2 DEF Entries
<1>12. Written'
  BY <1>3 DEF IInv, Written, TimeOrdered
<1>13. Merging'
  <2> SUFFICES ASSUME NEW q \in Readers
               PROVE  /\ old[q] <= Len(buf'[q])
                      /\ old[q] > 0 => Covered(q)'
                      /\ \A i \in 1..old[q] : buf'[q][i].time < floor \/ highest <= buf'[q][i].time
    BY <1>3 DEF IInv, Merging
  <2>1. old[q] \in Nat /\ old[q] <= Len(buf[q]) /\ Len(buf[q]) \in Nat /\ Len(buf'[q]) \in Nat
    <3>1. old[q] \in Nat
      BY DEF IInv, TypeOK
    <3>2. old[q] <= Len(buf[q])
      BY DEF IInv, Merging
    <3>3. buf[q] \in Seq(Events) /\ buf'[q] \in Seq(Events)
      BY <1>1, <1>4
    <3> QED BY <3>1, <3>2, <3>3
  <2>2. \A i \in 1..old[q] : i \in 1..Len(buf[q])
    BY <2>1
  <2>3. old[q] > 0 => Covered(q)'
    BY <1>3 DEF IInv, Merging, Covered
  <2> QED BY <1>10, <2>1, <2>2, <2>3 DEF IInv, Merging
<1>14. Flushing'
  <2>1. r \in enabled
    BY <1>2 DEF IInv, Flushing
  <2>2. ~(finalizing /\ pc # "stop")
    BY <2>1 DEF IInv, TypeOK
  <2> QED BY <1>3, <1>5, <2>1, <2>2 DEF IInv, Flushing
<1> QED BY <1>8, <1>9, <1>11, <1>12, <1>13, <1>14 DEF IInv

(* Disabling, polling and scanning leave the buffers alone.                *)
LEMMA StartStep ==
  ASSUME IInv, StartRead, UNCHANGED finalizing, pc = "poll" \/ (pc = "stop" /\ enabled = {})
  PROVE  IInv'
<1>1. UNCHANGED <<clock, count, enabled, pending, buf, pq, cur, highest, w, finalizing>>
  BY DEF StartRead, kernel
<1>2. /\ pc' = "scan" /\ scan' = Readers /\ floor' = highest /\ pq = {} /\ cur = NoReader
      /\ old' \in [Readers -> Nat] /\ \A r \in Readers : old'[r] = Len(buf[r])
      /\ highest \in Nat
  BY DEF StartRead, IInv, TypeOK
<1>3. TypeOK'
  BY <1>1, <1>2, ReadersAssumption DEF IInv, TypeOK
<1>4. Stamps' /\ Entries' /\ Written'
  BY <1>1 DEF IInv, Stamps, Entries, Written, TimeOrdered
<1>5. Merging'
  <2> SUFFICES ASSUME NEW r \in Readers
               PROVE  /\ old'[r] <= Len(buf[r]) /\ Covered(r)'
                      /\ \A i \in 1..old'[r] : buf[r][i].time < highest \/ highest <= buf[r][i].time
    BY <1>1, <1>2 DEF Merging
  <2>1. buf[r] \in Seq(Events)
    BY DEF IInv, TypeOK
  <2>2. \A i \in 1..Len(buf[r]) : buf[r][i].time \in Nat
    BY <2>1, TimesAreNumbers
  <2> QED BY <1>2, <2>1, <2>2 DEF Covered
<1>6. Flushing'
  BY <1>1, <1>2 DEF IInv, Flushing, Covered
<1> QED BY <1>3, <1>4, <1>5, <1>6 DEF IInv

(* A scanned reader is in the queue if it has an event.                    *)
LEMMA ScanStep == ASSUME IInv, NEW r \in Readers, Scan(r) PROVE IInv'
<1> DEFINE entry == [time |-> Head(buf[r]).time, reader |-> r]
<1>1. UNCHANGED <<clock, count, enabled, pending, buf, finalizing, cur, highest, w, old, floor>>
  BY DEF Scan, kernel, history
<1>2. /\ pc = "scan" /\ pc' \in {"scan", "pick"} /\ r \in scan /\ scan' = scan \ {r}
      /\ pc' # "scan" => scan' = {}
      /\ cur = NoReader
  BY DEF Scan, IInv, TypeOK
<1>3. buf[r] \in Seq(Events) /\ pq' = (IF buf[r] = <<>> THEN pq ELSE pq \cup {entry})
  BY DEF Scan, IInv, TypeOK
<1>4. buf[r] # <<>> => /\ entry.time = buf[r][1].time /\ entry.reader = r
                       /\ entry.time \in 0..clock
  <2>1. buf[r] # <<>> => 1 \in 1..Len(buf[r]) /\ Head(buf[r]) = buf[r][1]
    BY <1>3
  <2>2. \A i \in 1..Len(buf[r]) : buf[r][i].time \in Nat /\ buf[r][i].time <= clock
    BY <1>3, TimesAreNumbers DEF IInv, Stamps
  <2> QED BY <2>1, <2>2 DEF IInv, TypeOK
<1>5. TypeOK'
  <2>1. pq' \subseteq [time : 0..clock, reader : Readers]
    BY <1>3, <1>4 DEF IInv, TypeOK
  <2>2. \A s \in pq : s.reader # r /\ s.reader \notin scan' \cup {cur}
    BY <1>2 DEF IInv, TypeOK
  <2>3. \A s \in pq' : s.reader \notin scan' \cup {cur}
    BY <1>2, <1>3, <1>4, <2>2, ReadersAssumption
  <2>4. \A s, t \in pq' : s.reader = t.reader => s = t
    BY <1>3, <1>4, <2>2 DEF IInv, TypeOK
  <2> QED BY <1>1, <1>2, <2>1, <2>3, <2>4 DEF IInv, TypeOK
<1>6. Stamps' /\ Written'
  BY <1>1 DEF IInv, Stamps, Written, TimeOrdered
<1>7. Entries'
  BY <1>1, <1>3, <1>4 DEF IInv, Entries
<1>8. \A q \in Readers : buf[q] # <<>> /\ Covered(q) => Covered(q)'
  BY <1>1, <1>2, <1>3, <1>4 DEF Covered
<1>9. Merging'
  <2>1. \A q \in Readers : old[q] > 0 => buf[q] # <<>>
    BY DEF IInv, Merging, TypeOK
  <2> QED BY <1>1, <1>2, <1>8, <2>1 DEF IInv, Merging
<1>10. Flushing'
  BY <1>1, <1>2, <1>8 DEF IInv, Flushing
<1> QED BY <1>5, <1>6, <1>7, <1>9, <1>10 DEF IInv

(* The reader taken from the queue becomes the current one; when the queue *)
(* is empty, nothing read() has found is left.                             *)
LEMMA PickStep == ASSUME IInv, Pick PROVE IInv'
<1>1. /\ UNCHANGED <<clock, count, enabled, pending, buf, finalizing, scan, highest, w>>
      /\ pc = "pick" /\ scan = {} /\ cur = NoReader
  BY DEF Pick, kernel, IInv, TypeOK
<1>2. Stamps' /\ Written'
  BY <1>1 DEF IInv, Stamps, Written, TimeOrdered
<1>3. CASE pq # {}
  <2>1. PICK s \in pq : /\ pq' = pq \ {s} /\ cur' = s.reader /\ pc' = "loop"
                        /\ UNCHANGED <<old, floor>>
    BY <1>3 DEF Pick, history
  <2>2. s.reader \in Readers
    BY DEF IInv, TypeOK
  <2>3. TypeOK'
    <3>1. \A t \in pq' : t.reader \notin scan' \cup {cur'}
      BY <1>1, <2>1 DEF IInv, TypeOK
    <3> QED BY <1>1, <2>1, <2>2, <3>1 DEF IInv, TypeOK
  <2>4. Entries'
    BY <1>1, <2>1 DEF IInv, Entries
  <2>5. \A q \in Readers : Covered(q) => Covered(q)'
    BY <1>1, <2>1, ReadersAssumption DEF Covered
  <2>6. Merging' /\ Flushing'
    BY <1>1, <2>1, <2>5 DEF IInv, Merging, Flushing
  <2> QED BY <1>2, <2>3, <2>4, <2>6 DEF IInv
<1>4. CASE pq = {}
  <2>1. /\ pc' = (IF finalizing THEN "done" ELSE "poll") /\ pq' = {} /\ cur' = NoReader
        /\ old' \in [Readers -> Nat] /\ \A r \in Readers : old'[r] = 0
        /\ floor' = 0
    BY <1>1, <1>4 DEF Pick
  <2>2. TypeOK'
    BY <1>1, <2>1 DEF IInv, TypeOK
  <2>3. Entries' /\ Merging'
    <3>1. \A r \in Readers : Len(buf[r]) \in Nat
      BY DEF IInv, TypeOK
    <3> QED BY <1>1, <2>1, <3>1 DEF Entries, Merging
  <2>4. Flushing'
    BY <1>1, <1>4, <2>1 DEF IInv, Flushing, Covered
  <2> QED BY <1>2, <2>2, <2>3, <2>4 DEF IInv
<1> QED BY <1>3, <1>4

(* The current reader goes back to the queue, or has no event left.        *)
LEMMA LeaveStep == ASSUME IInv, NoMore \/ PushBack PROVE IInv'
<1> DEFINE entry == [time |-> Head(buf[cur]).time, reader |-> cur]
<1>1. /\ UNCHANGED <<clock, count, enabled, pending, buf, finalizing, scan, highest, w,
                     old, floor>>
      /\ pc = "loop" /\ pc' = "pick" /\ cur \in Readers /\ cur' = NoReader /\ scan = {}
  BY DEF NoMore, PushBack, kernel, history, IInv, TypeOK
<1>2. buf[cur] \in Seq(Events) /\ pq' = (IF buf[cur] = <<>> THEN pq ELSE pq \cup {entry})
  BY <1>1 DEF NoMore, PushBack, IInv, TypeOK
<1>3. buf[cur] # <<>> => /\ entry.time = buf[cur][1].time /\ entry.reader = cur
                         /\ entry.time \in 0..clock
  <2>1. buf[cur] # <<>> => 1 \in 1..Len(buf[cur]) /\ Head(buf[cur]) = buf[cur][1]
    BY <1>2
  <2>2. \A i \in 1..Len(buf[cur]) : buf[cur][i].time \in Nat /\ buf[cur][i].time <= clock
    BY <1>1, <1>2, TimesAreNumbers DEF IInv, Stamps
  <2> QED BY <2>1, <2>2 DEF IInv, TypeOK
<1>4. TypeOK'
  <2>1. pq' \subseteq [time : 0..clock, reader : Readers]
    BY <1>1, <1>2, <1>3 DEF IInv, TypeOK
  <2>2. \A s \in pq : s.reader # cur
    BY DEF IInv, TypeOK
  <2>3. \A s, t \in pq' : s.reader = t.reader => s = t
    BY <1>2, <1>3, <2>2 DEF IInv, TypeOK
  <2>4. \A s \in pq' : s.reader \notin scan' \cup {cur'}
    BY <1>1, <2>1, ReadersAssumption
  <2> QED BY <1>1, <2>1, <2>3, <2>4 DEF IInv, TypeOK
<1>5. Stamps' /\ Written'
  BY <1>1 DEF IInv, Stamps, Written, TimeOrdered
<1>6. Entries'
  BY <1>1, <1>2, <1>3 DEF IInv, Entries
<1>7. \A q \in Readers : buf[q] # <<>> /\ Covered(q) => Covered(q)'
  BY <1>1, <1>2, <1>3 DEF Covered
<1>8. Merging'
  <2>1. \A q \in Readers : old[q] > 0 => buf[q] # <<>>
    BY DEF IInv, Merging, TypeOK
  <2> QED BY <1>1, <1>7, <2>1 DEF IInv, Merging
<1>9. Flushing'
  BY <1>1, <1>7 DEF IInv, Flushing
<1> QED BY <1>4, <1>5, <1>6, <1>8, <1>9 DEF IInv

(* Popping the first event of the current reader: the queue does not speak *)
(* of it, and the events left are those behind.                            *)
LEMMA Popped ==
  ASSUME IInv, pc = "loop", buf[cur] # <<>>, pop(cur),
         UNCHANGED <<clock, count, enabled, pending, pc, finalizing, scan, pq, cur>>
  PROVE  /\ buf' \in [Readers -> Seq(Events)] /\ old' \in [Readers -> Nat] /\ floor' = floor
         /\ Stamps' /\ Entries' /\ Flushing'
         /\ \A q \in Readers :
              /\ old'[q] <= Len(buf'[q])
              /\ old'[q] > 0 => Covered(q)'
              /\ q # cur => buf'[q] = buf[q] /\ old'[q] = old[q]
         /\ \A i \in 1..Len(buf'[cur]) :
              buf'[cur][i] = buf[cur][i + 1] /\ buf[cur][1].time <= buf'[cur][i].time
         /\ \A i \in 1..old'[cur] : i \in 1..Len(buf'[cur]) /\ i + 1 \in 1..old[cur]
<1>1. /\ cur \in Readers /\ buf[cur] \in Seq(Events) /\ Sorted(buf[cur])
      /\ buf \in [Readers -> Seq(Events)] /\ old \in [Readers -> Nat]
      /\ \A q \in Readers : Len(buf[q]) \in Nat
  BY DEF IInv, TypeOK, Stamps
<1>2. /\ Sorted(Tail(buf[cur])) /\ Tail(buf[cur]) \in Seq(Events)
      /\ Len(Tail(buf[cur])) = Len(buf[cur]) - 1
      /\ \A i \in 1..Len(Tail(buf[cur])) :
           Tail(buf[cur])[i] = buf[cur][i + 1] /\ buf[cur][1].time <= Tail(buf[cur])[i].time
  BY <1>1, TailSorted
<1>3. /\ buf' \in [Readers -> Seq(Events)] /\ buf'[cur] = Tail(buf[cur])
      /\ \A q \in Readers : q # cur => buf'[q] = buf[q]
  BY <1>1, <1>2 DEF pop
<1>4. /\ old' \in [Readers -> Nat] /\ old'[cur] = (IF old[cur] = 0 THEN 0 ELSE old[cur] - 1)
      /\ \A q \in Readers : q # cur => old'[q] = old[q]
      /\ floor' = floor
  BY <1>1 DEF pop
<1>5. Stamps'
  <2> SUFFICES ASSUME NEW q \in Readers
               PROVE  /\ Sorted(buf'[q]) /\ Sorted(pending[q])
                      /\ \A i \in 1..Len(buf'[q]), j \in 1..Len(pending[q]) :
                           buf'[q][i].time <= pending[q][j].time
                      /\ \A i \in 1..Len(buf'[q]) : buf'[q][i].time <= clock
                      /\ \A i \in 1..Len(pending[q]) : pending[q][i].time <= clock
    BY DEF Stamps
  <2>1. CASE q = cur
    <3>1. \A i \in 1..Len(buf'[q]) : buf'[q][i] = buf[q][i + 1] /\ i + 1 \in 1..Len(buf[q])
      <4>1. /\ Len(buf'[q]) = Len(buf[q]) - 1 /\ Len(buf[q]) \in Nat
            /\ \A i \in 1..Len(buf'[q]) : buf'[q][i] = buf[q][i + 1]
        BY <1>1, <1>2, <1>3, <2>1
      <4> QED BY <4>1
    <3>2. Sorted(buf'[q]) /\ Sorted(pending[q])
      BY <1>2, <1>3, <2>1 DEF IInv, Stamps
    <3>3. \A i \in 1..Len(buf'[q]), j \in 1..Len(pending[q]) :
            buf'[q][i].time <= pending[q][j].time
      BY <3>1 DEF IInv, Stamps
    <3>4. \A i \in 1..Len(buf'[q]) : buf'[q][i].time <= clock
      BY <3>1 DEF IInv, Stamps
    <3> QED BY <3>2, <3>3, <3>4 DEF IInv, Stamps
  <2>2. CASE q # cur
    BY <1>3, <2>2 DEF IInv, Stamps
  <2> QED BY <2>1, <2>2
<1>6. Entries'
  <2>1. \A s \in pq : s.reader \in Readers /\ s.reader # cur
    BY DEF IInv, TypeOK
  <2> QED BY <1>3, <2>1 DEF IInv, Entries
<1>7. Flushing'
  BY <1>1, <1>3 DEF IInv, Flushing, Covered
<1>8. \A q \in Readers : old'[q] <= Len(buf'[q]) /\ (old'[q] > 0 => Covered(q)')
  <2>1. \A q \in Readers : old[q] <= Len(buf[q]) /\ (old[q] > 0 => Covered(q))
    BY DEF IInv, Merging
  <2>2. \A q \in Readers : old'[q] <= Len(buf'[q])
    <3>1. old'[cur] <= Len(buf'[cur])
      BY <1>1, <1>2, <1>3, <1>4, <2>1
    <3> QED BY <1>3, <1>4, <2>1, <3>1
  <2>3. \A q \in Readers : old'[q] > 0 => Covered(q)'
    BY <1>4, <2>1 DEF Covered
  <2> QED BY <2>2, <2>3
<1>9. \A i \in 1..old'[cur] : i \in 1..Len(buf'[cur]) /\ i + 1 \in 1..old[cur]
  <2>1. old[cur] \in Nat /\ old'[cur] \in Nat /\ Len(buf'[cur]) \in Nat
        /\ old'[cur] <= Len(buf'[cur])
    BY <1>1, <1>3, <1>4, <1>8
  <2> QED BY <1>4, <2>1
<1> QED BY <1>2, <1>3, <1>4, <1>5, <1>6, <1>7, <1>8, <1>9

(* Dropping a late event.                                                  *)
LEMMA DropStep == ASSUME IInv, Drop PROVE IInv'
<1>1. /\ pc = "loop" /\ buf[cur] # <<>> /\ pop(cur) /\ cur \in Readers
      /\ UNCHANGED <<clock, count, enabled, pending, pc, finalizing, scan, pq, cur, highest, w>>
  BY DEF Drop, kernel, IInv, TypeOK
<1>2. /\ buf' \in [Readers -> Seq(Events)] /\ old' \in [Readers -> Nat] /\ floor' = floor
      /\ Stamps' /\ Entries' /\ Flushing'
  BY <1>1, Popped
<1>3. /\ \A q \in Readers : /\ old'[q] <= Len(buf'[q])
                            /\ old'[q] > 0 => Covered(q)'
                            /\ q # cur => buf'[q] = buf[q] /\ old'[q] = old[q]
      /\ \A i \in 1..old'[cur] : buf'[cur][i] = buf[cur][i + 1] /\ i + 1 \in 1..old[cur]
  BY <1>1, Popped
<1>4. TypeOK'
  BY <1>1, <1>2 DEF IInv, TypeOK
<1>5. Written'
  BY <1>1 DEF IInv, Written, TimeOrdered
<1>6. Merging'
  <2> SUFFICES ASSUME NEW q \in Readers, NEW i \in 1..old'[q]
               PROVE  buf'[q][i].time < floor \/ highest <= buf'[q][i].time
    BY <1>1, <1>2, <1>3 DEF Merging
  <2>1. \A j \in 1..old[q] : buf[q][j].time < floor \/ highest <= buf[q][j].time
    BY DEF IInv, Merging
  <2>2. CASE q = cur
    BY <1>3, <2>1, <2>2
  <2>3. CASE q # cur
    BY <1>3, <2>1, <2>3
  <2> QED BY <2>2, <2>3
<1> QED BY <1>2, <1>4, <1>5, <1>6 DEF IInv

(* Writing the earliest event: what read() knows of comes later, or was    *)
(* late when read() began.                                                 *)
LEMMA WriteStep == ASSUME IInv, Write PROVE IInv'
<1> DEFINE e == buf[cur][1]
<1>1. /\ pc = "loop" /\ buf[cur] # <<>> /\ pop(cur) /\ cur \in Readers /\ scan = {}
      /\ UNCHANGED <<clock, count, enabled, pending, pc, finalizing, scan, pq, cur>>
  BY DEF Write, kernel, IInv, TypeOK
<1>2. buf[cur] \in Seq(Events) /\ e \in Events /\ e = Head(buf[cur]) /\ 1 \in 1..Len(buf[cur])
      /\ e.time \in Nat /\ e.time <= clock
  <2>1. buf[cur] \in Seq(Events)
    BY <1>1 DEF IInv, TypeOK
  <2>2. e = Head(buf[cur]) /\ 1 \in 1..Len(buf[cur])
    BY <1>1, <2>1
  <2> QED BY <1>1, <2>1, <2>2, TimesAreNumbers DEF IInv, Stamps
<1>3. /\ ~MustWait(e) /\ ~(e.time < highest) /\ highest' = e.time /\ w' = write(w, cur[2], e)
  BY <1>2 DEF Write, IsLate
<1>4. /\ buf' \in [Readers -> Seq(Events)] /\ old' \in [Readers -> Nat] /\ floor' = floor
      /\ Stamps' /\ Entries' /\ Flushing'
  BY <1>1, Popped
<1>5. /\ \A q \in Readers : /\ old'[q] <= Len(buf'[q])
                            /\ old'[q] > 0 => Covered(q)'
                            /\ q # cur => buf'[q] = buf[q] /\ old'[q] = old[q]
      /\ \A i \in 1..old'[cur] : e.time <= buf'[cur][i].time
  BY <1>1, Popped
<1>6. /\ w' \in Writers /\ \A b \in w'.cached : b[1] \in w'.known
      /\ w'.out = w.out \/ \E o \in Operations : o.time = Convert(e.time) /\ w'.out = Append(w.out, o)
  <2>1. cur[2] \in Tracepoints
    BY <1>1, ReadersAssumption
  <2>2. w \in Writers /\ \A b \in w.cached : b[1] \in w.known
    BY DEF IInv, TypeOK
  <2> QED BY <1>2, <1>3, <2>1, <2>2, WriteAppends
<1>7. TypeOK'
  <2>1. highest' \in 0..clock
    BY <1>2, <1>3 DEF IInv, TypeOK
  <2> QED BY <1>1, <1>4, <1>6, <2>1 DEF IInv, TypeOK
<1>8. Written'
  <2>1. /\ w.out \in Seq(Operations) /\ \A i \in 1..Len(w.out) : w.out[i].time \in Int
        /\ highest \in Nat
    <3>1. w.out \in Seq(Operations) /\ highest \in Nat
      BY DEF IInv, TypeOK, Writers
    <3>2. \A o \in Operations : o.time \in Int
      BY DEF Operations
    <3> QED BY <3>1, <3>2
  <2> DEFINE now == Convert(e.time)
  <2>0. now \in Int /\ Convert(highest) \in Int /\ Convert(highest) <= now
        /\ Convert(highest)' = now
    BY <1>2, <1>3, <2>1, OffsetAssumption DEF Convert
  <2>2. \A i \in 1..Len(w.out) : w.out[i].time <= now
    <3>1. \A i \in 1..Len(w.out) : w.out[i].time <= Convert(highest)
      BY DEF IInv, Written
    <3> QED BY <2>0, <2>1, <3>1
  <2>3. CASE w'.out = w.out
    BY <2>0, <2>2, <2>3 DEF IInv, Written, TimeOrdered
  <2>4. ASSUME NEW o \in Operations, o.time = Convert(e.time), w'.out = Append(w.out, o)
        PROVE  Written'
    <3>1. /\ Len(w'.out) = Len(w.out) + 1 /\ DOMAIN w'.out = 1..Len(w.out) + 1
          /\ \A i \in 1..Len(w.out) : w'.out[i] = w.out[i]
          /\ w'.out[Len(w.out) + 1] = o
          /\ DOMAIN w.out = 1..Len(w.out) /\ Len(w.out) \in Nat
      BY <2>1, <2>4
    <3>2. \A i \in 1..Len(w.out) + 1 : i \in 1..Len(w.out) \/ i = Len(w.out) + 1
      BY <3>1
    <3>3. \A i \in 1..Len(w.out) + 1 : w'.out[i].time <= now
      BY <2>0, <2>2, <2>4, <3>1, <3>2
    <3>4. TimeOrdered'
      <4> SUFFICES ASSUME NEW i \in 1..Len(w.out) + 1, NEW j \in 1..Len(w.out) + 1, i < j
                   PROVE  w'.out[i].time <= w'.out[j].time
        BY <3>1 DEF TimeOrdered
      <4>1. CASE j \in 1..Len(w.out)
        <5>1. i \in 1..Len(w.out)
          BY <3>1, <4>1
        <5> QED BY <3>1, <4>1, <5>1 DEF IInv, Written, TimeOrdered
      <4>2. CASE j = Len(w.out) + 1
        BY <2>4, <3>1, <3>3, <4>2
      <4> QED BY <3>2, <4>1, <4>2
    <3> QED BY <2>0, <3>1, <3>3, <3>4 DEF Written
  <2> QED BY <1>6, <2>3, <2>4
<1>9. Merging'
  <2> SUFFICES ASSUME NEW q \in Readers, NEW i \in 1..old'[q]
               PROVE  buf'[q][i].time < floor \/ e.time <= buf'[q][i].time
    BY <1>1, <1>3, <1>4, <1>5 DEF Merging
  <2>1. CASE q = cur
    BY <1>5, <2>1
  <2>2. CASE q # cur
    <3>1. buf'[q] = buf[q] /\ old'[q] = old[q]
      BY <1>5, <2>2
    <3>2. old[q] \in Nat /\ old[q] > 0 /\ old[q] <= Len(buf[q]) /\ buf[q] \in Seq(Events)
          /\ i \in 1..Len(buf[q])
      <4>1. old[q] \in Nat /\ old[q] <= Len(buf[q]) /\ buf[q] \in Seq(Events)
        BY DEF IInv, TypeOK, Merging
      <4> QED BY <3>1, <4>1
    <3>3. PICK s \in pq : s.reader = q
      BY <1>1, <2>2, <3>2 DEF IInv, Merging, Covered
    <3>4. s.time = buf[q][1].time /\ s.time \in Nat
      BY <3>3 DEF IInv, Entries, TypeOK
    <3>5. e.time <= s.time
      BY <1>2, <1>3, <3>4 DEF MustWait
    <3>6. buf[q][i].time \in Nat /\ buf[q][1].time <= buf[q][i].time
      <4>1. buf[q][i].time \in Nat
        BY <3>2, TimesAreNumbers
      <4>2. Sorted(buf[q])
        BY DEF IInv, Stamps
      <4>3. i = 1 \/ (1 \in 1..Len(buf[q]) /\ 1 < i)
        BY <3>2
      <4>4. buf[q][1].time <= buf[q][i].time
        BY <3>2, <3>4, <4>2, <4>3 DEF Sorted
      <4> QED BY <4>1, <4>4
    <3> QED BY <1>2, <3>1, <3>4, <3>5, <3>6
  <2> QED BY <2>1, <2>2
<1> QED BY <1>4, <1>7, <1>8, <1>9 DEF IInv

-----------------------------------------------------------------------------
(* The monitor thread stops polling, and switches off the readers.         *)
LEMMA StopStep ==
  ASSUME IInv, Stop \/ \E r \in Readers : Disable(r)
  PROVE  IInv'
<1>1. UNCHANGED <<clock, count, pending, buf, scan, pq, cur, highest, w, old, floor>>
  BY DEF Stop, Disable, kernel, history
<1>2. /\ pc' = "stop" /\ finalizing' = TRUE /\ enabled' \subseteq enabled
      /\ \A r \in enabled \ enabled' : pending[r] = <<>>
      /\ scan = {} /\ cur = NoReader /\ pq = {} /\ pc \in {"poll", "stop"}
  <2>1. CASE Stop
    BY <2>1 DEF Stop, kernel, IInv, TypeOK
  <2>2. ASSUME NEW r \in Readers, Disable(r)
        PROVE  /\ pc' = "stop" /\ finalizing' = TRUE /\ enabled' \subseteq enabled
               /\ \A q \in enabled \ enabled' : pending[q] = <<>>
               /\ scan = {} /\ cur = NoReader /\ pq = {} /\ pc \in {"poll", "stop"}
    BY <2>2 DEF Disable, IInv, TypeOK
  <2> QED BY <2>1, <2>2
<1>3. TypeOK'
  BY <1>1, <1>2 DEF IInv, TypeOK
<1>4. Stamps' /\ Entries' /\ Written'
  BY <1>1 DEF IInv, Stamps, Entries, Written, TimeOrdered
<1>5. Merging'
  BY <1>1, <1>2 DEF IInv, Merging, Covered
<1>6. Flushing'
  BY <1>1, <1>2 DEF IInv, Flushing
<1> QED BY <1>3, <1>4, <1>5, <1>6 DEF IInv

(* Every step keeps the invariant.                                         *)
LEMMA Inductive == IInv /\ [Next]_vars => IInv'
<1> SUFFICES ASSUME IInv, [Next]_vars PROVE IInv'
  OBVIOUS
<1>1. ASSUME NEW r \in Readers, Record(r) PROVE IInv'
  BY <1>1, RecordStep
<1>2. ASSUME NEW r \in Readers, Publish(r) PROVE IInv'
  BY <1>2, PublishStep
<1>3. CASE Poll \/ Flush
  BY <1>3, StartStep DEF Poll, Flush
<1>4. ASSUME NEW r \in Readers, Scan(r) PROVE IInv'
  BY <1>4, ScanStep
<1>5. CASE Pick
  BY <1>5, PickStep
<1>6. CASE NoMore \/ PushBack
  BY <1>6, LeaveStep
<1>7. CASE Drop
  BY <1>7, DropStep
<1>8. CASE Write
  BY <1>8, WriteStep
<1>9. CASE Stop \/ \E r \in Readers : Disable(r)
  BY <1>9, StopStep
<1>10. CASE UNCHANGED vars
  <2>1. UNCHANGED <<clock, count, enabled, pending, buf, pc, finalizing, scan, pq, cur,
                    highest, w, old, floor>>
    BY <1>10 DEF vars
  <2>2. TypeOK' /\ Stamps' /\ Entries'
    BY <2>1 DEF IInv, TypeOK, Stamps, Entries
  <2>3. Written' /\ Merging' /\ Flushing'
    BY <2>1 DEF IInv, Written, TimeOrdered, Merging, Flushing, Covered
  <2> QED BY <2>2, <2>3 DEF IInv
<1> QED BY <1>1, <1>2, <1>3, <1>4, <1>5, <1>6, <1>7, <1>8, <1>9, <1>10
        DEF Next, Monitor, Done

(* The invariant holds throughout.                                         *)
THEOREM Invariance == Spec => []IInv
<1>1. IInv /\ [Next]_vars => IInv'
  BY Inductive
<1> QED BY InitIInv, <1>1, PTL DEF Spec

(* Types, and how the parts of MultiReader's state belong together.        *)
THEOREM TypeCorrect == Spec => []TypeOK
<1>1. IInv => TypeOK
  BY DEF IInv
<1> QED BY Invariance, <1>1, PTL

(* The operations written for block devices have times that never          *)
(* decrease, whatever the kernel's buffers deliver and when.               *)
THEOREM MergeIsOrdered == Spec => []TimeOrdered
<1>1. IInv => TimeOrdered
  BY DEF IInv, Written
<1> QED BY Invariance, <1>1, PTL

(* An event that was there when read() began, and was not late then, is    *)
(* not dropped by this read().                                             *)
THEOREM DropsOnlyLate == Spec => NoNeedlessDrop
<1>1. IInv => (Drop /\ old[cur] > 0 => Head(buf[cur]).time < floor)
  <2> SUFFICES ASSUME IInv, Drop, old[cur] > 0 PROVE Head(buf[cur]).time < floor
    OBVIOUS
  <2>1. cur \in Readers /\ buf[cur] \in Seq(Events) /\ highest \in Nat /\ old[cur] \in Nat
        /\ buf[cur] # <<>> /\ Head(buf[cur]).time < highest
    BY DEF IInv, TypeOK, Drop, IsLate
  <2>2. Head(buf[cur]) = buf[cur][1] /\ 1 \in 1..Len(buf[cur])
    BY <2>1
  <2>3. buf[cur][1].time \in Nat
    BY <2>1, <2>2, TimesAreNumbers
  <2>4. 1 \in 1..old[cur]
    BY <2>1
  <2>5. buf[cur][1].time < floor \/ highest <= buf[cur][1].time
    BY <2>1, <2>4 DEF IInv, Merging
  <2> QED BY <2>1, <2>2, <2>3, <2>5
<1>2. IInv => [Drop /\ old[cur] > 0 => Head(buf[cur]).time < floor]_vars
  BY <1>1
<1> QED BY Invariance, <1>2, PTL DEF NoNeedlessDrop

(* When finalize() has returned no event is left in any buffer.            *)
THEOREM FinalizeFlushes == Spec => []AllConsumed
<1>1. IInv => AllConsumed
  <2> SUFFICES ASSUME IInv, pc = "done", NEW r \in Readers
               PROVE  buf[r] = <<>> /\ pending[r] = <<>>
    BY DEF AllConsumed
  <2>1. finalizing /\ enabled = {} /\ scan = {} /\ cur = NoReader /\ pq = {}
    BY DEF IInv, TypeOK
  <2>2. ~Covered(r)
    BY <2>1, ReadersAssumption DEF Covered
  <2> QED BY <2>1, <2>2 DEF IInv, Flushing
<1> QED BY Invariance, <1>1, PTL
=============================================================================
