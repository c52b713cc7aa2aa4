---------------------------- MODULE CounterBuffer ----------------------------
(***************************************************************************)
(* perf::counter::CounterBuffer and its two subclasses: perf reports what  *)
(* a counter counted since it was enabled, the trace wants the estimate of *)
(* what it would have counted without multiplexing, added up over the      *)
(* reads.  Estimates are multiples of 1/Unit, which divides every running  *)
(* time that is met, so that the double arithmetic of the code is exact.   *)
(***************************************************************************)
EXTENDS Naturals, Sequences

Unit == 6

(* a reading of one counter *)
Reading(v, e, r) == [value |-> v, time_enabled |-> e, time_running |-> r]

(* the buffers start out zeroed *)
NewBuffer(n) == [accumulated |-> [i \in 1 .. n |-> 0], previous |-> [i \in 1 .. n |-> Reading(0, 0, 0)]]

Scaled(de, dr, dv) == (de * dv * Unit) \div dr

(* update_buffers(): what one counter adds for the time since the last read *)
Increment(cur, prev) ==
  LET de == cur.time_enabled - prev.time_enabled
      dr == cur.time_running - prev.time_running
      dv == cur.value - prev.value
  IN IF de = 0 \/ dr = 0 \/ dv = 0 THEN 0
     ELSE IF de = dr THEN dv * Unit ELSE Scaled(de, dr, dv)

(* mutant: the double buffers are not swapped *)
readNoSwap(buf, inbuf) ==
  [accumulated |-> [i \in DOMAIN buf.accumulated |->
                      buf.accumulated[i] + Increment(inbuf[i], buf.previous[i])],
   previous    |-> buf.previous]

(* read(): update, then swap, so that the new data are the previous ones *)
read(buf, inbuf) ==
  [accumulated |-> [i \in DOMAIN buf.accumulated |->
                      buf.accumulated[i] + Increment(inbuf[i], buf.previous[i])],
   previous    |-> inbuf]

=============================================================================
