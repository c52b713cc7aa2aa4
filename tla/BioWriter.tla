----------------------------- MODULE BioWriter ------------------------------
(***************************************************************************)
(* What perf::bio::Writer makes of one block-layer tracepoint event: the   *)
(* OTF2 I/O operation it writes to the location of the device, and what    *)
(* it keeps in sector_cache_ to know, when a request completes, how many   *)
(* bytes had been queued at its first sector.                              *)
(*                                                                         *)
(* A block is a pair of device and sector.  The state is a record w:       *)
(*   known    devices with an entry in sector_cache_                       *)
(*   cached   blocks with an entry in sector_cache_[dev]                   *)
(*   bytes    the entries; 0 where there is none, as operator[] inserts    *)
(*   out      the OTF2 events written, of all devices, oldest first        *)
(***************************************************************************)
EXTENDS Integers, Sequences

CONSTANT
  Offset      (* time::Converter: what is added to a perf time stamp       *)

ASSUME OffsetAssumption == Offset \in Int

Convert(perf_tp) == perf_tp + Offset

QUEUE    == "block_bio_queue"
ISSUE    == "block_rq_issue"
COMPLETE == "block_rq_complete"
Tracepoints == {QUEUE, ISSUE, COMPLETE}

Operation(op, e, size) ==
  [op |-> op, time |-> Convert(e.time), block |-> e.block, size |-> size]

Writer(known, cached, bytes, out) ==
  [known |-> known, cached |-> cached, bytes |-> bytes, out |-> out]

EmptyWriter(blocks) == Writer({}, {}, [b \in blocks |-> 0], <<>>)

(* Neither read nor write: nothing is recorded.                            *)
WriteQueue(w, e) ==
  IF ~e.rw THEN w
  ELSE Writer(w.known \cup {e.block[1]}, w.cached \cup {e.block},
              [w.bytes EXCEPT ![e.block] = @ + e.size],
              Append(w.out, Operation("begin", e, e.size)))

(* A request whose queueing was not seen is not issued either.             *)
WriteIssue(w, e) ==
  IF e.block[1] \notin w.known \/ e.block \notin w.cached THEN w
  ELSE Writer(w.known, w.cached, w.bytes, Append(w.out, Operation("issued", e, 0)))

(* The two tests are joined by &&, and the second inserts the device: the  *)
(* first completion on an unknown device is left out, any later one is     *)
(* written, with 0 bytes where nothing was queued.                         *)
WriteComplete(w, e) ==
  IF e.block[1] \notin w.known
  THEN Writer(w.known \cup {e.block[1]}, w.cached, w.bytes, w.out)
  ELSE Writer(w.known, w.cached \cup {e.block}, [w.bytes EXCEPT ![e.block] = 0],
              Append(w.out, Operation("complete", e, w.bytes[e.block])))

write(w, tracepoint, e) ==
  IF tracepoint = QUEUE THEN WriteQueue(w, e)
  ELSE IF tracepoint = ISSUE THEN WriteIssue(w, e)
  ELSE WriteComplete(w, e)
=============================================================================
