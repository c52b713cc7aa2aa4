----------------------------- MODULE EventReader -----------------------------
(***************************************************************************)
(* perf::EventReader: the consumer side of a perf_event mmap buffer.  The  *)
(* kernel puts records of different sizes into a circular data area and    *)
(* moves data_head; read() looks at the record at data_tail in place, or   *)
(* in a copy if it wraps around, hands it to handle() and moves data_tail. *)
(* A cell of the data area stands for 8 bytes, the alignment of records.   *)
(***************************************************************************)
EXTENDS Naturals, Sequences

CONSTANTS
  DataSize,   (* cells of the data area: mmap_pages * page size          *)
  Attempts,   (* bound: records the kernel tries to write                *)
  SizeOf(_)   (* cells of a record                                       *)

ASSUME DataSizeAssumption == DataSize \in Nat \ {0}

VARIABLES
  cells,        (* the data area: each cell knows its record and which part of it it is *)
  data_head,    (* the kernel's position, never reset                    *)
  data_tail,    (* the reader's position                                 *)
  pending,      (* records dropped that no PERF_RECORD_LOST reports yet  *)
  dropped,      (* history: records dropped                              *)
  written,      (* history: records committed, in order                  *)
  handled,      (* history: records as handle() saw them                 *)
  current,      (* what get() returned: a position, or a copy            *)
  lost_samples  (* reported losses                                       *)

ring == <<cells, data_head, data_tail, pending, dropped, written, handled, current, lost_samples>>

None == [at |-> 0, len |-> 0, copy |-> <<>>]
Lost(n) == [type |-> "LOST", lost |-> n]

RingInit ==
  /\ cells = [i \in 0 .. DataSize - 1 |-> <<>>]
  /\ data_head = 0 /\ data_tail = 0
  /\ pending = 0 /\ dropped = 0 /\ lost_samples = 0
  /\ written = <<>> /\ handled = <<>>
  /\ current = None

(***************************************************************************)
(* The kernel.  A record that does not fit is dropped; the next one that   *)
(* does is preceded by a PERF_RECORD_LOST with the number of the dropped.  *)
(***************************************************************************)
Batch(rec) == IF pending = 0 THEN <<rec>> ELSE <<Lost(pending), rec>>

Cells(rec) == [p \in 1 .. SizeOf(rec) |-> <<rec, p>>]

Bytes(batch) == IF Len(batch) = 1 THEN Cells(batch[1]) ELSE Cells(batch[1]) \o Cells(batch[2])

Fits(batch) == data_head + Len(Bytes(batch)) - data_tail <= DataSize

KernelPut(rec) ==
  LET bytes == Bytes(Batch(rec))
  IN /\ Len(written) + dropped < Attempts
     /\ Fits(Batch(rec))
     /\ cells' = [i \in DOMAIN cells |->
                    IF \E k \in 1 .. Len(bytes) : (data_head + k - 1) % DataSize = i
                      THEN bytes[CHOOSE k \in 1 .. Len(bytes) : (data_head + k - 1) % DataSize = i]
                      ELSE cells[i]]
     /\ data_head' = data_head + Len(bytes)
     /\ pending' = 0
     /\ written' = written \o Batch(rec)
     /\ UNCHANGED <<data_tail, dropped, handled, current, lost_samples>>

KernelDrop(rec) ==
  /\ Len(written) + dropped < Attempts
  /\ ~Fits(Batch(rec))
  /\ pending' = pending + 1
  /\ dropped' = dropped + 1
  /\ UNCHANGED <<cells, data_head, data_tail, written, handled, current, lost_samples>>

(***************************************************************************)
(* The reader                                                              *)
(***************************************************************************)
empty == data_head = data_tail

InPlace(at, n) == [p \in 1 .. n |-> IF at + p - 1 < DataSize THEN cells[at + p - 1] ELSE <<"beyond">>]

Wrapped(at, n) == [p \in 1 .. n |-> cells[(at + p - 1) % DataSize]]

(* mutant: a record that wraps around is not copied *)
getNoCopy ==
  LET index == data_tail % DataSize
  IN [at |-> index, len |-> SizeOf(cells[index][1]), copy |-> <<>>]

(* get(): the header at data_tail tells the length; a record that reaches  *)
(* the end of the data area is put together in event_copy.                 *)
get ==
  LET index == data_tail % DataSize
      len   == SizeOf(cells[index][1])
  IN [at |-> index, len |-> len, copy |-> IF index + len > DataSize THEN Wrapped(index, len) ELSE <<>>]

(* what the handler finds behind the pointer, at the time it looks *)
Seen(ref) == IF ref.copy # <<>> THEN ref.copy ELSE InPlace(ref.at, ref.len)

Intact(bytes) == \A p \in DOMAIN bytes : bytes[p] = <<bytes[1][1], p>>

RecordIn(ref) == IF Intact(Seen(ref)) THEN Seen(ref)[1][1] ELSE [type |-> "garbage"]

Get ==
  /\ ~empty
  /\ current' = get
  /\ UNCHANGED <<cells, data_head, data_tail, pending, dropped, written, handled, lost_samples>>

(* mutant: lost records are not counted *)
CountLostNever(rec) == 0

(* the cases of the switch in read() that no subclass sees *)
CountLost(rec) == IF rec.type = "LOST" THEN rec.lost ELSE 0

HandleRecord(rec) ==
  /\ handled' = Append(handled, rec)
  /\ lost_samples' = lost_samples + CountLost(rec)
  /\ UNCHANGED <<cells, data_head, data_tail, pending, dropped, written, current>>

(* pop() calls get() again for the size *)
Pop ==
  /\ data_tail' = data_tail + get.len
  /\ current' = None
  /\ UNCHANGED <<cells, data_head, pending, dropped, written, handled, lost_samples>>
=============================================================================
