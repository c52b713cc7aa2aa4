---------------------------- MODULE MultiReader -----------------------------
(***************************************************************************)
(* Block I/O recording.  The kernel fills one perf buffer per CPU and      *)
(* tracepoint; the IoMonitor thread merges them by time (MultiReader::     *)
(* read()) into the one Writer of BioWriter.  An event has its time stamp  *)
(* before it becomes visible in its buffer, and buffers are looked at one  *)
(* after the other while the kernel goes on: an event may turn up after    *)
(* later ones were written, and is then dropped, because OTF2 wants times  *)
(* that never decrease.                                                    *)
(*                                                                         *)
(* One round of the inner loop of read() is one step: only this thread     *)
(* removes events, and the kernel only appends behind the one looked at.   *)
(***************************************************************************)
EXTENDS BioWriter, SequencesExt

CONSTANTS
  Readers,     (* the keys of readers_: pairs of CPU and tracepoint        *)
  Position,    (* their order in the map: by CPU, then event attribute     *)
  Blocks,      (* pairs of device and sector                               *)
  Sizes,       (* bytes of a request                                       *)
  NoReader,    (* state is not set                                         *)
  MaxEvents    (* bound: tracepoint events the kernel records              *)

ASSUME ReadersAssumption ==
  /\ Readers # {}
  /\ \A r \in Readers : r[2] \in Tracepoints
  /\ Position \in [Readers -> Nat]
  /\ \A r, s \in Readers : Position[r] = Position[s] => r = s
  /\ Sizes \subseteq Nat
  /\ NoReader \notin Readers
  /\ MaxEvents \in Nat

VARIABLES
  clock,       (* the kernel's clock                                       *)
  count,       (* events recorded so far                                   *)
  enabled,     (* readers whose perf event is enabled                      *)
  pending,     (* per reader: stamped events that are not yet visible      *)
  buf,         (* per reader: the events of its perf buffer                *)
  pc,          (* where the IoMonitor thread is                            *)
  finalizing,  (* finalize() has begun                                     *)
  scan,        (* readers the first loop of read() has still to look at    *)
  pq,          (* earliest_available                                       *)
  cur,         (* state.identity of the outer loop                         *)
  highest,     (* highest_written_                                         *)
  w,           (* the Writer                                               *)
  old,         (* history: events of buf[r] seen by the start of read()    *)
  floor        (* history: highest_written_ at the start of read()         *)

kernel  == <<clock, count, enabled, pending>>
history == <<old, floor>>
vars == <<clock, count, enabled, pending, buf, pc, finalizing, scan, pq, cur,
          highest, w, old, floor>>

Events == [time : Nat, block : Blocks, size : Sizes, rw : BOOLEAN]
Operations == [op : {"begin", "issued", "complete"}, time : Int,
               block : Blocks, size : Nat]
Writers == [known : SUBSET {b[1] : b \in Blocks}, cached : SUBSET Blocks,
            bytes : [Blocks -> Nat], out : Seq(Operations)]

(* Types, and that the parts of the reader's state belong together.        *)
TypeOK ==
  /\ clock \in Nat /\ count \in 0..MaxEvents /\ highest \in 0..clock
  /\ enabled \subseteq Readers
  /\ pending \in [Readers -> Seq(Events)] /\ buf \in [Readers -> Seq(Events)]
  /\ pc \in {"poll", "stop", "scan", "pick", "loop", "done"}
  /\ finalizing \in BOOLEAN
  /\ ~finalizing => enabled = Readers /\ pc \notin {"stop", "done"}
  /\ finalizing /\ pc # "stop" => enabled = {} /\ pc # "poll"
  /\ scan \subseteq Readers /\ (pc # "scan" => scan = {})
  /\ pq \subseteq [time : 0..clock, reader : Readers]
  /\ IF pc = "loop" THEN cur \in Readers ELSE cur = NoReader
  /\ \A s, t \in pq : s.reader = t.reader => s = t
  /\ \A s \in pq : s.reader \notin scan \cup {cur}
  /\ pc \notin {"scan", "pick", "loop"} => pq = {}
  /\ old \in [Readers -> Nat] /\ floor \in Nat
  /\ w \in Writers /\ \A b \in w.cached : b[1] \in w.known

Init ==
  /\ clock = 1 /\ count = 0 /\ enabled = Readers
  /\ pending = [r \in Readers |-> <<>>] /\ buf = [r \in Readers |-> <<>>]
  /\ pc = "poll" /\ finalizing = FALSE /\ scan = {} /\ pq = {}
  /\ cur = NoReader /\ highest = 0
  /\ w = EmptyWriter(Blocks)
  /\ old = [r \in Readers |-> 0] /\ floor = 0

-----------------------------------------------------------------------------
(* The kernel                                                              *)

(* An event of reader r is stamped, with the time of the last one or a     *)
(* later one.  Only queue events carry their size and direction.           *)
Record(r) ==
  /\ r \in enabled /\ count < MaxEvents
  /\ clock' \in {clock, clock + 1}
  /\ count' = count + 1
  /\ \E b \in Blocks, s \in Sizes, rw \in BOOLEAN :
       /\ r[2] # QUEUE => rw /\ \A t \in Sizes : s <= t
       /\ pending' = [pending EXCEPT ![r] = Append(@,
            [time |-> clock', block |-> b, size |-> s, rw |-> rw])]
  /\ UNCHANGED <<enabled, buf, pc, finalizing, scan, pq, cur, highest, w, history>>

(* The kernel moves data_head past the oldest stamped event.               *)
Publish(r) ==
  /\ pending[r] # <<>>
  /\ buf' = [buf EXCEPT ![r] = Append(@, Head(pending[r]))]
  /\ pending' = [pending EXCEPT ![r] = Tail(@)]
  /\ UNCHANGED <<clock, count, enabled, pc, finalizing, scan, pq, cur, highest,
                 w, history>>

-----------------------------------------------------------------------------
(* The IoMonitor thread                                                    *)

StartRead ==
  /\ pc' = "scan" /\ scan' = Readers
  /\ old' = [r \in Readers |-> Len(buf[r])] /\ floor' = highest
  /\ UNCHANGED <<kernel, buf, pq, cur, highest, w>>

(* poll() returns and monitor(fd) calls read().                            *)
Poll ==
  /\ pc = "poll"
  /\ StartRead
  /\ UNCHANGED finalizing

(* The loop ends, and finalize_thread() calls finalize().                  *)
Stop ==
  /\ pc = "poll"
  /\ pc' = "stop" /\ finalizing' = TRUE
  /\ UNCHANGED <<kernel, buf, scan, pq, cur, highest, w, history>>

(* reader.second.stop(): the ioctl returns when no event is under way.     *)
Disable(r) ==
  /\ pc = "stop" /\ r \in enabled /\ pending[r] = <<>>
  /\ enabled' = enabled \ {r}
  /\ UNCHANGED <<clock, count, pending, buf, pc, finalizing, scan, pq, cur,
                 highest, w, history>>

FlushOmitted ==
  /\ pc = "stop" /\ enabled = {}
  /\ pc' = "done"
  /\ UNCHANGED <<kernel, buf, finalizing, scan, pq, cur, highest, w, history>>

(* The last read() of finalize().                                          *)
Flush ==
  /\ pc = "stop" /\ enabled = {}
  /\ StartRead
  /\ UNCHANGED finalizing

(* First loop: push the time of the reader's first event.                  *)
Scan(r) ==
  /\ pc = "scan" /\ r \in scan /\ \A o \in scan : Position[r] <= Position[o]
  /\ scan' = scan \ {r}
  /\ pq' = IF buf[r] = <<>> THEN pq
           ELSE pq \cup {[time |-> Head(buf[r]).time, reader |-> r]}
  /\ pc' = IF scan = {r} THEN "pick" ELSE "scan"
  /\ UNCHANGED <<kernel, buf, finalizing, cur, highest, w, history>>

(* std::greater<ReaderState>; which of two equal times goes first depends  *)
(* on the bytes of the event attributes, and is left open.                 *)
IsTop(s) == s \in pq /\ \A o \in pq : s.time <= o.time

(* Second loop: take the earliest state, or leave read().                  *)
Pick ==
  /\ pc = "pick"
  /\ \/ \E s \in pq :
          /\ IsTop(s)
          /\ pq' = pq \ {s} /\ cur' = s.reader /\ pc' = "loop"
          /\ UNCHANGED history
     \/ /\ pq = {}
        /\ pc' = IF finalizing THEN "done" ELSE "poll"
        /\ old' = [r \in Readers |-> 0] /\ floor' = 0
        /\ UNCHANGED <<pq, cur>>
  /\ UNCHANGED <<kernel, buf, finalizing, scan, highest, w>>

MustWaitNever(e) == FALSE

(* The event is not the earliest any more: another reader's turn.          *)
MustWait(e) == \E s \in pq : e.time > s.time

IsLateNever(e) == FALSE

IsLate(e) == e.time < highest

pop(r) ==
  /\ buf' = [buf EXCEPT ![r] = Tail(@)]
  /\ old' = [old EXCEPT ![r] = IF @ = 0 THEN 0 ELSE @ - 1]
  /\ UNCHANGED floor

(* One round of the inner loop.                                            *)
NoMore ==
  /\ pc = "loop" /\ buf[cur] = <<>>
  /\ pc' = "pick" /\ cur' = NoReader
  /\ UNCHANGED <<kernel, buf, finalizing, scan, pq, highest, w, history>>

PushBack ==
  /\ pc = "loop" /\ buf[cur] # <<>> /\ MustWait(Head(buf[cur]))
  /\ pq' = pq \cup {[time |-> Head(buf[cur]).time, reader |-> cur]}
  /\ pc' = "pick" /\ cur' = NoReader
  /\ UNCHANGED <<kernel, buf, finalizing, scan, highest, w, history>>

DropNotPopped ==
  /\ pc = "loop" /\ buf[cur] # <<>>
  /\ ~MustWait(Head(buf[cur])) /\ IsLate(Head(buf[cur]))
  /\ UNCHANGED vars

Drop ==
  /\ pc = "loop" /\ buf[cur] # <<>>
  /\ ~MustWait(Head(buf[cur])) /\ IsLate(Head(buf[cur]))
  /\ pop(cur)
  /\ UNCHANGED <<kernel, pc, finalizing, scan, pq, cur, highest, w>>

Write ==
  /\ pc = "loop" /\ buf[cur] # <<>>
  /\ LET e == Head(buf[cur]) IN
       /\ ~MustWait(e) /\ ~IsLate(e)
       /\ w' = write(w, cur[2], e)
       /\ highest' = e.time
  /\ pop(cur)
  /\ UNCHANGED <<kernel, pc, finalizing, scan, pq, cur>>

(* The monitor has ended; nothing happens any more.                        *)
Done == pc = "done" /\ UNCHANGED vars

Monitor ==
  \/ Poll \/ Flush \/ Pick \/ NoMore \/ PushBack \/ Drop \/ Write
  \/ \E r \in Readers : Disable(r) \/ Scan(r)

Next ==
  \/ \E r \in Readers : Record(r) \/ Publish(r)
  \/ Monitor \/ Stop \/ Done

Spec == Init /\ [][Next]_vars

(* The thread is scheduled, and the kernel finishes what it has stamped.   *)
FairSpec ==
  /\ Spec
  /\ WF_vars(Monitor)
  /\ \A r \in Readers : WF_vars(Publish(r))

-----------------------------------------------------------------------------
(* OTF2 gets times that never decrease.                                    *)
TimeOrdered ==
  \A i, j \in DOMAIN w.out : i < j => w.out[i].time <= w.out[j].time

(* An event that was there when read() began, and was not late then, is    *)
(* not lost to the order in which read() goes through the buffers.         *)
NoNeedlessDrop ==
  [][Drop /\ old[cur] > 0 => Head(buf[cur]).time < floor]_vars

(* When finalize() has returned every recorded event was written, left out *)
(* by the writer, or dropped as late.                                      *)
AllConsumed ==
  pc = "done" => \A r \in Readers : buf[r] = <<>> /\ pending[r] = <<>>

Bytes(op, b) ==
  FoldLeft(LAMBDA sum, o : IF o.op = op /\ o.block = b THEN sum + o.size ELSE sum,
           0, w.out)

BytesConserved ==
  \A b \in Blocks : Bytes("begin", b) = Bytes("complete", b) + w.bytes[b]

(* finalize() returns, and then, for every block, the bytes of the         *)
(* operations that have ended and of those still in sector_cache_ are the  *)
(* bytes that were begun.                                                  *)
FinalizeReturns == pc = "stop" ~> (pc = "done" /\ BytesConserved)
=============================================================================
