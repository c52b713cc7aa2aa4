----------------------------- MODULE ShmRingbuf -----------------------------
(***************************************************************************)
(* The shared-memory ring buffer through which an injected measurement     *)
(* library (OpenMP, CUDA, HIP) hands its events to lo2s.                   *)
(*                                                                         *)
(* The monitored process holds a RingbufWriter (rb/writer.hpp): a callback *)
(* of the measured runtime takes a timestamp, reserves room at head, fills *)
(* it in place and commits.  lo2s holds a RingbufReader (rb/reader.cpp):   *)
(* the monitor loops over empty(), get_top_event_type(), get() and pop(),  *)
(* and works on the event where it lies in the mapping.  Both sides share  *)
(* head and tail (rb/shm_ringbuf.cpp), sequentially consistent atomics of  *)
(* which the writer side alone stores head and the reader alone tail.      *)
(*                                                                         *)
(* Positions and sizes are bytes, as in the code.  The ring is mapped      *)
(* twice back to back, so a region is addressed modulo the ring size.      *)
(***************************************************************************)
EXTENDS Integers, Sequences

CONSTANTS
  Size,       (* ringbuf_header::size                                      *)
  Threads,    (* threads of the monitored process that run callbacks       *)
  EvSizes,    (* sizes of the event structs the library writes             *)
  Locked,     (* the writer holds mutex_ (ompt) or has none (gpu)          *)
  NoThread,   (* the mutex is free                                         *)
  MaxEvents   (* bound: callbacks that take a timestamp                    *)

HeaderSize == 16     \* sizeof(struct event_header)

(* (ev_size + 7) & ~7 *)
Align8(n) == 8 * ((n + 7) \div 8)

ASSUME RingAssumption ==
  /\ Size \in Nat /\ Size > 0 /\ Size % 8 = 0
  /\ EvSizes \subseteq {n \in Nat : n >= HeaderSize}
  /\ Locked \in BOOLEAN
  /\ NoThread \notin Threads
  /\ MaxEvents \in Nat

VARIABLES
  head, tail,     (* ringbuf_header::head, tail                            *)
  mem,            (* the mapped ring, by 8-byte word                       *)
  reserved_size,  (* RingbufWriter::reserved_size_                         *)
  mutex,          (* ompt::RingbufWriter::mutex_                           *)
  wpc, wev,       (* each callback: where it is, the event it writes       *)
  wat,            (* each callback: the offset reserve() gave it           *)
  rpc, rev,       (* the monitor loop: where it is, the header it read     *)
  clock,          (* the clock both sides share                            *)
  vhead, vtail,   (* history: bytes ever committed, ever popped            *)
  log,            (* history: committed events and where they start        *)
  delivered       (* history: events the monitor worked on                 *)

shared  == <<head, tail, mem>>
writer  == <<reserved_size, mutex, wpc, wev, wat, clock>>
reader  == <<rpc, rev>>
history == <<vhead, vtail, log, delivered>>
vars    == <<shared, writer, reader, history>>

Event == [tp : Nat, tid : Threads \cup {NoThread}, size : Nat]
Zero  == [tp |-> 0, tid |-> NoThread, size |-> 0]     \* memory never written

Offsets == {o \in 0 .. Size - 1 : o % 8 = 0}

(* A word of the ring holds the part of an event that starts `off` bytes   *)
(* into it.                                                                *)
Word == [ev : Event, off : Nat]

-----------------------------------------------------------------------------
(* ShmRingbuf                                                              *)

CanReserveUnchecked(n) == TRUE

(* head(ev_size) # nullptr *)
CanReserve(n) ==
  IF head >= tail
  THEN head + Align8(n) <= tail + Size
  ELSE head + Align8(n) < tail

CanBeLoadedNoWrap(n) == tail + Align8(n) <= head

(* can_be_loaded(ev_size), which is also tail(ev_size) # nullptr *)
CanBeLoaded(n) ==
  IF tail <= head
  THEN tail + Align8(n) <= head
  ELSE tail + Align8(n) <= head + Size

(* advance_head(ev_size): the new head *)
AdvanceHead(n) == (head + Align8(n)) % Size

AdvanceTailForgotten(n) == tail

(* advance_tail(ev_size): the new tail *)
AdvanceTail(n) == (tail + Align8(n)) % Size

(* The bytes [at, at + n) of the doubled mapping, as offsets of words.     *)
Region(at, n) == {o \in Offsets : (o - at) % Size < Align8(n)}

(* The event whose header lies at the tail.                                *)
Header == mem[tail].ev

(* The words from the tail on are the words of event e, from its first.    *)
HoldsEventAt(at, e) ==
  \A o \in Region(at, e.size) : mem[o] = [ev |-> e, off |-> (o - at) % Size]

-----------------------------------------------------------------------------
(* The writer: a callback of the measured runtime                          *)

(* The callback evaluates timestamp() before it calls ompt_enter or        *)
(* ompt_leave, that is, before the lock is taken.                          *)
Callback(t) ==
  /\ wpc[t] = "idle"
  /\ clock < MaxEvents
  /\ clock' = clock + 1
  /\ \E n \in EvSizes :
       wev' = [wev EXCEPT ![t] = [tp |-> clock + 1, tid |-> t, size |-> n]]
  /\ wpc' = [wpc EXCEPT ![t] = IF Locked THEN "lock" ELSE "reserve"]
  /\ UNCHANGED <<shared, reader, history, reserved_size, mutex, wat>>

MutexIgnored == TRUE

(* std::lock_guard lock(mutex_) in the ompt writer                         *)
MutexFree == mutex = NoThread

Lock(t) ==
  /\ wpc[t] = "lock"
  /\ MutexFree
  /\ mutex' = t
  /\ wpc' = [wpc EXCEPT ![t] = "reserve"]
  /\ UNCHANGED <<shared, reader, history, reserved_size, wev, wat, clock>>

Unlocked(t) == IF Locked THEN NoThread ELSE mutex

(* reserve<T>() finds room: the event is zeroed and its size is set.       *)
Reserve(t) ==
  /\ wpc[t] = "reserve"
  /\ CanReserve(wev[t].size)
  /\ reserved_size' = wev[t].size
  /\ wat' = [wat EXCEPT ![t] = head]
  /\ wpc' = [wpc EXCEPT ![t] = "write"]
  /\ mem' = [o \in Offsets |->
               IF o \in Region(head, wev[t].size)
               THEN [ev |-> [Zero EXCEPT !.size = wev[t].size],
                     off |-> (o - head) % Size]
               ELSE mem[o]]
  /\ UNCHANGED <<head, tail, reader, history, mutex, wev, clock>>

(* reserve<T>() returns nullptr: the event is dropped.                     *)
ReserveFails(t) ==
  /\ wpc[t] = "reserve"
  /\ ~CanReserve(wev[t].size)
  /\ mutex' = Unlocked(t)
  /\ wpc' = [wpc EXCEPT ![t] = "idle"]
  /\ UNCHANGED <<shared, reader, history, reserved_size, wev, wat, clock>>

(* The callback fills in the event in place.                               *)
Write(t) ==
  /\ wpc[t] = "write"
  /\ mem' = [o \in Offsets |->
               IF o \in Region(wat[t], wev[t].size)
               THEN [ev |-> wev[t], off |-> (o - wat[t]) % Size]
               ELSE mem[o]]
  /\ wpc' = [wpc EXCEPT ![t] = "commit"]
  /\ UNCHANGED <<head, tail, reader, history, reserved_size, mutex, wev, wat, clock>>

(* commit() and the end of the lock_guard's scope                          *)
Commit(t) ==
  /\ wpc[t] = "commit"
  /\ head' = AdvanceHead(reserved_size)
  /\ reserved_size' = 0
  /\ mutex' = Unlocked(t)
  /\ wpc' = [wpc EXCEPT ![t] = "idle"]
  /\ vhead' = vhead + Align8(reserved_size)
  /\ log' = Append(log, [start |-> vhead, ev |-> wev[t]])
  /\ UNCHANGED <<tail, mem, reader, wev, wat, clock, vtail, delivered>>

-----------------------------------------------------------------------------
(* The reader: one pass of a monitor's while (!empty()) loop               *)

(* The monitor enters the loop.                                            *)
Wake ==
  /\ rpc = "idle"
  /\ rpc' = "empty"
  /\ UNCHANGED <<shared, writer, history, rev>>

Empty ==
  /\ rpc = "empty"
  /\ rpc' = IF CanBeLoaded(HeaderSize) THEN "type" ELSE "idle"
  /\ UNCHANGED <<shared, writer, history, rev>>

(* get_top_event_type() throws when no header can be loaded.               *)
GetTopEventType ==
  /\ rpc = "type"
  /\ rpc' = IF CanBeLoaded(HeaderSize) THEN "get" ELSE "threw"
  /\ UNCHANGED <<shared, writer, history, rev>>

(* get<T>() returns nullptr when the header or the event cannot be loaded; *)
(* the monitors dereference what it returns.                               *)
Get ==
  /\ rpc = "get"
  /\ IF CanBeLoaded(HeaderSize) /\ CanBeLoaded(Header.size)
     THEN rpc' = "use"  /\ rev' = Header
     ELSE rpc' = "null" /\ UNCHANGED rev
  /\ UNCHANGED <<shared, writer, history>>

(* The monitor works on the event in the ring.                             *)
Use ==
  /\ rpc = "use"
  /\ delivered' = Append(delivered, Header)
  /\ rpc' = "pop"
  /\ UNCHANGED <<shared, writer, rev, vhead, vtail, log>>

(* pop() does nothing when no header can be loaded.                        *)
Pop ==
  /\ rpc = "pop"
  /\ rpc' = "empty"
  /\ IF CanBeLoaded(HeaderSize)
     THEN /\ tail' = AdvanceTail(Header.size)
          /\ vtail' = vtail + Align8(Header.size)
     ELSE UNCHANGED <<tail, vtail>>
  /\ UNCHANGED <<head, mem, writer, rev, vhead, log, delivered>>

-----------------------------------------------------------------------------
(* RingbufReader::RingbufReader zeroes the header page of a new memfd.     *)
Init ==
  /\ head = 0 /\ tail = 0
  /\ mem = [o \in Offsets |-> [ev |-> Zero, off |-> 0]]
  /\ reserved_size = 0
  /\ mutex = NoThread
  /\ wpc = [t \in Threads |-> "idle"]
  /\ wev = [t \in Threads |-> Zero]
  /\ wat = [t \in Threads |-> 0]
  /\ rpc = "idle" /\ rev = Zero
  /\ clock = 0
  /\ vhead = 0 /\ vtail = 0
  /\ log = <<>> /\ delivered = <<>>

WriterStep(t) ==
  \/ Callback(t) \/ Lock(t) \/ Reserve(t) \/ ReserveFails(t)
  \/ Write(t) \/ Commit(t)

ReaderStep == Wake \/ Empty \/ GetTopEventType \/ Get \/ Use \/ Pop

Next == ReaderStep \/ \E t \in Threads : WriterStep(t)

Spec == Init /\ [][Next]_vars

-----------------------------------------------------------------------------
(* Properties                                                              *)

(* Every variable has its type; in particular head and tail stay aligned   *)
(* offsets of the ring, as the assertions of head(), advance_tail() and    *)
(* can_be_loaded() demand.                                                 *)
TypeOK ==
  /\ head \in Offsets /\ tail \in Offsets
  /\ mem \in [Offsets -> Word]
  /\ reserved_size \in EvSizes \cup {0}
  /\ mutex \in Threads \cup {NoThread}
  /\ wpc \in [Threads -> {"idle", "lock", "reserve", "write", "commit"}]
  /\ wev \in [Threads -> Event]
  /\ wat \in [Threads -> Offsets]
  /\ rpc \in {"idle", "empty", "type", "get", "use", "pop", "threw", "null"}
  /\ rev \in Event
  /\ clock \in Nat
  /\ vhead \in Nat /\ vtail \in Nat
  /\ log \in Seq([start : Nat, ev : Event])
  /\ delivered \in Seq(Event)

(* "No other reservation can be active!": the assertion of reserve().      *)
NoOtherReservation ==
  \A t \in Threads : wpc[t] = "reserve" => reserved_size = 0

(* empty(): "Check if we can atleast load an event header, if not, there   *)
(* are no new events".  When no header can be loaded, every committed      *)
(* event has been popped.                                                  *)
EmptyMeansNothingNew == ~CanBeLoaded(HeaderSize) => vtail = vhead

(* A loop that checks empty() first finds the type and the event it asks   *)
(* for: get_top_event_type() does not throw, get() is not nullptr.         *)
ReaderNeverFaults == rpc \notin {"threw", "null"}

UnreadIntact ==
  \A i \in 1 .. Len(log) :
    log[i].start >= vtail => HoldsEventAt(log[i].start % Size, log[i].ev)

(* From get() to pop() the monitor works on the event in place: no writer  *)
(* touches a word of it, whatever the runtime's threads do meanwhile, and  *)
(* events that are committed and not yet popped lie whole in the ring.     *)
EventInUseIsStable ==
  /\ rpc \in {"use", "pop"} => HoldsEventAt(tail, rev)
  /\ UnreadIntact

(* OTF2 wants time stamps in order on each location: the events of one     *)
(* thread are delivered in the order of their time stamps, although these  *)
(* are taken before the lock is.                                           *)
ThreadOrder ==
  \A i, j \in 1 .. Len(delivered) :
    i < j /\ delivered[i].tid = delivered[j].tid => delivered[i].tp < delivered[j].tp

(* The ring is a queue: each committed event is delivered exactly once, in *)
(* commit order.                                                           *)
Queue == INSTANCE EventQueue
           WITH put <- [i \in 1 .. Len(log) |-> log[i].ev], got <- delivered
IsQueue == Queue!Spec

=============================================================================
