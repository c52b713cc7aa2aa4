---------------------------- MODULE PerfRecording ----------------------------
(***************************************************************************)
(* One perf reader of a scope from its creation to its destruction: the    *)
(* synchronisation of the clocks, the poll loop of its monitor thread, the *)
(* mmap buffer (EventReader) and what each kind of writer makes of the     *)
(* records.  Kinds: "thread" and "cpu" are perf::sample::Writer on the two *)
(* kinds of scope, "syscall", "tracepoint", "group" and "userspace" are    *)
(* the writers of these names.                                             *)
(***************************************************************************)
EXTENDS EventReader, CounterBuffer, Integers, SequencesExt

CONSTANTS
  Kinds,       (* the kinds of readers that are looked at                *)
  MaxClock,    (* bound: last instant                                    *)
  Skews,       (* differences of the perf clock and the clock of lo2s    *)
  Tolerance,   (* the 100 microseconds of the converter                  *)
  MaxCount     (* bound: what the hardware counter counts                *)

ASSUME ClockAssumption == Skews \subseteq Int /\ Tolerance \in Nat

VARIABLES
  kind, pc, phase,
  clock, skew, offset, synced,
  enabled,     (* the events are enabled: the kernel writes records      *)
  stopping,    (* stop() was called                                      *)
  atStop,      (* history: records committed when it was                 *)
  panicked,    (* the poll loop ended for unexpected flags               *)
  w,           (* members of the sample and syscall writers              *)
  hw,          (* the hardware counter                                   *)
  buffer,      (* counter_buffer_                                        *)
  cached_mmap_events,
  out          (* the events of the location, in the order written       *)

rest == <<kind, pc, phase, clock, skew, offset, synced, enabled, stopping, atStop, panicked, w, hw,
          buffer, cached_mmap_events, out>>
vars == <<ring, rest>>

clocks == <<clock, skew, offset, synced>>
monitor == <<kind, enabled, stopping, atStop, panicked>>
writer == <<w, buffer, cached_mmap_events, out>>

Sampling == kind \in {"thread", "cpu"}

(***************************************************************************)
(* Clocks                                                                  *)
(***************************************************************************)
(* The offset is local time minus perf time at the synchronisation event;  *)
(* with a common clock id small differences are taken for its latency.     *)
Offset(clockid, triggered, local_time, perf_time) ==
  LET time_diff == local_time - perf_time
  IN IF ~triggered THEN 0
     ELSE IF clockid /\ time_diff >= -Tolerance /\ time_diff <= 0 THEN 0
     ELSE time_diff

Convert(perf_raw) == perf_raw + offset

Now == clock

(***************************************************************************)
(* The kernel's records                                                    *)
(***************************************************************************)
(* A stamp is taken before the record is committed: samples, which are     *)
(* taken in interrupts, may be stamped before the record in front of them. *)
Stamps == {t \in {clock - 1, clock} : t >= 0}

Readings == IF kind = "group"
              THEN <<Reading(hw.value, hw.time_enabled, hw.time_running),
                     Reading(2 * hw.value, hw.time_enabled, hw.time_running)>>
              ELSE <<>>

(* OTHER: COMM, FORK, EXIT and THROTTLE records, which change neither clock nor location *)
Timed(type, t) == [type |-> type, time |-> t + skew]

Records ==
  LET sample == {Timed("SAMPLE", t) : t \in Stamps}
  IN IF Sampling
       THEN sample \cup {Timed("SWITCH_OUT", clock), Timed("SWITCH_IN", clock),
                         [type |-> "MMAP"], [type |-> "OTHER"]}
       ELSE IF kind = "syscall"
         THEN {Timed("SYS_ENTER", t) : t \in Stamps} \cup {Timed("SYS_EXIT", t) : t \in Stamps}
         ELSE IF kind = "group"
           THEN {[type |-> "SAMPLE", time |-> clock + skew, v |-> Readings]}
           ELSE sample

(***************************************************************************)
(* The writers: each gives the new members and the events it writes        *)
(***************************************************************************)
Event(type, tp) == [type |-> type, time |-> tp]

If(c, ev) == IF c THEN <<ev>> ELSE <<>>

(* mutant: times are taken as they come *)
AdjustNever(tp) == tp

(* adjust_timepoints(): perf times can not be trusted to be in order *)
adjust_timepoints(tp) == IF w.last > tp THEN w.last ELSE tp

(* update_calling_context(): leave the process, or begin the thread once   *)
(* and enter it                                                            *)
UpdateEvents(tp, switch_out) ==
  IF switch_out
    THEN If(w.inside, Event("leave", tp))
    ELSE If(w.first_event /\ kind = "thread", Event("thread_begin", tp)) \o If(~w.inside, Event("enter", tp))

UpdateWriter(tp, switch_out) ==
  [w EXCEPT !.last = tp, !.inside = ~switch_out,
            !.first_event = @ /\ ~(~switch_out /\ kind = "thread")]

SampleHandle(rec) ==
  IF rec.type \in {"SAMPLE", "SWITCH_IN", "SWITCH_OUT"}
    THEN LET tp  == adjust_timepoints(Convert(rec.time))
             sw  == rec.type = "SWITCH_OUT"
         IN /\ w' = UpdateWriter(tp, sw)
            /\ out' = out \o UpdateEvents(tp, sw)
                          \o If(rec.type = "SAMPLE", Event("sample", tp))
                          \o If(rec.type # "SAMPLE" /\ kind = "thread", Event("cpuid", tp))
            /\ UNCHANGED <<cached_mmap_events, buffer>>
    ELSE /\ cached_mmap_events' = cached_mmap_events \o If(rec.type = "MMAP", rec)
         /\ UNCHANGED <<w, out, buffer>>

SyscallHandle(rec) ==
  LET tp    == Convert(rec.time)
      enter == rec.type = "SYS_ENTER"
  IN /\ w' = [w EXCEPT !.last = tp, !.inside = enter]
     /\ out' = out \o If(enter # w.inside, Event(IF enter THEN "enter" ELSE "leave", tp))
     /\ UNCHANGED <<cached_mmap_events, buffer>>

TracepointHandle(rec) ==
  /\ out' = Append(out, Event("metric", Convert(rec.time)))
  /\ UNCHANGED <<w, cached_mmap_events, buffer>>

(* CounterCollection::get_scale(): 0 is the leader *)
Leader == 1
Counter == 3
get_scale(collection, index) ==
  IF index = 0 THEN collection.leader ELSE collection.counters[index]

GroupCollection == [leader |-> Leader, counters |-> <<Counter>>]
UserspaceCollection == [leader |-> 0, counters |-> <<Counter>>]

GroupValues(buf) ==
  [i \in DOMAIN buf.accumulated |-> buf.accumulated[i] * get_scale(GroupCollection, i - 1)]
    \o <<buf.previous[1].time_enabled, buf.previous[1].time_running>>

UserspaceValues(buf) ==
  [i \in DOMAIN buf.accumulated |-> buf.accumulated[i] * get_scale(UserspaceCollection, i)]

GroupHandle(rec) ==
  LET buf == read(buffer, rec.v)
  IN /\ buffer' = buf
     /\ out' = Append(out, [type |-> "metric", time |-> Convert(rec.time), values |-> GroupValues(buf)])
     /\ UNCHANGED <<w, cached_mmap_events>>

handle(rec) ==
  \/ rec.type = "LOST" /\ UNCHANGED <<w, out, buffer, cached_mmap_events>>
  \/ rec.type # "LOST" /\ Sampling /\ SampleHandle(rec)
  \/ rec.type # "LOST" /\ kind = "syscall" /\ SyscallHandle(rec)
  \/ rec.type # "LOST" /\ kind = "tracepoint" /\ TracepointHandle(rec)
  \/ rec.type # "LOST" /\ kind = "group" /\ GroupHandle(rec)

(* userspace::Reader::read(): all counters are read when the timer expires *)
UserspaceRead ==
  LET buf == read(buffer, <<Reading(hw.value, hw.time_enabled, hw.time_running)>>)
  IN /\ buffer' = buf
     /\ out' = Append(out, [type |-> "metric", time |-> Now, values |-> UserspaceValues(buf)])
     /\ UNCHANGED <<w, cached_mmap_events>>

(* sample::Writer::end(), for threads *)
EndEvents(last) ==
  If(w.first_event, Event("thread_begin", w.first)) \o <<Event("thread_end", last)>>

End ==
  IF kind = "thread"
    THEN LET last == adjust_timepoints(Now)
         IN w' = [w EXCEPT !.last = last] /\ out' = out \o EndEvents(last)
    ELSE UNCHANGED <<w, out>>

(***************************************************************************)
(* Steps                                                                   *)
(***************************************************************************)
Init ==
  /\ RingInit
  /\ kind \in Kinds /\ skew \in Skews
  /\ pc = "sync" /\ phase = "measure"
  /\ clock = 0 /\ offset = 0 /\ synced = FALSE
  /\ enabled = FALSE /\ stopping = FALSE /\ atStop = 0 /\ panicked = FALSE
  /\ w = [first_event |-> TRUE, first |-> 0, last |-> 0, inside |-> FALSE]
  /\ hw = Reading(0, 0, 0)
  /\ buffer = NewBuffer(IF kind = "group" THEN 2 ELSE 1)
  /\ cached_mmap_events = <<>> /\ out = <<>>

(* The write of local_time triggers a record some time after now() was     *)
(* taken; the event may also fail to open or not be triggered.  A common   *)
(* clock id means that the clocks do not differ.                           *)
Synchronize ==
  /\ pc = "sync"
  /\ \E latency \in 0 .. Tolerance + 1, triggered \in BOOLEAN :
       /\ triggered \/ latency = 0
       /\ offset' = Offset(skew = 0, triggered, clock, clock + latency + skew)
       /\ synced' = triggered
       /\ clock' = clock + latency
  /\ pc' = "create"
  /\ UNCHANGED <<ring, monitor, writer, phase, skew, hw>>

(* constructors of readers and writers: map the buffer, enable the events *)
Create ==
  /\ pc = "create"
  /\ enabled' = TRUE
  /\ w' = [w EXCEPT !.first = Now, !.last = Now]
  /\ pc' = "poll"
  /\ UNCHANGED <<ring, clocks, kind, phase, stopping, atStop, panicked, hw, buffer, cached_mmap_events, out>>

Tick ==
  /\ enabled /\ clock < MaxClock /\ pc \notin {"destroy", "done"}
  /\ clock' = clock + 1
  /\ UNCHANGED <<ring, monitor, writer, pc, phase, skew, offset, synced, hw>>

Count ==
  /\ enabled /\ kind \in {"group", "userspace"}
  /\ \E de \in 1 .. 2, dr \in 0 .. 2, dv \in 0 .. 1 :
       /\ dr <= de /\ (dr = 0 => dv = 0)
       /\ hw.time_enabled + de <= MaxCount
       /\ hw' = Reading(hw.value + dv, hw.time_enabled + de, hw.time_running + dr)
  /\ UNCHANGED <<ring, clocks, monitor, writer, pc, phase>>

Write ==
  /\ enabled /\ kind # "userspace"
  /\ \E rec \in Records : KernelPut(rec) \/ KernelDrop(rec)
  /\ UNCHANGED rest

Stop ==
  /\ pc \notin {"sync", "create"} /\ ~stopping
  /\ stopping' = TRUE
  /\ atStop' = Len(written)
  /\ UNCHANGED <<ring, clocks, writer, kind, pc, phase, enabled, panicked, hw>>

(* mutant: the stop descriptor is looked at before the others *)
PollStopFirst ==
  /\ pc = "poll"
  /\ stopping \/ ~empty \/ kind = "userspace"
  /\ pc' = IF stopping THEN "finalize" ELSE IF kind = "userspace" THEN "timer" ELSE "loop"
  /\ phase' = IF stopping THEN "last" ELSE "measure"
  /\ UNCHANGED <<ring, clocks, monitor, writer, hw>>

(* PollMonitor::run(): a round, the last one if stop() was called by now *)
Poll ==
  /\ pc = "poll"
  /\ stopping \/ ~empty \/ kind = "userspace"
  /\ pc' = IF kind = "userspace" THEN "timer" ELSE "loop"
  /\ phase' = IF stopping THEN "last" ELSE "measure"
  /\ UNCHANGED <<ring, clocks, monitor, writer, hw>>

(* POLLHUP: the thread has exited *)
Panic ==
  /\ pc = "poll" /\ kind = "thread"
  /\ panicked' = TRUE
  /\ pc' = "finalize"
  /\ UNCHANGED <<ring, clocks, writer, kind, phase, enabled, stopping, atStop, hw>>

Timer ==
  /\ pc = "timer" /\ Len(out) < Attempts
  /\ UserspaceRead
  /\ pc' = IF phase = "last" THEN "finalize" ELSE "poll"
  /\ UNCHANGED <<ring, clocks, monitor, phase, hw>>

(* the loop of EventReader::read() *)
GetNext ==
  /\ pc = "loop" /\ Get
  /\ pc' = "handle"
  /\ UNCHANGED <<clocks, monitor, writer, phase, hw>>

Handle ==
  /\ pc = "handle"
  /\ HandleRecord(RecordIn(current))
  /\ handle(RecordIn(current))
  /\ pc' = "pop"
  /\ UNCHANGED <<clocks, monitor, phase, hw>>

PopRecord ==
  /\ pc = "pop" /\ Pop
  /\ pc' = "loop"
  /\ UNCHANGED <<clocks, monitor, writer, phase, hw>>

AfterLoop(ph) == IF ph = "measure" THEN "poll" ELSE IF ph = "last" THEN "finalize" ELSE "destroy"

Emptied ==
  /\ pc = "loop" /\ empty
  /\ pc' = AfterLoop(phase)
  /\ UNCHANGED <<ring, clocks, monitor, writer, phase, hw>>

(* syscall::Reader::stop() disables both events *)
StillEnabled == enabled /\ kind # "syscall"

(* ScopeMonitor::finalize_thread(): end(), or stop() of the system calls,  *)
(* which disables the events and reads what they left                      *)
Finalize ==
  /\ pc = "finalize"
  /\ End
  /\ enabled' = StillEnabled
  /\ phase' = "flush"
  /\ pc' = IF kind = "syscall" THEN "loop" ELSE "destroy"
  /\ UNCHANGED <<ring, clocks, kind, stopping, atStop, panicked, hw, buffer, cached_mmap_events>>

(* ~Writer(): leave what is still entered *)
Destroy ==
  /\ pc = "destroy"
  /\ out' = out \o If(w.inside, Event("leave", w.last))
  /\ w' = [w EXCEPT !.inside = FALSE]
  /\ enabled' = FALSE
  /\ pc' = "done"
  /\ UNCHANGED <<ring, clocks, kind, phase, stopping, atStop, panicked, hw, buffer, cached_mmap_events>>

Next ==
  \/ Synchronize \/ Create \/ Tick \/ Count \/ Write \/ Stop
  \/ Poll \/ Panic \/ Timer \/ GetNext \/ Handle \/ PopRecord \/ Emptied \/ Finalize \/ Destroy

Spec == Init /\ [][Next]_vars

(***************************************************************************)
(* Properties                                                              *)
(***************************************************************************)
(* handle() gets what the kernel committed, record by record, whole and in *)
(* order, however the buffer wraps and whatever is written meanwhile.      *)
DeliveredIntact == IsPrefix(handled, written)

(* The losses that the first n committed records report.                   *)
Reported[n \in 0 .. Len(written)] ==
  IF n = 0 THEN 0 ELSE Reported[n - 1] + CountLost(written[n])

(* Every dropped record is reported to the user once: lost_samples is what *)
(* the handled records report, and every loss is in a PERF_RECORD_LOST or  *)
(* the kernel still has to report it.                                      *)
LossAccounted ==
  /\ lost_samples = Reported[Len(handled)]
  /\ Reported[Len(written)] + pending = dropped

(* A monitor that is stopped in the regular way has handled all records    *)
(* committed before stop() was called; of system calls really all.         *)
StopDrains ==
  pc = "done" /\ ~panicked =>
    /\ Len(handled) >= atStop
    /\ kind = "syscall" => handled = written

(* The begin event that end() writes for a thread of which no switch or    *)
(* sample was seen carries the time at which the writer was made.          *)
LateBegin(ev) == ev.type = "thread_begin" /\ ev.time = w.first

(* Events of a sampled location come in time order although the records    *)
(* do not, and none is stamped later than the clock that wrote it, if the  *)
(* clocks were synchronised.                                               *)
TimesInOrder ==
  /\ Sampling => \A i, j \in DOMAIN out :
       i < j /\ ~LateBegin(out[i]) /\ ~LateBegin(out[j]) => out[i].time <= out[j].time
  /\ synced => \A i \in DOMAIN out : out[i].time <= clock

(* What the last metric event says of each counter is at least what the    *)
(* counter counted, times the scale of that counter, and exactly that if   *)
(* it was never multiplexed, although reads are lost with their records.   *)
CounterFaithful ==
  \A i \in DOMAIN out : out[i].type = "metric" /\ kind \in {"group", "userspace"} =>
    \A c \in DOMAIN buffer.accumulated :
      LET last  == buffer.previous[c]
          exact == last.value * Unit * (IF kind = "userspace" \/ c = 2 THEN Counter ELSE Leader)
          shown == out[Len(out)].values[c]
      IN shown >= exact /\ (last.time_enabled = last.time_running => shown = exact)
=============================================================================
