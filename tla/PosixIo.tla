------------------------------- MODULE PosixIo -------------------------------
(***************************************************************************)
(* POSIX I/O recording.  BPF programs at the system calls of the threads   *)
(* in the map pids put records into a ring, which drops what does not fit; *)
(* the thread of PosixMonitor makes OTF2 events of them.  A record also    *)
(* carries the file it is about, which lo2s does not see.                  *)
(***************************************************************************)
EXTENDS Integers, Sequences, FiniteSets

CONSTANTS
  Threads,
  TableOf,     (* thread -> the table of descriptors it uses            *)
  Fds,         (* descriptors other than stdin, stdout and stderr       *)
  Names,       (* names of files                                        *)
  RingSize,    (* records the ring holds                                *)
  MaxCalls     (* bound: system calls                                   *)

ASSUME DescriptorsAssumption == Fds \subseteq Nat \ 0 .. 2 /\ TableOf \in [Threads -> Threads]

VARIABLES
  files,       (* kernel: table -> fd -> [name, nr] or NoFile           *)
  opened, calls,
  silent,      (* history: was a file of a recorded thread replaced or  *)
               (* closed by a call that sends no record                 *)
  sys,         (* the system call a thread is in                        *)
  pids,        (* BPF map: the threads to record                        *)
  inserting,   (* the thread that insert_thread() is at work on         *)
  open_cache,  (* BPF map: thread -> name of the file it opens          *)
  rb, lost,    (* the ring; history: was a record dropped               *)
  last,        (* last_fd_, last_buf_: thread -> [fd, buf]              *)
  instance_,   (* <<thread, fd>> -> number of reuses                    *)
  handles,     (* definitions: handle -> name                           *)
  out,         (* history: the events                                   *)
  polling, stop_, ended

vars == <<files, opened, calls, silent, sys, pids, inserting, open_cache, rb, lost, last, instance_, handles, out, polling, stop_, ended>>
kernel == <<files, opened, calls, silent, sys>>
threads == <<pids, inserting>>
bpf == <<open_cache, rb, lost>>
monitor == <<last, instance_, handles, out>>
loop == <<polling, stop_, ended>>

(* map[key] = value                                                        *)
With(map, key, value) == [k \in DOMAIN map \cup {key} |-> IF k = key THEN value ELSE map[k]]

NoFile == [name |-> "", nr |-> 0]
User == [call |-> "none", name |-> ""]

Init ==
  /\ files = [t \in Threads |-> [fd \in Fds |-> NoFile]]
  /\ opened = 0 /\ calls = 0 /\ silent = FALSE
  /\ sys = [t \in Threads |-> User]
  /\ pids = {} /\ inserting = {} /\ open_cache = <<>>
  /\ rb = <<>> /\ lost = FALSE
  /\ last = <<>> /\ instance_ = <<>> /\ handles = <<>> /\ out = <<>>
  /\ polling = TRUE /\ stop_ = FALSE /\ ended = FALSE

(***************************************************************************)
(* The BPF programs                                                        *)
(***************************************************************************)
File(t, fd) == files[TableOf[t]][fd]

Record(type, t, fd, buf, file, name) ==
  [type |-> type, pid |-> t, fd |-> fd, buf |-> buf, file |-> file, name |-> name]

(* bpf_ringbuf_reserve() fails when the ring is full *)
Submit(t, rec) ==
  IF t \notin pids THEN UNCHANGED <<rb, lost>>
  ELSE IF Len(rb) < RingSize THEN rb' = Append(rb, rec) /\ UNCHANGED lost
  ELSE lost' = TRUE /\ UNCHANGED rb

Calls(t) == sys[t] = User /\ calls < MaxCalls /\ calls' = calls + 1

do_filp_open(t, name) ==
  /\ Calls(t)
  /\ sys' = [sys EXCEPT ![t] = [call |-> "open", name |-> name]]
  /\ open_cache' = IF t \in pids THEN With(open_cache, t, name) ELSE open_cache
  /\ UNCHANGED <<files, opened, silent, rb, lost, threads, monitor, loop>>

(* the lowest free descriptor, or an error *)
handle_openat_ret(t) ==
  LET free == {fd \in Fds : File(t, fd) = NoFile}
      fd   == CHOOSE n \in free : \A k \in free : n <= k
      file == [name |-> sys[t].name, nr |-> opened + 1]
  IN /\ sys[t].call = "open"
     /\ sys' = [sys EXCEPT ![t] = User]
     /\ \/ UNCHANGED <<files, opened, rb, lost>>
        \/ /\ free # {}
           /\ files' = [files EXCEPT ![TableOf[t]][fd] = file]
           /\ opened' = opened + 1
           /\ IF t \in DOMAIN open_cache
                THEN Submit(t, Record("OPEN", t, fd, 0, file, open_cache[t]))
                ELSE UNCHANGED <<rb, lost>>
     /\ UNCHANGED <<calls, silent, open_cache, threads, monitor, loop>>

(* Calls that no program is attached to: dup(), socket(), pipe() and the   *)
(* like take a free descriptor, dup2() and dup3() one that may be open,    *)
(* close_range() and the close-on-exec of execve() close one.              *)
OtherCall(t) ==
  /\ Calls(t)
  /\ \E fd \in Fds, file \in {NoFile, [name |-> "", nr |-> opened + 1]} :
       /\ file # File(t, fd)
       /\ files' = [files EXCEPT ![TableOf[t]][fd] = file]
       /\ silent' = (silent \/ (t \in pids /\ File(t, fd) # NoFile))
  /\ opened' = opened + 1
  /\ UNCHANGED <<sys, threads, bpf, monitor, loop>>

(* at sys_enter: also of a descriptor that is not open *)
handle_close(t, fd) ==
  /\ Calls(t)
  /\ Submit(t, Record("CLOSE", t, fd, 0, File(t, fd), ""))
  /\ files' = [files EXCEPT ![TableOf[t]][fd] = NoFile]
  /\ UNCHANGED <<opened, silent, sys, open_cache, threads, monitor, loop>>

(* likewise; each call has a buffer of its own *)
handle_enter_rw(t, fd) ==
  /\ Calls(t)
  /\ sys' = [sys EXCEPT ![t] = [call |-> "rw", name |-> ""]]
  /\ Submit(t, Record("ENTER", t, fd, calls', File(t, fd), ""))
  /\ UNCHANGED <<files, opened, silent, open_cache, threads, monitor, loop>>

(* the exit records name neither descriptor nor buffer *)
handle_exit_rw(t) ==
  /\ sys[t].call = "rw"
  /\ sys' = [sys EXCEPT ![t] = User]
  /\ Submit(t, Record("EXIT", t, -1, 0, NoFile, ""))
  /\ UNCHANGED <<files, opened, calls, silent, open_cache, threads, monitor, loop>>

(***************************************************************************)
(* PosixMonitor                                                            *)
(***************************************************************************)
(* last_fd_[thread], last_buf_[thread]: operator[] makes an entry of zeros *)
Noted(t) == IF t \in DOMAIN last THEN last[t] ELSE [fd |-> 0, buf |-> 0]

(* The two statements of insert_thread(): records that the program sends   *)
(* at once may be handled between them.                                    *)
insert_thread(t) ==
  /\ t \notin pids /\ inserting = {} /\ sys[t].call # "exited" /\ ~stop_
  /\ pids' = pids \cup {t} /\ inserting' = {t}
  /\ UNCHANGED <<kernel, bpf, monitor, loop>>

insert_last_fd(t) ==
  /\ t \in inserting
  /\ inserting' = {}
  /\ last' = With(last, t, [fd |-> -1, buf |-> Noted(t).buf])
  /\ UNCHANGED <<kernel, bpf, pids, instance_, handles, out, loop>>

(* threads that exit make no more calls *)
exit_thread(t) ==
  /\ t \in pids /\ inserting = {} /\ sys[t] = User /\ ~stop_
  /\ pids' = pids \ {t}
  /\ sys' = [sys EXCEPT ![t].call = "exited"]
  /\ UNCHANGED <<files, opened, calls, silent, inserting, bpf, monitor, loop>>

Instance(t, fd) == IF <<t, fd>> \in DOMAIN instance_ THEN instance_[<<t, fd>>] ELSE 0

(* operator[] makes the entry it does not find *)
Counted(t, fd, n) == With(instance_, <<t, fd>>, n)

Handle(t, fd, n) == <<t, fd, n>>

(* posix_io_handle(): the first caller gives the name *)
Define(h, name) == IF h \in DOMAIN handles THEN handles ELSE With(handles, h, name)

Event(type, h, buf, rec) ==
  [type |-> type, handle |-> h, buf |-> buf, thread |-> rec.pid, file |-> rec.file,
   early |-> rec.pid \in inserting]

(* mutant: every open() counts as the first *)
OnOpenUncounted(e) ==
  LET h == Handle(e.pid, e.fd, 0)
  IN /\ instance_' = Counted(e.pid, e.fd, 0)
     /\ handles' = Define(h, e.name)
     /\ out' = Append(out, Event("create", h, 0, e))
     /\ UNCHANGED last

OnOpen(e) ==
  LET n == IF <<e.pid, e.fd>> \in DOMAIN instance_ THEN Instance(e.pid, e.fd) + 1 ELSE 0
      h == Handle(e.pid, e.fd, n)
  IN /\ instance_' = Counted(e.pid, e.fd, n)
     /\ handles' = Define(h, e.name)
     /\ out' = Append(out, Event("create", h, 0, e))
     /\ UNCHANGED last

OnClose(e) ==
  LET n == Instance(e.pid, e.fd)
      h == Handle(e.pid, e.fd, n)
  IN /\ instance_' = Counted(e.pid, e.fd, n)
     /\ handles' = Define(h, "")
     /\ out' = Append(out, Event("destroy", h, 0, e))
     /\ UNCHANGED last

OnEnter(e) ==
  LET n == Instance(e.pid, e.fd)
      h == Handle(e.pid, e.fd, n)
  IN /\ last' = With(last, e.pid, [fd |-> e.fd, buf |-> e.buf])
     /\ instance_' = Counted(e.pid, e.fd, n)
     /\ handles' = Define(h, "")
     /\ out' = Append(out, Event("begin", h, e.buf, e))

Complete(e) ==
  LET l == Noted(e.pid)
      n == Instance(e.pid, l.fd)
      h == Handle(e.pid, l.fd, n)
  IN /\ instance_' = Counted(e.pid, l.fd, n)
     /\ handles' = Define(h, "")
     /\ out' = Append(out, Event("complete", h, l.buf, e))

(* mutant: last_fd_ is not reset *)
OnExitKept(e) ==
  /\ IF Noted(e.pid).fd = -1 THEN UNCHANGED <<instance_, handles, out>> ELSE Complete(e)
  /\ UNCHANGED last

(* the exit of a call whose beginning was not seen is not an event, unless *)
(* last_fd_ is not set yet                                                 *)
OnExit(e) ==
  /\ IF Noted(e.pid).fd = -1 THEN UNCHANGED <<instance_, handles, out>> ELSE Complete(e)
  /\ last' = With(last, e.pid, [fd |-> -1, buf |-> Noted(e.pid).buf])

handle_event ==
  /\ polling /\ rb # <<>>
  /\ LET e == Head(rb)
     IN \/ e.type = "OPEN" /\ OnOpen(e)
        \/ e.type = "CLOSE" /\ OnClose(e)
        \/ e.type = "ENTER" /\ OnEnter(e)
        \/ e.type = "EXIT" /\ OnExit(e)
  /\ rb' = Tail(rb)
  /\ UNCHANGED <<kernel, threads, open_cache, lost, loop>>

(* run(): ring_buffer__poll() returns when the ring is empty *)
PollReturns ==
  /\ polling /\ rb = <<>>
  /\ polling' = FALSE
  /\ UNCHANGED <<kernel, threads, bpf, monitor, stop_, ended>>

Check ==
  /\ ~polling /\ ~ended
  /\ IF stop_ THEN ended' = TRUE /\ UNCHANGED polling ELSE polling' = TRUE /\ UNCHANGED ended
  /\ UNCHANGED <<kernel, threads, bpf, monitor, stop_>>

stop ==
  /\ ~stop_ /\ pids = {}
  /\ stop_' = TRUE
  /\ UNCHANGED <<kernel, threads, bpf, monitor, polling, ended>>

Next ==
  \/ \E t \in Threads :
       \/ \E name \in Names : do_filp_open(t, name)
       \/ handle_openat_ret(t)
       \/ OtherCall(t)
       \/ \E fd \in Fds : handle_close(t, fd)
       \/ \E fd \in Fds : handle_enter_rw(t, fd)
       \/ handle_exit_rw(t)
       \/ insert_thread(t) \/ insert_last_fd(t)
       \/ exit_thread(t)
  \/ handle_event \/ PollReturns \/ Check \/ stop

Spec == Init /\ [][Next]_vars

(***************************************************************************)
(* Properties                                                              *)
(***************************************************************************)
Before(i, t) == {j \in 1 .. i - 1 : out[j].thread = t /\ out[j].type \in {"begin", "complete"}}

(* CompletesMatch: a completed operation is the one its thread began last, *)
(* on the same descriptor with the same matching id, and no operation is   *)
(* completed twice, whichever records the ring drops; without losses it is *)
(* on the same handle, too.  One completion of a thread may lack its       *)
(* begin: that of a call the thread was in already, if it is handled       *)
(* between the two statements of insert_thread(); it is on descriptor 0,   *)
(* wherever the call read or wrote.                                        *)
CompletesMatch ==
  \A i \in DOMAIN out : out[i].type = "complete" =>
    LET b == Before(i, out[i].thread)
        j == CHOOSE k \in b : \A l \in b : l <= k
    IN \/ /\ b # {} /\ out[j].type = "begin"
          /\ out[i].buf = out[j].buf /\ out[i].handle[2] = out[j].handle[2]
          /\ ~lost => out[i].handle = out[j].handle
       \/ b = {} /\ out[i].early /\ out[i].handle[2] = 0

(* HandleIsFile: of "{tid, fd, reuse count} => file should be unique"      *)
(* (comment in handle_event) what the code keeps: as long as no record is  *)
(* dropped and no call without a record replaces or closes a file, no      *)
(* handle is created twice, the one that is created has the name of its    *)
(* file, and from the first event of a handle that is about a file until   *)
(* it is destroyed all its events are about this file.  It is not unique   *)
(* beyond that: a descriptor of socket() or dup() has the handle of the    *)
(* file that was closed there before, dup2() over an open one that of the  *)
(* replaced file, and calls that fail with EBADF are about no file.        *)
HandleIsFile ==
  ~lost /\ ~silent =>
    \A j \in DOMAIN out :
      /\ out[j].type = "create" =>
           /\ handles[out[j].handle] = out[j].file.name
           /\ \A i \in 1 .. j - 1 : out[i].handle # out[j].handle
      /\ \A i \in 1 .. j - 1 :
           /\ out[i].handle = out[j].handle /\ out[i].file # NoFile
           /\ "complete" \notin {out[i].type, out[j].type}
           /\ \A k \in i .. j - 1 : out[k].handle = out[j].handle => out[k].type # "destroy"
           => out[i].file = out[j].file
=============================================================================
