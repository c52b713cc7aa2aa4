---------------------------- MODULE RingMonitors ----------------------------
(***************************************************************************)
(* How a monitored process gets its ring buffer, and how lo2s stops.       *)
(*                                                                         *)
(* The SocketMonitor thread polls a listening socket and its stop eventfd. *)
(* For each connection it makes a ring (RingbufReader), sends its file     *)
(* descriptor, waits until the process has written its measurement type    *)
(* into the ring header, and starts a GPUMonitor or OpenMPMonitor thread   *)
(* on the ring.  These poll nothing but their own stop eventfd, so they    *)
(* drain their ring once, when they are stopped.  ~MainMonitor stops the   *)
(* SocketMonitor, whose finalize_thread() stops the others one by one.     *)
(*                                                                         *)
(* The monitored process connects, receives the descriptor, writes pid and *)
(* type, and commits events until it exits.  It may be killed at any time. *)
(* What happens inside the ring is the subject of ShmRingbuf; here a ring  *)
(* is the number of events committed to it and taken from it.              *)
(***************************************************************************)
EXTENDS Naturals, Sequences

CONSTANTS
  GpuClients,   (* processes with a CUDA or HIP library injected           *)
  OmpClients,   (* processes with the OMPT library injected                *)
  NoClient,
  Mortal,       (* processes may be killed inside the handshake            *)
  LoopKept,     (* the compiler kept the empty loop that waits for type    *)
  MaxEvents     (* bound: events a process commits                         *)

Clients == GpuClients \cup OmpClients

ASSUME MonitorsAssumption ==
  /\ GpuClients \cap OmpClients = {} /\ NoClient \notin Clients
  /\ Mortal \in BOOLEAN /\ LoopKept \in BOOLEAN /\ MaxEvents \in Nat

(* enum class RingbufMeasurementType                                       *)
UNSET == 0
GPU == 1
OPENMP == 2

(* The type the injected library passes to RingbufWriter.                  *)
TypeOf(c) == IF c \in GpuClients THEN GPU ELSE OPENMP

VARIABLES
  main,        (* the thread that runs ~MainMonitor                        *)
  sock,        (* the SocketMonitor thread                                 *)
  stop_pfd,    (* its eventfd is readable                                  *)
  revents,     (* what its last poll() returned                            *)
  backlog,     (* connections not yet accepted                             *)
  serving,     (* the client that monitor(fd) is serving                   *)
  seen,        (* the type monitor(fd) dispatches on                       *)
  cl,          (* each process                                             *)
  sent,        (* the descriptor is in the process' socket                 *)
  pid, type,   (* ringbuf_header::pid, type of each ring                   *)
  committed, taken,   (* events committed to, taken from each ring         *)
  mon,         (* each GPUMonitor or OpenMPMonitor thread                  *)
  mon_stop,    (* its eventfd is readable                                  *)
  process,     (* its process_                                             *)
  owed         (* history: events committed when lo2s began to stop        *)

mainVars == <<main, owed>>
sockVars == <<sock, revents, serving, seen>>
clVars   == <<cl, pid, type, committed>>
monVars  == <<mon, taken, process>>
vars == <<mainVars, sockVars, clVars, monVars, stop_pfd, backlog, sent, mon_stop>>

-----------------------------------------------------------------------------
(* The monitored process: RingbufWriter::RingbufWriter and commit()        *)

ListeningForever == sock # "threw"

(* The socket is bound until finalize_thread() closes it, or until an      *)
(* exception that nothing catches ends lo2s.                               *)
Listening == sock \notin {"ended", "threw"}

Step(c, from, to) == cl[c] = from /\ cl' = [cl EXCEPT ![c] = to]

(* connect() fails once the socket is closed and unlinked.                 *)
Connect(c) ==
  /\ Step(c, "new", IF Listening THEN "connected" ELSE "failed")
  /\ backlog' = IF Listening THEN Append(backlog, c) ELSE backlog
  /\ UNCHANGED <<mainVars, sockVars, monVars, stop_pfd, sent, mon_stop,
                 pid, type, committed>>

(* recvmsg() returns the descriptor, or fails when the socket is closed.   *)
RecvFd(c) ==
  /\ sent[c] \/ ~Listening
  /\ Step(c, "connected", IF sent[c] THEN "mapped" ELSE "failed")
  /\ UNCHANGED <<mainVars, sockVars, monVars, stop_pfd, backlog, sent, mon_stop,
                 pid, type, committed>>

SetTypeFirst(c) ==
  /\ Step(c, "mapped", "named")
  /\ type' = [type EXCEPT ![c] = TypeOf(c)]
  /\ UNCHANGED <<mainVars, sockVars, monVars, stop_pfd, backlog, sent, mon_stop,
                 pid, committed>>

SetPid(c) ==
  /\ Step(c, "mapped", "named")
  /\ pid' = [pid EXCEPT ![c] = c]
  /\ UNCHANGED <<mainVars, sockVars, monVars, stop_pfd, backlog, sent, mon_stop,
                 type, committed>>

SetType(c) ==
  /\ Step(c, "named", "typed")
  /\ type' = [type EXCEPT ![c] = TypeOf(c)]
  /\ UNCHANGED <<mainVars, sockVars, monVars, stop_pfd, backlog, sent, mon_stop,
                 pid, committed>>

CommitEvent(c) ==
  /\ cl[c] = "typed" /\ committed[c] < MaxEvents
  /\ committed' = [committed EXCEPT ![c] = @ + 1]
  /\ UNCHANGED <<mainVars, sockVars, monVars, stop_pfd, backlog, sent, mon_stop,
                 cl, pid, type>>

(* The process ends, or is killed inside the handshake.                    *)
Exit(c) ==
  /\ cl[c] \in {"typed"} \cup (IF Mortal THEN {"connected", "mapped", "named"} ELSE {})
  /\ cl' = [cl EXCEPT ![c] = "gone"]
  /\ UNCHANGED <<mainVars, sockVars, monVars, stop_pfd, backlog, sent, mon_stop,
                 pid, type, committed>>

-----------------------------------------------------------------------------
(* SocketMonitor: PollMonitor::run() with SocketMonitor::monitor(fd)       *)

ReadableConnOnly == backlog # <<>>

(* poll() returns                                                          *)
Readable == stop_pfd \/ backlog # <<>>

Poll ==
  /\ sock = "poll"
  /\ Readable
  /\ revents' = [stop |-> stop_pfd, conn |-> backlog # <<>>]
  /\ sock' = "monitor"
  /\ UNCHANGED <<mainVars, clVars, monVars, stop_pfd, backlog, sent, mon_stop, serving, seen>>

(* accept(), unless poll() reported only the stop eventfd.  A process that *)
(* died meanwhile is accepted all the same.                                *)
Accept ==
  /\ sock = "monitor" /\ revents.conn
  /\ serving' = Head(backlog) /\ backlog' = Tail(backlog)
  /\ sock' = "send"
  /\ UNCHANGED <<mainVars, clVars, monVars, stop_pfd, sent, mon_stop, revents, seen>>

(* sendmsg() fails when the peer is gone; nothing catches the exception.   *)
SendFd ==
  /\ sock = "send"
  /\ IF cl[serving] = "gone"
     THEN sock' = "threw" /\ UNCHANGED sent
     ELSE sock' = "wait"  /\ sent' = [sent EXCEPT ![serving] = TRUE]
  /\ UNCHANGED <<mainVars, clVars, monVars, stop_pfd, backlog, mon_stop, revents, serving, seen>>

(* while (rr.header()->type == 0) {} : an empty loop on a plain variable.  *)
(* A compiler may take it for finite and remove it, as g++ -O2 does.       *)
WaitForType ==
  /\ sock = "wait"
  /\ LoopKept => type[serving] # UNSET
  /\ seen' = type[serving]
  /\ sock' = "dispatch"
  /\ UNCHANGED <<mainVars, clVars, monVars, stop_pfd, backlog, sent, mon_stop, revents, serving>>

(* Emplace and start the monitor; its constructor reads the pid.           *)
Dispatch ==
  /\ sock = "dispatch"
  /\ IF seen \in {GPU, OPENMP}
     THEN /\ sock' = "monitored"
          /\ mon' = [mon EXCEPT ![serving] = "poll"]
          /\ process' = [process EXCEPT ![serving] = pid[serving]]
     ELSE sock' = "threw" /\ UNCHANGED <<mon, process>>
  /\ UNCHANGED <<mainVars, clVars, stop_pfd, backlog, sent, mon_stop, taken,
                 revents, serving, seen>>

(* The end of the loop body: stop_requested                                *)
EndOfLoop ==
  /\ sock = "monitored" \/ (sock = "monitor" /\ ~revents.conn)
  /\ sock' = IF revents.stop THEN "finalize" ELSE "poll"
  /\ serving' = NoClient
  /\ UNCHANGED <<mainVars, clVars, monVars, stop_pfd, backlog, sent, mon_stop, revents, seen>>

Started == {c \in Clients : mon[c] # "none"}

(* finalize_thread() stops gpu_monitors_, then openmp_monitors_.           *)
ToStop ==
  LET pending(S) == {c \in Started \cap S : ~mon_stop[c]}
  IN IF pending(GpuClients) # {} THEN pending(GpuClients) ELSE pending(OmpClients)

(* stop() of one monitor: signal it ...                                    *)
StopMonitor(c) ==
  /\ sock = "finalize" /\ serving = NoClient
  /\ c \in ToStop
  /\ mon_stop' = [mon_stop EXCEPT ![c] = TRUE]
  /\ serving' = c
  /\ UNCHANGED <<mainVars, clVars, monVars, stop_pfd, backlog, sent, sock, revents, seen>>

(* ... and join its thread.                                                *)
JoinMonitor ==
  /\ sock = "finalize" /\ serving # NoClient
  /\ mon[serving] = "ended"
  /\ serving' = NoClient
  /\ UNCHANGED <<mainVars, clVars, monVars, stop_pfd, backlog, sent, mon_stop,
                 sock, revents, seen>>

(* close() and unlink() the socket; the thread ends.                       *)
CloseSocket ==
  /\ sock = "finalize" /\ serving = NoClient /\ ToStop = {}
  /\ sock' = "ended" /\ backlog' = <<>>
  /\ UNCHANGED <<mainVars, clVars, monVars, stop_pfd, sent, mon_stop, revents, serving, seen>>

-----------------------------------------------------------------------------
(* A GPUMonitor or OpenMPMonitor thread: only its stop eventfd is polled   *)

Alive == sock # "threw"

MonPoll(c) ==
  /\ Alive /\ mon[c] = "poll" /\ mon_stop[c]
  /\ mon' = [mon EXCEPT ![c] = "drain"]
  /\ UNCHANGED <<mainVars, sockVars, clVars, stop_pfd, backlog, sent, mon_stop, taken, process>>

TakeOnlyOne(c) == taken[c] = 0 /\ committed[c] > 0

(* while (!ringbuf_reader_.empty())                                        *)
NotEmpty(c) == taken[c] < committed[c]

(* monitor(): one event after the other, then finalize_thread().           *)
Drain(c) ==
  /\ Alive /\ mon[c] = "drain"
  /\ IF NotEmpty(c)
     THEN taken' = [taken EXCEPT ![c] = @ + 1] /\ UNCHANGED mon
     ELSE mon' = [mon EXCEPT ![c] = "ended"] /\ UNCHANGED taken
  /\ UNCHANGED <<mainVars, sockVars, clVars, stop_pfd, backlog, sent, mon_stop, process>>

-----------------------------------------------------------------------------
(* ~MainMonitor: socket_monitor_->stop()                                   *)

MainStop ==
  /\ Alive /\ main = "run"
  /\ main' = "stop" /\ stop_pfd' = TRUE
  /\ owed' = committed
  /\ UNCHANGED <<sockVars, clVars, monVars, backlog, sent, mon_stop>>

MainJoin ==
  /\ main = "stop" /\ sock = "ended"
  /\ main' = "joined"
  /\ UNCHANGED <<sockVars, clVars, monVars, owed, stop_pfd, backlog, sent, mon_stop>>

-----------------------------------------------------------------------------
Init ==
  /\ main = "run" /\ sock = "poll" /\ stop_pfd = FALSE
  /\ revents = [stop |-> FALSE, conn |-> FALSE]
  /\ backlog = <<>> /\ serving = NoClient /\ seen = UNSET
  /\ cl = [c \in Clients |-> "new"]
  /\ sent = [c \in Clients |-> FALSE]
  /\ pid = [c \in Clients |-> NoClient] /\ type = [c \in Clients |-> UNSET]
  /\ committed = [c \in Clients |-> 0] /\ taken = [c \in Clients |-> 0]
  /\ mon = [c \in Clients |-> "none"] /\ mon_stop = [c \in Clients |-> FALSE]
  /\ process = [c \in Clients |-> NoClient]
  /\ owed = [c \in Clients |-> 0]

Handshake(c) == Connect(c) \/ RecvFd(c) \/ SetPid(c) \/ SetType(c)

SockStep ==
  \/ Poll \/ Accept \/ SendFd \/ WaitForType \/ Dispatch \/ EndOfLoop
  \/ (\E c \in Clients : StopMonitor(c)) \/ JoinMonitor \/ CloseSocket

MonStep(c) == MonPoll(c) \/ Drain(c)

MainStep == MainStop \/ MainJoin

Next ==
  \/ SockStep \/ MainStep
  \/ \E c \in Clients : Handshake(c) \/ CommitEvent(c) \/ Exit(c) \/ MonStep(c)

Spec == Init /\ [][Next]_vars

(* Threads are scheduled; a process inside the handshake keeps going until *)
(* it is killed; main leaves its wait for the measurement's end.           *)
FairSpec ==
  /\ Spec /\ WF_vars(SockStep) /\ WF_vars(MainStep)
  /\ \A c \in Clients : WF_vars(Handshake(c)) /\ WF_vars(MonStep(c))

-----------------------------------------------------------------------------
(* Properties                                                              *)

(* monitor(fd) chooses the monitor by the type of measurement the process  *)
(* does, and the monitor works for the process at the other end of its     *)
(* ring: both are read from a header that the process is still writing.    *)
MonitorMatchesClient ==
  /\ sock = "dispatch" => seen = TypeOf(serving)
  /\ \A c \in Started : process[c] = c

(* When stop() returns, no monitor thread is left, and every event that a  *)
(* process committed before lo2s began to stop has been taken from its     *)
(* ring, although the rings are drained only once and the processes go on  *)
(* meanwhile.                                                              *)
NothingOwedIsLost ==
  main = "joined" =>
    /\ \A c \in Started : mon[c] = "ended"
    /\ \A c \in Clients : taken[c] >= owed[c]

(* A process was killed between connecting and writing its type.           *)
DiedInHandshake == \E c \in Clients : cl[c] = "gone" /\ type[c] = UNSET

(* stop() returns, whatever the processes do, unless one was killed inside *)
(* the handshake: then the socket thread waits for its type for ever, or   *)
(* an exception has ended lo2s.                                            *)
StopReturns == main = "stop" ~> (main = "joined" \/ DiedInHandshake)

(* A process that waits in recvmsg() for its descriptor is answered, also  *)
(* when lo2s stops with the connection still in the backlog.               *)
ClientAnswered ==
  \A c \in Clients : cl[c] = "connected" ~> (cl[c] # "connected" \/ DiedInHandshake)
=============================================================================
