------------------------- MODULE RingMonitorsProofs -------------------------
(***************************************************************************)
(* Proofs about the handshake and the stop sequence for every set of GPU   *)
(* and OpenMP processes and every number of events, whether or not         *)
(* processes are killed.                                                   *)
(*                                                                         *)
(* Nothing in the code says which rings finalize_thread() will find.  The  *)
(* argument follows an owed event backwards: it was committed to a ring    *)
(* whose type is set, so its descriptor was sent, so the socket thread     *)
(* either has started a monitor for the ring or is still inside            *)
(* monitor(fd) for it, which it leaves before it looks at the stop flag.   *)
(***************************************************************************)
EXTENDS RingMonitors, TLAPS

-----------------------------------------------------------------------------
(* The inductive invariant                                                 *)

ClStates == {"new", "connected", "mapped", "named", "typed", "gone", "failed"}
SockStates == {"poll", "monitor", "send", "wait", "dispatch", "monitored",
               "finalize", "ended", "threw"}

TypeOK ==
  /\ main \in {"run", "stop", "joined"}
  /\ sock \in SockStates
  /\ stop_pfd \in BOOLEAN
  /\ revents \in [stop : BOOLEAN, conn : BOOLEAN]
  /\ backlog \in Seq(Clients)
  /\ serving \in Clients \cup {NoClient}
  /\ seen \in {UNSET, GPU, OPENMP}
  /\ cl \in [Clients -> ClStates]
  /\ sent \in [Clients -> BOOLEAN]
  /\ pid \in [Clients -> Clients \cup {NoClient}]
  /\ type \in [Clients -> {UNSET, GPU, OPENMP}]
  /\ committed \in [Clients -> Nat]
  /\ taken \in [Clients -> Nat]
  /\ mon \in [Clients -> {"none", "poll", "drain", "ended"}]
  /\ mon_stop \in [Clients -> BOOLEAN]
  /\ process \in [Clients -> Clients \cup {NoClient}]
  /\ owed \in [Clients -> Nat]

(* A process writes its pid before its type and commits nothing before     *)
(* both; it has a ring only when it was sent one.                          *)
HeaderInOrder ==
  \A c \in Clients :
    /\ type[c] \in {UNSET, TypeOf(c)}
    /\ type[c] # UNSET => pid[c] = c /\ sent[c]
    /\ cl[c] \in {"named", "typed"} => pid[c] = c
    /\ cl[c] \in {"mapped", "named", "typed"} => sent[c]
    /\ cl[c] = "typed" => type[c] # UNSET
    /\ committed[c] > 0 => type[c] # UNSET

(* What monitor(fd) knows of the client it serves.                         *)
InMonitor ==
  /\ sock = "monitor" /\ revents.conn => backlog # <<>>
  /\ sock \in {"send", "wait", "dispatch", "monitored"} => serving \in Clients
  /\ sock \in {"wait", "dispatch"} => sent[serving]
  /\ sock = "dispatch" => seen \in {UNSET, type[serving]}
  /\ sock = "dispatch" /\ LoopKept => seen # UNSET

(* Every ring that was handed out has a monitor, or is about to get one.   *)
EveryRingMonitored ==
  \A c \in Clients :
    /\ sent[c] => \/ mon[c] # "none" \/ sock = "threw"
                  \/ serving = c /\ sock \in {"wait", "dispatch"}
    /\ mon[c] # "none" => process[c] = c /\ type[c] # UNSET

(* finalize_thread() runs after stop() was called, monitors are stopped    *)
(* inside it and joined one by one, and what is owed is fixed by then.     *)
StopInOrder ==
  /\ stop_pfd <=> main # "run"
  /\ revents.stop => stop_pfd
  /\ sock \in {"finalize", "ended"} => revents.stop
  /\ main = "joined" => sock = "ended"
  /\ \A c \in Clients :
       /\ mon_stop[c] => sock \in {"finalize", "ended"} /\ mon[c] # "none"
       /\ mon_stop[c] => mon[c] = "ended" \/ (serving = c /\ sock = "finalize")
       /\ mon[c] \in {"drain", "ended"} => mon_stop[c]
       /\ sock = "ended" /\ mon[c] # "none" => mon_stop[c]
       /\ owed[c] <= committed[c]
       /\ mon[c] = "ended" => owed[c] <= taken[c]

IInv == TypeOK /\ HeaderInOrder /\ InMonitor /\ EveryRingMonitored /\ StopInOrder

-----------------------------------------------------------------------------
(* The invariant is inductive                                              *)

LEMMA InitInv == Init => IInv
<1> SUFFICES ASSUME Init PROVE IInv
  OBVIOUS
<1> USE MonitorsAssumption DEF Init, UNSET, GPU, OPENMP
<1>1. TypeOK
  <2>1. /\ revents \in [stop : BOOLEAN, conn : BOOLEAN]
        /\ sent \in [Clients -> BOOLEAN] /\ mon_stop \in [Clients -> BOOLEAN]
    OBVIOUS
  <2>2. backlog \in Seq(Clients) /\ cl \in [Clients -> ClStates]
    BY DEF ClStates
  <2>3. /\ committed \in [Clients -> Nat] /\ taken \in [Clients -> Nat]
        /\ owed \in [Clients -> Nat]
    OBVIOUS
  <2> QED BY <2>1, <2>2, <2>3 DEF TypeOK, SockStates
<1>2. HeaderInOrder /\ InMonitor
  BY DEF HeaderInOrder, InMonitor
<1>3. EveryRingMonitored /\ StopInOrder
  BY DEF EveryRingMonitored, StopInOrder
<1> QED BY <1>1, <1>2, <1>3 DEF IInv

(* Every step, action by action, keeps the invariant.                      *)
LEMMA StepInv == IInv /\ [Next]_vars => IInv'
<1> SUFFICES ASSUME IInv, [Next]_vars PROVE IInv'
  OBVIOUS
<1> USE MonitorsAssumption DEF IInv, mainVars, sockVars, clVars, monVars, UNSET, GPU, OPENMP
<1>1. ASSUME NEW c \in Clients, Connect(c) PROVE IInv'
  <2>1. TypeOK'
    BY <1>1 DEF Connect, Step, TypeOK, ClStates
  <2>2. HeaderInOrder'
    BY <1>1 DEF Connect, Step, TypeOK, HeaderInOrder
  <2>3. InMonitor'
    <3>1. Append(backlog, c) # <<>>
      <4>1. Len(Append(backlog, c)) = Len(backlog) + 1 /\ Len(backlog) \in Nat
        BY DEF TypeOK
      <4>2. Len(<<>>) = 0
        OBVIOUS
      <4> QED BY <4>1, <4>2
    <3> QED BY <3>1, <1>1 DEF Connect, TypeOK, InMonitor
  <2>4. EveryRingMonitored'
    BY <1>1 DEF Connect, Step, TypeOK, EveryRingMonitored
  <2>5. StopInOrder'
    BY <1>1 DEF Connect, Step, TypeOK, StopInOrder
  <2> QED BY <2>1, <2>2, <2>3, <2>4, <2>5
<1>2. ASSUME NEW c \in Clients, RecvFd(c) PROVE IInv'
  <2>1. TypeOK'
    BY <1>2 DEF RecvFd, Step, TypeOK, ClStates
  <2>2. HeaderInOrder'
    BY <1>2 DEF RecvFd, Step, TypeOK, HeaderInOrder
  <2>3. InMonitor'
    BY <1>2 DEF RecvFd, Step, TypeOK, InMonitor
  <2>4. EveryRingMonitored'
    BY <1>2 DEF RecvFd, Step, TypeOK, EveryRingMonitored
  <2>5. StopInOrder'
    BY <1>2 DEF RecvFd, Step, TypeOK, StopInOrder
  <2> QED BY <2>1, <2>2, <2>3, <2>4, <2>5
<1>3. ASSUME NEW c \in Clients, SetPid(c) PROVE IInv'
  <2>1. TypeOK'
    BY <1>3 DEF SetPid, Step, TypeOK, ClStates
  <2>2. HeaderInOrder'
    BY <1>3 DEF SetPid, Step, TypeOK, HeaderInOrder
  <2>3. InMonitor'
    BY <1>3 DEF SetPid, Step, TypeOK, InMonitor
  <2>4. EveryRingMonitored'
    BY <1>3 DEF SetPid, Step, TypeOK, EveryRingMonitored, HeaderInOrder
  <2>5. StopInOrder'
    BY <1>3 DEF SetPid, Step, TypeOK, StopInOrder
  <2> QED BY <2>1, <2>2, <2>3, <2>4, <2>5
<1>4. ASSUME NEW c \in Clients, SetType(c) PROVE IInv'
  <2>1. TypeOK'
    BY <1>4 DEF SetType, Step, TypeOK, ClStates, TypeOf
  <2>2. HeaderInOrder'
    BY <1>4 DEF SetType, Step, TypeOK, HeaderInOrder, TypeOf
  <2>3. InMonitor'
    BY <1>4 DEF SetType, Step, TypeOK, InMonitor, HeaderInOrder
  <2>4. EveryRingMonitored'
    BY <1>4 DEF SetType, Step, TypeOK, EveryRingMonitored, HeaderInOrder, TypeOf
  <2>5. StopInOrder'
    BY <1>4 DEF SetType, Step, TypeOK, StopInOrder
  <2> QED BY <2>1, <2>2, <2>3, <2>4, <2>5
<1>5. ASSUME NEW c \in Clients, CommitEvent(c) PROVE IInv'
  <2>1. TypeOK'
    BY <1>5 DEF CommitEvent, TypeOK, ClStates
  <2>2. HeaderInOrder'
    BY <1>5 DEF CommitEvent, TypeOK, HeaderInOrder
  <2>3. InMonitor'
    BY <1>5 DEF CommitEvent, TypeOK, InMonitor
  <2>4. EveryRingMonitored'
    BY <1>5 DEF CommitEvent, TypeOK, EveryRingMonitored
  <2>5. StopInOrder'
    BY <1>5 DEF CommitEvent, TypeOK, StopInOrder
  <2> QED BY <2>1, <2>2, <2>3, <2>4, <2>5
<1>6. ASSUME NEW c \in Clients, Exit(c) PROVE IInv'
  <2>1. TypeOK'
    BY <1>6 DEF Exit, TypeOK, ClStates
  <2>2. HeaderInOrder'
    BY <1>6 DEF Exit, TypeOK, HeaderInOrder
  <2>3. InMonitor'
    BY <1>6 DEF Exit, TypeOK, InMonitor
  <2>4. EveryRingMonitored'
    BY <1>6 DEF Exit, TypeOK, EveryRingMonitored
  <2>5. StopInOrder'
    BY <1>6 DEF Exit, TypeOK, StopInOrder
  <2> QED BY <2>1, <2>2, <2>3, <2>4, <2>5
<1>7. ASSUME NEW c \in Clients, MonPoll(c) PROVE IInv'
  <2>1. TypeOK'
    BY <1>7 DEF MonPoll, TypeOK
  <2>2. HeaderInOrder'
    BY <1>7 DEF MonPoll, TypeOK, HeaderInOrder
  <2>3. InMonitor'
    BY <1>7 DEF MonPoll, TypeOK, InMonitor
  <2>4. EveryRingMonitored'
    BY <1>7 DEF MonPoll, TypeOK, EveryRingMonitored
  <2>5. StopInOrder'
    BY <1>7 DEF MonPoll, TypeOK, StopInOrder
  <2> QED BY <2>1, <2>2, <2>3, <2>4, <2>5
<1>8. ASSUME NEW c \in Clients, Drain(c) PROVE IInv'
  <2>1. TypeOK'
    <3>1. CASE NotEmpty(c)
      <4>1. taken' = [taken EXCEPT ![c] = taken[c] + 1] /\ taken[c] + 1 \in Nat
        BY <3>1, <1>8 DEF Drain, TypeOK
      <4>2. taken' \in [Clients -> Nat]
        BY <4>1 DEF TypeOK
      <4> QED BY <4>2, <3>1, <1>8 DEF Drain, TypeOK
    <3>2. CASE ~NotEmpty(c)
      BY <3>2, <1>8 DEF Drain, TypeOK
    <3> QED BY <3>1, <3>2
  <2>2. HeaderInOrder'
    BY <1>8 DEF Drain, TypeOK, HeaderInOrder
  <2>3. InMonitor'
    BY <1>8 DEF Drain, TypeOK, InMonitor
  <2>4. EveryRingMonitored'
    BY <1>8 DEF Drain, TypeOK, EveryRingMonitored
  <2>5. StopInOrder'
    <3>1. CASE NotEmpty(c)
      BY <3>1, <1>8 DEF Drain, TypeOK, StopInOrder
    <3>2. CASE ~NotEmpty(c)
      <4>1. owed[c] <= taken[c]
        BY <3>2 DEF NotEmpty, TypeOK, StopInOrder
      <4> QED BY <3>2, <4>1, <1>8 DEF Drain, TypeOK, StopInOrder
    <3> QED BY <3>1, <3>2
  <2> QED BY <2>1, <2>2, <2>3, <2>4, <2>5
<1>9. ASSUME Poll PROVE IInv'
  <2>1. TypeOK'
    BY <1>9 DEF Poll, TypeOK, SockStates
  <2>2. HeaderInOrder'
    BY <1>9 DEF Poll, TypeOK, HeaderInOrder
  <2>3. InMonitor'
    BY <1>9 DEF Poll, TypeOK, InMonitor
  <2>4. EveryRingMonitored'
    BY <1>9 DEF Poll, TypeOK, EveryRingMonitored
  <2>5. StopInOrder'
    BY <1>9 DEF Poll, TypeOK, StopInOrder
  <2> QED BY <2>1, <2>2, <2>3, <2>4, <2>5
<1>10. ASSUME Accept PROVE IInv'
  <2>1. TypeOK'
    BY <1>10 DEF Accept, TypeOK, SockStates, InMonitor
  <2>2. HeaderInOrder'
    BY <1>10 DEF Accept, TypeOK, HeaderInOrder
  <2>3. InMonitor'
    BY <1>10 DEF Accept, TypeOK, InMonitor
  <2>4. EveryRingMonitored'
    BY <1>10 DEF Accept, TypeOK, EveryRingMonitored
  <2>5. StopInOrder'
    BY <1>10 DEF Accept, TypeOK, StopInOrder
  <2> QED BY <2>1, <2>2, <2>3, <2>4, <2>5
<1>11. ASSUME SendFd PROVE IInv'
  <2>1. TypeOK'
    BY <1>11 DEF SendFd, TypeOK, SockStates, InMonitor
  <2>2. HeaderInOrder'
    <3>1. \A c \in Clients : sent[c] => sent'[c]
      BY <1>11 DEF SendFd, TypeOK, InMonitor
    <3> QED BY <3>1, <1>11 DEF SendFd, HeaderInOrder
  <2>3. InMonitor'
    BY <1>11 DEF SendFd, TypeOK, InMonitor
  <2>4. EveryRingMonitored'
    BY <1>11 DEF SendFd, TypeOK, EveryRingMonitored, InMonitor
  <2>5. StopInOrder'
    BY <1>11 DEF SendFd, TypeOK, StopInOrder, InMonitor
  <2> QED BY <2>1, <2>2, <2>3, <2>4, <2>5
<1>12. ASSUME WaitForType PROVE IInv'
  <2>1. TypeOK'
    BY <1>12 DEF WaitForType, TypeOK, SockStates, InMonitor
  <2>2. HeaderInOrder'
    BY <1>12 DEF WaitForType, TypeOK, HeaderInOrder
  <2>3. InMonitor'
    BY <1>12 DEF WaitForType, TypeOK, InMonitor, HeaderInOrder
  <2>4. EveryRingMonitored'
    BY <1>12 DEF WaitForType, TypeOK, EveryRingMonitored, InMonitor
  <2>5. StopInOrder'
    BY <1>12 DEF WaitForType, TypeOK, StopInOrder
  <2> QED BY <2>1, <2>2, <2>3, <2>4, <2>5
<1>13. ASSUME Dispatch PROVE IInv'
  <2>1. TypeOK'
    BY <1>13 DEF Dispatch, TypeOK, SockStates, InMonitor
  <2>2. HeaderInOrder'
    BY <1>13 DEF Dispatch, TypeOK, HeaderInOrder
  <2>3. InMonitor'
    BY <1>13 DEF Dispatch, TypeOK, InMonitor
  <2>4. EveryRingMonitored'
    BY <1>13 DEF Dispatch, TypeOK, EveryRingMonitored, InMonitor, HeaderInOrder
  <2>5. StopInOrder'
    BY <1>13 DEF Dispatch, TypeOK, StopInOrder, InMonitor
  <2> QED BY <2>1, <2>2, <2>3, <2>4, <2>5
<1>14. ASSUME EndOfLoop PROVE IInv'
  <2>1. TypeOK'
    BY <1>14 DEF EndOfLoop, TypeOK, SockStates
  <2>2. HeaderInOrder'
    BY <1>14 DEF EndOfLoop, TypeOK, HeaderInOrder
  <2>3. InMonitor'
    BY <1>14 DEF EndOfLoop, TypeOK, InMonitor
  <2>4. EveryRingMonitored'
    BY <1>14 DEF EndOfLoop, TypeOK, EveryRingMonitored
  <2>5. StopInOrder'
    BY <1>14 DEF EndOfLoop, TypeOK, StopInOrder
  <2> QED BY <2>1, <2>2, <2>3, <2>4, <2>5
<1>15. ASSUME NEW c \in Clients, StopMonitor(c) PROVE IInv'
  <2>1. TypeOK'
    BY <1>15 DEF StopMonitor, TypeOK, SockStates
  <2>2. HeaderInOrder'
    BY <1>15 DEF StopMonitor, TypeOK, HeaderInOrder
  <2>3. InMonitor'
    BY <1>15 DEF StopMonitor, TypeOK, InMonitor
  <2>4. EveryRingMonitored'
    BY <1>15 DEF StopMonitor, TypeOK, EveryRingMonitored
  <2>5. StopInOrder'
    BY <1>15 DEF StopMonitor, ToStop, Started, TypeOK, StopInOrder
  <2> QED BY <2>1, <2>2, <2>3, <2>4, <2>5
<1>16. ASSUME JoinMonitor PROVE IInv'
  <2>1. TypeOK'
    BY <1>16 DEF JoinMonitor, TypeOK, SockStates
  <2>2. HeaderInOrder'
    BY <1>16 DEF JoinMonitor, TypeOK, HeaderInOrder
  <2>3. InMonitor'
    BY <1>16 DEF JoinMonitor, TypeOK, InMonitor
  <2>4. EveryRingMonitored'
    BY <1>16 DEF JoinMonitor, TypeOK, EveryRingMonitored
  <2>5. StopInOrder'
    BY <1>16 DEF JoinMonitor, TypeOK, StopInOrder
  <2> QED BY <2>1, <2>2, <2>3, <2>4, <2>5
<1>17. ASSUME CloseSocket PROVE IInv'
  <2>1. TypeOK'
    BY <1>17 DEF CloseSocket, TypeOK, SockStates
  <2>2. HeaderInOrder'
    BY <1>17 DEF CloseSocket, TypeOK, HeaderInOrder
  <2>3. InMonitor'
    BY <1>17 DEF CloseSocket, TypeOK, InMonitor
  <2>4. EveryRingMonitored'
    BY <1>17 DEF CloseSocket, TypeOK, EveryRingMonitored
  <2>5. StopInOrder'
    <3>1. \A c \in Clients : mon[c] # "none" => mon_stop[c]
      BY <1>17 DEF CloseSocket, ToStop, Started, Clients
    <3> QED BY <3>1, <1>17 DEF CloseSocket, TypeOK, StopInOrder
  <2> QED BY <2>1, <2>2, <2>3, <2>4, <2>5
<1>18. ASSUME MainStop PROVE IInv'
  <2>1. TypeOK'
    BY <1>18 DEF MainStop, TypeOK
  <2>2. HeaderInOrder'
    BY <1>18 DEF MainStop, TypeOK, HeaderInOrder
  <2>3. InMonitor'
    BY <1>18 DEF MainStop, TypeOK, InMonitor
  <2>4. EveryRingMonitored'
    BY <1>18 DEF MainStop, TypeOK, EveryRingMonitored
  <2>5. StopInOrder'
    BY <1>18 DEF MainStop, TypeOK, StopInOrder
  <2> QED BY <2>1, <2>2, <2>3, <2>4, <2>5
<1>19. ASSUME MainJoin PROVE IInv'
  <2>1. TypeOK'
    BY <1>19 DEF MainJoin, TypeOK
  <2>2. HeaderInOrder'
    BY <1>19 DEF MainJoin, TypeOK, HeaderInOrder
  <2>3. InMonitor'
    BY <1>19 DEF MainJoin, TypeOK, InMonitor
  <2>4. EveryRingMonitored'
    BY <1>19 DEF MainJoin, TypeOK, EveryRingMonitored
  <2>5. StopInOrder'
    BY <1>19 DEF MainJoin, TypeOK, StopInOrder
  <2> QED BY <2>1, <2>2, <2>3, <2>4, <2>5
<1>20. CASE UNCHANGED vars
  BY <1>20 DEF vars, TypeOK, HeaderInOrder, InMonitor, EveryRingMonitored, StopInOrder
<1> QED
  BY <1>1, <1>2, <1>3, <1>4, <1>5, <1>6, <1>7, <1>8, <1>9, <1>10,
     <1>11, <1>12, <1>13, <1>14, <1>15, <1>16, <1>17, <1>18, <1>19, <1>20
  DEF Next, SockStep, MainStep, Handshake, MonStep

-----------------------------------------------------------------------------
(* Theorems                                                                *)

(* The states of all threads and processes and the content of the ring     *)
(* headers are of their types, and IInv holds.                             *)
THEOREM TypeCorrect == Spec => []IInv
<1>1. Init => IInv
  BY InitInv
<1>2. IInv /\ [Next]_vars => IInv'
  BY StepInv
<1> QED BY <1>1, <1>2, PTL DEF Spec

(* If the wait for the type is kept by the compiler, the socket thread     *)
(* starts the kind of monitor that fits the process, and every monitor     *)
(* works for the process at the other end of its ring.                     *)
THEOREM MonitorsMatch == ASSUME LoopKept PROVE Spec => []MonitorMatchesClient
<1>1. IInv => MonitorMatchesClient
  <2> SUFFICES ASSUME IInv PROVE MonitorMatchesClient
    OBVIOUS
  <2>1. sock = "dispatch" => seen = TypeOf(serving)
    BY LoopKept DEF IInv, InMonitor, HeaderInOrder
  <2>2. \A c \in Started : process[c] = c
    BY DEF IInv, EveryRingMonitored, Started
  <2> QED BY <2>1, <2>2 DEF MonitorMatchesClient
<1> QED BY <1>1, TypeCorrect, PTL

(* When stop() has returned, every monitor thread has ended and every      *)
(* event committed before lo2s began to stop was taken from its ring, for  *)
(* any processes, whenever they connect, commit or die.                    *)
THEOREM StopLosesNothing == Spec => []NothingOwedIsLost
<1>1. IInv => NothingOwedIsLost
  <2> SUFFICES ASSUME IInv, main = "joined" PROVE
        /\ \A c \in Started : mon[c] = "ended"
        /\ \A c \in Clients : taken[c] >= owed[c]
    BY DEF NothingOwedIsLost
  <2>1. sock = "ended"
    BY DEF IInv, StopInOrder
  <2>2. \A c \in Started : mon[c] = "ended"
    BY <2>1 DEF IInv, StopInOrder, Started
  <2>3. ASSUME NEW c \in Clients PROVE taken[c] >= owed[c]
    <3>1. CASE owed[c] = 0
      BY <3>1 DEF IInv, TypeOK
    <3>2. CASE owed[c] # 0
      <4>1. committed[c] > 0
        BY <3>2 DEF IInv, TypeOK, StopInOrder
      <4>2. sent[c]
        BY <4>1 DEF IInv, HeaderInOrder
      <4>3. c \in Started
        BY <2>1, <4>2 DEF IInv, EveryRingMonitored, Started
      <4> QED BY <2>2, <4>3 DEF IInv, TypeOK, StopInOrder
    <3> QED BY <3>1, <3>2
  <2> QED BY <2>2, <2>3
<1> QED BY <1>1, TypeCorrect, PTL
=============================================================================
