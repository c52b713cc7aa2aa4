---------------------- MODULE ProcessControllerProofs ----------------------
(***************************************************************************)
(* Proofs about the ptrace loop for every set of thread numbers, every     *)
(* tree of forks and clones and every order in which stops are fetched,    *)
(* spawned or attached.                                                    *)
(*                                                                         *)
(* That no task is missed holds even if the kernel gives numbers out       *)
(* again.  That no thread is put under a wrong process needs numbers to be *)
(* fresh: emplace keeps the first process named for a thread.              *)
(***************************************************************************)
EXTENDS ProcessController, TLAPS

-----------------------------------------------------------------------------
(* The inductive invariants                                                *)

StopKinds == {"SIGSTOP", "SIGNAL", "EXEC", "EXIT"}
NamingKinds == {"FORK", "CLONE"}
Kinds == StopKinds \cup NamingKinds \cup {"none", "EXITED"}

TypeOK ==
  /\ task \in [Tids -> {"none", "running", "stopped", "exiting", "dead"}]
  /\ proc \in [Tids -> Tids \cup {Unknown}]
  /\ report \in [Tids -> [kind : Kinds, new : Tids \cup {Unknown}]]
  /\ used \subseteq Tids
  /\ stops \in Nat
  /\ DOMAIN groups \subseteq Tids
  /\ monitored \subseteq Tids
  /\ wanted \in BOOLEAN /\ sigstop \in BOOLEAN
  /\ controller \in {"running", "stopped"}

(* waitpid has something to fetch from a task exactly when it is stopped   *)
(* or dead, and what it fetches fits.                                      *)
ReportsMatch ==
  \A t \in Tids :
    /\ task[t] \in {"running", "exiting", "none"} => report[t].kind = "none"
    /\ task[t] = "stopped" => report[t].kind \in StopKinds \cup NamingKinds
    /\ task[t] = "dead" => report[t].kind = "EXITED"
    /\ report[t].kind \in NamingKinds => report[t].new \in Tids

(* With fresh numbers: a task is announced once, before it is registered,  *)
(* and the event tells where it belongs.                                   *)
AnnouncedOnce ==
  /\ \A t \in Tids : task[t] # "none" => t \in used
  /\ DOMAIN groups \subseteq used
  /\ \A t \in Tids : report[t].kind \in NamingKinds =>
       /\ report[t].new \in used \ DOMAIN groups
       /\ proc[report[t].new] = IF report[t].kind = "FORK" THEN report[t].new ELSE proc[t]
  /\ \A t, u \in Tids :
       /\ report[t].kind \in NamingKinds /\ report[u].kind \in NamingKinds
       /\ report[t].new = report[u].new
       => t = u

Registered == \A t \in DOMAIN groups : groups[t] \in {proc[t], Unknown}

IInv == TypeOK /\ ReportsMatch /\ EveryoneMonitored
FreshInv == AnnouncedOnce /\ Registered

-----------------------------------------------------------------------------
(* What the operators of the model do                                      *)

(* attached_pid is a process or -1, never 0: no stop is ever detached.     *)
LEMMA NeverDetaching == ~Detaching
  BY ConstantsAssumption DEF Detaching, attached_pid, Unknown

(* Steps that leave the table, the monitors and the announcements alone    *)
(* and only move one task that is not left unmonitored.                    *)
LEMMA MonitoredKept ==
  ASSUME TypeOK, EveryoneMonitored, NEW t \in Tids,
         \A u \in Tids \ {t} : task'[u] = task[u] /\ report'[u] = report[u],
         report[t].kind \notin NamingKinds,
         task'[t] \in {"running", "stopped"} /\ report'[t].kind # "EXIT" =>
           task[t] \in {"running", "stopped"} /\ report[t].kind # "EXIT",
         DOMAIN groups' = DOMAIN groups,
         \A u \in Tids \ {t} : u \in monitored => u \in monitored',
         t \in monitored' \/ monitored' = monitored \/ task'[t] = "exiting"
  PROVE  EveryoneMonitored'
<1> SUFFICES ASSUME NEW u \in Tids, task'[u] \in {"running", "stopped"},
                    report'[u].kind # "EXIT"
             PROVE  (u \in DOMAIN groups' /\ u \in monitored') \/ Announced(u)'
  BY DEF EveryoneMonitored
<1>1. task[u] \in {"running", "stopped"} /\ report[u].kind # "EXIT"
  OBVIOUS
<1>2. CASE u \in DOMAIN groups /\ u \in monitored
  BY <1>2
<1>3. CASE Announced(u)
  <2>1. PICK v \in Tids : report[v].kind \in NamingKinds /\ report[v].new = u
    BY <1>3 DEF Announced, NamingKinds
  <2>2. v # t
    BY <2>1
  <2> QED BY <2>1, <2>2 DEF Announced, NamingKinds
<1> QED BY <1>1, <1>2, <1>3 DEF EveryoneMonitored

-----------------------------------------------------------------------------
(* No task is missed: the steps of the tracees                             *)

LEMMA InitInv == Init => IInv
<1> SUFFICES ASSUME Init PROVE IInv
  OBVIOUS
<1> USE ConstantsAssumption DEF Init, Rep, NoReport
<1>1. TypeOK
  <2>1. report \in [Tids -> [kind : Kinds, new : Tids \cup {Unknown}]]
    BY DEF Kinds, StopKinds
  <2> QED BY <2>1 DEF TypeOK
<1>2. ReportsMatch
  BY DEF ReportsMatch, StopKinds, NamingKinds
<1>3. EveryoneMonitored
  BY DEF EveryoneMonitored
<1> QED BY <1>1, <1>2, <1>3 DEF IInv

LEMMA CreateInv ==
  ASSUME IInv, NEW t \in Tids, NEW n \in Tids, NEW p \in Tids \cup {Unknown},
         NEW kind \in NamingKinds, Create(t, n, p, kind)
  PROVE  IInv'
<1> USE ConstantsAssumption DEF IInv, NamingKinds
<1>1. t # n
  BY DEF Create, Free
<1>2. /\ report'[t] = Names(kind, n) /\ report'[n] = Rep("SIGSTOP")
      /\ \A u \in Tids \ {t, n} : report'[u] = report[u] /\ task'[u] = task[u]
      /\ task'[t] = "stopped" /\ task'[n] = "stopped"
  BY <1>1 DEF Create, TypeOK
<1>3. TypeOK'
  <2>1. Names(kind, n) \in [kind : Kinds, new : Tids \cup {Unknown}]
    BY DEF Names, Kinds
  <2>2. Rep("SIGSTOP") \in [kind : Kinds, new : Tids \cup {Unknown}]
    BY DEF Rep, Kinds, StopKinds
  <2>3. report' \in [Tids -> [kind : Kinds, new : Tids \cup {Unknown}]]
    BY <2>1, <2>2 DEF Create, TypeOK
  <2> QED BY <2>3 DEF Create, TypeOK
<1>4. ReportsMatch'
  BY <1>1, <1>2 DEF ReportsMatch, Names, Rep, StopKinds
<1>5. EveryoneMonitored'
  <2> SUFFICES ASSUME NEW u \in Tids, task'[u] \in {"running", "stopped"},
                      report'[u].kind # "EXIT"
               PROVE  (u \in DOMAIN groups' /\ u \in monitored') \/ Announced(u)'
    BY DEF EveryoneMonitored
  <2>1. UNCHANGED <<groups, monitored>> /\ task[t] = "running" /\ task[n] = "none"
    BY DEF Create, Free
  <2>2. report[t].kind = "none" /\ report[n].kind = "none"
    BY <2>1 DEF ReportsMatch
  <2>3. Announced(n)'
    BY <1>2 DEF Announced, Names
  <2>4. ASSUME u # n PROVE (u \in DOMAIN groups' /\ u \in monitored') \/ Announced(u)'
    <3>1. task[u] \in {"running", "stopped"} /\ report[u].kind # "EXIT"
      BY <1>2, <2>1, <2>2, <2>4
    <3>2. CASE u \in DOMAIN groups /\ u \in monitored
      BY <2>1, <3>2
    <3>3. CASE Announced(u)
      <4>1. PICK v \in Tids : report[v].kind \in NamingKinds /\ report[v].new = u
        BY <3>3 DEF Announced
      <4>2. v # t /\ v # n
        BY <2>2, <4>1
      <4> QED BY <1>2, <4>1, <4>2 DEF Announced
    <3> QED BY <3>1, <3>2, <3>3 DEF EveryoneMonitored
  <2> QED BY <2>3, <2>4
<1> QED BY <1>3, <1>4, <1>5

LEMMA StopInv ==
  ASSUME IInv, NEW t \in Tids, NEW kind \in StopKinds, Stop(t, kind),
         UNCHANGED <<proc, used, groups, monitored, wanted, controller>>,
         stops' \in Nat, sigstop' \in BOOLEAN
  PROVE  IInv'
<1> USE ConstantsAssumption DEF IInv
<1>1. /\ report'[t] = Rep(kind) /\ task'[t] = "stopped" /\ task[t] = "running"
      /\ \A u \in Tids \ {t} : report'[u] = report[u] /\ task'[u] = task[u]
  BY DEF Stop, TypeOK
<1>2. TypeOK'
  <2>1. Rep(kind) \in [kind : Kinds, new : Tids \cup {Unknown}]
    BY DEF Rep, Kinds
  <2> QED BY <2>1 DEF Stop, TypeOK
<1>3. ReportsMatch'
  BY <1>1 DEF ReportsMatch, Rep, StopKinds, NamingKinds
<1>4. EveryoneMonitored'
  <2>1. report[t].kind = "none"
    BY <1>1 DEF ReportsMatch
  <2> QED BY <1>1, <2>1, MonitoredKept DEF NamingKinds
<1> QED BY <1>2, <1>3, <1>4

LEMMA DieInv ==
  ASSUME IInv, NEW t \in Tids, Die(t)
  PROVE  IInv'
<1> USE ConstantsAssumption DEF IInv
<1>1. /\ report'[t] = Rep("EXITED") /\ task'[t] = "dead" /\ task[t] = "exiting"
      /\ \A u \in Tids \ {t} : report'[u] = report[u] /\ task'[u] = task[u]
  BY DEF Die, TypeOK
<1>2. TypeOK'
  <2>1. Rep("EXITED") \in [kind : Kinds, new : Tids \cup {Unknown}]
    BY DEF Rep, Kinds
  <2> QED BY <2>1 DEF Die, TypeOK
<1>3. ReportsMatch'
  BY <1>1 DEF ReportsMatch, Rep, StopKinds, NamingKinds
<1>4. EveryoneMonitored'
  <2>1. report[t].kind = "none"
    BY <1>1 DEF ReportsMatch
  <2> QED BY <1>1, <2>1, MonitoredKept DEF NamingKinds, Die
<1> QED BY <1>2, <1>3, <1>4

-----------------------------------------------------------------------------
(* No task is missed: the steps of lo2s                                    *)

(* A task is let go: what it had to report is gone.                        *)
LEMMA ContinueFacts ==
  ASSUME IInv, NEW t \in Tids, NEW to \in {"running", "exiting", "none"}, Continue(t, to)
  PROVE  /\ report'[t] = NoReport /\ task'[t] = to
         /\ \A u \in Tids \ {t} : report'[u] = report[u] /\ task'[u] = task[u]
         /\ task' \in [Tids -> {"none", "running", "stopped", "exiting", "dead"}]
         /\ report' \in [Tids -> [kind : Kinds, new : Tids \cup {Unknown}]]
         /\ ReportsMatch'
<1>1. /\ report'[t] = NoReport /\ task'[t] = to
      /\ \A u \in Tids \ {t} : report'[u] = report[u] /\ task'[u] = task[u]
  BY DEF Continue, IInv, TypeOK
<1>2. NoReport \in [kind : Kinds, new : Tids \cup {Unknown}]
  BY DEF NoReport, Kinds
<1>3. /\ task' \in [Tids -> {"none", "running", "stopped", "exiting", "dead"}]
      /\ report' \in [Tids -> [kind : Kinds, new : Tids \cup {Unknown}]]
  BY <1>2 DEF Continue, IInv, TypeOK
<1>4. ReportsMatch'
  BY <1>1 DEF IInv, ReportsMatch, NoReport, StopKinds, NamingKinds
<1> QED BY <1>1, <1>3, <1>4

(* OnFork and OnClone: the announced task is registered and, unless it has *)
(* begun to exit, monitored.                                               *)
LEMMA RegisterInv ==
  ASSUME IInv, NEW t \in Tids, NEW p, report[t].kind \in NamingKinds,
         groups' = Emplaced(report[t].new, p), InsertThread(report[t].new),
         Continue(t, "running"),
         UNCHANGED <<proc, used, stops, wanted, sigstop, controller>>
  PROVE  IInv'
<1> DEFINE n == report[t].new
<1>1. n \in Tids
  BY DEF IInv, ReportsMatch
<1>2. DOMAIN groups' = DOMAIN groups \cup {n}
  BY DEF Emplaced
<1>3. monitored \subseteq monitored' /\ monitored' \subseteq monitored \cup {n}
  BY DEF InsertThread
<1>4. TypeOK'
  BY <1>1, <1>2, <1>3, ContinueFacts DEF IInv, TypeOK
<1>5. ReportsMatch'
  BY ContinueFacts
<1>6. EveryoneMonitored'
  <2> SUFFICES ASSUME NEW u \in Tids, task'[u] \in {"running", "stopped"},
                      report'[u].kind # "EXIT"
               PROVE  (u \in DOMAIN groups' /\ u \in monitored') \/ Announced(u)'
    BY DEF EveryoneMonitored
  <2>1. task[t] = "stopped" /\ report[t].kind # "EXIT"
    BY DEF IInv, TypeOK, ReportsMatch, NamingKinds
  <2>2. task[u] \in {"running", "stopped"} /\ report[u].kind # "EXIT"
    BY <2>1, ContinueFacts
  <2>3. CASE u = n
    BY <1>2, <2>2, <2>3 DEF InsertThread
  <2>4. CASE u # n
    <3>1. CASE u \in DOMAIN groups /\ u \in monitored
      BY <1>2, <1>3, <3>1
    <3>2. CASE Announced(u)
      <4>1. PICK v \in Tids : report[v].kind \in NamingKinds /\ report[v].new = u
        BY <3>2 DEF Announced, NamingKinds
      <4>2. v # t
        BY <2>4, <4>1
      <4>3. report'[v] = report[v]
        BY <4>2, ContinueFacts
      <4> QED BY <4>1, <4>3 DEF Announced, NamingKinds
    <3> QED BY <2>2, <3>1, <3>2 DEF IInv, EveryoneMonitored
  <2> QED BY <2>3, <2>4
<1> QED BY <1>4, <1>5, <1>6 DEF IInv

(* The other reports: the task goes on, exits or is gone.                  *)
LEMMA LetGoInv ==
  ASSUME IInv, NEW t \in Tids, NEW to \in {"running", "exiting", "none"},
         report[t].kind \notin NamingKinds \cup {"none"},
         report[t].kind \in {"EXIT", "EXITED"} => to # "running",
         Continue(t, to), controller' \in {"running", "stopped"},
         UNCHANGED <<proc, used, stops, groups, wanted, sigstop>>,
         monitored' = monitored \/ (to = "exiting" /\ monitored' = monitored \ {t})
  PROVE  IInv'
<1>1. TypeOK'
  BY ContinueFacts DEF IInv, TypeOK
<1>2. ReportsMatch'
  BY ContinueFacts
<1>3. EveryoneMonitored'
  <2>1. \A u \in Tids \ {t} : task'[u] = task[u] /\ report'[u] = report[u]
    BY ContinueFacts
  <2>2. task'[t] = to
    BY ContinueFacts
  <2>3. to = "running" => task[t] = "stopped" /\ report[t].kind # "EXIT"
    BY DEF IInv, TypeOK, ReportsMatch
  <2> QED BY <2>1, <2>2, <2>3, MonitoredKept DEF IInv
<1> QED BY <1>1, <1>2, <1>3 DEF IInv

LEMMA StepInv == IInv /\ [Next]_vars => IInv'
<1> SUFFICES ASSUME IInv, [Next]_vars PROVE IInv'
  OBVIOUS
<1>1. ASSUME NEW t \in Tids, NEW n \in Tids, Fork(t, n) PROVE IInv'
  BY <1>1, CreateInv DEF Fork, NamingKinds
<1>2. ASSUME NEW t \in Tids, NEW n \in Tids, Clone(t, n) PROVE IInv'
  <2>1. proc[t] \in Tids \cup {Unknown}
    BY DEF IInv, TypeOK
  <2> QED BY <1>2, <2>1, CreateInv DEF Clone, NamingKinds
<1>3. ASSUME NEW t \in Tids, Signal(t) PROVE IInv'
  <2>1. PICK kind \in {"SIGNAL", "EXEC"} : Stop(t, kind)
    BY <1>3 DEF Signal
  <2>2. stops' \in Nat /\ sigstop' \in BOOLEAN
    BY <1>3 DEF Signal, IInv, TypeOK
  <2>3. UNCHANGED <<proc, used, groups, monitored, wanted, controller>>
    BY <1>3 DEF Signal
  <2> QED BY <2>1, <2>2, <2>3, StopInv DEF StopKinds
<1>4. ASSUME NEW t \in Tids, Exit(t) PROVE IInv'
  <2>1. stops' \in Nat /\ sigstop' \in BOOLEAN
    BY <1>4 DEF Exit, IInv, TypeOK
  <2> QED BY <1>4, <2>1, StopInv DEF Exit, StopKinds
<1>5. ASSUME NEW t \in Tids, Die(t) PROVE IInv'
  BY <1>5, DieInv
<1>6. CASE Stopped
  <2>1. stops' \in Nat /\ sigstop' \in BOOLEAN
    BY <1>6 DEF Stopped, IInv, TypeOK
  <2> QED BY <1>6, <2>1, StopInv, ConstantsAssumption DEF Stopped, StopKinds
<1>7. ASSUME NEW t \in Tids, OnFork(t) PROVE IInv'
  BY <1>7, RegisterInv DEF OnFork, Fetch, NamingKinds
<1>8. ASSUME NEW t \in Tids, OnClone(t) PROVE IInv'
  BY <1>8, RegisterInv DEF OnClone, Fetch, NamingKinds
<1>9. ASSUME NEW t \in Tids, OnExit(t) PROVE IInv'
  <2>1. controller' \in {"running", "stopped"}
    BY <1>9 DEF OnExit, IInv, TypeOK
  <2> QED BY <1>9, <2>1, LetGoInv DEF OnExit, Fetch, NamingKinds
<1>10. ASSUME NEW t \in Tids, OnStop(t) PROVE IInv'
  <2>1. controller' \in {"running", "stopped"}
    BY <1>10 DEF OnStop, IInv, TypeOK
  <2> QED BY <1>10, <2>1, LetGoInv DEF OnStop, Fetch, NamingKinds
<1>11. ASSUME NEW t \in Tids, OnSignal(t) PROVE IInv'
  <2>1. controller' \in {"running", "stopped"}
    BY <1>11 DEF OnSignal, IInv, TypeOK
  <2> QED BY <1>11, <2>1, LetGoInv DEF OnSignal, Fetch, NamingKinds
<1>12. ASSUME NEW t \in Tids, OnExited(t) PROVE IInv'
  <2>1. controller' \in {"running", "stopped"}
    BY <1>12 DEF OnExited, IInv, TypeOK
  <2> QED BY <1>12, <2>1, LetGoInv DEF OnExited, NamingKinds
<1>13. CASE Sigint
  BY <1>13 DEF Sigint, IInv, TypeOK, ReportsMatch, EveryoneMonitored, Announced
<1>14. CASE UNCHANGED vars
  BY <1>14 DEF vars, IInv, TypeOK, ReportsMatch, EveryoneMonitored, Announced
<1> QED
  BY <1>1, <1>2, <1>3, <1>4, <1>5, <1>6, <1>7, <1>8, <1>9, <1>10, <1>11, <1>12,
     <1>13, <1>14 DEF Next

-----------------------------------------------------------------------------
(* No thread under a wrong process, with fresh numbers                     *)

LEMMA InitFresh == Init => FreshInv
<1> SUFFICES ASSUME Init PROVE FreshInv
  OBVIOUS
<1>1. \A t \in Tids : report[t].kind \notin NamingKinds
  BY ConstantsAssumption DEF Init, Rep, NoReport, NamingKinds
<1>2. AnnouncedOnce
  BY <1>1, ConstantsAssumption DEF Init, AnnouncedOnce
<1>3. Registered
  BY ConstantsAssumption DEF Init, Registered
<1> QED BY <1>2, <1>3 DEF FreshInv

LEMMA CreateFresh ==
  ASSUME IInv, FreshInv, ~Reuse, NEW t \in Tids, NEW n \in Tids,
         NEW kind \in NamingKinds,
         Create(t, n, IF kind = "FORK" THEN n ELSE proc[t], kind)
  PROVE  FreshInv'
<1>1. n \notin used /\ t \in used /\ t # n /\ UNCHANGED groups /\ used' = used \cup {n}
  BY DEF Create, Free, FreshInv, AnnouncedOnce
<1>2. /\ report'[t] = Names(kind, n) /\ report'[n] = Rep("SIGSTOP")
      /\ \A u \in Tids \ {t, n} : report'[u] = report[u] /\ task'[u] = task[u]
      /\ task'[t] = "stopped" /\ task'[n] = "stopped"
      /\ proc'[n] = IF kind = "FORK" THEN n ELSE proc[t]
      /\ \A u \in Tids \ {n} : proc'[u] = proc[u]
  BY <1>1 DEF Create, IInv, TypeOK
<1>3. AnnouncedOnce'
  <2>1. \A u \in Tids : task'[u] # "none" => u \in used'
    BY <1>1, <1>2 DEF FreshInv, AnnouncedOnce
  <2>2. ASSUME NEW u \in Tids, report'[u].kind \in NamingKinds
        PROVE  /\ report'[u].new \in used' \ DOMAIN groups'
               /\ proc'[report'[u].new] = IF report'[u].kind = "FORK" THEN report'[u].new
                                          ELSE proc'[u]
    <3>1. CASE u = t
      BY <1>1, <1>2, <3>1 DEF Names, FreshInv, AnnouncedOnce
    <3>2. CASE u # t
      <4>1. u # n
        BY <1>2, <2>2 DEF Rep, NamingKinds
      <4>2. report'[u] = report[u] /\ report[u].new \in used \ DOMAIN groups
        BY <1>2, <2>2, <3>2, <4>1 DEF FreshInv, AnnouncedOnce
      <4>3. report[u].new \in Tids \ {n}
        BY <1>1, <4>2 DEF IInv, TypeOK
      <4> QED BY <1>1, <1>2, <2>2, <4>1, <4>2, <4>3 DEF FreshInv, AnnouncedOnce
    <3> QED BY <3>1, <3>2
  <2>3. ASSUME NEW u \in Tids, NEW v \in Tids, report'[u].kind \in NamingKinds,
               report'[v].kind \in NamingKinds, report'[u].new = report'[v].new
        PROVE  u = v
    <3>1. u # n /\ v # n
      BY <1>2, <2>3 DEF Rep, NamingKinds
    <3>2. \A w \in Tids \ {t, n} : report[w].kind \in NamingKinds => report[w].new # n
      BY <1>1 DEF FreshInv, AnnouncedOnce
    <3> QED BY <1>2, <2>3, <3>1, <3>2 DEF Names, FreshInv, AnnouncedOnce
  <2>4. DOMAIN groups' \subseteq used'
    BY <1>1 DEF FreshInv, AnnouncedOnce
  <2> QED BY <2>1, <2>2, <2>3, <2>4 DEF AnnouncedOnce
<1>4. Registered'
  BY <1>1, <1>2 DEF FreshInv, AnnouncedOnce, Registered, IInv, TypeOK
<1> QED BY <1>3, <1>4 DEF FreshInv

(* Steps after which fewer events name a task and no task is created.      *)
LEMMA SubsideFresh ==
  ASSUME FreshInv, UNCHANGED <<proc, used, groups>>,
         \A t \in Tids : task'[t] # "none" => task[t] # "none",
         \A t \in Tids : report'[t].kind \in NamingKinds => report'[t] = report[t]
  PROVE  FreshInv'
  BY DEF FreshInv, AnnouncedOnce, Registered

(* An announced task is registered under the process it belongs to, or     *)
(* under Unknown if its parent is not registered itself.                   *)
LEMMA RegisterFresh ==
  ASSUME IInv, FreshInv, NEW t \in Tids, NEW p, report[t].kind \in NamingKinds,
         groups' = Emplaced(report[t].new, p), Continue(t, "running"),
         p \in {proc[report[t].new], Unknown}, UNCHANGED <<proc, used>>
  PROVE  FreshInv'
<1> DEFINE n == report[t].new
<1>1. n \in used \ DOMAIN groups
  BY DEF FreshInv, AnnouncedOnce
<1>2. DOMAIN groups' = DOMAIN groups \cup {n}
  BY DEF Emplaced
<1>3. groups'[n] = p /\ \A u \in DOMAIN groups : groups'[u] = groups[u]
  BY <1>1 DEF Emplaced
<1>4. Registered'
  BY <1>2, <1>3 DEF FreshInv, Registered
<1>5. /\ report'[t] = NoReport /\ task[t] # "none"
      /\ \A u \in Tids \ {t} : report'[u] = report[u] /\ task'[u] = task[u]
  BY ContinueFacts DEF IInv, ReportsMatch, NamingKinds
<1>6. \A u \in Tids : report'[u].kind \in NamingKinds =>
        u # t /\ report'[u] = report[u] /\ report[u].new # n
  BY <1>5 DEF NoReport, NamingKinds, FreshInv, AnnouncedOnce
<1>7. AnnouncedOnce'
  BY <1>1, <1>2, <1>5, <1>6 DEF FreshInv, AnnouncedOnce
<1> QED BY <1>4, <1>7 DEF FreshInv

LEMMA StepFresh == IInv /\ FreshInv /\ ~Reuse /\ [Next]_vars => FreshInv'
<1> SUFFICES ASSUME IInv, FreshInv, ~Reuse, [Next]_vars PROVE FreshInv'
  OBVIOUS
<1>1. ASSUME NEW t \in Tids, NEW n \in Tids, Fork(t, n) PROVE FreshInv'
  BY <1>1, CreateFresh DEF Fork, NamingKinds
<1>2. ASSUME NEW t \in Tids, NEW n \in Tids, Clone(t, n) PROVE FreshInv'
  BY <1>2, CreateFresh DEF Clone, NamingKinds
<1>3. ASSUME NEW t \in Tids, NEW kind \in StopKinds, Stop(t, kind),
             UNCHANGED <<proc, used, groups>>
      PROVE  FreshInv'
  <2>1. /\ \A u \in Tids : task'[u] # "none" => task[u] # "none"
        /\ \A u \in Tids : report'[u].kind \in NamingKinds => report'[u] = report[u]
    BY <1>3 DEF Stop, Rep, StopKinds, NamingKinds, IInv, TypeOK
  <2> QED BY <1>3, <2>1, SubsideFresh
<1>4. ASSUME NEW t \in Tids, Signal(t) PROVE FreshInv'
  BY <1>3, <1>4 DEF Signal, StopKinds
<1>5. ASSUME NEW t \in Tids, Exit(t) PROVE FreshInv'
  BY <1>3, <1>5 DEF Exit, StopKinds
<1>6. CASE Stopped
  BY <1>3, <1>6, ConstantsAssumption DEF Stopped, StopKinds
<1>7. ASSUME NEW t \in Tids, Die(t) PROVE FreshInv'
  <2>1. /\ \A u \in Tids : task'[u] # "none" => task[u] # "none"
        /\ \A u \in Tids : report'[u].kind \in NamingKinds => report'[u] = report[u]
    BY <1>7 DEF Die, Rep, NamingKinds, IInv, TypeOK
  <2> QED BY <1>7, <2>1, SubsideFresh DEF Die
<1>8. ASSUME NEW t \in Tids, OnFork(t) PROVE FreshInv'
  <2>1. proc[report[t].new] = report[t].new
    BY <1>8 DEF OnFork, Fetch, NamingKinds, FreshInv, AnnouncedOnce
  <2> QED BY <1>8, <2>1, RegisterFresh DEF OnFork, Fetch, NamingKinds
<1>9. ASSUME NEW t \in Tids, OnClone(t) PROVE FreshInv'
  <2>1. proc[report[t].new] = proc[t]
    BY <1>9 DEF OnClone, Fetch, NamingKinds, FreshInv, AnnouncedOnce
  <2>2. get_process(t) \in {proc[t], Unknown}
    BY DEF get_process, FreshInv, Registered
  <2> QED BY <1>9, <2>1, <2>2, RegisterFresh DEF OnClone, Fetch, NamingKinds
<1>10. ASSUME NEW t \in Tids, NEW to \in {"running", "exiting", "none"},
              Continue(t, to), report[t].kind # "none", UNCHANGED <<proc, used, groups>>
       PROVE  FreshInv'
  <2>1. task[t] # "none"
    BY <1>10 DEF IInv, ReportsMatch
  <2>2. /\ \A u \in Tids : task'[u] # "none" => task[u] # "none"
        /\ \A u \in Tids : report'[u].kind \in NamingKinds => report'[u] = report[u]
    BY <1>10, <2>1, ContinueFacts DEF NoReport, NamingKinds
  <2> QED BY <1>10, <2>2, SubsideFresh
<1>11. ASSUME NEW t \in Tids, OnExit(t) PROVE FreshInv'
  BY <1>10, <1>11 DEF OnExit, Fetch
<1>12. ASSUME NEW t \in Tids, OnStop(t) PROVE FreshInv'
  BY <1>10, <1>12 DEF OnStop, Fetch
<1>13. ASSUME NEW t \in Tids, OnSignal(t) PROVE FreshInv'
  BY <1>10, <1>13 DEF OnSignal, Fetch
<1>14. ASSUME NEW t \in Tids, OnExited(t) PROVE FreshInv'
  BY <1>10, <1>14 DEF OnExited
<1>15. CASE Sigint
  BY <1>15 DEF Sigint, FreshInv, AnnouncedOnce, Registered
<1>16. CASE UNCHANGED vars
  BY <1>16 DEF vars, FreshInv, AnnouncedOnce, Registered
<1> QED
  BY <1>1, <1>2, <1>4, <1>5, <1>6, <1>7, <1>8, <1>9, <1>11, <1>12, <1>13, <1>14,
     <1>15, <1>16 DEF Next

-----------------------------------------------------------------------------
(* Theorems                                                                *)

(* The reports that waitpid can fetch fit the states of the tasks, and     *)
(* the tables of lo2s are of their types.                                  *)
THEOREM TypeCorrect == Spec => []IInv
<1>1. Init => IInv
  BY InitInv
<1>2. IInv /\ [Next]_vars => IInv'
  BY StepInv
<1> QED BY <1>1, <1>2, PTL DEF Spec

(* Whatever order the stops are fetched in, and although numbers may be    *)
(* given out again, a task that has not begun to exit is registered and    *)
(* has a monitor, or its announcement is still to be handled.              *)
THEOREM NoTaskMissed == Spec => []EveryoneMonitored
<1>1. IInv => EveryoneMonitored
  BY DEF IInv
<1> QED BY <1>1, TypeCorrect, PTL

(* If the kernel does not give numbers out again, a registered thread is   *)
(* never under a process it does not belong to.                            *)
THEOREM ProcessesAreRight == ASSUME ~Reuse PROVE Spec => []NeverWrongProcess
<1>1. Init => FreshInv
  BY InitFresh
<1>2. IInv /\ FreshInv /\ [Next]_vars => FreshInv'
  BY StepFresh, ~Reuse
<1>3. FreshInv => NeverWrongProcess
  BY DEF FreshInv, Registered, NeverWrongProcess
<1> QED BY <1>1, <1>2, <1>3, TypeCorrect, PTL DEF Spec
=============================================================================
