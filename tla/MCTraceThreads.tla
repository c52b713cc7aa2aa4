---------------------------- MODULE MCTraceThreads ----------------------------
(* Small instances of TraceThreads: one CPU, a disk with a partition, a    *)
(* command that creates two tasks, and a kernel thread beside it.          *)
EXTENDS TraceThreads

MCCoreOf == [c \in {0} |-> 0]
MCPackageOf == [c \in {0} |-> 0]
MCPartitionOf == [d \in {"sda1"} |-> "sda"]
MCUnknown == [file |-> "<unknown>", function |-> <<"", "<unknown>">>, dso |-> "<unknown>"]
MCLineInfos ==
  [p \in 0 .. 5 |-> IF p = 1 THEN [a \in {10, 11, 12} |-> [file |-> "a.c", function |-> <<"", "main">>, dso |-> "a.out"]] ELSE <<>>]
MCConfigs ==
  {<<"process", {"sampling", "posix"}>>, <<"process", {"syscall", "group", "posix"}>>,
   <<"process", {"group", "userspace"}>>, <<"system", {"sampling", "group"}>>, <<"system", {"group", "userspace"}>>}
MCMonitorIds == [t \in 1 .. 3 |-> 100 + t]
=============================================================================
