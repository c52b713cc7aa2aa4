SPECIFICATION Spec
CONSTANTS
  Cpus = 2
  Packages = 1
  Counters = 1
  Tasks = 1
  Modes = {"process", "cpu_set"}
  Features = {{"tracepoint"}, {"bio", "posix", "plugin"}, {"adapt"}, {"energy", "sensors"}}
  MayFail = {"tracepoint", "bio", "adapt", "node", "energy", "socket", "posix", "scope", "attach"}
  MaxClock = 1
INVARIANTS NeverTerminated FinalizedAlone 
PROPERTY StopReturns
CHECK_DEADLOCK FALSE
