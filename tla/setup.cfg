SPECIFICATION Spec
CONSTANTS
  Cpus <- MCCpus
  Threads <- MCThreads
  Events <- MCEvents
  Predefined <- MCPredefined
  Raw = {"r1a8"}
  Encoding <- MCEncoding
  Pmu <- MCPmu
  CountsOn <- MCCountsOn
  Listed = {"cpu_atom/x/", "uncore/y/"}
  Options <- MCOptions
INVARIANT LayoutMatches
INVARIANT AvailableIsOpenable
CHECK_DEADLOCK FALSE
