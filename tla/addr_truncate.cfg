SPECIFICATION Spec
CONSTANTS
  Processes = {1, 2}
  Parent = 1
  t1 = t1
  t2 = t2
  t3 = t3
  Threads = {t1, t2, t3}
  Cpus = {"c1"}
  Home <- MCHome
  MaxAddress = 6
  MaxMmaps = 3
  MaxResolved = 1
  KernelSymbols <- MCKernelSymbols
  PerfMapFile <- MCPerfMapFile
  DebugInfo <- MCDebugInfo
  SymbolTable <- MCSymbolTable
  DwarfUsage = TRUE
  Unreadable = {"/memfd:code"}
INVARIANT NothingLost
SYMMETRY Symmetry
CHECK_DEADLOCK FALSE
