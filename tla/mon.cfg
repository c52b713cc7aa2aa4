SPECIFICATION FairSpec
CONSTANTS
  GpuClients = {g}
  OmpClients = {o}
  NoClient = NoClient
  Mortal = TRUE
  LoopKept = TRUE
  MaxEvents = 2
INVARIANTS
  MonitorMatchesClient
  NothingOwedIsLost
PROPERTIES
  StopReturns
  ClientAnswered
CHECK_DEADLOCK FALSE
