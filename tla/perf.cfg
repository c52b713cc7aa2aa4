SPECIFICATION Spec
CONSTANTS
  DataSize = 5
  Attempts = 3
  SizeOf <- MCSizeOf
  Kinds = {"thread", "cpu", "syscall", "tracepoint", "group", "userspace"}
  MaxClock = 2
  Skews <- MCSkews
  Tolerance = 1
  MaxCount = 2
INVARIANTS
  DeliveredIntact
  LossAccounted
  StopDrains
  TimesInOrder
  CounterFaithful
CHECK_DEADLOCK FALSE
