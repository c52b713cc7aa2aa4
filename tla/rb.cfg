SPECIFICATION Spec
CONSTANTS
  Size = 128
  Threads = {t1, t2}
  EvSizes = {56}
  Locked = TRUE
  NoThread = NoThread
  MaxEvents = 5
INVARIANTS
  EmptyMeansNothingNew
  ReaderNeverFaults
  EventInUseIsStable
  ThreadOrder
PROPERTY IsQueue
CHECK_DEADLOCK FALSE
