SPECIFICATION Spec
CONSTANTS
  Threads = {t1, t2}
  TableOf <- MCOwn
  Fds = {3}
  Names = {"a"}
  RingSize = 2
  MaxCalls = 4
INVARIANTS CompletesMatch HandleIsFile
CHECK_DEADLOCK FALSE
SYMMETRY Symmetry
