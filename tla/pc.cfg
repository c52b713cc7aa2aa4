\* Three tasks fork, clone and exit; stops are fetched in any order.
SPECIFICATION FairSpec
CONSTANTS
  Tids = {1, 2, 3}
  FirstChild = 1
  Attached = TRUE
  Reuse = FALSE
  MaxStops = 1
INVARIANTS
  NeverWrongProcess
  EveryoneMonitored
PROPERTIES
  StopsAnswered
  StopsWithChild
CHECK_DEADLOCK FALSE
