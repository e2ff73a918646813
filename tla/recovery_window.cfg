SPECIFICATION FairSpec
CONSTANTS
  Operator = {o1, o2}
  Start = {0, 1}
  Window = 2
  Horizon = 3
  None = None
  Torn = Torn
  Unit = Unit
  MaxFaults = 1
INVARIANTS WorkersAreSupervised
PROPERTIES PoweroffIsDue ExpiryStopsMachine
CHECK_DEADLOCK FALSE
