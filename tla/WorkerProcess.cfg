SPECIFICATION FairSpec
CONSTANTS
  a1 = a1
  a2 = a2
  e1 = e1
  e2 = e2
  Attempt = {a1, a2}
  Entry = {e1, e2}
  AttemptOf <- MCAttemptOf
  Capacity = 1
  MaxTrouble = 2
CHECK_DEADLOCK FALSE
INVARIANTS
  NothingDroppedUnclaimed
  OrphansExplained
PROPERTIES
  StopsUnlessInline
  CancelStopsExecution
