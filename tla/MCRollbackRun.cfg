SPECIFICATION FairSpec
CONSTANTS
  Run = {1, 2}
  Items = 2
  MaxUnmoved = 1
  MaxTouches = 1
  MaxFaults = 2
INVARIANTS TypeOK HonestRollback
PROPERTIES OriginalKept InterruptedRollbackEnds
CHECK_DEADLOCK FALSE
