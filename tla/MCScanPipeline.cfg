SPECIFICATION FairSpec
CONSTANTS
  Files = 3
  Image = {1}
  Worker = {w1, w2}
  Capacity = 2
  Batch = 2
  MaxEdits = 1
  MaxFaults = 1
INVARIANTS TypeOK HonestCompletion CacheTruthful
PROPERTIES ScanReturns
CHECK_DEADLOCK FALSE
