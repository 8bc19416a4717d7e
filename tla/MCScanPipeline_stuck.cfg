SPECIFICATION FairSpec
CONSTANTS
  Files = 3
  Image = {}
  Worker = {w1}
  Capacity = 1
  Batch = 1
  MaxEdits = 0
  MaxFaults = 1
PROPERTIES WorkerFailureEnds
CHECK_DEADLOCK FALSE
