SPECIFICATION Spec
CONSTANTS
  Item = {1, 2}
  MaxRuns = 4
  MaxFaults = 1
  MaxTouched = 1
INVARIANT RestorationVerified
CHECK_DEADLOCK FALSE
