SPECIFICATION FairSpec
CONSTANTS
  Plan = {1, 2}
  Scans <- MCScans
  Manual <- MCManual
  MaxChanges = 1
  PageSizes = {1, 2}
  MaxSuffix = 1
  MaxFaults = 1
INVARIANTS TypeOK NamesResolved
PROPERTIES PlanAppearsAtOnce BuildEnds
CHECK_DEADLOCK FALSE
