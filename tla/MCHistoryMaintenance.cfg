SPECIFICATION Spec
CONSTANTS
  Item = {1, 2}
  MaxRuns = 4
  MaxFaults = 1
  MaxTouched = 1
INVARIANTS TypeOK ArchiveCurrent UnrolledKept
PROPERTIES PurgeHasArchive
CHECK_DEADLOCK FALSE
