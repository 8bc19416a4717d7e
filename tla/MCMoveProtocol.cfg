SPECIFICATION FairSpec
CONSTANTS
  Strategy = {"copy_publish_delete", "atomic_no_replace_rename"}
  Id = {1, 2, 3, 4, 5, 6, 7, 8, 9}
  Original = 1
  NoId = 0
  MaxFaults = 3
  MaxTouched = 2
INVARIANTS TypeOK Recoverable
PROPERTIES CopyBeforeDelete UserContentKept MoveIsAtomic RecoveryCloses
CHECK_DEADLOCK FALSE
