SPECIFICATION FairSpec
CONSTANTS
  Run = {1, 2}
  Items = 2
  MaxFaults = 2
INVARIANTS TypeOK AppliedOnce HonestSuccess SummaryBacked
PROPERTIES StatusStands WorkingRunKept InterruptedRunEnds
CHECK_DEADLOCK FALSE
