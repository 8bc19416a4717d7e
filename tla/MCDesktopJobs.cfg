SPECIFICATION FairSpec
CONSTANTS
  MaxJobs = 2
  MaxRuns = 5
  MaxGeneration = 3
  JobLimit = 1
  Pruned = 1
INVARIANTS TypeOK OneAtATime ContextConsistent ResultUsable
PROPERTIES ReservationsReturned
CHECK_DEADLOCK FALSE
