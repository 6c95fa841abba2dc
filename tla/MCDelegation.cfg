SPECIFICATION FairSpec
CHECK_DEADLOCK FALSE
CONSTANTS
  MaxDelegations = 2
  None = None
  MaxConcurrent = 1
  MaxResumes = 1
  MaxFaults = 1
  LateSweeps = FALSE
INVARIANTS
  NoOrphans
  ClosedIsQuiet
  CommittedIsCompleted
PROPERTIES
  RegisteredEnds
  WaitIsAnswered
