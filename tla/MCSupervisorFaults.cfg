SPECIFICATION FairSpec
CONSTANTS
  Sessions = {s1}
  None = None
  MaxJobs = 2
  MaxMsgs = 1
  MaxAttempts = 2
  MaxFaults = 1
  Crashes = TRUE
  WriteErrors = TRUE
  Foreground = TRUE
  TornReads = TRUE
  ExitRetries = TRUE
  UserRecaps = TRUE
INVARIANTS
  TypeOK
  BudgetRespected
PROPERTIES
  AwaitEnds
  FinalizeHonoursCheckpoint
