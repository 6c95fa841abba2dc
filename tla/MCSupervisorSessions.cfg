SPECIFICATION Spec
CONSTANTS
  Sessions = {s1}
  None = None
  MaxJobs = 3
  MaxMsgs = 3
  MaxAttempts = 2
  MaxFaults = 1
  Crashes = FALSE
  WriteErrors = FALSE
  Foreground = FALSE
  TornReads = FALSE
  ExitRetries = FALSE
  UserRecaps = TRUE
INVARIANTS
  
  
  ClosedIsRecapped
  RecapWorkKept
PROPERTY
  TakeoverKeepsWork
