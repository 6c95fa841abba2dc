SPECIFICATION Spec
CONSTANTS
  Sessions = {s1}
  None = None
  MaxJobs = 2
  MaxMsgs = 2
  MaxAttempts = 2
  MaxFaults = 1
  Crashes = TRUE
  WriteErrors = FALSE
  Foreground = FALSE
  TornReads = FALSE
  ExitRetries = FALSE
  UserRecaps = FALSE
INVARIANT
  ReopenedIsSettled
