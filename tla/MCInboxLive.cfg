SPECIFICATION FairSpec
CONSTANTS
  Procs = {p1}
  Policies = {pa}
  None = None
  Orphan = Orphan
  Delayed = FALSE
  MaxMsgs = 2
  MaxClaims = 2
  MaxFaults = 2
PROPERTIES
  ReceivedIsDone
  SentIsReceived
