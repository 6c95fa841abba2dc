SPECIFICATION FairSpec
CHECK_DEADLOCK FALSE
CONSTANTS
  Jobs = {j1, j2}
  Requests = {r1, r2}
  None = None
  Capacity = 1
  MaxStalls = 1
  MaxAsks = 1
  MaxFaults = 1
INVARIANTS QTypeOK OneTicket NeverForgotten
PROPERTY AnalysisEnds
