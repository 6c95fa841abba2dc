SPECIFICATION FairSpec
CONSTANTS
  Holders = {h1, h2}
  Workers = {w1}
  Mode = "auto"
  None = None
  MaxAttempts = 1
  MaxAnalyses = 2
  MaxRes = 3
  MaxWorld = 2
  MaxFaults = 2
CHECK_DEADLOCK FALSE
INVARIANTS
  HoldersAreTold
  OnlyDecisionsAreSent
  AdoptedIsDone
  AdoptsWhatItRead
PROPERTIES
  DecisionsStand
  DecidedIsDelivered
  AdoptionEnds
