SPECIFICATION FairSpec
CONSTANTS
    MaxOps = 4
    MaxRetries = 1
    MaxFaults = 2
INVARIANTS
    ClientIsCurrent
    LastToggleWins
PROPERTIES
    AdmittedAlone
    OperationsEnd
CHECK_DEADLOCK FALSE
