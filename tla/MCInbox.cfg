SPECIFICATION Spec
CONSTANTS
  Procs = {p1, p2}
  Policies = {pa}
  None = None
  Orphan = Orphan
  Delayed = FALSE
  MaxMsgs = 2
  MaxClaims = 2
  MaxFaults = 1
SYMMETRY ProcSymmetry
INVARIANTS
  EffectsOnce
PROPERTY
  NothingIsLost
