SPECIFICATION Spec
CONSTANTS
  Claims = {a, b, c}
  Disputes = {}
  MaxVersion = 2
  Initial = {a, b, c}
  Sourced = {a}
  Ops = {"dream", "rebind", "policy"}
  MaxFaults = 0
  AuthErrors = FALSE
SYMMETRY ClaimSymmetry
CHECK_DEADLOCK FALSE
INVARIANTS
  WithdrawnIsNotHeldBack
PROPERTY
  SourceKeptUntilCarried
