SPECIFICATION Spec
CONSTANTS
  Claims = {a}
  Disputes = {d}
  MaxVersion = 3
  Initial = {a}
  Sourced = {}
  Ops = {"edit", "recap"}
  MaxFaults = 2
  AuthErrors = TRUE
INVARIANTS
  UnsyncedIsQueued
  DisputeKept
PROPERTY
  MirrorMovesForward
