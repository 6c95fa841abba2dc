SPECIFICATION KSpec
CONSTANTS
  Claims = {a, b}
  Disputes = {}
  MaxVersion = 3
  Initial = {a, b}
  Sourced = {a}
  Ops = {"edit", "recap", "dream", "rebind", "policy"}
  MaxFaults = 1
PROPERTIES
  EditsKept
  SuccessorsFirst
