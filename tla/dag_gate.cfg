SPECIFICATION Spec
CONSTANTS
  Checks = {}
  MaxRows = 0
INVARIANT
  GateFailsDag
