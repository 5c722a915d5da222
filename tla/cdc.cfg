SPECIFICATION Spec
CONSTANTS
  Rows = {r1}
  MaxChanges = 2
  MaxFaults = 2
INVARIANTS
  TypeOK
  NothingLost
  OnlyInFlightRepeated
PROPERTIES
  FailedTaskRevived
  FailedConnectorReported
  ImplementsReplica
  CatchesUp
