SPECIFICATION Spec
CONSTANTS
  Callers = {c1, c2}
  failure_threshold = 2
  recovery_timeout = 2
  MaxTime = 7
  MaxFailures = 5
  MaxSetBacks = 1
INVARIANTS
  TypeOK
  CountMatchesState
  HalfOpenWaited
PROPERTY
  ImplementsContract
