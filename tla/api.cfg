SPECIFICATION Spec
CONSTANTS
  Threshold = 2
  RecoveryTimeout = 1
  PoolSize = 1
  Workers = {w1, w2}
  Users = {u1}
INVARIANTS
  TypeOK
  PoolConserved
  FailingClickHouseSpared
PROPERTIES
  SerialBreakers
  RequestsAnswered
  Recovers
