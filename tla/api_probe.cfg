SPECIFICATION Spec
CONSTANTS
  Threshold = 2
  RecoveryTimeout = 2
  PoolSize = 1
  Workers = {w1}
  Users = {u1}
PROPERTY OneProbe
