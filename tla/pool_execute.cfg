SPECIFICATION Spec
CONSTANTS
  Callers = {t1}
  Conns = {k1, k2, k3}
  PoolSize = 2
  NoConn = NoConn
INVARIANT AllReturned
CHECK_DEADLOCK FALSE
