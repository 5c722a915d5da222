SPECIFICATION Spec
CONSTANTS
  Callers = {t1, t2, t3}
  Conns = {k1, k2, k3}
  PoolSize = 2
  NoConn = NoConn
INVARIANTS
  TypeOK
  NoSharing
  SlotsAccountedFor
  PutNeverBlocks
PROPERTIES
  ImplementsSlots
  EveryCallReturns
\* A closed pool takes no more calls: the process is exiting.
CHECK_DEADLOCK FALSE
