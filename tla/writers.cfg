SPECIFICATION Spec
CONSTANTS
  u1 = u1
  u2 = u2
  good = good
  bad = bad
  Users = {u1, u2}
  MaxTime = 2
  MaxArrivals = 2
  MaxRuns = 2
  Second = 2
  BatchSize = 1
  Debts = {good, bad}
  Rejected = {bad}
INVARIANTS
  TypeOK
  SparkPointInTime
  CsvTrailTrue
  DualWriteAgrees
SYMMETRY Symmetry
