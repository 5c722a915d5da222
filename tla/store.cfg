SPECIFICATION Spec
CONSTANTS
  Users = {u1, u2}
  MaxTime = 2
  MaxArrivals = 3
  Second = 2
  ValidFor = 1
  BatchSize = 1
  Debts = {good, bad}
  Rejected = {bad}
  NoRow = NoRow
INVARIANTS
  TypeOK
  SuccessIsComplete
PROPERTIES
  PastIsReproducible
  AnswersMoveOn
  KeepsHistory
  Converges
