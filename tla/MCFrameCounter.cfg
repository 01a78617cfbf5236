CONSTANTS
  RetireTears = TRUE
  Cap = 3
  Thres = 2
  Burst = 1
  MaxCount = 19
  MaxFails = 1
  Excess = {1, 60}
SPECIFICATION Spec
INVARIANTS
  TypeOK
  NoRollback
  ReuseAtMostBurst
PROPERTY StoredNeverDecreases
CHECK_DEADLOCK FALSE
