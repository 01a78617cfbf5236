CONSTANTS
  RetireTears = FALSE
  Cap = 3
  Thres = 1
  Burst = 1
  MaxCount = 8
  MaxFails = 1
  Excess = {1, 40}
SPECIFICATION Spec
INVARIANT AbnormalWordBackedOff
CHECK_DEADLOCK FALSE
