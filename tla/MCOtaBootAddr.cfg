CONSTANTS
  Frame = 4
  HdrLen = 5
  LenAt = 1
  SignLen = 1
  CrcLen = 3
  MaxImage = 13
  ImageAddr = 262144
  Retries = 1
  Sizes = {10}
  FirstSize = 10
  LastVersion = 3
  MaxSessions = 2
  MaxUpdates = 2
  MaxFaults = 2
  MaxBlock = 3
SPECIFICATION Spec
INVARIANT RunningBankSpared
CHECK_DEADLOCK FALSE
