CONSTANTS
  Frame = 4
  HdrLen = 5
  LenAt = 1
  SignLen = 1
  CrcLen = 3
  MaxImage = 13
  ImageAddr = 262144
  Retries = 1
  Sizes = {10, 12}
  FirstSize = 10
  LastVersion = 3
  MaxSessions = 1
  MaxUpdates = 1
  MaxFaults = 1
  MaxBlock = 3
SPECIFICATION FairSpec
INVARIANTS
  TypeOK
  BootsWhole
  DataInOrder
PROPERTY SessionReported
CHECK_DEADLOCK FALSE
