SPECIFICATION Spec
CONSTANTS
  Packet = {1, 2}
  None = None
  RingSize = 2
  CursorMod = 4
  Threshold = 1
  FewRetries = 0
  ManyRetries = 1
  Delay = 1
  Discards = 1
  AudioErrTimes = 2
INVARIANTS
  TypeOK
  HearsAgain
PROPERTIES
  QueueSpec
  TxEnds
  UnheardSessionEnds
  OnlyMacFramesReported
  NotSentAfterAck
