SPECIFICATION Spec
CONSTANTS
  ChannelNum = 3
  EdMax = 3
  EdQuiet = 0
  NoChannel = 99
  RetryNum = 5
  RetryTime = 2
  LifeTime = 20
  AudioDelay = 3
  FlightTime = 1
  MaxOld = 1
  Off = Off
INVARIANTS
  TypeOK
  ChannelAgreed
  QuietChannel
  ResultTimed
PROPERTIES
  GivesUpOnlyAfterLosses
