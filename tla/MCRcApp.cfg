CONSTANTS
  Retries = 1
  Levels = {0, 4, 5}
  MaxAsked = 1
  MaxRestarts = 1
SPECIFICATION FairSpec
INVARIANTS
  TypeOK
  StateTellsSession
  PairingKnown
PROPERTIES
  SleepKeepsPairing
  ComesToRest
CHECK_DEADLOCK FALSE
