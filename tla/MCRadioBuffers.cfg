SPECIFICATION Spec
CONSTANTS
  Buf = {0, 1, 2, 3}
  State = {1, 2}
  PHY2MAC = 1
  NULL = NULL
INVARIANTS
  TypeOK
  IdleWhenEmpty
PROPERTIES
  QueueSpec
  Delivered
  TxDoneReported
