CONSTANTS
  RetireTears = FALSE
  item1 = item1
  item2 = item2
  item3 = item3
  v1 = v1
  v2 = v2
  Ids = {item1, item2}
  Vals = {v1}
  None = None
  Total <- MCTotal
  Space = 36
  IdxNum = 3
  CrcCoversState = TRUE
  HeaderTears = FALSE
SPECIFICATION Spec
INVARIANT WriteNotRefused
VIEW MCView
CHECK_DEADLOCK FALSE
