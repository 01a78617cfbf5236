CONSTANTS
  RetireTears = TRUE
  item1 = item1
  item2 = item2
  item3 = item3
  v1 = v1
  v2 = v2
  Ids = {item1, item2}
  Vals = {v1, v2}
  None = None
  Total <- MCTotal
  Space = 36
  IdxNum = 3
  CrcCoversState = FALSE
  HeaderTears = FALSE
SPECIFICATION Spec
INVARIANTS
  TypeOK
  WriteNotRefused
PROPERTY StoreSpec
SYMMETRY MCSymmetry
VIEW MCView
CHECK_DEADLOCK FALSE
