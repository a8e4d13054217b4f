SPECIFICATION Spec
CONSTANTS
  maker1 = maker1
  maker2 = maker2
  user = user
  Proc = {maker1, maker2, user}
  NumSlots = 1
  MaxPools = 2
  Call <- Calls
  ZeroSet <- Other
  NoMemory = TRUE
INVARIANTS OneInTable
CHECK_DEADLOCK FALSE
