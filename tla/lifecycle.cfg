SPECIFICATION FairSpec
CONSTANTS
  maker1 = maker1
  maker2 = maker2
  user = user
  Proc = {maker1, maker2, user}
  NumSlots = 1
  MaxPools = 3
  Call <- Calls
  ZeroSet <- First
  NoMemory = TRUE
INVARIANTS TypeOK OneInTable WholePool OwnSemaphores
PROPERTIES CallsReturn
CHECK_DEADLOCK FALSE
