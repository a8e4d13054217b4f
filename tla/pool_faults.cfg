SPECIFICATION Spec
CONSTANTS
  p1 = p1
  p2 = p2
  p3 = p3
  x = x
  y = y
  Proc <- TwoProcs
  NumSlots = 2
  Id = {x, y}
  NoDesc = NoDesc
  ShmId = {i1, i2, i3}
  NoShm = NoShm
  Array <- OneArray
  NoArray = NoArray
  NoData = NoData
  Call <- OneCleans
  Signals = TRUE
  NoMemory = TRUE
  SEMVMX = 2
SYMMETRY SameSegments
INVARIANTS MasterExclusive TableCoherent UniqueNames CleanupComplete
CHECK_DEADLOCK FALSE
