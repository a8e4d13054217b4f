SPECIFICATION FairSpec
CONSTANTS
  p1 = p1
  p2 = p2
  p3 = p3
  x = x
  y = y
  z = z
  Proc <- TwoProcs
  NumSlots = 1
  Id = {x, y, z}
  NoDesc = NoDesc
  ShmId = {i1, i2}
  NoShm = NoShm
  Array <- WrittenArrays
  NoArray = NoArray
  NoData = NoData
  Call <- BothLanguages
  Lang <- Languages
  Source <- Sources
  Garbled = Garbled
  IntpInts = 2
  Signals = FALSE
  NoMemory = FALSE
  SEMVMX = 4
INVARIANTS ReadBack
PROPERTIES CallsReturn CleanupReclaims
CHECK_DEADLOCK FALSE
