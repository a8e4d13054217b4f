SPECIFICATION Spec
CONSTANTS
  p1 = p1
  p2 = p2
  p3 = p3
  x = x
  y = y
  Proc <- ThreeProcs
  NumSlots = 1
  Id = {x, y}
  NoDesc = NoDesc
  ShmId = {i1, i2, i3}
  NoShm = NoShm
  Array <- TwoArrays
  NoArray = NoArray
  NoData = NoData
  Call <- AllCallEverything
  Signals = FALSE
  NoMemory = FALSE
  SEMVMX = 4
SYMMETRY Symmetric
INVARIANTS TypeOK MasterExclusive SlotExclusive ReadWhole NoUseAfterFree
PROPERTIES ImplementsStore
