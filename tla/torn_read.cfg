SPECIFICATION Spec
CONSTANTS
  p1 = p1
  p2 = p2
  p3 = p3
  x = x
  y = y
  Proc <- ThreeProcs
  NumSlots = 1
  Id = {x}
  NoDesc = NoDesc
  ShmId = {i1, i2}
  NoShm = NoShm
  Array <- TwoArrays
  NoArray = NoArray
  NoData = NoData
  Call <- AllCallEverything
  Signals = TRUE
  NoMemory = FALSE
  SEMVMX = 2
SYMMETRY Symmetric
INVARIANTS ReadWhole
