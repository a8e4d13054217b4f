SPECIFICATION FairSpec
CONSTANTS
  p1 = p1
  p2 = p2
  p3 = p3
  x = x
  y = y
  Proc <- ThreeProcs
  NumSlots = 1
  Id = {x}
  NoDesc = NoDesc
  ShmId = {i1, i2, i3}
  NoShm = NoShm
  Array <- OneArray
  NoArray = NoArray
  NoData = NoData
  Call <- OnlyPublisherWrites
  Signals = FALSE
  NoMemory = FALSE
  SEMVMX = 4
INVARIANTS HandshakeDrained
PROPERTIES SubscriberBlocks PublisherReturns WokenReturns
