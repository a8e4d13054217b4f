SPECIFICATION FairSpec
CONSTANTS
  asker = asker
  replier = replier
  snake = snake
  Proc = {asker, replier, snake}
  Lang <- Languages
  Array <- Arrays
  NoArray = NoArray
  Garbled = Garbled
  IntpInts = 2
  Type = {1, 2}
  QBytes = 40
  MaxQueues = 2
  Call <- Vectors
INVARIANTS TypeOK DeliveredIntact BlockedSenderFits
PROPERTIES NobodyStuck
