SPECIFICATION FairSpec
CONSTANTS
  owner = owner
  taker = taker
  giver = giver
  Proc = {owner, taker, giver}
  NumSems = 2
  SEMVMX = 3
  MaxCount = 2
  MaxWait = 2
  MaxPools = 2
  Call <- Calls
  Signals = TRUE
INVARIANTS TypeOK
PROPERTIES ImplementsSemaphores TimedTakeReturns NobodyStuck
