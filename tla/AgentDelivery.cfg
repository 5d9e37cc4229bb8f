SPECIFICATION FairSpec
CONSTANTS
  MaxEvents = 3
  MaxRestarts = 1
  maxQueueFiles = 2
  SeedSpread = 2
  batchSize = 2
  ingestCap = 5
  Invalid = {}
  Poison = {3}
  RateLimits = TRUE
  MaxFaults = 1
INVARIANTS
  TypeOK
  NothingVanishes
  CopiesNeedFaults
  FirstCopiesInOrder
PROPERTIES
  QueueDrains
