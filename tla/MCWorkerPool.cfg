CONSTANTS
  bad = bad
  single = single
  double = double
  w1 = w1
  w2 = w2
  NoItem = NoItem
  Items <- MCItems
  Workers <- MCWorkers
  Malformed <- MCMalformed
  Batches <- MCBatches
  QueueSize = 2
SPECIFICATION FairPoolSpec
INVARIANTS
  PoolTypeOK
  InOnePlace
  StoreMatchesOutcome
PROPERTIES
  WorkersExit
  KeepsContract
CHECK_DEADLOCK FALSE
