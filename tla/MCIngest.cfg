CONSTANTS
  httpBad = httpBad
  httpOk = httpOk
  grpcBig = grpcBig
  w1 = w1
  w2 = w2
  NoItem = NoItem
  Items <- MCItems
  Workers <- MCWorkers
  HTTP <- MCHTTP
  MayBeBare <- MCMayBeBare
  Malformed <- MCMalformed
  Batches <- MCBatches
  QueueSize = 1
SPECIFICATION FairIngestSpec
INVARIANTS
  IngestTypeOK
  AckedSurvivesCleanShutdown
  StopsInOrder
  ReplyTellsTheTruth
PROPERTIES
  ShutdownCompletes
CHECK_DEADLOCK FALSE
