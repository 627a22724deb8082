CONSTANTS
  StartAt <- Genesis
  blocksMaxChunkSize = 1
  maxParallelChunks = 2
  chunkQueueMaxSize = 3
  Attempts = 2
  MinHead = 3
  MaxBlock = 4
  MaxLag = 1
  MaxFaults = 2
  MaxRestarts = 1
  MaxPools = 2
SPECIFICATION Spec
INVARIANTS
  TypeOK
  CompletedWereWritten
  DuplicatesNeedAMishap
  RequestsWithinChain
PROPERTIES
  QuietAfterShutdown
  
CHECK_DEADLOCK FALSE
