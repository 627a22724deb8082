CONSTANTS
  StartAt <- FourBeforeLatest
  blocksMaxChunkSize = 1
  maxParallelChunks = 2
  chunkQueueMaxSize = 2
  Attempts = 2
  MinHead = 4
  MaxBlock = 5
  MaxLag = 1
  MaxFaults = 2
  MaxRestarts = 0
  MaxPools = 2
SPECIFICATION FairSpec
PROPERTIES
  CatchesUp
  ShutdownWithoutFailureCompletes
CHECK_DEADLOCK FALSE
