CONSTANTS
  StartAt <- Genesis
  blocksMaxChunkSize = 1
  maxParallelChunks = 1
  chunkQueueMaxSize = 3
  Attempts = 2
  MinHead = 4
  MaxBlock = 4
  MaxLag = 0
  MaxFaults = 2
  MaxRestarts = 0
  MaxPools = 2
SPECIFICATION Spec
INVARIANT ChunksInParallelLimited
CHECK_DEADLOCK FALSE
