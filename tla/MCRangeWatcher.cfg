CONSTANTS
  StartAt <- Genesis
  EndAt = 5
  blocksMaxChunkSize = 1
  maxParallelChunks = 1
  chunkQueueMaxSize = 3
  Attempts = 2
  MinHead = 5
  MaxBlock = 6
  MaxLag = 0
  MaxFaults = 2
  MaxRestarts = 1
  MaxPools = 2
SPECIFICATION RangeSpec
INVARIANTS
  CallWithinLimit
  CompletedWereWritten
  FinishedExactly
  NothingPastEnd
PROPERTIES
  EndIsReached
  
CHECK_DEADLOCK FALSE
