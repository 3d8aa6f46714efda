SPECIFICATION FairSpec
CONSTANTS
  MaxBytes = 1
  BufSize = 1
  HighWater = 1
  ChunkLen = 2
  MaxChunks = 1
PROPERTY ShutdownEnds
CHECK_DEADLOCK FALSE
