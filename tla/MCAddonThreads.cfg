SPECIFICATION FairSpec
CONSTANTS
  MaxBytes = 2
  BufSize = 1
  HighWater = 1
  ChunkLen = 2
  MaxChunks = 2
INVARIANTS
  TypeOK
  ReportedIsAccepted
PROPERTIES
  ReadsImplementPipe
  WritesImplementPipe
  IncomingIsConsumed
  WatcherRearms
  NoticedShutdownEnds
CHECK_DEADLOCK FALSE
