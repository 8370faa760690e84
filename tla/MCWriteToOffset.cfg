SPECIFICATION Spec
CONSTANTS
  Workers = {w1, w2}
  NumChunks = 4
  ChunkLen = 2
  LastLen = 1
  MaxSize = 4
  Resizes = 0
CHECK_DEADLOCK FALSE
INVARIANTS OffsetIsLastReadByte
