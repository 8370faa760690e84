SPECIFICATION FairSpec
CONSTANTS
  Workers = {w1, w2}
  NumChunks = 4
  ChunkLen = 2
  LastLen = 1
  MaxSize = 4
  Resizes = 1
\* A transfer ends; that it does not stop before is TransferEnds.
CHECK_DEADLOCK FALSE
INVARIANTS ReachedIsDone EarliestErrorReported NobodyLeftBehind OutIsPrefix
PROPERTIES TransferEnds
