SPECIFICATION FairSpec
CONSTANTS
  RWWorkers = {w1, w2}
  CmdWorker = cmdw
  OrderWrap = 8
  MaxPackets = 3
INVARIANTS TypeOK InOrder CloseWaitsForEarlier WorkingCounts ServeReturnsQuiescent
PROPERTIES ImplementsOrderedReplies EveryPacketAnswered ShutdownCompletes
