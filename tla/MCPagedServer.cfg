SPECIFICATION PagedSpec
CONSTANTS
  RWWorkers = {w1, w2}
  CmdWorker = cmdw
  OrderWrap = 8
  MaxPackets = 3
SYMMETRY WorkerSymmetry
INVARIANTS PagesKeptUntilSent NoPageLost NothingHeldAfterServe
