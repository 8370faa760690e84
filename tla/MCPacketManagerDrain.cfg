SPECIFICATION Spec
CONSTANTS
  RWWorkers = {w1, w2}
  CmdWorker = cmdw
  OrderWrap = 8
  MaxPackets = 2
INVARIANTS ControllerDrains
