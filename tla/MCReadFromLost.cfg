SPECIFICATION Spec
CONSTANTS
  Callers = {c1}
  MaxCalls = 1
  MaxPacket = 2
  MaxSize = 3
  Lens = {0, 1, 3}
  Offs <- AroundStart
CHECK_DEADLOCK FALSE
INVARIANTS ReadFromIsWritten
