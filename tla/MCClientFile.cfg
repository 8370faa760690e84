SPECIFICATION FairSpec
CONSTANTS
  Callers = {c1, c2}
  MaxCalls = 3
  MaxPacket = 2
  MaxSize = 3
  Lens = {0, 1, 3}
  Offs <- AroundStart
\* The callers stop after MaxCalls calls; that none is stuck before is OperationsReturn.
CHECK_DEADLOCK FALSE
INVARIANTS BuffersAreExact CursorIsShared NoUseAfterClose
PROPERTIES OperationsReturn
