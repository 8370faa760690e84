SPECIFICATION FairSpec
CONSTANTS
  Callers = {c1, c2}
  Channels = {ch1, ch2, ch3}
  PoolDepth = 1
  MaxRequests = 2
INVARIANTS TypeOK SendsNeverBlock NoCallForgotten RepliesReachTheirCall PoolIsClean
PROPERTIES OutcomesAreFinal CallsReturnAfterClose CloseCompletes
