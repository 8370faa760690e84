SPECIFICATION Spec
CONSTANTS
  MaxMsgLength = 120
  Samples <- MCSamples
  Carried <- MCCarried
  AlterTo = {0, 1, 3, 255}
INVARIANTS
  RoundTrip
  NothingInvented
  MeaningSurvives
CHECK_DEADLOCK FALSE
