SPECIFICATION FairHandlesSpec
CONSTANTS
  MaxPackets = 4
  Ops = {"openRead", "opendir", "read", "readdir", "fstat", "stat", "close"}
  MaxOf <- OnceOrTwice
  OpenFileWriter = TRUE
  MaxFilelist = 2
  DirSize = 2
INVARIANTS ObjectsClosedOnce ClosesAreBarriers HandlesNameTheirOpen
  LeftOpenAreTold ListingsAreExact
PROPERTIES ServeEnds
