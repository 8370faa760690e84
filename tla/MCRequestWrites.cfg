SPECIFICATION HandlesSpec
CONSTANTS
  MaxPackets = 2
  Ops = {"openWrite", "read", "write"}
  MaxOf <- OnceOrTwice
  OpenFileWriter = TRUE
  MaxFilelist = 2
  DirSize = 3
INVARIANTS WritesAreUploads
