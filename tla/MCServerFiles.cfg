SPECIFICATION FilesSpec
CONSTANTS
  MaxPackets = 3
  Menu <- MCMenu
  MaxOf <- OnceOrTwice
  Names = {"d", "f", "g"}
  InitName <- MCInitName
  InitDirs = {"d"}
INVARIANTS
  FilesClosedOnce
  HandlesNameTheirFile
  SetstatsAreWhole
