SPECIFICATION Spec
CONSTANTS
  Nibble = 2
  SectorSize = 4
  Reserved = 1
  NumFats = 2
  FatSectors = 3
  RootSectors = 2
  EndOfChain = 7
  FATs <- AllFATs
  Root <- SmallRoot
  Paths <- RootPaths
  Devices = {"a", "b"}
  Offsets = {8}
  Faults = TRUE
INVARIANTS
  TypeOK
  ReadFollowsTable
  OpenFindsFile
PROPERTY
  SoundReadingEnds
