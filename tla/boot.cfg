SPECIFICATION Spec
CONSTANTS
  Nibble = 2
  SectorSize = 4
  Reserved = 1
  FatSectors = 3
  RootSectors = 2
  SectorsPerTrack = 3
  Heads = 2
  EndMark = 6
  Retries = 2
  Stage2Base = 1
  SmapCell = 3
  FatSeg = 4
  RootSeg = 5
  KernelBase = 6
  BootCell = 8
  TablesCell = 9
  SizeCell = 10
  StackCell = 15
  Segment = 16
  Dirs <- SomeDirs
  FATs <- AcyclicFATs
  BiosMaps <- SomeMaps
  HalfWord = 4
  Leftovers = {0, 1}
INVARIANTS
  TypeOK
  KernelIntact
  RunningCodeIntact
  MemoryMapDelivered
PROPERTY
  LoaderStops
CHECK_DEADLOCK FALSE
