SPECIFICATION Spec
CONSTANTS
  TableSize = 10
  TopBit = 16
  Frames <- SmallFrames
  Pool <- SmallPool
  KernelIndex = 9
  KernelFrame = 4
  Targets = {0, 20, 21}
  TlbPages = {0, 2}
INVARIANTS
  TypeOK
  TablesMatchMappings
  FramesApart
PROPERTY FaultsOnlyWhenLowMemoryGone
CHECK_DEADLOCK FALSE
