SPECIFICATION Spec
CONSTANTS
  TableSize = 10
  TopBit = 16
  Frames <- SmallFrames
  Pool <- SmallPool
  KernelIndex = 9
  KernelFrame = 4
  Targets = {0, 1, 20}
  TlbPages = {0}
INVARIANT AccessReachesMapping
CHECK_DEADLOCK FALSE
