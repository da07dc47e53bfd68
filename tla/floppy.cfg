SPECIFICATION Spec
CONSTANTS
  Byte = 3
  DMA_BUFFER = 5
  SectorBytes = 3
  SectorsPerTrack = 3
  Tracks = 2
  Attempts = 2
  SleepTicks = 2
  Requests = {0, 2, 5, 9}
INVARIANTS
  TypeOK
  NoStaleInterrupt
  WaitMeansDone
  ReadsTheRightSector
  TransfersInBuffer
PROPERTY
  DriverReturns
