SPECIFICATION Spec
CONSTANTS
  BlockSize = 8
  BlocksPerByte = 2
  WordBits = 4
  UintMod = 256
  SectorSize = 4
  SMAP <- SmallSMAP
  LowBase = 8
  LowSize = 16
  MemMapAddr = 32
  KernelAddr = 96
  KernelSectors = 3
  Junk <- AnyJunk
  Requests = {1, 2, 3}
INVARIANT ReservedNeverHandedOut
