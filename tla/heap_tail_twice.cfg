SPECIFICATION Spec
CONSTANTS
  PAGE_SIZE = 16
  Header = 3
  UintMod = 256
  FreePages = 4
  Requests = {1, 4, 13}
  MaxLive = 4
INVARIANT LiveBlocksDisjoint
CHECK_DEADLOCK FALSE
