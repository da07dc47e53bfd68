SPECIFICATION Spec
CONSTANTS
  PAGE_SIZE = 16
  Header = 3
  UintMod = 256
  FreePages = 4
  Requests = {0, 1, 4, 13}
  MaxLive = 3
INVARIANTS
  TypeOK
  BlocksTileHeap
  
PROPERTY
  GrowsOnlyWhenNothingFits
CHECK_DEADLOCK FALSE
