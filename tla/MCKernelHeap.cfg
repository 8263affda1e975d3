CONSTANTS
  PAGE_SIZE = 48
  MAX_PAGES = 4
  WORD = 1024
  MemoryMaps <- BootMaps
  KernelEnds = {48}
  HDR = 12
  Requests = {0, 10, 17, 36}
  MaxGrown = 2
SPECIFICATION FairSpec
INVARIANTS
  BlocksTilePages
  UsedBlocksAreLive
  HeapPagesAreOwn
PROPERTIES
  ImplementsAllocator
  KmallocReturns
CHECK_DEADLOCK FALSE
