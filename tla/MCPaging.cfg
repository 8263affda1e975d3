CONSTANTS
  PAGE_SIZE = 4
  MAX_PAGES = 12
  WORD = 64
  MemoryMaps <- BootMaps
  KernelEnds = {8}
  ENTRIES = 4
  IDENTITY_END = 40
  Framebuffers <- Screens
  Garbage = {0, 63}
SPECIFICATION FairSpec
INVARIANTS
  MapIsAsAsked
  TablesAreOwn
PROPERTIES
  PagingInitEnds
CHECK_DEADLOCK FALSE
