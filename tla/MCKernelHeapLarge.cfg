CONSTANTS
  PAGE_SIZE = 48
  MAX_PAGES = 4
  WORD = 1024
  MemoryMaps <- BigMaps
  KernelEnds = {48}
  HDR = 12
  Requests = {40}
  MaxGrown = 2
SPECIFICATION Spec
INVARIANT KmallocRetriesOnce
CHECK_DEADLOCK FALSE
