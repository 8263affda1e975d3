CONSTANTS
  PAGE_SIZE = 48
  MAX_PAGES = 4
  WORD = 1024
  MemoryMaps <- BootMaps
  KernelEnds = {48}
  HDR = 12
  Requests = {36}
  MaxGrown = 1
SPECIFICATION Spec
INVARIANT NoHeaderAtNull
CHECK_DEADLOCK FALSE
