CONSTANTS
  PAGE_SIZE = 4
  MAX_PAGES = 8
  WORD = 64
  MemoryMaps <- BootMaps
  KernelEnds <- AnyEnd
SPECIFICATION Spec
INVARIANT KernelMemoryReserved
