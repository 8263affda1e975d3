CONSTANTS
  PAGE_SIZE = 4
  MAX_PAGES = 8
  WORD = 64
  MemoryMaps <- BigMaps
  KernelEnds <- AlignedEnd
SPECIFICATION Spec
INVARIANT BitmapNotOverrun
