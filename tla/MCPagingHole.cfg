CONSTANTS
  PAGE_SIZE = 4
  MAX_PAGES = 12
  WORD = 64
  MemoryMaps <- HoleMaps
  KernelEnds = {8}
  ENTRIES = 4
  IDENTITY_END = 40
  Framebuffers <- OneScreen
  Garbage = {0, 63}
SPECIFICATION Spec
INVARIANTS
  IdentityIsMapped
CHECK_DEADLOCK FALSE
