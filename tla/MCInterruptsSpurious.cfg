CONSTANTS
  Exceptions = {}
  MaxNested = 1
SPECIFICATION Spec
INVARIANTS
  NoReset
