CONSTANTS
  \* All exceptions with a gate, over at most one handler of a device.
  Exceptions = {0, 13, 14}
  MaxNested = 2
SPECIFICATION FairSpec
INVARIANTS
  NoMissingGate
  HandlersDoNotNest
PROPERTIES
  EoiEndsOwnService
  RequestsAreServed
