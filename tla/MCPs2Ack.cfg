CONSTANTS
  BootConfig = 101
  Scancodes = {2, 30}
  Buttons = {8, 9}
  Moves = {1, 255}
  MaxKeys = 2
  MaxPackets = 1
  TypingDuringInit = FALSE
SPECIFICATION Ps2Spec
INVARIANTS
  AckIsNoPacketByte
CHECK_DEADLOCK FALSE
