CONSTANTS
  BootConfig = 101
  Scancodes = {2, 30}
  Buttons = {8, 9}
  Moves = {1, 255}
  MaxKeys = 2
  MaxPackets = 1
  TypingDuringInit = TRUE
SPECIFICATION Ps2FairSpec
PROPERTIES
  InputKeepsFlowing
CHECK_DEADLOCK FALSE
