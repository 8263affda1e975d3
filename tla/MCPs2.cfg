CONSTANTS
  \* Command byte 0x65: keyboard interrupt on, mouse off, translation on.
  \* 2 and 30 are the scancodes of 1 and a.  Of the moves, 255 (-1) has bit 3
  \* set and looks like the first byte of a packet, 1 does not.
  BootConfig = 101
  Scancodes = {2, 30}
  Buttons = {8, 9}
  Moves = {1, 255}
  MaxKeys = 2
  MaxPackets = 3
  TypingDuringInit = FALSE
SPECIFICATION Ps2FairSpec
PROPERTIES
  SkippingRealigns
  MovesAreReal
  InitEnds
  InputKeepsFlowing
CHECK_DEADLOCK FALSE
