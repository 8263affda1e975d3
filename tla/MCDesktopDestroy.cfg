CONSTANTS
  a1 = a1
  a2 = a2
  o1 = o1
  o2 = o2
  Addresses = {a1, a2}
  Objects = {o1, o2}
  Places <- MCPlaces
  ICON_W = 2
  ICON_H = 2
  Moves <- MCMoves
  MaxPackets = 3
  ClickDestroys = TRUE
  Framebuffers <- MCFramebuffers
  Behind = 2
  BufferPixels = 4
  Colors = {white, blue}
  Dark = dark
  Old = old
SPECIFICATION GuiSpec
INVARIANT CallbackDataIsLive
