CONSTANTS
  \* The counter wraps every 4 ticks.  9:58 to 10:00 and 20:58 to 21:00 UTC:
  \* the hour carries, and at 21:00 the label's day begins.
  HALF = 4
  FirstTicks = {0, 2, 3}
  MaxTicks = 14
  Sleeps = {0, 1, 3}
  FirstMinutes = {598, 1258, 1260}
  MaxMinutes = 2
  Format = "BCD"
  Undefined = {0, 255}
  Chars <- MCChars
  DIGITS = 3
  FIFO = 3
  Messages <- MCMessages
  MaxPackets = 2
SPECIFICATION ClocksConsoleSpec
PROPERTIES
  SleepsLongEnough
  SleepReturns
  LabelIsNearTheTime
  LabelCatchesUp
  LineSaysWhatWasAsked
  PrintingEnds
