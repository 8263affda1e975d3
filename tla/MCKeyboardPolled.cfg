CONSTANTS
  KB_BUF_SIZE = 3
  scancode_table <- Plain
  scancode_table_shifted <- Shifted
  Chars <- AllChars
  NUL = "NUL"
  BACKSPACE = "bs"
  NEWLINE = "nl"
  TAB = "tab"
  Keys <- TypedKeys
  Make <- MakeCodes
  Break <- BreakCodes
  ShiftKeys <- Shifting
  Registered = FALSE
SPECIFICATION FairSpec
PROPERTY KeysReachLvgl
