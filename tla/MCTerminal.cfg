SPECIFICATION Spec
CONSTANTS
  screen_width = 16
  screen_height = 16
  GlyphSize = 2
  Chars = {"nul", "a", "b"}
  NUL = "nul"
  font8x8_basic <- MCFont
  Slots = 4
  NR_OF_LINES = 2
  MAX_TEXT_LENGTH = 4
  Texts <- MCTexts
  ErrorText <- MCShort
  ReportText <- MCShort
  ReportLines = 2
  MaxErrors = 1
  MaxFaults = 1
INVARIANTS
  TypeOK
  DrawsInside
  ShowsLastLines
  ScreenUpToDate
CHECK_DEADLOCK FALSE
