SPECIFICATION Spec
CONSTANTS
  MAX_TEXT_LENGTH = 24
  Pieces <- MCPieces
  Characters <- MCCharacters
  MaxPieces = 3
  NUL = "NUL"
  Garbage <- MCGarbage
  Leftovers <- MCLeftovers
INVARIANTS
  TypeOK
  Terminated
  StaysInTheString
  TextAsExpected
  OneByteOver
  UartRepeatsText
CHECK_DEADLOCK FALSE
