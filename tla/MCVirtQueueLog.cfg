SPECIFICATION Spec
CONSTANTS
  queue_size = 5
  IdxSpace = 8
  Program <- MCProgram
  MaxErrors = 2
  StackDepth = 4
INVARIANT NoCircularLogging
CHECK_DEADLOCK FALSE
