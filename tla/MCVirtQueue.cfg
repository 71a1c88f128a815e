SPECIFICATION FairSpec
CONSTANTS
  queue_size = 5
  IdxSpace = 8
  Program <- MCProgram
  MaxErrors = 2
  StackDepth = 4
INVARIANTS
  TypeOK
  ChainsAreWhole
  OverflowOnlyAfterLostSetup
PROPERTIES
  ImplementsChannel
  KernelMainEnds
CHECK_DEADLOCK FALSE
