SPECIFICATION Spec
CONSTANTS
  HeapStarts <- MCHeapStarts
  Sizes <- MCSizes
  BlockSizes <- MCBlockSizes
  MaxCalls = 5
INVARIANTS
  TypeOK
  WholePages
PROPERTY
  GrantsAreDisjoint
CHECK_DEADLOCK FALSE
