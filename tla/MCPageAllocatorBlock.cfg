SPECIFICATION Spec
CONSTANTS
  HeapStarts <- MCHeapStarts
  Sizes <- MCSizes
  BlockSizes <- MCBlockSizes
  MaxCalls = 2
INVARIANT
  BlockInOneL3Table
CHECK_DEADLOCK FALSE
