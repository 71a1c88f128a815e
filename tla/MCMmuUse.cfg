SPECIFICATION Spec
CONSTANTS
  F = 16
  Base = 256
  HeapStarts <- MCHeapStarts
  HeapEnd = 400
  Uart = 144
  Devices <- MCDevices
  Requests <- MCRequests
  MaxCalls = 3
  MaxBoots = 1
CHECK_DEADLOCK FALSE
INVARIANT MappedBeforeUse
