SPECIFICATION ResetSpec
CONSTANTS
  F = 16
  Base = 256
  HeapStarts <- MCHeapStarts
  HeapEnd = 400
  Uart = 144
  Devices <- MCDevices
  Requests <- MCRequests
  MaxCalls = 1
  MaxBoots = 2
CHECK_DEADLOCK FALSE
INVARIANT TablesPrivate
