SPECIFICATION Spec
CONSTANTS
  F = 16
  Base = 256
  HeapStarts <- MCHeapStarts
  HeapEnd = 400
  Uart = 144
  Devices <- MCDevices
  Requests <- MCRequests
  MaxCalls = 4
  MaxBoots = 1
INVARIANTS
  TypeOK
  TablesPrivate
  FaultOnlyByClash
  MappingExact
CHECK_DEADLOCK FALSE
