SPECIFICATION Spec
CONSTANTS
  RegSpace = 256
  PageSize = 32
  IoBase = 224
  IoSize = 32
  MemBase = 32
  MemSize = 160
  PrefBase = 1024
  PrefSize = 1024
  Machines <- MCMachines
INVARIANTS
  TypeOK
  SizedWithoutTrace
  SilentWhileProbed
  AgreementExact
  
PROPERTY
  SuitableDeviceComesUp
CHECK_DEADLOCK FALSE
