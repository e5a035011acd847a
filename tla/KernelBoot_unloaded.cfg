CONSTANTS
  Capacities <- MC_Capacities
  ScanLimit = 3
  BulkSectors = 4
  BufferSectors = 5
  ReadMayFail = FALSE
SPECIFICATION Spec
INVARIANT JumpAfterLoad
CHECK_DEADLOCK FALSE
