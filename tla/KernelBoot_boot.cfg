CONSTANTS
  Capacities <- MC_Capacities
  ScanLimit = 3
  BulkSectors = 4
  BufferSectors = 5
  ReadMayFail = TRUE
SPECIFICATION Spec
INVARIANT TypeOK
INVARIANT JumpsOnlyIntoStagedElf
PROPERTY ImplementsKernelLoader
CHECK_DEADLOCK FALSE
