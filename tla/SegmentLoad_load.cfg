CONSTANTS
  MemSize <- MC_MemSize
  StageBase <- MC_StageBase
  FileLen <- MC_FileLen
  LowLimit <- MC_LowLimit
  NSeg <- MC_NSeg
  Vaddrs <- MC_Vaddrs
  Offs <- MC_Offs
  FileSizes <- MC_FileSizes
  MemSizes <- MC_MemSizes

SPECIFICATION Spec
INVARIANT SegmentsMaterialized
\* The loop ends in Ok, Err or the halt loop; nothing runs after it here.
CHECK_DEADLOCK FALSE
