CONSTANTS
  Sectors <- MC_Sectors
  Capacity <- MC_Capacity
  QueueSize = 2
  MaxRetries <- MC_MaxRetries
  MaxAttempts <- MC_MaxAttempts
  NoProgressAttempt <- MC_NoProgressAttempt
  MaxValidAttempts <- MC_MaxValidAttempts
  MaxRingRetries <- MC_MaxRingRetries
  MaxReads <- MC_MaxReads
  IsrReadClears = FALSE
  DeviceMayFail = TRUE
  NoData = NoData
SPECIFICATION Spec
INVARIANT TypeOK
INVARIANT ReadCorrectWhileSynced
PROPERTY ReadTerminates
CHECK_DEADLOCK FALSE
