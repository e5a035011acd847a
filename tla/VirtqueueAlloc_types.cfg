CONSTANTS
  QSize <- MC_QSize
  ChainLens <- MC_ChainLens
  MaxHeld = 3
  MaxOps <- MC_MaxOps
SPECIFICATION Spec
INVARIANT TypeOK
CHECK_DEADLOCK FALSE
