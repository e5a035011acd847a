CONSTANTS
  Width = 8
  Lens <- MC_Lens
  PhOffs <- MC_PhOffs
  PhNums <- MC_PhNums
  PhEntSizes <- MC_PhEntSizes
  SegOffs <- MC_SegOffs
  SegSizes <- MC_SegSizes
SPECIFICATION Spec
INVARIANT TypeOK
INVARIANT SegmentYieldContract
CHECK_DEADLOCK FALSE
