CONSTANTS
  NBases <- MC_NBases
  MaxFound = 8
  QueueNum = 2
  Capacities <- MC_Capacities
  NoDevice = NoDevice
SPECIFICATION Spec
INVARIANT TypeOK
INVARIANT ProbeAdoptsFirstBlock
INVARIANT OnlyAdoptedDeviceActive
CHECK_DEADLOCK FALSE
