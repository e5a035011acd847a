CONSTANTS
  ProgLen <- MC_ProgLen
  Eids <- MC_Eids
  Fids <- MC_Fids
  Args <- MC_Args
  Privs = {"S", "M"}
SPECIFICATION Spec
INVARIANT TypeOK
PROPERTY ImplementsSbiService
CHECK_DEADLOCK FALSE
