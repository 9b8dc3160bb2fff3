SPECIFICATION DriverSpec
CONSTANTS
  NoDrive = NoDrive
  Drive <- BothDrives
  NMod = 3
  LbaMod = 4
  Sectors = 3
  SectorBytes = 2
  MaxMult = 2
  Cell <- ByteTags
  IdCell <- NoByte
  ZeroCell <- NoByte
  Image <- Tagged
  Requests = 2
  Resets = 1
INVARIANTS InStep
PROPERTIES ImplementsDisk Completes
CHECK_DEADLOCK FALSE
