SPECIFICATION DisksSpec
CONSTANTS
  any = any
  NoDrive = NoDrive
  Drive <- OneDrive
  NMod = 3
  LbaMod = 1
  Sectors = 1
  SectorBytes = 4
  MaxMult = 2
  Cell <- Cells
  IdCell = any
  ZeroCell = any
  Image <- Blank
  t1 = t1 t2 = t2 v1 = v1 v2 = v2
  Task <- Callers
  CardSector <- CardSectors
  Sets = 1
  Ways = 2
  CardData <- TwoValues
  AgeMod = 2
  MaxRun = 2
  Region <- Apart
  Writers <- Callers
  NoTask = none
  Lost = lost
  Blocks = 2
  BlockSectors = 2
  Value <- TwoValues
  Start = 1
  OffHalf = 5
  Asked <- AskedFor
  MaxCount = 2
  Writable = TRUE
INVARIANTS ChannelSound CacheSound FlashSound
SYMMETRY Alike
