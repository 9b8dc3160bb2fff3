SPECIFICATION Spec
CONSTANTS
  op = op jmp = jmp bad = bad
  MemSize = 3
  FetchTop = 5
  PageSize = 2
  PageBits = 2
  Entries = 3
  NojitEntries = 1
  HotEntries = 1
  HashMul = 2
  ScanLimit = 1
  MinScan = 1
  BlockMax = 1
  PoolSize = 3
  HotThreshold = 2
  NojitCooldown = 1
  Byte <- MixedBytes
  Len <- MixedLen
  Ends <- Jumps
  Breaks <- None
  CallReach = TRUE
  RawMax = 1
INVARIANTS TypeOK Coherent LinkSound Marked PoolSound ScanOrder
