SPECIFICATION Spec
CONSTANTS
  op = op jmp = jmp bad = bad
  MemSize = 4
  FetchTop = 6
  PageSize = 2
  PageBits = 2
  Entries = 2
  NojitEntries = 1
  HotEntries = 1
  HashMul = 1
  ScanLimit = 2
  MinScan = 1
  BlockMax = 1
  PoolSize = 2
  HotThreshold = 1
  NojitCooldown = 0
  Byte <- PlainBytes
  Len <- PlainLen
  Ends <- None
  Breaks <- None
  CallReach = TRUE
  RawMax = 1
INVARIANTS LinksCleared
