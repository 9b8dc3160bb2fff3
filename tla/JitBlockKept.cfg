SPECIFICATION BothSpec
CONSTANTS
  Level = 3
  Insns <- MCInsns
  Machines <- MCMachines
  ScanLimit = 3
  BlockBytes = 256
  Regs = {0, 2, 7}
  Scales = {0, 3}
  PageLeft = {5, 6, 8}
INVARIANTS RegistersKept
CHECK_DEADLOCK FALSE
