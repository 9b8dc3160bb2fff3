SPECIFICATION Spec
CONSTANTS
  MmuMaps = 4
  CanReset = TRUE
  CanFail = FALSE
INVARIANTS NoCopyWhileDrawing
