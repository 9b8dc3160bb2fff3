SPECIFICATION CoreSpec
CONSTANTS
    NPages = 2
    DirSize = 2
    TlbSize = 1
    Frame = {"f0", "f1"}
    Space = {"A"}
    PteChoice <- MCPteChoice
    WORD = 8
    BYTE = 4
    NIB = 2
    FlagSteps = 3
    PageSize = 4
    IndexMod = 8
    Bases = {0, 2}
    IndexChoice = {0, 1, 6, 7}
    MaxCount = 4
    H = 8
    ModRM <- Operands
    SpChoice = {17}
    MaxSteps = 3
INVARIANTS TranslationSound FaultsReported InstructionsExact StackSound
PROPERTIES Terminates StackPrecise
CHECK_DEADLOCK FALSE
