SPECIFICATION PSpec
CONSTANTS
    Desc <- MCDesc
    Idt <- MCIdt
    TssSp <- MCTssSp
    TaskInit <- MCTask
    SysenterCs = 4
    Forge <- MCForge
    DataSels <- MCDataSels
    CallSels <- MCCallSels
    JumpSels <- MCJumpSels
    Depth = 14
    Batch = 2
    MaxSteps = 4
INVARIANTS CodeSane ReturnsExactly ShadowHolds
PROPERTIES Confined
CHECK_DEADLOCK FALSE
