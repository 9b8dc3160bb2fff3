SPECIFICATION ASpec
CONSTANTS
    CdBytes = 4
    BufBytes = 6
    CdSectors = 2
    PacketBytes = 2
    IdBytes = 2
    Packets <- MCPackets
    Limits = {1, 3, 6}
    Strings <- MCStrings
    MaxCmds = 2
    MaxDiscs = 2
INVARIANTS CdWithinBuffer TransferExact
PROPERTIES ChangeReported Drained
