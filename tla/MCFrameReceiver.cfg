SPECIFICATION Spec
CONSTANTS
    Dialects = {"A", "B"}
    PayloadsA <- TextPayloads
    PayloadsB <- BinaryPayloads
    MagicLength = 2
    Capacity = 14
    ChunkMax = 5
    MaxFrames = 4
    MaxLosses = 2
CHECK_DEADLOCK FALSE
INVARIANTS
    TypeOK
    NothingLost
    OneFrameDamaged
