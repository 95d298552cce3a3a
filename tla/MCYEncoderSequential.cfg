CONSTANTS
    OtherChar = {"a"}
    MaxFed = 1
    Chunk <- MCChunk
    Prev <- NoPrev
    Data <- MCData
    Size = {0, 2, 3, 4}
    Parts = {0, 1, 2, 3}
    MaxCalls = 4
SPECIFICATION MCSpec
INVARIANTS PartsAreSequential
CHECK_DEADLOCK FALSE
