CONSTANTS
    OtherChar = {"a"}
    MaxFed = 5
    Chunk <- MCChunk
    Prev <- NoPrev
    Data <- MCData
    Size = {0}
    Parts = {1}
    MaxCalls = 1
SPECIFICATION MCSpec
INVARIANTS AcceptsItsStates
CHECK_DEADLOCK FALSE
