CONSTANTS
    OtherChar = {"a"}
    MaxFed = 4
    Chunk <- MCChunk
    Prev <- MCPrev
    Data <- MCData
    Size = {0, 2, 3, 4}
    Parts = {0, 1, 2, 3}
    MaxCalls = 4
SPECIFICATION MCSpec
INVARIANTS ContinuesStream StateIsWhatWasRead
    PostsTileFile CrcIsOfWholeFile HeaderOutlivesParts OwnPostsParse DamageIsNoticed
CHECK_DEADLOCK FALSE
