CONSTANTS
    OtherChar = {"a"}
    MaxLen = 4
    MaxToken = 4
    Chunk <- MCChunk
    Reg = 8
    ByteBits = 2
    Poly = {0, 2, 3, 4}
    Buffers <- MCBuffers
    Length <- MCLength
    MaxFrom = 130
    Count <- MCCount
    OtherData <- MCWide
SPECIFICATION MCSpec
INVARIANTS ShiftCombines
