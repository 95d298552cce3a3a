CONSTANTS
    OtherChar = {"a"}
    MaxLen = 4
    MaxToken = 4
    Chunk <- MCChunk
SPECIFICATION FairSpec
INVARIANTS TypeOK NoOverread OutputNeverOvertakes CountsButEscapedCr
PROPERTIES ImplementsStream CallReturns
