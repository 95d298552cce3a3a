CONSTANTS
    OtherChar = {"a"}
    Width = 4
    Word = 4
    MaxToken = 2
    Pad = {0, 7, 9}
    Chunk <- MCChunk
SPECIFICATION Spec
INVARIANT OneShotDecodes
