CONSTANTS
    OtherChar = {"a"}
    Width = 4
    Word = 2
    MaxToken = 2
    Pad = {0, 4, 9}
    Chunk <- MCChunk
SPECIFICATION Spec
INVARIANT RvvReplicatesFixEqMask
