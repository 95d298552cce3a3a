CONSTANTS
    OtherChar = {"a"}
    Width = 4
    Word = 4
    MaxToken = 3
    Pad = {0, 4, 7, 9}
    Chunk <- MCChunk
SPECIFICATION Spec
INVARIANTS BlocksTrackStream DecodesChunk LooksWithinChunk
