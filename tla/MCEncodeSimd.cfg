CONSTANTS
    OtherChar <- MCOther
    VectorSize = {2, 4}
    Data <- MCData
    LineSize <- MCLineSize
    Lengths = {3, 9, 10}
    Long = {18}
    Short = {4, 8}
    Wide = {6, 16}
SPECIFICATION Spec
INVARIANTS EncodesAsReference KnowsColumn StaysInBuffers
PROPERTY GetsOn
