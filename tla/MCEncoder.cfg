CONSTANTS
    OtherChar <- MCOther
    Data <- MCData
    LineSize = {1, 2, 3, 6, 9}
    Run = 3
    MaxLen = 2
    MaxEdges = 3
    MaxBlanks = 7
    MaxPlain = 9
SPECIFICATION Spec
INVARIANTS TypeOK NoOverread FitsMaxSize EncodesAsReference DecodesBack LaidOutInLines ReturnsColumn
PROPERTIES EveryStepGetsOn CallReturns
