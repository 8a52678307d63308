SPECIFICATION Spec
CONSTANTS
    ThumbMax = 3
    MediumMax = 7
    MaxSide = 16
    MaxCommands = 3
    Words <- MCWords
    Documents <- MCDocuments
    a = a
    b = b
INVARIANTS FitsTheBox KeepsAspect VariantsNest SamplesSpread TextInOrder
CHECK_DEADLOCK FALSE
