SPECIFICATION Spec
CONSTANTS
    ThumbMax = 3
    MediumMax = 7
    MaxSide = 1
    MaxCommands = 1
    Words <- MCWords
    Documents <- MCDocuments
    a = a
    b = b
INVARIANTS ArraysAreExtracted
CHECK_DEADLOCK FALSE
