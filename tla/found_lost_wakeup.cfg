SPECIFICATION Spec
CONSTANTS
    Streams = {s1}
    ChanCap = 1
    ArtifactCount = 2
    Faults = {}
    s1 = s1
INVARIANTS NoPageForgotten
CHECK_DEADLOCK FALSE
