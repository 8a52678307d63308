SPECIFICATION Spec
CONSTANTS
    Streams = {s1, s2}
    ChanCap = 1
    ArtifactCount = 2
    Faults = {"db", "bus", "media", "crash", "expire"}
    s1 = s1
    s2 = s2
INVARIANTS TypeOK WakeUpIsComing CompletedCardIsFinal
PROPERTIES OpenSpec OutcomeIsShown
CHECK_DEADLOCK FALSE
