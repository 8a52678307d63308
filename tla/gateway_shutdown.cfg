SPECIFICATION Spec
CONSTANTS
    Conns = {c1, c2}
    Backlog = 2
    JanitorOn = TRUE
    c1 = c1
    c2 = c2
INVARIANTS TypeOK StopEndsSweeps OnlyDeadlineCuts
PROPERTIES ShutdownCompletes
CHECK_DEADLOCK FALSE
