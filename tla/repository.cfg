SPECIFICATION Spec
CONSTANTS
    Jobs = {j1, j2}
    Conns = {c1, c2}
    None = None
    j1 = j1
    j2 = j2
    c1 = c1
    c2 = c2
INVARIANTS TypeOK ReadIsCurrent EachStatusOnce
PROPERTIES LifecycleSpec CallsAreAtomic EveryCallReturns
