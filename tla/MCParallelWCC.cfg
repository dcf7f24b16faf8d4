CONSTANTS
    N = 4
    Threads = {t1, t2}
    Graphs <- MCGraphs
SPECIFICATION Spec
INVARIANTS
    ComponentsExact
PROPERTIES
    Converges
CHECK_DEADLOCK FALSE
