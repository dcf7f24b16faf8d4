SPECIFICATION Spec
CONSTANTS
    Threads = {t1, t2, t3}
    None = None
    Vertices <- MCVertices
    Requests <- MCTriangle
    Directedness = {TRUE, FALSE}
    GetEdgeDst = 3
    CounterMod = 16
    MaxCalls = 3
    MaxRollbacks = 0
PROPERTIES
    CallsReturn
CHECK_DEADLOCK FALSE
