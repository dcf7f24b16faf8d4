CONSTANTS
    DriverSet <- MCDriverSet
    Shapes <- MCShapes
    Sparse <- MCSparse
    Positions = {1, 2, 3, 4}
    Weights = {2}
    Cascades = {"teseo", "llama"}
    Rounding = 10
    MaxNV = 11
    Unit = 124416000
    MaxValue = 1000000000
    Alpha = 4
    Beta = 3
    Delta = 2
    Iterations = 2
    THRESHOLD1 = 1
    THRESHOLD2 = 2
SPECIFICATION Spec
INVARIANTS
    CountersExact
    BfsCorrect
    QueueFits
    SsspCorrect
    WccCorrect
    CdlpCorrect
    LccCorrect
    PageRankCorrect
    ScansCorrect
PROPERTY
    ImplementsLibraryGraph
CHECK_DEADLOCK FALSE
