SPECIFICATION Spec
CONSTANTS
    f1 = f1
    f2 = f2
    w1 = w1
    w2 = w2
    File <- MCFile
    Node <- MCNode
    NumParts = 1
    StragglerMin = 1
    Jobs <- OnlyPasses
CHECK_DEADLOCK FALSE
INVARIANTS
    FinishedMeansProcessed
