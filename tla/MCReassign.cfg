SPECIFICATION SlowWorkerSpec
CONSTANTS
    f1 = f1
    f2 = f2
    w1 = w1
    w2 = w2
    File <- MCFile
    Node <- MCNode
    NumParts = 2
    StragglerMin = 1
    Jobs <- OnlySlow
CHECK_DEADLOCK FALSE
PROPERTIES
    AvailableIsReassigned
