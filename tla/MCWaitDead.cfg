SPECIFICATION FairSpec
CONSTANTS
    Node = {n1, n2}
    MaxTime = 1
    MaxFault = 1
CHECK_DEADLOCK FALSE
PROPERTIES
    WaitReturns
