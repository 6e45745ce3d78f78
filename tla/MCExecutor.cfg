SPECIFICATION FairSpec
CONSTANTS
    Node = {n1, n2}
    MaxTime = 2
    MaxFault = 1
CHECK_DEADLOCK FALSE
INVARIANTS
    FinishedMeansExecuted
    DoneOnce
PROPERTIES
    WaitReturnsIfAllLive
    CallbackRuns
