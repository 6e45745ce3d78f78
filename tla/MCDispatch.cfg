SPECIFICATION FairSpec
CONSTANTS
    f1 = f1
    f2 = f2
    w1 = w1
    w2 = w2
    File <- MCFile
    Node <- MCNode
    NumParts = 2
    StragglerMin = 1
    Jobs <- AllJobs
CHECK_DEADLOCK FALSE
INVARIANTS
    PoolInv
    TrackMatchesAssigned
    AssignedOnce
    FinishedMeansAllParts
    ProcessedUnlessLateAck
    AssignedIsInFlight
    QuietWhenFinished
PROPERTIES
    DoneStaysDone
    UsesPoolLegally
    Termination
