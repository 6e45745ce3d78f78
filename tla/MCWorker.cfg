SPECIFICATION FairSpec
CONSTANTS
    s1 = s1
    s2 = s2
    x1 = x1
    x2 = x2
    x3 = x3
    x4 = x4
    g1 = g1
    g2 = g2
    Server <- MCServer
    Slice <- MCSlice
    Small <- MCSmall
    Sig <- MCSig
    Size <- MCSize
    NumMb = 3
    Jobs <- AllJobs
CHECK_DEADLOCK FALSE
INVARIANTS
    Readable
    CachesAgree
    ConcurrencyBound
    ReturnedMeansAllDone
PROPERTIES
    ProcessReturns
