CONSTANTS
    Task = {t1, t2}
    MaxNumAttempt = 2
    MaxIdle = 1
    MaxBatch = 2
    s1 = s1
    s2 = s2
    s3 = s3
    s4 = s4
    MaxCrash = 2
    MaxRefused = 1
    NoSlave = NoSlave
    MaxSlaves = 9
    MaxJobs = 3
    Thread = {h1, h2}
    Worker = {w1, w2}
    MaxItems = 4
    MaxCapacity = 1
    NumItems = 3
    MaxRound = 2
    MaxLimit = 2
    Confs <- MCConfs
SPECIFICATION Spec
CHECK_DEADLOCK FALSE
INVARIANTS TasksAccounted ArgsArrive LinksComplete ResumesExactly ThreadsSafe
PROPERTIES LaunchEnds ImplementsDataIter CallsReturn
