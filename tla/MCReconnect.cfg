CONSTANTS
    FileSize = 4
    MaxBuffer = 2
    MaxWritten = 4
    MaxFailures = 1
    MaxSplit = 3
    BufferSize = 3
    MaxRewind = 1
    Items = 3
    MaxCapacity = 2
    MaxUses = 3
    MbSize = 2
    ShufBuf = 3
SPECIFICATION Spec
CHECK_DEADLOCK FALSE
INVARIANT ReconnectWorks
