CONSTANTS
    H = H
    WorkerIds = {w1, w2, w3}
    ServerIds = {s1}
    Spare = {w3}
    NumWorkers = 2
    NumServers = 1
    MaxDeaths = 1
    Workers = {w1, w2}
    Stores <- MCStores
    KeyRanges <- MCKeyRanges
    Batches <- MCBatches
    Dim = 1
    Thr = 0
    MaxRounds = 1
SPECIFICATION Spec
CHECK_DEADLOCK FALSE
INVARIANTS StartTogether ExitTogether PullsRight CountsRight
PROPERTIES EveryoneStops ModelServed
