SPECIFICATION FairSpec
CONSTANTS
    Writers = {w1, w2}
    nreplicas = 2
    QueueCap = 1
    MaxRecords = 3
    MaxFaults = 2
CHECK_DEADLOCK FALSE
INVARIANTS StandbysFollow
PROPERTIES ShipsInOrder WorkerCatchesUp
