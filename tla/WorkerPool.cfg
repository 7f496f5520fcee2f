SPECIFICATION FairSpec
CONSTANTS
    Workers = {w1, w2}
    Submitters = {s1, s2, s3}
    Drainers = {d1}
    QueueMax = 2
    MaxTasks = 4
    NoTask = NoTask
CHECK_DEADLOCK FALSE
PROPERTIES WaitReturnsWhenQuiet AcceptedAreExecuted EveryCallReturns
