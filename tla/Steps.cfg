SPECIFICATION FairSpec
CONSTANTS
    Pipelines <- Sound
    BatchSize = 1
    SinkPage = 2
    MaxRsRows = 2
    DelayCap = 5
    FirstKey = 2
    MaxSource = 3
    MaxRuns = 2
    MaxFaults = 2
    MaxEdits = 1
CHECK_DEADLOCK FALSE
INVARIANTS EachRowOnce
PROPERTIES StageIsWhatWasRead SinkGotTheTable EveryRunEnds
