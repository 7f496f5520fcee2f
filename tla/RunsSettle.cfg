SPECIFICATION FairSpec
CONSTANTS
    Ids = {a, b}
    NoId = NoId
    Capacity = 3
    Loaded = {a, b}
    Https = {h1, h2}
    Cron = Cron
    Watcher = Watcher
    NoThread = NoThread
    Mixes <- Races
    MaxRequests = 2
CHECK_DEADLOCK FALSE
INVARIANTS NoPipelineStaysRunning AcceptedRunsOnce
PROPERTIES EveryRequestAnswered
