SPECIFICATION FeedsSpec
CONSTANTS
    Tables = {"orders"}
    Views = {"orders_day", "top"}
    Sources <- MCSources
    Hits <- MCHits
    Mode <- MCMode
    Workers = {"w"}
    MaxEvents = 3
    Payload <- MCPayload
    Settings <- MCSettings
    PAGE_SIZE = 2
    MaxTrouble = 2
    Snapshots <- MCSnapshots
    Modes <- MCModes
    MAX_RS_ROWS = 4
    BATCH_SIZE = 2
    NoKey <- MCNoKey
    MaxTime = 3
    MaxCrashes = 1
    Order <- MCOrder
    Forms <- MCForms
    Typed = {"p2"}
    StepConfigs <- MCStepConfigs
    Clients = {"r1", "r2"}
    Sweeper = "keepalive"
    MAX_WARMUP_PER_TICK = 1
    MaxJobs = 3
INVARIANT FreshIsCurrent
INVARIANT MessagesAccounted
INVARIANT OneCurrentVersion
INVARIANT DimensionFollows
INVARIANT PairsScoredRight
INVARIANT SecretWasTyped
INVARIANT RunsUseTheDirectory
PROPERTY OnWriteViewsCatchUp
CHECK_DEADLOCK FALSE
