SPECIFICATION Spec
CONSTANTS
    NSlots = 2
    MaxEntries = 2
    MaxTxn = 2
    Threads = {t1, t2}
    Tables = {ta}
    NoTable = NoTable
    TimeoutTicker = TRUE
    GaugeFloor = 1
CHECK_DEADLOCK FALSE
INVARIANTS OneCommitter CommitAppliesWhatWasBuffered OpenTxnIsKept
PROPERTIES NoBufferingAfterCommit
