SPECIFICATION Spec
CONSTANTS
    NSlots = 2
    MaxEntries = 1
    MaxTxn = 2
    Threads = {t1}
    Tables = {ta}
    NoTable = NoTable
    TimeoutTicker = FALSE
    GaugeFloor = 1
CHECK_DEADLOCK FALSE
INVARIANT CommitUsesItsOwnCopy
