SPECIFICATION FairSpec
CONSTANTS
    NSlots = 2
    MaxPerConn = 1
    Threads = {t1, t2}
    Conns = {a, b}
    Overlays = {o1, o2}
    MaxVersion = 1
    MaxRequests = 2
    None = None
CHECK_DEADLOCK FALSE
INVARIANTS LeaseIsExclusive LeasedSessionIsTheOneAskedFor InvalidatedLeaseIsNotPooled
PROPERTIES EveryRequestEnds
