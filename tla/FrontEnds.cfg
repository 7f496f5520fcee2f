SPECIFICATION FrontEndsSpec
CONSTANTS
    Clients = {c}
    Names = {n1, n2, n3}
    Texts <- WireTexts
    Values <- WireValues
    Doubled <- WireDoubled
    Loads <- WireLoads
    MaxPrepared = 2
    MaxPortals = 1
SYMMETRY Perms
INVARIANT ParsesWhatWasPrinted
INVARIANT VolcanoAgrees
PROPERTY KeepsTheProtocol
CHECK_DEADLOCK FALSE
