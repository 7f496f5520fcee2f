SPECIFICATION Spec
CONSTANTS
    LeafMax = 2
    IntMax = 2
    Keys = {1, 2, 3, 4, 5}
    Unique = TRUE
    Builds = {"debug", "release"}
    MaxRecords = 5
    MaxMishaps = 1
CHECK_DEADLOCK FALSE
INVARIANTS RangeIsExact IndexAnswersAsScan
