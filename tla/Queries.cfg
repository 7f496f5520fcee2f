SPECIFICATION Spec
CONSTANTS
    Sample = 3
    CodeMax = 3
    DictMax = 4
    RunMax = 2
    NullWord <- MCNullWord
    Specials <- MCSpecials
    Tables <- MCTables
    Batches <- MCBatches
    Statements <- MCStatements
    Indexed <- MCIndexed
    Builds = {"debug", "release"}
    MaxRsRows = 9
    RestCap = 8
    MaxBatches = 2
INVARIANTS ReadsBack AnswerIsTheReference PageOrSaysSo
CHECK_DEADLOCK FALSE
