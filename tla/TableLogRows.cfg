SPECIFICATION Spec
CONSTANTS
    Threads = {t1, t2}
    NoThread = NoThread
    Texts <- CellTexts
    Reread <- CellReread
    Mistaken <- CellMistaken
    TextOf <- CellTextOf
    MaxRows = 2
    MaxPerIngest = 2
    MaxStatements = 3
    MaxCrashes = 1
SYMMETRY Symmetry
CHECK_DEADLOCK FALSE
INVARIANTS OncePerStatement TableIsWhatWasAnswered SyncedRowsSurvive
