CONSTANTS
    Files = {f1}
    NoFile = NoFile
    Sizes = {"small", "large"}
    DefaultSize = "small"
    Pieces <- TwoOrOne
    MaxPieces = 2
    Workers = {w1, w2}
    Requests = {r1}
    MaxAttempts = 2
    MaxJobs = 1
    MaxCrashes = 1
    MaxFaults = 1
SPECIFICATION Spec
SYMMETRY Symmetry
INVARIANTS TypeOK IndexedIsComplete NothingLeftBehind
PROPERTIES CompletedCoversItsFiles
CHECK_DEADLOCK FALSE
