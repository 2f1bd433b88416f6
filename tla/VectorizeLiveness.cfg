CONSTANTS
    Files = {f1}
    NoFile = NoFile
    Sizes = {"small", "large"}
    DefaultSize = "small"
    Pieces <- TwoOrOne
    MaxPieces = 2
    Workers = {w1}
    Requests = {r1}
    MaxAttempts = 2
    MaxJobs = 2
    MaxCrashes = 1
    MaxFaults = 0
SPECIFICATION FairSpec
INVARIANTS IndexedIsComplete
PROPERTIES VectorizationEnds
CHECK_DEADLOCK FALSE
