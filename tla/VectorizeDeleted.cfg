CONSTANTS
    Files = {f1}
    NoFile = NoFile
    Sizes = {"small"}
    DefaultSize = "small"
    Pieces <- TwoOrOne
    MaxPieces = 2
    Workers = {w1}
    Requests = {r1}
    MaxAttempts = 1
    MaxJobs = 1
    MaxCrashes = 0
    MaxFaults = 0
SPECIFICATION Spec
INVARIANTS DeletedFilesNotFound
CHECK_DEADLOCK FALSE
