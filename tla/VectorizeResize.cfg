CONSTANTS
    Files = {f1}
    NoFile = NoFile
    Sizes = {"small", "large"}
    DefaultSize = "small"
    Pieces <- TwoOrOne
    MaxPieces = 2
    Workers = {w1}
    Requests = {r1}
    MaxAttempts = 1
    MaxJobs = 2
    MaxCrashes = 0
    MaxFaults = 0
SPECIFICATION Spec
PROPERTIES NewSizeTakesEffect
CHECK_DEADLOCK FALSE
