CONSTANTS
    Files = {f1}
    NoFile = NoFile
    Content <- SameContent
    Workers = {w1, w2}
    Requests = {r1}
    MaxAttempts = 2
    MaxVersions = 1
    MaxJobs = 2
    MaxCrashes = 2
    MaxFaults = 1
SPECIFICATION FairSpec
PROPERTIES EventuallyDecided
CHECK_DEADLOCK FALSE
