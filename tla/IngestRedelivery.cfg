CONSTANTS
    Files = {f1}
    NoFile = NoFile
    Content <- SameContent
    Workers = {w1}
    Requests = {r1}
    MaxAttempts = 2
    MaxVersions = 1
    MaxJobs = 1
    MaxCrashes = 1
    MaxFaults = 0
SPECIFICATION Spec
INVARIANTS StoredTextHasItsJob
CHECK_DEADLOCK FALSE
