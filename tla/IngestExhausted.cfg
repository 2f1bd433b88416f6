CONSTANTS
    Files = {f1}
    NoFile = NoFile
    Content <- SameContent
    Workers = {w1, w2}
    Requests = {r1}
    MaxAttempts = 2
    MaxVersions = 1
    MaxJobs = 1
    MaxCrashes = 2
    MaxFaults = 0
SPECIFICATION FairSpec
PROPERTIES AbandonedJobsEnd
CHECK_DEADLOCK FALSE
