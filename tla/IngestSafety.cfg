CONSTANTS
    Files = {f1}
    NoFile = NoFile
    Content <- SameContent
    Workers = {w1, w2}
    Requests = {r1, r2}
    MaxAttempts = 2
    MaxVersions = 1
    MaxJobs = 2
    MaxCrashes = 1
    MaxFaults = 1
SPECIFICATION Spec
SYMMETRY Symmetry
INVARIANTS TypeOK AttemptsFence NoStrandedVersion
PROPERTIES FinishedStaysFinished ImplementsLifecycle
CHECK_DEADLOCK FALSE
