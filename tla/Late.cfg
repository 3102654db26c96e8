CONSTANTS
    j1 = j1
    j2 = j2
    j3 = j3
    Jobs = {j1}
    NoJob = NoJob
    Key <- SameKey
    NoKey = "none"
    FirstLine = 2
    LastLine = 5
    BadLines = {2, 5}
    CheckpointEvery = 2
    MaxRetry = 2
    Workers = {"w1"}
    LateWrites = TRUE
    MaxFaults <- LateFaults
SPECIFICATION Spec
INVARIANTS NoLineSkipped CompletionEvidence NoDuplicateErrors
PROPERTIES CheckpointMonotone ReplaysOnce
