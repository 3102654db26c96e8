CONSTANTS
    j1 = j1
    j2 = j2
    j3 = j3
    Jobs = {j1, j2}
    NoJob = NoJob
    Key <- OwnKeys
    NoKey = "none"
    FirstLine = 1
    LastLine = 3
    BadLines = {1, 3}
    CheckpointEvery = 2
    MaxRetry = 1
    Workers = {"w1", "w2"}
    LateWrites = FALSE
    MaxFaults <- SettleFaults
SPECIFICATION FairSpec
INVARIANTS ManifestAgrees ErrorsAfterResume SettledTogether
PROPERTIES TerminalSticks CanceledStaysCanceled EveryTaskSettles
