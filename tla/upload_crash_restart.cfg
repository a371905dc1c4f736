CONSTANTS
    Sessions = {s1}
    Handlers = {h1}
    Free = Free
    NoSession = NoSession
    Sizes = {0, 2}
    MaxOffset = 2
    MaxChunk = 2
    Quota = 0
    Vault = FALSE
    DiskFaults = FALSE
    Unranged = FALSE
    MaxCrashes = 1
SPECIFICATION Spec
INVARIANT
    UploadsSurviveRestart
