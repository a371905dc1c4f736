CONSTANTS
    Sessions = {s1}
    Handlers = {h1, h2}
    Free = Free
    NoSession = NoSession
    Sizes = {0, 1}
    MaxOffset = 1
    MaxChunk = 1
    Quota = 1
    Vault = TRUE
    DiskFaults = FALSE
    Unranged = TRUE
    MaxCrashes = 0
SPECIFICATION FairSpec
PROPERTIES
    RequestsReturn
