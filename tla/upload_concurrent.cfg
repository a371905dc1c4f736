CONSTANTS
    Sessions = {s1}
    Handlers = {h1, h2}
    Free = Free
    NoSession = NoSession
    Sizes = {0, 2}
    MaxOffset = 2
    MaxChunk = 2
    Quota = 0
    Vault = TRUE
    DiskFaults = TRUE
    Unranged = FALSE
    MaxCrashes = 1
SPECIFICATION Spec
SYMMETRY Symmetry
INVARIANTS
    TypeOK
    RowsIntact
    OffsetMatchesFile
    NoTempLeak
    CompletedIsRecorded
PROPERTIES
    ImplementsTable
