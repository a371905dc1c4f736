CONSTANTS
    Tasks = {t1}
    Sizes = {0, 1, 2}
    Kinds = {"direct", "magnet"}
    Quota = 2
    WebSeeds = 2
    Peers = 1
    MaxUsed = 2
    Excess = 1
SPECIFICATION FairSpec
INVARIANTS
    RowIsRemoteFile
    StatusTellsRow
    NoTempLeft
PROPERTIES
    CancelEnds
CHECK_DEADLOCK FALSE
