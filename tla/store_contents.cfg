CONSTANTS
    Handlers = {h1, h2}
    Hashes = {k1, k2}
    NoHash = NoHash
    Files = {f1, f2}
    NoFile = NoFile
    Nonces = {n1}
    MayPurge = TRUE
    Faults = {"write", "count", "device", "remove"}
    Seeds = {k1, k2}
    MayCrash = TRUE
SPECIFICATION Spec
SYMMETRY Symmetry
CONSTRAINT Undecided
INVARIANTS
    RowsHaveBlobs
    CacheCoherent
    NoOrphanBlobs
