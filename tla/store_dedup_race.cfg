CONSTANTS
    Handlers = {h1, h2}
    Hashes = {k1}
    NoHash = NoHash
    Files = {f1, f2}
    NoFile = NoFile
    Nonces = {}
    MayPurge = FALSE
    Faults = {}
    Seeds = {}
    MayCrash = FALSE
SPECIFICATION Spec
INVARIANT
    DedupIsSafe
