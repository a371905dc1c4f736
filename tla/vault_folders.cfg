CONSTANTS
    Folders = {d1}
    Files = {f1, f2}
    Sessions = {s1}
    Workers = {w1}
    Admins = {a1}
    Root = Root
    VaultRoot = VaultRoot
    NoSession = NoSession
    NoFile = NoFile
    DBErrors = TRUE
    MaxWalk = 50
SPECIFICATION Spec
SYMMETRY Symmetry
CONSTRAINT FilesLeft
INVARIANTS
    NoDangling
    KeyMatchesFolder
    CacheSound
    ZipReadable
PROPERTY
    VaultRowsGuarded
