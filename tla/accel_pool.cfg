CONSTANTS
    N = 2
    Workers = {w1, w2, w3}
    NoWorker = NoWorker
    MaxRetries = 3
    MaxFailures = 3
    MayCancel = TRUE
SPECIFICATION AccelFairSpec
INVARIANTS
    SuccessIsWhole
    JournalSound
    CountExact
PROPERTIES
    ImplementsFile
    ReturnsUnlessGivenUp
CHECK_DEADLOCK FALSE
