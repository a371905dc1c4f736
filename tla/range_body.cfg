CONSTANTS
    MaxChunks = 3
    MaxLen = 2
    MaxOffset = 6
    BufSize = 2
    Readers = {"file", "seeker", "stream"}
SPECIFICATION Spec
INVARIANTS
    BodyIsRange
PROPERTIES
    EveryRequestAnswered
