CONSTANTS
    Requests = {r1, r2}
    Workers = {w1, w2}
    Closers = {k1, k2}
    BufferSize = 1
    Policies = {"sync", "block", "drop_oldest", "fallback"}
    Nobody = Nobody
    MaxFaults = 2
SPECIFICATION Spec
CHECK_DEADLOCK FALSE
INVARIANTS
    Accounted
    DrainedAtClose
    RecordedOnce
    AnswerKept
PROPERTIES
    CallsReturn
