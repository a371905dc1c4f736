CONSTANTS
    c1 = c1
    c2 = c2
    t1 = t1
    t2 = t2
    Publishers = {p1, p2}
    Streams = {c1}
    Sockets = {c2}
    Topics = {t1, t2}
    Private = {t1, t2}
    UserTopic <- MCUserTopic
    NoTopic = NoTopic
    BufSize = 2
    MaxEvents = 3
SPECIFICATION Spec
CHECK_DEADLOCK FALSE
INVARIANTS
    Registered
    NoSilentLoss
PROPERTIES
    ImplementsStream
    PublishReturns
    GoneIsUnsubscribed
