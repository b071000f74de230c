SPECIFICATION FairSpec
CONSTANTS
    Event = {a, b, c}
    Identified = {a, b}
    Readable = {a, c}
    Request = {r1, r2}
    Worker = {w1, w2}
    QueueSize = 1
    None = None
    InEngine = InEngine
    Gone = Gone
    MaxPosts = 4
    MaxFaults = 1
    MaxRestarts = 1
CHECK_DEADLOCK FALSE
INVARIANTS TypeOK AtMostOnce AnsweredIsKept
PROPERTIES AnsweredIsHandled
