CONSTANTS
    Client = {c1}
    Worker = {w1, w2, w3}
    retries_allowed = 3
    CRASH_FREE = 1
    MAX_WORKERS = 2
    MaxRequests = 2
    MaxRunning = 2
SPECIFICATION FairSpec
INVARIANTS TypeOK QueuedAreIdle QueueInBounds OwnReplies
PROPERTY Resolves
CHECK_DEADLOCK FALSE
