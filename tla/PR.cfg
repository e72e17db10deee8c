CONSTANTS
    Task = {t1, t2, t3}
    Worker = {w1, w2}
    Server = {s1, s2}
    TOTAL_REQUESTS = 3
    PipeSize = 1
    MaxStops = 1
    SyncCalls = 3
    AsyncCalls = 3
    HWM = 2
    Subscriber = {u1, u2, u3}
    SUBSCRIBERS_EXPECTED = 2
    Updates = 2
    Client = {c1, c2}
    Id = {1, 2}
    MaxReplies = 2
    MaxRequests = 1
SPECIFICATION ProgramsSpec
INVARIANTS ProgramsTypeOK KillIsLast FiredOnce OwnReplies
PROPERTIES BatchEnds CallsReturn TestsEnd BossEnds InTimeGetAll Answered
CHECK_DEADLOCK FALSE
