CONSTANTS
    Server = {s1, s2}
    TOTAL_REQUESTS = 2
    GLOBAL_TIMEOUT = 1
    PING_INTERVAL = 1
    SERVER_TTL = 2
    HWM = 1
    MaxInFlight = 1
    MaxStops = 1
SPECIFICATION FairSpec
INVARIANTS TypeOK AliveListed AnswerUnderWay
PROPERTIES CallsReturn ServersReturn
CHECK_DEADLOCK FALSE
