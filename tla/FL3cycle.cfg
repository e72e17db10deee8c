CONSTANTS
    Server = {s1}
    TOTAL_REQUESTS = 3
    GLOBAL_TIMEOUT = 2
    PING_INTERVAL = 1
    SERVER_TTL = 2
    HWM = 3
    MaxInFlight = 2
    MaxStops = 0
SPECIFICATION Spec
INVARIANT StrictCycle
CHECK_DEADLOCK FALSE
