CONSTANTS
    Worker = {w1, w2}
    Request = {r1}
    TTL = 1
    LIVENESS = 1
    MaxInFlight = 1
    MaxRestarts = 0
SPECIFICATION FairSpec
PROPERTIES ExpiredLeave RequestsLeave
CHECK_DEADLOCK FALSE
