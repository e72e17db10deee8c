CONSTANTS
    Worker = {w1, w2}
    Request = {r1}
    TTL = 1
    LIVENESS = 1
    MaxInFlight = 2
    MaxRestarts = 0
SPECIFICATION Spec
INVARIANT PurgeRemovesDead
CHECK_DEADLOCK FALSE
