CONSTANTS
    Worker = {w1, w2}
    Request = {r1, r2}
    TTL = 1
    LIVENESS = 1
    MaxInFlight = 2
    MaxRestarts = 1
SPECIFICATION Spec
SYMMETRY Symmetry
INVARIANTS TypeOK IdleConsistent FrontDefined
PROPERTIES LiveLeaveByDispatch ServesOnce
CHECK_DEADLOCK FALSE
