CONSTANTS
    Worker = {w1, w2, w3}
    Client = {c1, c2, c3, c4}
SPECIFICATION FairSpec
INVARIANTS TypeOK QueuedAreIdle FrontDefined ClientsJoinable
PROPERTIES ServesOnce ClientsEnd EndsIfAllQueued
CHECK_DEADLOCK FALSE
