CONSTANTS
    b1 = b1
    b2 = b2
    Broker = {b1, b2}
    client_count <- Clients
    worker_count <- Workers
SPECIFICATION FairSpec
INVARIANTS TypeOK ReadyAreIdle InOnePlace
PROPERTIES RepliesGoOn
CHECK_DEADLOCK FALSE
