CONSTANTS
    Worker = {w1, w2}
    Client = {c1}
SPECIFICATION FairSpec
PROPERTY Ends
CHECK_DEADLOCK FALSE
