CONSTANTS
    Subscriber = {s1, s2}
    Topic = {1, 10}
    HWM = 2
    MaxUpdates = 2
SPECIFICATION FairSpec
INVARIANT NeverGoesBack
PROPERTY AnsweredFromCache
CHECK_DEADLOCK FALSE
