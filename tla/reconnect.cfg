SPECIFICATION FairSpec
CONSTANTS
    c1 = c1
    c2 = c2
    Client <- OneClient
    MaxHandles = 2
    MaxKeys = 2
    MaxStarts = 1
    MaxLate = 1
INVARIANTS TypeOK NoKeyLost AppliedOnce NoticedMeansFresh
PROPERTIES UIReturns Recovers
CHECK_DEADLOCK FALSE
