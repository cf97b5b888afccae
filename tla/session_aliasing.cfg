SPECIFICATION Spec
CONSTANTS
    c1 = c1
    c2 = c2
    Client <- TwoClients
    MaxHandles = 1
    MaxKeys = 1
    MaxStarts = 1
    MaxLate = 0
INVARIANTS Isolated
CHECK_DEADLOCK FALSE
