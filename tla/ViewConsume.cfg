CONSTANTS
    recvA = recvA
    recvB = recvB
    Threads <- MCOneThread
    MaxConns = 2
    MaxAttempts = 2
SPECIFICATION Spec
INVARIANT ConsumesOnlyDuplicates
CHECK_DEADLOCK FALSE
