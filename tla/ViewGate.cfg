CONSTANTS
    recvA = recvA
    recvB = recvB
    Threads <- MCOneThread
    MaxConns = 1
    MaxAttempts = 2
SPECIFICATION Spec
INVARIANT ReleasedOnlyWhenReady
CHECK_DEADLOCK FALSE
