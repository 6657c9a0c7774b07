CONSTANTS
    recvA = recvA
    recvB = recvB
    Threads <- MCTwoThreads
    MaxConns = 2
    MaxAttempts = 2
SPECIFICATION Spec
INVARIANTS
    BootstrapSentOnce
    FirstConnectionLogsInOnce
    ReadyMeansAnswered
    ReleasedAfterOutcome
PROPERTY HookReturns
CHECK_DEADLOCK FALSE
