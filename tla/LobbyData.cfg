CONSTANTS
    viewA = viewA
    viewB = viewB
    Guests <- MCTwoGuests
    MaxCoords = 2
    MaxPolls = 2
SPECIFICATION Spec
INVARIANTS
    SingleSession
    FlagNeverSticks
    KeyOnlyAfterSelection
    CancelledOnlyByShutdown
    NoOrphan
    StopSeenWithinOnePoll
PROPERTIES
    ImplementsSession
    ShutdownCompletes
CHECK_DEADLOCK FALSE
