CONSTANTS
    guestA = guestA
    guestB = guestB
    Guests <- MCGuests
    MaxGenerations = 2
    MaxDispatches = 2
SYMMETRY MCSymmetry
SPECIFICATION Spec
INVARIANTS
    OriginalsAreCurrent
    ThunkHasOriginal
    RequestsStayHome
    AcceptedMeansReady
CHECK_DEADLOCK FALSE
