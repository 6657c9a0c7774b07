CONSTANTS
    gameA = gameA
    gameB = gameB
    off = off
    on = on
    None = None
    Guests <- MCGuests
    Hosts <- MCHosts
    DataPorts <- MCDataPorts
    Values <- MCValues
    MaxChanges = 2
SPECIFICATION Spec
INVARIANTS
    AllOrNothing
    RestoredTargetIsWhole
    TracerInsideRuntime
PROPERTY TraceCatchesUp
CHECK_DEADLOCK FALSE
