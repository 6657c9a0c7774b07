CONSTANTS
    guest = guest
    wiped = wiped
    Guest <- guest
    Wiped <- wiped
    WordMod = 8
    MaxZones = 5
    MaxLogins = 1
SPECIFICATION Spec
INVARIANTS
    SharedKeyLifecycle
PROPERTY HandoffCompletes
CHECK_DEADLOCK FALSE
