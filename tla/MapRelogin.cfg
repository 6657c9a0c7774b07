CONSTANTS
    guest = guest
    wiped = wiped
    Guest <- guest
    Wiped <- wiped
    WordMod = 8
    MaxZones = 1
    MaxLogins = 2
SPECIFICATION Spec
INVARIANT
    SharedKeyLifecycle
CHECK_DEADLOCK FALSE
