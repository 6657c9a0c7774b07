CONSTANTS
    host = host
    recvA = recvA
    recvB = recvB
    take = take
    nobody = nobody
    wiped = wiped
    Owner <- host
    Receivers <- MCTwoReceivers
    Handoffs <- MCHandoffs
    Nobody <- nobody
    Wiped <- wiped
    WordMod = 4
    MaxPackets = 1
SPECIFICATION Spec
INVARIANTS
    CipherMatchesSession
    WipedForGood
PROPERTIES
    HandoffTakesKeyInForce
    OneRolloverPerLogin
    ClearFinishes
    ImplementsCell
CHECK_DEADLOCK FALSE
