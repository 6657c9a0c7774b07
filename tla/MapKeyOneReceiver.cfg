CONSTANTS
    host = host
    recvA = recvA
    recvB = recvB
    take = take
    nobody = nobody
    wiped = wiped
    Owner <- host
    Receivers <- MCOneReceiver
    Handoffs <- MCHandoffs
    Nobody <- nobody
    Wiped <- wiped
    WordMod = 4
    MaxPackets = 3
SPECIFICATION Spec
INVARIANT PendingMeansOwed
CHECK_DEADLOCK FALSE
