CONSTANTS
    None = None
    Characters <- MCCharacters
    ServerPackets <- MCServerPackets
    MaxPackets = 3
    MaxAttempts = 2
SPECIFICATION Spec
INVARIANTS
    ListReadyMeansList
    LoginKeepsCharacter
    LoginStaysWhole
CHECK_DEADLOCK FALSE
