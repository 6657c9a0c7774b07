CONSTANTS
    RecordUnits = 2
    ChunkUnits = 5
    MaxEncrypted = 6
    MaxResponse = 2
    Addresses = 2
    Servers <- MCServers
SPECIFICATION Spec
INVARIANTS
    Conserved
    BuffersBounded
    CredentialsAfterPin
    AnswerIsFound
    ResultExplained
PROPERTIES
    ImplementsLogin
    Terminates
CHECK_DEADLOCK FALSE
