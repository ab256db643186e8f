SPECIFICATION FairSpec
CONSTANTS
    MaxPuts = 4
    MaxConnections = 3
    MaxRestarts = 1
INVARIANTS
    TypeOK
    HoldsUnacknowledged
    NothingLost
    PromptAcknowledgementsIncrease
PROPERTIES
    ImplementsStream
    SentIsRead
CHECK_DEADLOCK FALSE
