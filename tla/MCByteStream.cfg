SPECIFICATION MCSpec
CONSTANTS
    Byte <- MCByte
    Guard <- MCGuard
    Command <- MCCommand
    MaxSent = 2
    MaxFaults = 1
    MaxConnections = 2
INVARIANTS
    TypeOK
    ParseConsumesExactly
    NoGuardMissed
PROPERTIES
    ChunkingIrrelevant
    ImplementsChannel
CHECK_DEADLOCK FALSE
