SPECIFICATION MCSpec
CONSTANTS
    Byte <- MCByte
    Guard <- MCGuard
    Command <- MCCommand
    MaxSent = 2
    MaxFaults = 1
    MaxConnections = 2
PROPERTY SetupStartsEmpty
CHECK_DEADLOCK FALSE
