SPECIFICATION Spec
CONSTANTS
    MaxPuts = 4
    MaxConnections = 3
    MaxRestarts = 1
INVARIANT AcknowledgementsIncrease
CHECK_DEADLOCK FALSE
