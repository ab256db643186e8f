SPECIFICATION Spec
CONSTANTS
    MaxTimeBetweenCommands = 3
    Quantum = 2
    Float <- MCFloat
    MaxTime = 16
PROPERTIES
    ResetNotEarly
    ResetNotMissed
CHECK_DEADLOCK FALSE
