SPECIFICATION Spec
CONSTANTS
    None = None
    Handle <- MCHandle
    QueueCap = 2
    MaxSize = 3
INVARIANTS
    TypeOK
    HandlesAccountedFor
    SendMeansAllWritten
    WindowsWriteMeansAnyWritten
CHECK_DEADLOCK FALSE
