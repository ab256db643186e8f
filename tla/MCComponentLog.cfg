SPECIFICATION Spec
CONSTANTS
    arm = arm
    Left = Left
    Right = Right
    Label <- MCLabel
    Delegate <- MCDelegate
    Command <- MCCommand
    MaxBindings = 2
    MaxHeard = 6
    MaxConnections = 2
SYMMETRY DelegateSymmetry
INVARIANTS
    TypeOK
    LogDeterminesState
    CallbacksBoundIffConnected
PROPERTY DeliveriesMatchLog
CHECK_DEADLOCK FALSE
