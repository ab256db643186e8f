SPECIFICATION Spec
CONSTANTS
    arm = arm
    head = head
    Left = Left
    Right = Right
    Label <- MCLabel
    Delegate <- MCDelegate
    Command <- MCCommand
    SentOn <- MCSentOn
    MaxInputs = 2
    MaxBindings = 3
    MaxConnections = 2
    MaxCalls = 4
INVARIANTS
    PassExecutesWhatWasBound
    OnlyBoundIsExecuted
    FrameIsOfOneConnection
CHECK_DEADLOCK FALSE
