SPECIFICATION Spec
CONSTANTS
    arm = arm
    head = head
    Bone = Bone
    Label <- MCLabel
    Delegate <- MCDelegate
    Device <- TwoDevice
    InputsOf <- InputsOfTwo
    Command <- MCCommand
    Losable <- AllTypes
    Prompt = FALSE
    Endless = FALSE
    MaxFrames = 2
    MaxLosses = 1
    MaxUnplugs = 1
    MaxConnections = 2
    HostCap = 7
    DeviceCap = 3
INVARIANTS
    ValuesReachTheirLabel
    FramesDoNotMix
CHECK_DEADLOCK FALSE
