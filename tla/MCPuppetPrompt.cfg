SPECIFICATION FairSpec
CONSTANTS
    arm = arm
    head = head
    Bone = Bone
    Label <- MCLabel
    Delegate <- MCDelegate
    Device <- OneDevice
    InputsOf <- InputsOfOne
    Command <- MCCommand
    Losable <- AllTypes
    Prompt = TRUE
    Endless = TRUE
    MaxFrames = 3
    MaxLosses = 3
    MaxUnplugs = 1
    MaxConnections = 2
    HostCap = 8
    DeviceCap = 3
INVARIANT FramesDoNotMix
PROPERTIES
    AcknowledgedFrameEnded
    FramesKeepFlowing
    UnplugIsNoticed
CHECK_DEADLOCK FALSE
