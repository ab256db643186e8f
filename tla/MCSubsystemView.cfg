SPECIFICATION SubsystemFairSpec
CONSTANTS
    Device <- MCDevice
    MaxDuplicates = 1
    MaxChanges = 4
    MaxFailures = 1
INVARIANT
    ViewFollowsList
PROPERTY ViewCatchesUp
CHECK_DEADLOCK FALSE
