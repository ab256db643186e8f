SPECIFICATION FairSpec
CONSTANTS
    MaxConnections = 3
    MaxMessages = 2
    MaxTasks = 2
INVARIANTS
    TypeOK
    ModelOutlivesUse
    MessageFindsItsModel
    ActionFindsItsControl
PROPERTIES
    ChangedBeforeNewModel
    HandledInOrder
    ModelFollowsConnection
    MessagesAreHandled
CHECK_DEADLOCK FALSE
