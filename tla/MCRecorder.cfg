SPECIFICATION Spec
CONSTANTS
    Chunks = {1, 2, 3, 4, 5, 6, 7, 8}
    QueueLimit = 2
    PoolLimit = 6
    Sources = {"MICROPHONE", "APP_CAPTURE", "MICROPHONE_AND_APP"}
INVARIANTS ChunksOwned PoolSuffices
PROPERTY StopEndsThread
CHECK_DEADLOCK FALSE
