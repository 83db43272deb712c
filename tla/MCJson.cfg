SPECIFICATION Spec
CONSTANTS
    MaxEvents = 4
    QueueCapacity = 2
    Missing = Missing
    Broken = Broken
INVARIANTS EventsAccounted FilesAgree
PROPERTY StopEndsJsonThread
CHECK_DEADLOCK FALSE
