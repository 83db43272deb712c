SPECIFICATION FairSpec
CONSTANTS
    Commands = {"START", "STOP", "PAUSE", "RESUME", "STOP_INFERENCE", "RESUME_INFERENCE"}
    Faults = {"recorder"}
    WavEnabled = TRUE
    AutoRetranscribe = TRUE
    AudioSources = {"MICROPHONE"}
    MaxCommands = 4
    MaxStarts = 2
    MaxWorkers = 5
    MaxSamples = 2
    MaxBacklog = 1
INVARIANTS ReachableUnlessOvertaken NumbersUniqueUnlessOvertaken FileNeverWithRecorder
PROPERTY PendingStartServed
CHECK_DEADLOCK FALSE
