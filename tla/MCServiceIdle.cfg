SPECIFICATION Spec
CONSTANTS
    Commands = {"START", "STOP", "STOP_INFERENCE"}
    Faults = {}
    WavEnabled = TRUE
    AutoRetranscribe = TRUE
    AudioSources = {"MICROPHONE"}
    MaxCommands = 5
    MaxStarts = 1
    MaxWorkers = 4
    MaxSamples = 2
    MaxBacklog = 1
INVARIANT StopWaitsForRecorder
CHECK_DEADLOCK FALSE
