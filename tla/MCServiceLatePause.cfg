SPECIFICATION Spec
CONSTANTS
    Commands = {"START", "PAUSE", "RESUME"}
    Faults = {}
    WavEnabled = TRUE
    AutoRetranscribe = TRUE
    AudioSources = {"MICROPHONE"}
    MaxCommands = 4
    MaxStarts = 1
    MaxWorkers = 4
    MaxSamples = 2
    MaxBacklog = 1
INVARIANT PauseStopsRecorder
CHECK_DEADLOCK FALSE
