SPECIFICATION Spec
CONSTANTS
    Commands = {"START", "STOP", "PAUSE", "RESUME", "STOP_INFERENCE", "RESUME_INFERENCE"}
    Faults = {"recorder", "wav", "close"}
    WavEnabled = TRUE
    AutoRetranscribe = TRUE
    AudioSources = {"APP_CAPTURE"}
    MaxCommands = 6
    MaxStarts = 1
    MaxWorkers = 5
    MaxSamples = 2
    MaxBacklog = 1
INVARIANTS TypeOK ResultsReachJson ShownStateIsTrue StopLeavesNothing RecordingRetranscribed
CHECK_DEADLOCK FALSE
