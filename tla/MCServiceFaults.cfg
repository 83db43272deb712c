SPECIFICATION FairSpec
CONSTANTS
    Commands = {"START", "STOP", "PAUSE", "RESUME", "STOP_INFERENCE", "RESUME_INFERENCE",
                "TRANSCRIBE_FILE", "STOP_FILE"}
    Faults = {"prepare", "open", "projection", "record", "recorder", "whisper", "json"}
    WavEnabled = TRUE
    AutoRetranscribe = TRUE
    AudioSources = {"APP_CAPTURE"}
    MaxCommands = 3
    MaxStarts = 1
    MaxWorkers = 4
    MaxSamples = 1
    MaxBacklog = 1
INVARIANTS StopWaitsForResults
PROPERTY SessionEnds
CHECK_DEADLOCK FALSE
