SPECIFICATION FairSpec
CONSTANTS
    Window = 3
    Overlap = 1
    MinFinal = 2
    SampleRate = 1
    QueueCapacity = 2
    MaxChunk = 3
    InitialSequence = 2
    InitialSamples = 1
    MaxRecorded = 7
INVARIANTS AudioAccountedFor ChunksOwnedOnce WindowsOverlap StartExactWithoutLoss
           RingNeverFull AcceptingMeansServed
PROPERTY StopIsServed
