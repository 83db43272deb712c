SPECIFICATION Spec
CONSTANTS
    Window = 3
    SamplesPerCs = 2
    SplitSilence = 2
    MergeGap = 8
    Silence = 2
    Settings <- MCSettings
    MaxSamples = 20
    MaxThreads = 3
    Frames = 5
    HopLength = 2
    FftHalfSize = 3
    Grain = 2
    JavaTexts <- MCJavaTexts
    EngineTexts <- MCEngineTexts
    Prompts <- MCPrompts
    Merges <- MCMerges
    Vocabulary <- MCVocabulary
    MaxTokens = {0, 2, 224}
    Modulus = 401
    Roots <- MCRoots
    Bases <- FftPoints
INVARIANTS PiecesOrdered SpeechKept CopyFits TimesMonotone
           WorkspaceExclusive FeaturesComplete SkippedFramesSilent
           UnitsWellFormed RoundTrip NoCharacterLost TokensKeepText FftIsDft
