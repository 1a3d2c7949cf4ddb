SPECIFICATION Spec
CONSTANTS
    kNaiveBlockDim = 16
    Texts <- MCTexts
    Kinds = {"invert", "threshold", "gaussian", "sobel"}
    Params = {50, 100}
    MaxLength = 3
    Channels = {3, 4}
    Options <- MCOptions
    MaxFrames = 2
    MaxLexemes = 4
    Junk = Junk
CHECK_DEADLOCK FALSE
INVARIANTS
    ParserMatchesGrammar
    CanonicalRoundTrip
    FusionBounds
    GeneratedKernelFits
    OneEntryPerKernel
    ImageIsTheFramesChain
