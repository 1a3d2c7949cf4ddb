SPECIFICATION Spec
CONSTANTS
    Byte = 8
    kMagic = 1357
    kVersion = 1
    kMaxPayloadBytes = 64
    max_payload_bytes = 6
    max_chain_len = 2
    Images <- MCImages
    Chains <- MCChains
    Parses <- MCParses
    Flags = {0, 1}
    RawRequests <- MCRaw
    MaxRequests = 2
    MayHangUp = TRUE
CHECK_DEADLOCK FALSE
INVARIANTS
    HeadersIntact
    AcceptedFramesFit
    ResponsesMatchRequests
    StatusDocumentedUnlessWrapped
PROPERTIES
    FramesAnswered
