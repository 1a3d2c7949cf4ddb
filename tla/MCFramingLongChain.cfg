SPECIFICATION Spec
CONSTANTS
    Byte = 8
    kMagic = 1357
    kVersion = 1
    kMaxPayloadBytes = 64
    max_payload_bytes = 6
    max_chain_len = 2
    Images <- MCPixel
    Chains <- MCLongChain
    Parses <- MCParses
    Flags = {1}
    RawRequests <- MCNoRaw
    MaxRequests = 2
    MayHangUp = FALSE
CHECK_DEADLOCK FALSE
INVARIANTS
    HeadersIntact
