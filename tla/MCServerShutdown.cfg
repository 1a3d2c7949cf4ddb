SPECIFICATION Spec
CONSTANTS
    Conns = {c1, c2}
    Slots = {s1, s2}
    SlotsPerConnection = 1
    QueueCapacity = 1
    Kinds = {"good", "drain", "close"}
    MaxFrames = 1
    RecvBuffer = 1
    SendBuffer = 1
    MaxStarts = 1
    ClientsMayDie = TRUE
    MayStop = TRUE
    None = None
SYMMETRY ConnSymmetry
INVARIANTS
    SlotsConserved
    OutstandingExact
    NoResponseDropped
    EveryFrameAnsweredOnce
    ImagesMatchRequests
    StorageOutlivesReaders
    StopLeavesNothing
