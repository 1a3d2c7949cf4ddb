SPECIFICATION Spec
CONSTANTS
    Conns = {c1}
    Slots = {s1}
    SlotsPerConnection = 1
    QueueCapacity = 1
    Kinds = {"good"}
    MaxFrames = 5
    RecvBuffer = 1
    SendBuffer = 1
    MaxStarts = 1
    ClientsMayDie = FALSE
    MayStop = FALSE
    None = None
INVARIANTS
    OutboxBounded
