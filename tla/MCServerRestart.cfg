SPECIFICATION Spec
CONSTANTS
    Conns = {c1}
    Slots = {s1}
    SlotsPerConnection = 1
    QueueCapacity = 1
    Kinds = {"good", "drain", "close"}
    MaxFrames = 2
    RecvBuffer = 1
    SendBuffer = 1
    MaxStarts = 2
    ClientsMayDie = TRUE
    MayStop = TRUE
    None = None
INVARIANTS
    SlotsConserved
PROPERTIES
    StopTerminates
