SPECIFICATION Spec
CONSTANTS
    StreamCount = 2
    MaxStarts = 3
    MaxContexts = 3
    MaxModules = 1
    Nil = Nil
INVARIANTS
    DriverHandlesAccounted
    SlotMemoryStaysPut
    OnlyOrphansDieElsewhere
CHECK_DEADLOCK FALSE
