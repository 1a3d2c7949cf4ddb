SPECIFICATION Spec
CONSTANTS
    Producers = {r1, r2, r3}
    Consumers = {worker}
    Closer = stopper
    Capacities = {0, 2}
    MaxPush = 2
INVARIANTS
    WithinCapacity
    SleepersAreAnnounced
    NothingLostOrReordered
PROPERTIES
    CloseDrains
