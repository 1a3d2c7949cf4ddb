SPECIFICATION Spec
CONSTANTS
    Claimers = {c1, c2, c3}
    Others = {worker, stopper}
    Owners = {c1, c2, c3}
    OwnerOf <- MCOwnerOf
    Count = 3
    PerOwnerCap = 2
    NoOwner = NoOwner
INVARIANTS
    FreeOrOwned
    HeldWithinCap
    NoLostWakeup
    LoudOwnerCannotStarve
PROPERTIES
    RunnableClaimerWakes
    CloseFreesWaiters
