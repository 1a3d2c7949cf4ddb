SPECIFICATION Spec
CONSTANTS
    kNaiveBlockDim = 2
    Launches <- MCLaunches
    None = None
    Junk = Junk
INVARIANTS
    ImageMatchesOracle
PROPERTIES
    KernelFinishes
CHECK_DEADLOCK FALSE
