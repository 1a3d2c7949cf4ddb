SPECIFICATION Spec
CONSTANTS
    StreamCount = 2
    Jobs <- MCJobs
    MaxJobs = 4
    MaxFaults = 1
    Nil = Nil
INVARIANTS
    EachJobOnce
    ImagesAreOwn
PROPERTIES
    ImplementsJobService
    JobsReturn
