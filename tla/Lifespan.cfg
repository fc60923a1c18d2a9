SPECIFICATION FairSpec
CONSTANTS
    Jobs <- MCJobs
    j1 = j1
    Workers = 1
    MaxBoots = 3
    MaxFaults = 2
INVARIANTS
    NothingOutlives
    ServingOwnsIncomplete
PROPERTIES
    ShutdownBlamesNoJob
    LifespanSettles
CHECK_DEADLOCK FALSE
