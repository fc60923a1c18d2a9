SPECIFICATION Spec
CONSTANTS
    j1 = j1
    j2 = j2
    c1 = c1
    Parses <- MCParses
    Converts <- MCConverts
    Second = 2
    Workers = 1
    Timeout = 2
    TTL = 2
    Interval = 2
    MaxTime = 9
    MaxErrors = 1
    MaxStops = 1
SYMMETRY Symmetry
INVARIANTS
    WaitBounded
    GoneInTime
PROPERTIES
    KeptForPickup
CHECK_DEADLOCK FALSE
