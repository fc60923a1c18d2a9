SPECIFICATION Spec
CHECK_DEADLOCK FALSE
CONSTANTS
    j1 = j1
    j2 = j2
    c1 = c1
    Parses = {j1, j2}
    Converts = {}
    Workers = 1
    Second = 2
    Timeout = 2
    TTL = 2
    Interval = 4
    MaxTime = 9
    MaxErrors = 0
    MaxStops = 0
INVARIANT AnchorImmaterial
