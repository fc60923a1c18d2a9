SPECIFICATION Spec
CONSTANTS
    r1 = r1
    r2 = r2
    t1 = t1
    t2 = t2
    NoToken = NoToken
    Requests <- MCRequests
    Tokens <- MCTokens
    Uploads <- MCUploads
    ChunkSize = 2
    MaxBytes = 3
    Slack = 1
SYMMETRY Symmetry
INVARIANTS
    TypeOK
    StagedWhole
    FitsIsAccepted
    ScratchIsOwned
    AccessFollowsToken
CHECK_DEADLOCK FALSE
