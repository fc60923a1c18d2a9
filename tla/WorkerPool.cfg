SPECIFICATION FairSpec
CONSTANTS
    p1 = p1
    p2 = p2
    Parses <- MCParses
    Workers = 1
    MaxRebuilds = 3
INVARIANTS
    OnlyBrokenReplaced
    ReplacedIsTornDown
    ClosedForGood
    CountersAgree
    UploadLivesWithParse
PROPERTIES
    KeepsParse
    ParsesEnd
CHECK_DEADLOCK FALSE
