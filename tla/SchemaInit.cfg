SPECIFICATION FairSpec
CONSTANTS
    new = new
    old = old
    Procs <- MCProcs
    Known <- MCKnown
    Migrations = 3
    MaxCrashes = 2
INVARIANTS
    SchemaMatchesVersion
    DoneMeansUsable
    NoMigrationTwice
PROPERTIES
    CurrentNeedsNoLock
    InitEnds
CHECK_DEADLOCK FALSE
