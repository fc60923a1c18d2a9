SPECIFICATION Spec
CONSTANTS
    v6 = v6
    v7 = v7
    Missing = Missing
    Unavailable = Unavailable
    Null = Null
    Versions <- MCVersions
    IM7 <- MCIM7
    Documents <- MCDocuments
    MaxUpgrades = 2
    MaxFailures = 2
INVARIANTS
    TypeOK
    NoMissedReparse
    NoNeedlessReparse
