SPECIFICATION FairSpec
CONSTANTS
    MaxLag = 2
    Acceptable = 1
    MaxDelay = 2
    Grace = 1
    NoPoint = NoPoint
INVARIANTS
    TypeOK
PROPERTIES
    MissingIsRecent
    GivesUpForCause
    Promoted
