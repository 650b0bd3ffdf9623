SPECIFICATION Spec
CONSTANTS
    MaxLag = 2
    Acceptable = 1
    MaxDelay = 2
    Grace = 1
    NoPoint = NoPoint
PROPERTIES
    PromotesSynchronised
