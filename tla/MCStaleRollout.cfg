SPECIFICATION Spec
CONSTANTS
    Source = source
    Target = target
    MaxDeploys = 2
    MaxRuns = 2
    Resync = resync
PROPERTIES
    SwitchRolledOut
\* The runs and deploys of the bounds may all be over.
CHECK_DEADLOCK FALSE
