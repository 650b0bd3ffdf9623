SPECIFICATION CautiousSpec
CONSTANTS
    Src = src
    Tgt = tgt
    Procs = {r1}
    Rules <- Documented
    Faults <- NoFaults
    Entries <- Protected
    TargetVersion = "new"
    SourceVersion = "unset"
    Outgoing <- TwoAddresses
INVARIANTS
    DetailTypeOK
    ReplicaSuitsDms
    ProtectionRestored
    TargetAsAskedFor
PROPERTIES
    UpAgain
\* After finalize the migration is over and nothing is left to happen.
CHECK_DEADLOCK FALSE
