SPECIFICATION DetailSpec
CONSTANTS
    Src = src
    Tgt = tgt
    Procs = {r1}
    Rules <- Documented
    Faults <- NoFaults
    Entries <- Protected
    TargetVersion = "new"
    SourceVersion = "unset"
    Outgoing <- TwoAddresses
PROPERTIES
    AuditDropNotMissed
CHECK_DEADLOCK FALSE
