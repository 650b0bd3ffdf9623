SPECIFICATION Spec
CONSTANTS
    Src = src
    Tgt = tgt
    Procs = {r1}
    Rules <- Documented
    Faults <- SilentFailures
INVARIANTS
    WayBack
PROPERTIES
    SwitchoverSpec
    NeverDeletesServing
\* After finalize the migration is over and nothing is left to happen.
CHECK_DEADLOCK FALSE
