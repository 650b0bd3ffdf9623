SPECIFICATION Spec
CONSTANTS
    Src = src
    Tgt = tgt
    Procs = {r1, r2}
    Rules <- Overlapping
    Faults <- NoFaults
SYMMETRY RunSymmetry
INVARIANTS
    IInv
    SourceQuietAfterPromotion
    RollbackRestores
PROPERTIES
    NeverDeletesServing
\* After finalize the migration is over and nothing is left to happen.
CHECK_DEADLOCK FALSE
