SPECIFICATION Spec
CONSTANTS
    Src = src
    Tgt = tgt
    Procs = {r1}
    Rules <- AnySetup
    Faults <- NoFaults
INVARIANTS
    TypeOK
    ServesCommittedRows
    SourceRowsSurvive
    ServesStandalone
    SourceQuietAfterPromotion
    PromoteDelivers
    RollbackRestores
    FinalizeCleans
    BackupBeforeChange
\* After finalize the migration is over and nothing is left to happen.
CHECK_DEADLOCK FALSE
