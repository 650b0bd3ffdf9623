----------------------------- MODULE MCMigrator -----------------------------
(***************************************************************************)
(* The instances of the model that TLC checks: rules of the operator and   *)
(* faults of the environment, named for the runs that use them.            *)
(***************************************************************************)
EXTENDS MigratorInv, TLC

Documented   == AllRules
AnySetup     == AllRules \ {"setup"}
AnyTime      == AllRules \ {"settled", "cascadeOff"}
Overlapping  == AllRules \ {"exclusive"}

NoFaults == {}
SilentFailures == {"opFails", "reconcile"}
FailedOperations == {"opFails"}
Disturbances == {"minorFails", "reconcile", "redeploy", "outside"}

RunSymmetry == Permutations(Procs)
=============================================================================
