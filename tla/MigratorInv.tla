---------------------------- MODULE MigratorInv ----------------------------
(***************************************************************************)
(* The inductive invariant behind ServesCommittedRows and                  *)
(* SourceRowsSurvive.  It follows the stages of a migration: before a      *)
(* promote, after the start of a promote, of a rollback, of a finalize.    *)
(***************************************************************************)
EXTENDS Migrator

\* What the operator and the environment have to respect.  Runs of one program
\* may overlap; operations may fail silently and CNRM may recreate instances.
Disciplined ==
    /\ AllRules \ {"exclusive"} \subseteq Rules
    /\ Faults \subseteq {"opFails", "minorFails", "reconcile", "outside"}

\* The target lacks none but the latest rows, and that stays so: no lag point says anything
\* else of it any more, and nothing but pods that are being stopped writes to the source.
NearCopy == Tgt \in near /\ job \notin {"dump", "cdc"}
SafeCopy == NearCopy /\ (live = Src => pods # "up")

PromoteStarted  == "promote" \in started /\ "rollback" \notin started
RollbackStarted == "rollback" \in started

\* Runs that overlap are of one program, and started and completed tell what the
\* operator has had in this migration.
OneProgram ==
    /\ \A p, q \in Procs : phase[p] = "none" \/ phase[q] = "none" \/ phase[p] = phase[q]
    /\ \A p \in Procs :
        /\ phase[p] = "setup"    => started = {"setup"}
        /\ phase[p] = "promote"  => "promote" \in started /\ started \subseteq {"setup", "promote"}
        /\ phase[p] = "finalize" => "finalize" \in started
        /\ phase[p] = "rollback" => "rollback" \in started \/ (started = {} /\ completed = {"rollback"})
    /\ completed \ {"rollback"} \subseteq started
    /\ "finalize" \in started => "promote" \in started /\ "rollback" \notin started

\* The steps of setup that follow DisableCascadingDelete, and CreateHelper.
AfterCascade == SetupSteps \ {"resolve", "helper", "helperRollout", "dropResource",
                              "dropDatabase", "backup", "cascade"}
AfterHelper  == SetupSteps \ {"resolve", "helper"}

\* Once cascading delete is off and synchronised, no deletion in Kubernetes takes
\* an instance or a database with it.
CascadeOff ==
    /\ "setup" \in completed => ~cascade
    /\ \A p \in Procs : phase[p] = "setup" /\ pc[p] \in AfterCascade => ~cascade
    /\ policy[Tgt] = FALSE
    /\ synced /\ ~cascade => ~policy[Src]
    /\ \/ started \cap {"promote", "rollback"} # {}
       \/ \E p \in Procs : phase[p] = "rollback"
       \/ "going" \in dbRes
       => ~cascade /\ ~policy[Src]

\* What the application uses is what its spec says, except for a switch under way.
SpecAndDeployment ==
    /\ synced => live = spec
    /\ started \cap {"promote", "rollback"} = {} => spec = Src /\ live = Src

\* While setup is done and nothing after it has started, its helper is there, and
\* no job has been promoted.
HelperKept ==
    /\ \A p \in Procs : phase[p] = "setup" =>
        helper # "deleting" /\ (pc[p] \in AfterHelper => helper = "present")
    /\ "setup" \in completed /\ started \subseteq {"setup"} => helper = "present"
    /\ started \subseteq {"setup"} => job \notin {"promoting", "completed", "failed"}

\* A lag point that is zero stands for a copy that was complete not long ago.
LagPoints ==
    /\ fresh \subseteq near
    /\ job \in {"dump", "cdc"} => sql[Tgt] = "replica"
    /\ job = "dump" => zeros = 0
    /\ job = "cdc" /\ zeros > 0 => Tgt \in near

\* The steps of promote from where it has scaled down, promoted, and updated.
ScaledSteps   == {"promote", "lag"}
PromotedSteps == {"wait", "restore", "targetPassword", "targetCert", "ownPostgres", "ownApp",
                  "deleteHelper", "dbResource", "cnrm", "update"}
SwitchedSteps == {"rollout", "user", "backup"}

PromoteStage ==
    PromoteStarted =>
        /\ ~synced => spec = Tgt
        /\ \/ spec = Tgt \/ helper # "present"
           \/ job \in {"promoting", "completed", "failed"}
           => SafeCopy
        /\ "promote" \in completed => spec = Tgt
        /\ \A p \in Procs : phase[p] = "promote" =>
            /\ pc[p] \in ScaledSteps => pods # "up" \/ SafeCopy
            /\ pc[p] \in PromotedSteps => SafeCopy
            /\ pc[p] \in SwitchedSteps => spec = Tgt

\* The steps of rollback after the job's deletion, after the update of the
\* application, and after its rollout.
JoblessSteps  == RollbackSteps \ {"scale", "deleteHelper", "deleteJob"}
UpdatedSteps  == {"rollout", "user", "certs", "netpol"}
RestoredSteps == {"user", "certs", "netpol"}

RollbackStage ==
    /\ RollbackStarted =>
        /\ ~synced => spec = Src
        /\ spec = Src /\ live = Tgt => pods # "up"
        /\ live = Tgt /\ pods = "up" => NearCopy
    /\ \A p \in Procs : phase[p] = "rollback" =>
        /\ pc[p] # "scale" /\ live = Tgt => pods # "up"
        /\ pc[p] \in JoblessSteps => job = "absent"
        /\ pc[p] \in UpdatedSteps => spec = Src
        /\ pc[p] \in RestoredSteps => live = Src

FinalizeStage ==
    IF "finalize" \in started
    THEN synced /\ spec = Tgt /\ live = Tgt /\ NearCopy
    ELSE Src \in fresh

\* Where a migration is, and what holds there.
Stages ==
    /\ OneProgram /\ CascadeOff /\ SpecAndDeployment /\ HelperKept
    /\ PromoteStage /\ RollbackStage /\ FinalizeStage

\* The invariant that every step keeps, given Disciplined.
IInv == Stages /\ LagPoints
=============================================================================
