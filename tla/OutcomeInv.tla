----------------------------- MODULE OutcomeInv -----------------------------
(***************************************************************************)
(* The inductive invariants behind what a completed program has delivered: *)
(* BackupBeforeChange, FinalizeCleans, RollbackRestores, PromoteDelivers.  *)
(* Each says of a run what the steps behind it have done, by whichever run *)
(* they were taken, and that nothing has undone it.                        *)
(***************************************************************************)
EXTENDS MigratorInv

\* No operation ends with an error that goes unseen.
Reliable == Disciplined /\ Faults \subseteq {"reconcile", "outside"}

\* And runs do not overlap, not even of one program.
Orderly == Reliable /\ "exclusive" \in Rules

\* Nor does CNRM create an instance anew, or a program run outside Kubernetes.
Faultless == Disciplined /\ Faults = {}

\* Naiserator has given the application the instance of a synchronised spec, and no other.
Adopted ==
    /\ owner[Src] # "helper"
    /\ synced => owner[spec] = "app" /\ \A i \in Inst \ {spec} : owner[i] # "app"

-----------------------------------------------------------------------------
(* setup *)

AfterBackup == AfterCascade \cup {"cascade"}

SetupAt(p) ==
    /\ pc[p] # "resolve" => view[p] = Src
    /\ pc[p] \in AfterBackup => Src \in backups

SetupProgress == \A p \in Procs : phase[p] = "setup" => SetupAt(p)

BackupInv == SetupProgress /\ BackupBeforeChange

-----------------------------------------------------------------------------
(* finalize *)

\* The steps after the deletion of the source.
SourcelessSteps == {"networks", "certs", "netpol"}

FinalizeAt(p) ==
    /\ pc[p] # "resolve" => view[p] = Tgt
    /\ pc[p] \notin {"resolve", "deleteJob"} => job = "absent"
    /\ pc[p] \in {"targetProfile", "master", "source"} \cup SourcelessSteps =>
        "sourceProfile" \notin left
    /\ pc[p] \in {"master", "source"} \cup SourcelessSteps => "targetProfile" \notin left
    /\ pc[p] \in {"source"} \cup SourcelessSteps => ~master
    /\ pc[p] \in SourcelessSteps => sql[Src] = "absent" /\ left \cap ArtefactsOn(Src) = {}
    /\ pc[p] = "netpol" => left \cap Certs = {}

FinalizeProgress == \A p \in Procs : phase[p] = "finalize" => FinalizeAt(p)

FinalizeInv == FinalizeProgress /\ FinalizeCleans

-----------------------------------------------------------------------------
(* rollback *)

\* The steps after the deletion of the target.
TargetlessSteps == {"master", "dbResource", "cert", "waitDatabase", "update"} \cup UpdatedSteps

RollbackAt(p) ==
    /\ pc[p] \notin {"scale", "deleteHelper"} => helper # "present"
    /\ pc[p] \in {"targetProfile", "target"} \cup TargetlessSteps => "sourceProfile" \notin left
    /\ pc[p] \in {"target"} \cup TargetlessSteps => "targetProfile" \notin left
    /\ pc[p] \in TargetlessSteps => sql[Tgt] = "absent" /\ left \cap ArtefactsOn(Tgt) = {}
    /\ pc[p] \in TargetlessSteps \ {"master"} => ~master
    /\ pc[p] \in UpdatedSteps => named /\ (synced => pods = "up")
    /\ pc[p] \in RestoredSteps => pods = "up" /\ owner[Src] = "app"
    /\ pc[p] \in {"certs", "netpol"} => Src \in login
    /\ pc[p] = "netpol" => left \cap Certs = {}

RollbackProgress == \A p \in Procs : phase[p] = "rollback" => RollbackAt(p)

\* A rollback that goes on beside the one that completed undoes nothing of it.
RollbackInv ==
    /\ RollbackProgress /\ RollbackRestores
    /\ "rollback" \in completed => started = {} /\ named

-----------------------------------------------------------------------------
(* promote *)

OneRun == \A p, q \in Procs : phase[p] = "none" \/ phase[q] = "none" \/ p = q

\* What promote does before it deletes the helper application.
FirstHalf == job \in {"completed", "absent"} /\ ~reduced /\ reassigned = Databases

\* The steps of promote on a target that has got its protection back.
TakeOverSteps ==
    {"targetPassword", "targetCert", "ownPostgres", "ownApp", "deleteHelper"}

PromoteAt(p) ==
    /\ pc[p] = "wait" => job \in {"promoting", "completed"}
    /\ pc[p] \in {"restore"} \cup TakeOverSteps => job = "completed"
    /\ pc[p] \in TakeOverSteps => ~reduced
    /\ pc[p] \in {"ownApp", "deleteHelper"} => "postgres" \in reassigned
    /\ pc[p] = "deleteHelper" => "app" \in reassigned
    /\ pc[p] \in {"dbResource", "cnrm", "update"} \cup SwitchedSteps => helper # "present"
    /\ pc[p] \in SwitchedSteps => (synced => pods = "up")
    /\ pc[p] \in {"user", "backup"} => synced
    /\ pc[p] = "backup" => Tgt \in login

PromoteProgress ==
    PromoteStarted =>
        /\ helper # "present" => FirstHalf
        /\ \A p \in Procs : phase[p] = "promote" => PromoteAt(p)

PromoteDone ==
    "promote" \in completed /\ "rollback" \notin started =>
        /\ \A p \in Procs : phase[p] # "promote"
        /\ synced /\ pods = "up" /\ helper # "present"
        /\ Tgt \in login /\ Tgt \in backups

PromoteInv == OneRun /\ PromoteProgress /\ PromoteDone
=============================================================================
