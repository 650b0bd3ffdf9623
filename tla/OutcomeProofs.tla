---------------------------- MODULE OutcomeProofs ----------------------------
(***************************************************************************)
(* What a completed program has delivered, and what setup does before it   *)
(* touches the source, when no operation fails unseen.                     *)
(***************************************************************************)
EXTENDS OutcomeInv, SafetyProofs

-----------------------------------------------------------------------------
(* Control *)

\* The other runs stay where they are.
OthersStay(p) ==
    \A q \in Procs \ {p} : phase'[q] = phase[q] /\ pc'[q] = pc[q] /\ view'[q] = view[q]

LEMMA AdvanceStays ==
    ASSUME TypeOK, NEW p \in Procs, NEW ph, NEW from, NEW to,
           Step(p, ph, from, to)
    PROVE  /\ OthersStay(p) /\ UNCHANGED <<phase, view, started, completed>>
           /\ phase[p] = ph /\ pc[p] = from /\ pc'[p] = to
BY DEF TypeOK, RunTypeOK, Step, Advance, At, OthersStay

LEMMA FinishStays ==
    ASSUME TypeOK, NEW p \in Procs, NEW ph, NEW from, Finish(p, ph, from)
    PROVE  /\ OthersStay(p) /\ phase'[p] = "none"
           /\ phase[p] = ph /\ pc[p] = from
BY DEF TypeOK, RunTypeOK, Finish, Leave, At, OthersStay

LEMMA ResolveStays ==
    ASSUME TypeOK, NEW p \in Procs, NEW ph, NEW from, NEW to, NEW i,
           Advance(p, ph, from, to), view' = [view EXCEPT ![p] = i]
    PROVE  /\ OthersStay(p) /\ UNCHANGED <<phase, started, completed>>
           /\ phase[p] = ph /\ pc[p] = from /\ pc'[p] = to /\ view'[p] = i
BY DEF TypeOK, RunTypeOK, Advance, At, OthersStay

LEMMA ExitStays ==
    ASSUME TypeOK, NEW p \in Procs, Exit(p)
    PROVE  OthersStay(p) /\ phase'[p] = "none" /\ UNCHANGED <<started, completed>>
BY DEF TypeOK, RunTypeOK, Exit, Leave, OthersStay

LEMMA StartStays ==
    ASSUME TypeOK, NEW p \in Procs, NEW ph \in Phases, Start(p, ph)
    PROVE  /\ OthersStay(p) /\ UNCHANGED <<view, appVars, cnrmVars, sqlVars, dmsVars, left>>
           /\ phase[p] = "none" /\ phase'[p] = ph /\ pc'[p] = FirstStep(ph)
           /\ started' = started \cup {ph} /\ completed' = completed \ {ph, "rollback"}
BY DEF TypeOK, RunTypeOK, Start, Begin, OthersStay

\* Which program a step belongs to, and that it starts nothing.
LEMMA SetupStepStays ==
    ASSUME TypeOK, NEW p \in Procs, SetupNext(p)
    PROVE  /\ phase[p] = "setup" /\ phase'[p] \in {"setup", "none"} /\ OthersStay(p)
           /\ started' = started /\ completed' \subseteq completed \cup {"setup"}
<1>1. CASE \E profile \in Profiles : DeleteOldProfile(p, profile) \/ CreateConnectionProfile(p, profile)
  BY <1>1, AdvanceStays DEF DeleteOldProfile, DeleteConnectionProfile, CreateConnectionProfile
<1>2. CASE StartMigrationJob(p)
  BY <1>2 DEF StartMigrationJob, Finish, Leave, At, OthersStay, TypeOK, RunTypeOK
<1>3. CASE ResolveSource(p)
  BY <1>3, ResolveStays DEF ResolveSource
<1>4. CASE SetupNext(p) /\ ~StartMigrationJob(p) /\ ~ResolveSource(p)
           /\ ~\E profile \in Profiles : DeleteOldProfile(p, profile) \/ CreateConnectionProfile(p, profile)
  <2>1. \E from, to : Step(p, "setup", from, to)
    BY <1>4 DEF SetupNext, CreateHelper, AwaitHelper,
       DeleteHelperDatabaseResource, DropHelperDatabase, BackUpSource, DisableCascadingDelete,
       CreateNetworkPolicy, PrepareSourceInstance, PrepareSourceDatabase, DropPgAuditExtension,
       PrepareTargetInstance, PrepareTargetDatabase, DeleteMigrationJob, CreateMigrationJob,
       DemoteTargetInstance, ResolveTargetAgain, AddTargetOutgoingIps
  <2> QED
    BY <2>1, AdvanceStays
<1> QED
  BY <1>1, <1>2, <1>3, <1>4

LEMMA PromoteStepStays ==
    ASSUME TypeOK, NEW p \in Procs, PromoteNext(p)
    PROVE  /\ phase[p] = "promote" /\ phase'[p] \in {"promote", "none"} /\ OthersStay(p)
           /\ started' = started /\ completed' \subseteq completed \cup {"promote"}
<1>1. CASE BackUpTarget(p)
  BY <1>1, FinishStays DEF BackUpTarget, Finish
<1>2. CASE ResolveAppInstance(p, "promote", "resolve", "helper")
  BY <1>2, ResolveStays DEF ResolveAppInstance
<1>3. CASE TakeOverTarget(p)
  BY <1>3, AdvanceStays DEF TakeOverTarget, ChangeOwnership, DeleteHelperApplication
<1>4. CASE PromoteNext(p) /\ ~BackUpTarget(p) /\ ~TakeOverTarget(p)
           /\ ~ResolveAppInstance(p, "promote", "resolve", "helper")
  <2>1. \E from, to : Step(p, "promote", from, to)
    BY <1>4 DEF PromoteNext, GetHelper, ResolveTarget, CheckReadyForPromotion,
       ScaleApplication, InspectJob, StartPromotion, AwaitPromotion,
       UpdateTargetInstanceAfterPromotion, PrepareTargetDatabase,
       DeleteTargetDatabaseResource, AwaitCnrmHandover, UpdateApplicationInstance,
       AwaitRollout, UpdateApplicationUser
  <2> QED
    BY <2>1, AdvanceStays
<1> QED
  BY <1>1, <1>2, <1>3, <1>4

LEMMA RollbackStepStays ==
    ASSUME TypeOK, NEW p \in Procs, RollbackNext(p)
    PROVE  /\ phase[p] = "rollback" /\ phase'[p] \in {"rollback", "none"} /\ OthersStay(p)
           /\ \/ started' = started /\ completed' = completed
              \/ started' = {} /\ completed' = {"rollback"}
<1>1. CASE DeleteNetworkPolicies(p, "rollback", "netpol")
  BY <1>1, FinishStays DEF DeleteNetworkPolicies, Finish
<1>2. CASE RollbackNext(p) /\ ~DeleteNetworkPolicies(p, "rollback", "netpol")
  <2>1. \E from, to : Step(p, "rollback", from, to)
    BY <1>2 DEF RollbackNext, ScaleIfSwitched, DeleteHelperApplication,
       DeleteMigrationJob, DeleteConnectionProfile, DeleteInstance, DeleteMasterInstance,
       DeleteTargetDatabaseResource, DeleteSourceCert, AwaitDatabaseResourceGone,
       UpdateApplicationInstance, AwaitRollout, UpdateApplicationUser, DeleteSslCerts,
       CleanupConnectionProfile
  <2> QED
    BY <2>1, AdvanceStays
<1> QED
  BY <1>1, <1>2

LEMMA FinalizeStepStays ==
    ASSUME TypeOK, NEW p \in Procs, FinalizeNext(p)
    PROVE  /\ phase[p] = "finalize" /\ phase'[p] \in {"finalize", "none"} /\ OthersStay(p)
           /\ started' = started /\ completed' \subseteq completed \cup {"finalize"}
<1>1. CASE DeleteNetworkPolicies(p, "finalize", "netpol")
  BY <1>1, FinishStays DEF DeleteNetworkPolicies, Finish
<1>2. CASE ResolveAppInstance(p, "finalize", "resolve", "deleteJob")
  BY <1>2, ResolveStays DEF ResolveAppInstance
<1>3. CASE DeleteFinishedJob(p)
  BY <1>3, AdvanceStays DEF DeleteFinishedJob, DeleteMigrationJob
<1>4. CASE FinalizeNext(p) /\ ~DeleteNetworkPolicies(p, "finalize", "netpol")
           /\ ~ResolveAppInstance(p, "finalize", "resolve", "deleteJob") /\ ~DeleteFinishedJob(p)
  <2>1. \E from, to : Step(p, "finalize", from, to)
    BY <1>4 DEF FinalizeNext, DeleteConnectionProfile, DeleteMasterInstance, DeleteInstance,
       CleanupAuthNetworks, DeleteSslCerts, CleanupConnectionProfile
  <2> QED
    BY <2>1, AdvanceStays
<1> QED
  BY <1>1, <1>2, <1>3, <1>4

-----------------------------------------------------------------------------
(* Who owns the instances *)

\* The programs leave the owners to naiserator, and spec and synced change together.
Unowned == owner' = owner /\ (synced' => synced /\ spec' = spec)

LEMMA RunLeavesOwners ==
    ASSUME TypeOK, NEW p \in Procs, Run(p)
    PROVE  Unowned
<1> USE DEF Unowned, appVars, cnrmVars
<1>1. CASE SetupNext(p)
  <2>1. CASE \E profile \in Profiles : DeleteOldProfile(p, profile) \/ CreateConnectionProfile(p, profile)
    BY <2>1 DEF DeleteOldProfile, DeleteConnectionProfile, CreateConnectionProfile
  <2>2. CASE DisableCascadingDelete(p)
    BY <2>2 DEF DisableCascadingDelete, TypeOK, DataTypeOK
  <2> QED
    BY <1>1, <2>1, <2>2 DEF SetupNext, ResolveSource, CreateHelper, AwaitHelper,
       DeleteHelperDatabaseResource, DropHelperDatabase, BackUpSource,
       CreateNetworkPolicy, PrepareSourceInstance, PrepareSourceDatabase, DropPgAuditExtension,
       PrepareTargetInstance, PrepareTargetDatabase, DeleteMigrationJob, CreateMigrationJob,
       DemoteTargetInstance, ResolveTargetAgain, AddTargetOutgoingIps, StartMigrationJob
<1>2. CASE PromoteNext(p)
  BY <1>2 DEF PromoteNext, ResolveAppInstance, GetHelper, ResolveTarget,
     CheckReadyForPromotion, ScaleApplication, InspectJob, StartPromotion, AwaitPromotion,
     UpdateTargetInstanceAfterPromotion, PrepareTargetDatabase, TakeOverTarget,
     ChangeOwnership, DeleteHelperApplication, DeleteTargetDatabaseResource,
     AwaitCnrmHandover, UpdateApplicationInstance, AwaitRollout, UpdateApplicationUser,
     BackUpTarget
<1>3. CASE RollbackNext(p)
  BY <1>3 DEF RollbackNext, ScaleIfSwitched, DeleteHelperApplication, DeleteMigrationJob,
     DeleteConnectionProfile, DeleteInstance, DeleteMasterInstance,
     DeleteTargetDatabaseResource, DeleteSourceCert, AwaitDatabaseResourceGone,
     UpdateApplicationInstance, AwaitRollout, UpdateApplicationUser, DeleteSslCerts,
     DeleteNetworkPolicies, CleanupConnectionProfile
<1>4. CASE FinalizeNext(p)
  BY <1>4 DEF FinalizeNext, ResolveAppInstance, DeleteFinishedJob, DeleteMigrationJob,
     DeleteConnectionProfile, DeleteMasterInstance, DeleteInstance, CleanupAuthNetworks,
     DeleteSslCerts, DeleteNetworkPolicies, CleanupConnectionProfile
<1> QED
  BY <1>1, <1>2, <1>3, <1>4 DEF Run

LEMMA NextAdopted ==
    ASSUME Disciplined, TypeOK, Adopted, [Next]_vars
    PROVE  Adopted'
<1> USE DEF appVars, cnrmVars
<1>1. CASE Unowned
  BY <1>1 DEF Unowned, Adopted
<1>2. ASSUME NEW p \in Procs, Run(p) PROVE Adopted'
  BY <1>1, <1>2, RunLeavesOwners
<1>3. ASSUME NEW p \in Procs, Exit(p) \/ \E ph \in Phases : Start(p, ph) PROVE Adopted'
  BY <1>1, <1>3 DEF Exit, Start, Begin, Unowned
<1>4. CASE Environment
  <2> USE InstancesDiffer DEF Adopted, TypeOK, DataTypeOK, Inst
  <2>1. CASE AppReconcile
    BY <2>1 DEF AppReconcile
  <2>2. CASE HelperReconcile \/ HelperCollected
    BY <2>2 DEF HelperReconcile, HelperCollected
  <2>3. CASE Environment /\ ~AppReconcile /\ ~HelperReconcile /\ ~HelperCollected
    <3>1. ~Redeploy
      BY DEF Redeploy, Disciplined
    <3>2. Unowned
      BY <2>3, <3>1 DEF Environment, InstanceReconcile, PodsStop, Write, DumpDone, CatchUp,
         SampleLag, PromotionDone, DatabaseCollected, Unowned
    <3> QED
      BY <1>1, <3>2
  <2> QED
    BY <1>4, <2>1, <2>2, <2>3
<1>5. CASE UNCHANGED vars
  BY <1>1, <1>5 DEF vars, Unowned
<1> QED
  BY <1>2, <1>3, <1>4, <1>5 DEF Next

\* Of a synchronised spec, the application has the instance and no other.
LEMMA AdoptedAlways == ASSUME Disciplined PROVE Spec => []Adopted
<1>1. Init => Adopted
  BY InstancesDiffer DEF Init, Adopted, Inst
<1>2. Spec => []TypeOK
  BY TypeCorrect
<1>3. TypeOK /\ Adopted /\ [Next]_vars => Adopted'
  BY NextAdopted
<1> QED
  BY <1>1, <1>2, <1>3, PTL DEF Spec

-----------------------------------------------------------------------------
(* The backup of the source *)

\* No artefact on the source is new, and its backup goes only with all of them.
SourceUntouched ==
    /\ left' \cap ArtefactsOn(Src) \subseteq left
    /\ Src \in backups => Src \in backups' \/ left' \cap ArtefactsOn(Src) = {}

LEMMA SetupKeepsBackup ==
    ASSUME Reliable, TypeOK, IInv, BackupInv, NEW p \in Procs, SetupNext(p)
    PROVE  BackupInv'
<1> USE DEF appVars, cnrmVars, sqlVars, dmsVars
<1>1. Src \in backups => Src \in backups'
  <2>1. CASE \E profile \in Profiles : DeleteOldProfile(p, profile) \/ CreateConnectionProfile(p, profile)
    BY <2>1 DEF DeleteOldProfile, DeleteConnectionProfile, CreateConnectionProfile
  <2> QED
    BY <2>1 DEF SetupNext, ResolveSource, CreateHelper, AwaitHelper, BackedUp,
       DeleteHelperDatabaseResource, DropHelperDatabase, BackUpSource, DisableCascadingDelete,
       CreateNetworkPolicy, PrepareSourceInstance, PrepareSourceDatabase, DropPgAuditExtension,
       PrepareTargetInstance, PrepareTargetDatabase, DeleteMigrationJob, CreateMigrationJob,
       DemoteTargetInstance, ResolveTargetAgain, AddTargetOutgoingIps, StartMigrationJob
<1>2. phase'[p] = "setup" => SetupAt(p)'
  <2> USE DEF SetupAt, AfterBackup, AfterCascade, SetupSteps
  <2>1. CASE ResolveSource(p)
    <3>1. view'[p] = spec /\ pc'[p] = "helper"
      BY <2>1 DEF ResolveSource, Advance, TypeOK, RunTypeOK
    <3>2. spec = Src
      BY <2>1 DEF ResolveSource, TypeOK, DataTypeOK, Inst
    <3> QED
      BY <3>1, <3>2
  <2>2. CASE BackUpSource(p)
    <3>1. view[p] = Src
      BY <2>2 DEF BackUpSource, Step, Advance, At, BackupInv, SetupProgress
    <3> QED
      BY <2>2, <3>1, AdvanceStays DEF BackUpSource, BackedUp, Reliable
  <2>3. CASE StartMigrationJob(p)
    BY <2>3 DEF StartMigrationJob, Finish, Leave, TypeOK, RunTypeOK
  <2>4. CASE \E profile \in Profiles : DeleteOldProfile(p, profile) \/ CreateConnectionProfile(p, profile)
    <3>1. \E from, to : /\ Step(p, "setup", from, to) /\ from \in AfterBackup
      BY <2>4 DEF DeleteOldProfile, DeleteConnectionProfile, CreateConnectionProfile, ToCreate, Profiles
    <3> QED
      BY <3>1, <1>1, AdvanceStays DEF BackupInv, SetupProgress, SetupAt
  <2>5. CASE SetupNext(p) /\ ~ResolveSource(p) /\ ~BackUpSource(p) /\ ~StartMigrationJob(p)
             /\ ~\E profile \in Profiles : DeleteOldProfile(p, profile) \/ CreateConnectionProfile(p, profile)
    <3>1. \E from, to : /\ Step(p, "setup", from, to) /\ from # "resolve"
                        /\ to \in AfterBackup => from \in AfterBackup
      BY <2>5 DEF SetupNext, CreateHelper, AwaitHelper,
         DeleteHelperDatabaseResource, DropHelperDatabase, DisableCascadingDelete,
         CreateNetworkPolicy, PrepareSourceInstance, PrepareSourceDatabase, DropPgAuditExtension,
         PrepareTargetInstance, PrepareTargetDatabase, DeleteMigrationJob, CreateMigrationJob,
         DemoteTargetInstance, ResolveTargetAgain, AddTargetOutgoingIps
    <3> QED
      BY <3>1, <1>1, AdvanceStays DEF BackupInv, SetupProgress, SetupAt
  <2> QED
    BY <2>1, <2>2, <2>3, <2>4, <2>5
<1>3. SetupProgress'
  BY <1>1, <1>2, SetupStepStays DEF BackupInv, SetupProgress, SetupAt, OthersStay
<1>4. BackupBeforeChange'
  <2>1. left' \cap ArtefactsOn(Src) \subseteq left \/ Src \in backups
    <3> USE DEF ArtefactsOn
    <3>1. CASE \E profile \in Profiles : DeleteOldProfile(p, profile) \/ CreateConnectionProfile(p, profile)
      BY <3>1 DEF DeleteOldProfile, DeleteConnectionProfile, CreateConnectionProfile, Profiles
    <3>2. CASE /\ PrepareSourceInstance(p) \/ PrepareSourceDatabase(p) \/ AddTargetOutgoingIps(p)
               /\ left' # left
      <4>1. phase[p] = "setup" /\ pc[p] \in {"sourceInstance", "sourceCert", "pglogical", "allow"}
        BY <3>2 DEF PrepareSourceInstance, PrepareSourceDatabase, AddTargetOutgoingIps, Step, Advance, At
      <4> QED
        BY <4>1 DEF BackupInv, SetupProgress, SetupAt, AfterBackup, AfterCascade, SetupSteps
    <3>3. CASE \/ left' = left
               \/ /\ SetupNext(p) /\ ~PrepareSourceInstance(p) /\ ~PrepareSourceDatabase(p)
                  /\ ~AddTargetOutgoingIps(p)
                  /\ ~\E profile \in Profiles : DeleteOldProfile(p, profile) \/ CreateConnectionProfile(p, profile)
      BY <3>3 DEF SetupNext, ResolveSource, CreateHelper, AwaitHelper,
         DeleteHelperDatabaseResource, DropHelperDatabase, BackUpSource, DisableCascadingDelete,
         CreateNetworkPolicy, DropPgAuditExtension, PrepareTargetInstance, PrepareTargetDatabase,
         DeleteMigrationJob, CreateMigrationJob, DemoteTargetInstance, ResolveTargetAgain, StartMigrationJob
    <3> QED
      BY <3>1, <3>2, <3>3
  <2> QED
    BY <1>1, <2>1 DEF BackupInv, BackupBeforeChange, ArtefactsOn
<1> QED
  BY <1>3, <1>4 DEF BackupInv

\* Only setup has artefacts put on the source.
LEMMA PromoteLeavesSource ==
    ASSUME NEW p \in Procs, PromoteNext(p)
    PROVE  SourceUntouched
BY DEF SourceUntouched, ArtefactsOn, PromoteNext, ResolveAppInstance, GetHelper, ResolveTarget,
   CheckReadyForPromotion, ScaleApplication, InspectJob, StartPromotion, AwaitPromotion,
   UpdateTargetInstanceAfterPromotion, PrepareTargetDatabase, TakeOverTarget,
   ChangeOwnership, DeleteHelperApplication, DeleteTargetDatabaseResource,
   AwaitCnrmHandover, UpdateApplicationInstance, AwaitRollout, UpdateApplicationUser,
   BackUpTarget, BackedUp, appVars, cnrmVars, sqlVars, dmsVars

LEMMA RollbackLeavesSource ==
    ASSUME NEW p \in Procs, RollbackNext(p)
    PROVE  SourceUntouched
BY InstancesDiffer DEF SourceUntouched, ArtefactsOn, RollbackNext, ScaleIfSwitched,
   DeleteHelperApplication, DeleteMigrationJob, DeleteConnectionProfile, DeleteInstance,
   InstanceGone, DeleteMasterInstance, DeleteTargetDatabaseResource, DeleteSourceCert,
   AwaitDatabaseResourceGone, UpdateApplicationInstance, AwaitRollout, UpdateApplicationUser,
   DeleteSslCerts, DeleteNetworkPolicies, appVars, cnrmVars, sqlVars, dmsVars, CleanupConnectionProfile

LEMMA FinalizeLeavesSource ==
    ASSUME NEW p \in Procs, FinalizeNext(p)
    PROVE  SourceUntouched
BY DEF SourceUntouched, ArtefactsOn, FinalizeNext, ResolveAppInstance, DeleteFinishedJob,
   DeleteMigrationJob, DeleteConnectionProfile, DeleteMasterInstance, DeleteInstance,
   InstanceGone, CleanupAuthNetworks, DeleteSslCerts, DeleteNetworkPolicies,
   appVars, cnrmVars, sqlVars, dmsVars, CleanupConnectionProfile

LEMMA EnvironmentLeavesSource ==
    ASSUME Disciplined, TypeOK, IInv, Environment
    PROVE  SourceUntouched /\ (Src \in backups => Src \in backups')
<1> USE DEF SourceUntouched, appVars, cnrmVars, sqlVars, dmsVars
<1>1. CASE AppReconcile
  <2>1. \A i \in Inst \ {spec} : ~(owner[i] = "app" /\ policy[i])
    BY <1>1 DEF AppReconcile, Inst, IInv, SpecAndDeployment, CascadeOff, Stages
  <2>2. left' \subseteq left /\ backups' = backups
    BY <1>1, <2>1 DEF AppReconcile
  <2> QED
    BY <2>2
<1>2. CASE Environment /\ ~AppReconcile
  BY <1>2 DEF Environment, InstanceReconcile, HelperReconcile, HelperCollected, Redeploy,
     PodsStop, Write, DumpDone, CatchUp, SampleLag, PromotionDone, DatabaseCollected
<1> QED
  BY <1>1, <1>2

LEMMA NextBackup ==
    ASSUME Reliable, TypeOK, IInv, BackupInv, [Next]_vars
    PROVE  BackupInv'
<1> USE DEF Reliable
<1>1. ASSUME SourceUntouched PROVE BackupBeforeChange'
  BY <1>1 DEF SourceUntouched, BackupInv, BackupBeforeChange
<1>2. ASSUME NEW p \in Procs, Run(p), ~SetupNext(p) PROVE BackupInv'
  <2>1. SourceUntouched
    BY <1>2, PromoteLeavesSource, RollbackLeavesSource, FinalizeLeavesSource DEF Run
  <2>2. phase[p] \notin {"none", "setup"} /\ OthersStay(p) /\ phase'[p] # "setup"
    BY <1>2, PromoteStepStays, RollbackStepStays, FinalizeStepStays DEF Run
  <2>3. SetupProgress'
    BY <2>2 DEF SetupProgress, SetupAt, OthersStay, IInv, Stages, OneProgram
  <2> QED
    BY <1>1, <2>1, <2>3 DEF BackupInv
<1>3. ASSUME NEW p \in Procs, Exit(p) PROVE BackupInv'
  <2>1. UNCHANGED <<left, backups>>
    BY <1>3 DEF Exit, sqlVars
  <2> QED
    BY <1>3, <2>1, ExitStays DEF BackupInv, SetupProgress, SetupAt, BackupBeforeChange, OthersStay
<1>4. ASSUME NEW p \in Procs, NEW ph \in Phases, Start(p, ph) PROVE BackupInv'
  <2>1. UNCHANGED <<left, backups>> /\ FirstStep("setup") = "resolve"
    BY <1>4, StartStays DEF sqlVars, FirstStep
  <2>2. pc'[p] \notin AfterBackup \/ phase'[p] # "setup"
    BY <1>4, <2>1, StartStays DEF AfterBackup, AfterCascade
  <2> QED
    BY <1>4, <2>1, <2>2, StartStays DEF BackupInv, SetupProgress, SetupAt, BackupBeforeChange, OthersStay
<1>5. CASE Environment
  <2>1. SourceUntouched /\ (Src \in backups => Src \in backups') /\ UNCHANGED runVars
    BY <1>5, EnvironmentLeavesSource, EnvironmentKeepsRuns
  <2>2. SetupProgress'
    BY <2>1 DEF BackupInv, SetupProgress, SetupAt, runVars
  <2> QED
    BY <1>1, <2>1, <2>2 DEF BackupInv
<1>6. CASE UNCHANGED vars
  BY <1>6 DEF vars, sqlVars, runVars, BackupInv, SetupProgress, SetupAt, BackupBeforeChange
<1> QED
  BY <1>2, <1>3, <1>4, <1>5, <1>6, SetupKeepsBackup DEF Next, Run

\* The source is touched only after its backup, in whatever order runs of setup overlap,
\* stop and are repeated.
THEOREM BackupFirst == ASSUME Reliable PROVE Spec => []BackupBeforeChange
<1>1. Init => BackupInv
  BY DEF Init, BackupInv, SetupProgress, SetupAt, BackupBeforeChange
<1>2. Spec => []TypeOK /\ []IInv
  BY TypeCorrect, Inductive DEF Reliable
<1>3. TypeOK /\ IInv /\ BackupInv /\ [Next]_vars => BackupInv'
  BY NextBackup
<1>4. BackupInv => BackupBeforeChange
  BY DEF BackupInv
<1> QED
  BY <1>1, <1>2, <1>3, <1>4, PTL DEF Spec

-----------------------------------------------------------------------------
(* What finalize deletes *)

\* What has been deleted stays so.
Cleaning ==
    /\ job = "absent" => job' = "absent"
    /\ left' \subseteq left
    /\ master' => master
    /\ sql[Src] = "absent" => sql'[Src] = "absent"

LEMMA CleaningKeeps ==
    ASSUME FinalizeInv, Cleaning, UNCHANGED <<phase, pc, view, completed>>
    PROVE  FinalizeInv'
<1>1. FinalizeProgress'
  BY DEF Cleaning, FinalizeInv, FinalizeProgress, FinalizeAt, SourcelessSteps
<1>2. FinalizeCleans'
  BY DEF Cleaning, FinalizeInv, FinalizeCleans
<1> QED
  BY <1>1, <1>2 DEF FinalizeInv

LEMMA FinalizeIsCleaning ==
    ASSUME TypeOK, NEW p \in Procs, FinalizeNext(p)
    PROVE  Cleaning
<1> USE DEF Cleaning, appVars, cnrmVars, sqlVars, dmsVars
<1>1. CASE DeleteMasterInstance(view[p] = Tgt, p, "finalize", "master", "source")
  BY <1>1 DEF DeleteMasterInstance, TypeOK, DataTypeOK
<1>2. CASE DeleteInstance(Src, p, "finalize", "source", "networks")
  BY <1>2 DEF DeleteInstance, InstanceGone, TypeOK, DataTypeOK, Inst
<1>3. CASE FinalizeNext(p) /\ ~DeleteMasterInstance(view[p] = Tgt, p, "finalize", "master", "source")
           /\ ~DeleteInstance(Src, p, "finalize", "source", "networks")
  BY <1>3 DEF FinalizeNext, ResolveAppInstance, DeleteFinishedJob, DeleteMigrationJob,
     DeleteConnectionProfile, CleanupAuthNetworks, DeleteSslCerts, DeleteNetworkPolicies, CleanupConnectionProfile
<1> QED
  BY <1>1, <1>2, <1>3

\* The step a run of finalize is at when it has taken one.
LEMMA FinalizeAdvances ==
    ASSUME Reliable, TypeOK, IInv, FinalizeInv, NEW p \in Procs, FinalizeNext(p),
           phase'[p] = "finalize"
    PROVE  FinalizeAt(p)'
<1> USE AdvanceStays, FinalizeIsCleaning DEF Cleaning, SourcelessSteps, FinalizeInv, FinalizeProgress, FinalizeAt
<1>1. CASE ResolveAppInstance(p, "finalize", "resolve", "deleteJob")
  <2>1. view'[p] = spec /\ pc'[p] = "deleteJob" /\ phase[p] = "finalize"
    BY <1>1 DEF ResolveAppInstance, Advance, At, TypeOK, RunTypeOK
  <2>2. spec = Tgt
    BY <2>1 DEF IInv, Stages, OneProgram, FinalizeStage, NearCopy
  <2> QED
    BY <2>1, <2>2
<1>2. CASE DeleteFinishedJob(p)
  <2>1. pc[p] = "deleteJob" /\ phase[p] = "finalize" /\ pc'[p] = "sourceProfile" /\ view' = view
    BY <1>2 DEF DeleteFinishedJob, DeleteMigrationJob
  <2>2. view[p] = Tgt
    BY <2>1
  <2>3. job' = "absent"
    BY <1>2, <2>2 DEF DeleteFinishedJob, DeleteMigrationJob
  <2> QED
    BY <2>1, <2>2, <2>3
<1>3. CASE CleanupConnectionProfile("sourceProfile", p, "finalize", "sourceProfile", "targetProfile")
  BY <1>3 DEF DeleteConnectionProfile, CleanupConnectionProfile, Reliable
<1>4. CASE CleanupConnectionProfile("targetProfile", p, "finalize", "targetProfile", "master")
  BY <1>4 DEF DeleteConnectionProfile, CleanupConnectionProfile, Reliable
<1>5. CASE DeleteMasterInstance(view[p] = Tgt, p, "finalize", "master", "source")
  <2>1. pc[p] = "master" /\ phase[p] = "finalize" /\ pc'[p] = "source" /\ view' = view
    BY <1>5 DEF DeleteMasterInstance
  <2>2. view[p] = Tgt
    BY <2>1
  <2>3. ~master'
    BY <1>5, <2>2 DEF DeleteMasterInstance, Reliable
  <2> QED
    BY <2>1, <2>2, <2>3
<1>6. CASE DeleteInstance(Src, p, "finalize", "source", "networks")
  <2>1. pc[p] = "source" /\ phase[p] = "finalize" /\ pc'[p] = "networks" /\ view' = view
    BY <1>6 DEF DeleteInstance
  <2>2. sql'[Src] = "absent" /\ left' \cap ArtefactsOn(Src) = {}
    BY <1>6 DEF DeleteInstance, InstanceGone, Reliable, TypeOK, DataTypeOK, Inst
  <2> QED
    BY <2>1, <2>2
<1>7. CASE CleanupAuthNetworks(p)
  BY <1>7 DEF CleanupAuthNetworks
<1>8. CASE DeleteSslCerts(p, "finalize", "certs", "netpol")
  <2>1. left' \cap Certs = {}
    BY <1>8 DEF DeleteSslCerts
  <2> QED
    BY <1>8, <2>1 DEF DeleteSslCerts
<1>9. CASE DeleteNetworkPolicies(p, "finalize", "netpol")
  BY <1>9, FinishStays DEF DeleteNetworkPolicies
<1> QED
  BY <1>1, <1>2, <1>3, <1>4, <1>5, <1>6, <1>7, <1>8, <1>9 DEF FinalizeNext

LEMMA FinalizeKeepsFinalize ==
    ASSUME Reliable, TypeOK, IInv, FinalizeInv, NEW p \in Procs, FinalizeNext(p)
    PROVE  FinalizeInv'
<1>1. OthersStay(p) /\ phase'[p] \in {"finalize", "none"} /\ Cleaning
  BY FinalizeStepStays, FinalizeIsCleaning
<1>2. FinalizeProgress'
  <2> SUFFICES ASSUME NEW q \in Procs, phase'[q] = "finalize" PROVE FinalizeAt(q)'
    BY DEF FinalizeProgress
  <2>1. CASE q = p
    BY <2>1, FinalizeAdvances
  <2>2. CASE q # p
    BY <1>1, <2>2 DEF OthersStay, Cleaning, FinalizeInv, FinalizeProgress, FinalizeAt, SourcelessSteps
  <2> QED
    BY <2>1, <2>2
<1>3. FinalizeCleans'
  <2>1. CASE DeleteNetworkPolicies(p, "finalize", "netpol")
    <3>1. phase[p] = "finalize" /\ pc[p] = "netpol"
      BY <2>1, FinishStays DEF DeleteNetworkPolicies
    <3>2. left' = left \ {"netpol"}
      BY <2>1 DEF DeleteNetworkPolicies
    <3>3. /\ job = "absent" /\ ~master /\ sql[Src] = "absent"
          /\ left \cap (Profiles \cup Certs \cup ArtefactsOn(Src)) = {}
      BY <3>1 DEF FinalizeInv, FinalizeProgress, FinalizeAt, SourcelessSteps, Profiles
    <3>4. left' \subseteq ArtefactsOn(Tgt)
      BY <3>2, <3>3, InstancesDiffer DEF TypeOK, DataTypeOK, Artefacts, ArtefactsOn
    <3> QED
      BY <1>1, <3>3, <3>4 DEF Cleaning, FinalizeCleans
  <2>2. CASE FinalizeNext(p) /\ ~DeleteNetworkPolicies(p, "finalize", "netpol")
    <3>1. completed' = completed
      BY <2>2 DEF FinalizeNext, ResolveAppInstance, DeleteFinishedJob, DeleteMigrationJob,
         DeleteConnectionProfile, DeleteMasterInstance, DeleteInstance, CleanupAuthNetworks,
         DeleteSslCerts, Step, Advance, CleanupConnectionProfile
    <3> QED
      BY <1>1, <3>1 DEF Cleaning, FinalizeInv, FinalizeCleans
  <2> QED
    BY <2>1, <2>2
<1> QED
  BY <1>2, <1>3 DEF FinalizeInv

\* When finalize has started, naiserator has nothing to apply and CNRM nothing to create.
LEMMA EnvironmentIsCleaning ==
    ASSUME Disciplined, TypeOK, IInv, Adopted, Environment, "finalize" \in started
    PROVE  Cleaning
<1> USE InstancesDiffer DEF Cleaning, TypeOK, DataTypeOK, Inst, appVars, cnrmVars, sqlVars, dmsVars
<1>1. synced /\ spec = Tgt
  BY DEF IInv, Stages, FinalizeStage, NearCopy
<1>2. owner[Src] = "none"
  BY <1>1 DEF Adopted
<1>3. ~AppReconcile /\ ~Redeploy
  BY <1>1 DEF AppReconcile, Redeploy, Disciplined
<1>4. CASE \E i \in Inst : InstanceReconcile(i)
  BY <1>2, <1>4 DEF InstanceReconcile
<1>5. CASE HelperReconcile
  BY <1>5 DEF HelperReconcile
<1>6. CASE PromotionDone
  BY <1>6 DEF PromotionDone
<1>7. CASE HelperCollected \/ DatabaseCollected \/ PodsStop \/ Write \/ DumpDone \/ CatchUp \/ SampleLag
  BY <1>7 DEF HelperCollected, PodsStop, Write, DumpDone, CatchUp, SampleLag, DatabaseCollected
<1> QED
  BY <1>3, <1>4, <1>5, <1>6, <1>7 DEF Environment

LEMMA NextFinalize ==
    ASSUME Reliable, TypeOK, IInv, TypeOK', IInv', Adopted, FinalizeInv, [Next]_vars
    PROVE  FinalizeInv'
<1> USE DEF Reliable
<1>1. ASSUME "finalize" \notin started' PROVE FinalizeInv'
  BY <1>1 DEF IInv, Stages, OneProgram, FinalizeInv, FinalizeProgress, FinalizeCleans
<1>2. ASSUME NEW p \in Procs, Run(p) PROVE FinalizeInv'
  <2>1. CASE FinalizeNext(p)
    BY <2>1, FinalizeKeepsFinalize
  <2>2. CASE ~FinalizeNext(p)
    <3>1. started' \subseteq started /\ phase[p] \in {"setup", "promote", "rollback"}
      BY <1>2, <2>2, SetupStepStays, PromoteStepStays, RollbackStepStays DEF Run
    <3>2. \/ "finalize" \notin started
          \/ phase[p] = "rollback" /\ started = {}
      BY <3>1 DEF IInv, Stages, OneProgram
    <3> QED
      BY <1>1, <3>1, <3>2
  <2> QED
    BY <2>1, <2>2
<1>3. ASSUME NEW p \in Procs, Exit(p) PROVE FinalizeInv'
  <2>1. UNCHANGED <<job, left, master, sql>>
    BY <1>3 DEF Exit, sqlVars, dmsVars
  <2> QED
    BY <1>3, <2>1, ExitStays DEF FinalizeInv, FinalizeProgress, FinalizeAt, FinalizeCleans, OthersStay
<1>4. ASSUME NEW p \in Procs, NEW ph \in Phases, Start(p, ph) PROVE FinalizeInv'
  <2>1. /\ UNCHANGED <<job, left, master, sql>> /\ FirstStep("finalize") = "resolve"
        /\ completed' \subseteq completed
    BY <1>4, StartStays DEF sqlVars, dmsVars, FirstStep
  <2>2. FinalizeProgress'
    <3> SUFFICES ASSUME NEW q \in Procs, phase'[q] = "finalize" PROVE FinalizeAt(q)'
      BY DEF FinalizeProgress
    <3>1. CASE q = p
      BY <1>4, <2>1, <3>1, StartStays DEF FinalizeAt, SourcelessSteps
    <3>2. CASE q # p
      BY <1>4, <2>1, <3>2, StartStays DEF OthersStay, FinalizeInv, FinalizeProgress, FinalizeAt
    <3> QED
      BY <3>1, <3>2
  <2> QED
    BY <2>1, <2>2 DEF FinalizeInv, FinalizeCleans
<1>5. CASE Environment
  <2>1. UNCHANGED runVars
    BY <1>5, EnvironmentKeepsRuns
  <2> QED
    BY <1>1, <1>5, <2>1, EnvironmentIsCleaning, CleaningKeeps DEF runVars
<1>6. CASE UNCHANGED vars
  BY <1>6, CleaningKeeps DEF vars, sqlVars, dmsVars, runVars, Cleaning
<1> QED
  BY <1>2, <1>3, <1>4, <1>5, <1>6 DEF Next

\* When finalize completes, what the migration made is gone but for the networks allowed
\* on the target, and the source with it, also if CNRM recreates what it still manages.
THEOREM FinalizedClean == ASSUME Reliable PROVE Spec => []FinalizeCleans
<1>1. Init => FinalizeInv
  BY DEF Init, FinalizeInv, FinalizeProgress, FinalizeCleans
<1>2. Spec => []TypeOK /\ []IInv /\ []Adopted
  BY TypeCorrect, Inductive, AdoptedAlways DEF Reliable
<1>3. TypeOK /\ TypeOK' /\ IInv /\ IInv' /\ Adopted /\ FinalizeInv /\ [Next]_vars => FinalizeInv'
  BY NextFinalize
<1>4. FinalizeInv => FinalizeCleans
  BY DEF FinalizeInv
<1> QED
  BY <1>1, <1>2, <1>3, <1>4, PTL DEF Spec

-----------------------------------------------------------------------------
(* What rollback restores *)

\* What has been removed stays so, and an application that is back on the source stays up.
Restoring ==
    /\ helper' = "present" => helper = "present"
    /\ job = "absent" => job' = "absent"
    /\ left' \subseteq left
    /\ master' => master
    /\ helper # "present" /\ sql[Tgt] = "absent" => sql'[Tgt] = "absent"
    /\ spec = Src /\ owner[Src] = "app" => owner'[Src] = "app"
    /\ spec = Src /\ live = Src /\ Src \in login => Src \in login'
    /\ spec = Src /\ named =>
        /\ named'
        /\ pods = "up" => pods' = "up"
        /\ (synced => pods = "up") => (synced' => pods' = "up")

LEMMA RestoringKeeps ==
    ASSUME TypeOK, IInv, Restoring, NEW p \in Procs, phase[p] = "rollback", RollbackAt(p),
           pc'[p] = pc[p]
    PROVE  RollbackAt(p)'
<1>1. /\ pc[p] \in TargetlessSteps => pc[p] \notin {"scale", "deleteHelper"}
      /\ pc[p] \in RestoredSteps => pc[p] \in UpdatedSteps
      /\ pc[p] \in {"certs", "netpol"} => pc[p] \in RestoredSteps
  BY DEF TargetlessSteps, UpdatedSteps, RestoredSteps
<1>2. /\ pc[p] \in UpdatedSteps => spec = Src
      /\ pc[p] \in RestoredSteps => live = Src
  BY DEF IInv, Stages, RollbackStage, NearCopy
<1> QED
  BY <1>1, <1>2 DEF Restoring, RollbackAt

LEMMA RollbackIsRestoring ==
    ASSUME TypeOK, NEW p \in Procs, RollbackNext(p)
    PROVE  Restoring
<1> USE InstancesDiffer DEF Restoring, TypeOK, DataTypeOK, Inst, appVars, cnrmVars, sqlVars, dmsVars
<1>1. CASE DeleteInstance(Tgt, p, "rollback", "target", "master")
  BY <1>1 DEF DeleteInstance, InstanceGone
<1>2. CASE DeleteMasterInstance(TRUE, p, "rollback", "master", "dbResource")
  BY <1>2 DEF DeleteMasterInstance
<1>3. CASE ScaleIfSwitched(p)
  BY <1>3 DEF ScaleIfSwitched, ScaledDown
<1>4. CASE UpdateApplicationInstance(Src, p, "rollback", "update", "rollout")
  BY <1>4 DEF UpdateApplicationInstance
<1>5. CASE UpdateApplicationUser(Src, p, "rollback", "user", "certs")
  BY <1>5 DEF UpdateApplicationUser
<1>6. CASE \/ DeleteHelperApplication(p, "rollback", "deleteHelper", "deleteJob")
          \/ DeleteMigrationJob(p, "rollback", "deleteJob", "sourceProfile")
          \/ CleanupConnectionProfile("sourceProfile", p, "rollback", "sourceProfile", "targetProfile")
          \/ CleanupConnectionProfile("targetProfile", p, "rollback", "targetProfile", "target")
          \/ DeleteTargetDatabaseResource(p, "rollback", "dbResource", "cert")
  BY <1>6 DEF DeleteHelperApplication, DeleteMigrationJob, DeleteConnectionProfile,
     DeleteTargetDatabaseResource, CleanupConnectionProfile
<1>7. CASE \/ DeleteSourceCert(p) \/ AwaitDatabaseResourceGone(p)
          \/ AwaitRollout(Src, p, "rollback", "rollout", "user")
          \/ DeleteSslCerts(p, "rollback", "certs", "netpol")
          \/ DeleteNetworkPolicies(p, "rollback", "netpol")
  BY <1>7 DEF DeleteSourceCert, AwaitDatabaseResourceGone, AwaitRollout, DeleteSslCerts,
     DeleteNetworkPolicies
<1> QED
  BY <1>1, <1>2, <1>3, <1>4, <1>5, <1>6, <1>7 DEF RollbackNext

\* The step a run of rollback is at when it has taken one.
LEMMA RollbackAdvances ==
    ASSUME Faultless, TypeOK, IInv, Adopted, NEW p \in Procs, RollbackAt(p), RollbackNext(p),
           phase'[p] = "rollback"
    PROVE  RollbackAt(p)'
<1> USE AdvanceStays, RollbackIsRestoring
    DEF RollbackAt, Restoring, TargetlessSteps, UpdatedSteps, RestoredSteps
<1>1. CASE ScaleIfSwitched(p)
  BY <1>1 DEF ScaleIfSwitched
<1>2. CASE DeleteHelperApplication(p, "rollback", "deleteHelper", "deleteJob")
  BY <1>2 DEF DeleteHelperApplication
<1>3. CASE DeleteMigrationJob(p, "rollback", "deleteJob", "sourceProfile")
  BY <1>3 DEF DeleteMigrationJob
<1>4. CASE CleanupConnectionProfile("sourceProfile", p, "rollback", "sourceProfile", "targetProfile")
  BY <1>4 DEF DeleteConnectionProfile, CleanupConnectionProfile, Faultless
<1>5. CASE CleanupConnectionProfile("targetProfile", p, "rollback", "targetProfile", "target")
  BY <1>5 DEF DeleteConnectionProfile, CleanupConnectionProfile, Faultless
<1>6. CASE DeleteInstance(Tgt, p, "rollback", "target", "master")
  <2>1. sql'[Tgt] = "absent" /\ left' \cap ArtefactsOn(Tgt) = {}
    BY <1>6 DEF DeleteInstance, InstanceGone, Faultless, TypeOK, DataTypeOK, Inst
  <2> QED
    BY <1>6, <2>1 DEF DeleteInstance
<1>7. CASE DeleteMasterInstance(TRUE, p, "rollback", "master", "dbResource")
  <2>1. ~master'
    BY <1>7 DEF DeleteMasterInstance, Faultless
  <2> QED
    BY <1>7, <2>1 DEF DeleteMasterInstance
<1>8. CASE \/ DeleteTargetDatabaseResource(p, "rollback", "dbResource", "cert")
          \/ DeleteSourceCert(p) \/ AwaitDatabaseResourceGone(p)
  BY <1>8 DEF DeleteTargetDatabaseResource, DeleteSourceCert, AwaitDatabaseResourceGone
<1>9. CASE UpdateApplicationInstance(Src, p, "rollback", "update", "rollout")
  BY <1>9 DEF UpdateApplicationInstance
<1>10. CASE AwaitRollout(Src, p, "rollback", "rollout", "user")
  <2>1. synced /\ phase[p] = "rollback" /\ pc[p] = "rollout"
    BY <1>10 DEF AwaitRollout
  <2>2. spec = Src
    BY <2>1 DEF IInv, Stages, RollbackStage, NearCopy
  <2>3. pods = "up" /\ owner[Src] = "app" /\ named
    BY <2>1, <2>2 DEF Adopted
  <2> QED
    BY <1>10, <2>2, <2>3 DEF AwaitRollout
<1>11. CASE UpdateApplicationUser(Src, p, "rollback", "user", "certs")
  <2>1. Src \in login' /\ phase[p] = "rollback" /\ pc[p] = "user"
    BY <1>11 DEF UpdateApplicationUser, Faultless
  <2>2. spec = Src
    BY <2>1 DEF IInv, Stages, RollbackStage, NearCopy
  <2> QED
    BY <1>11, <2>1, <2>2 DEF UpdateApplicationUser
<1>12. CASE DeleteSslCerts(p, "rollback", "certs", "netpol")
  <2>1. left' \cap Certs = {} /\ phase[p] = "rollback" /\ pc[p] = "certs"
    BY <1>12 DEF DeleteSslCerts
  <2>2. spec = Src /\ live = Src
    BY <2>1 DEF IInv, Stages, RollbackStage, NearCopy
  <2> QED
    BY <1>12, <2>1, <2>2 DEF DeleteSslCerts
<1>13. CASE DeleteNetworkPolicies(p, "rollback", "netpol")
  BY <1>13, FinishStays DEF DeleteNetworkPolicies
<1> QED
  BY <1>1, <1>2, <1>3, <1>4, <1>5, <1>6, <1>7, <1>8, <1>9, <1>10, <1>11, <1>12, <1>13
     DEF RollbackNext

LEMMA RollbackKeepsRollback ==
    ASSUME Faultless, TypeOK, IInv, IInv', Adopted, RollbackInv, NEW p \in Procs, RollbackNext(p)
    PROVE  RollbackInv'
<1>1. /\ phase[p] = "rollback" /\ phase'[p] \in {"rollback", "none"} /\ OthersStay(p)
      /\ Restoring
  BY RollbackStepStays, RollbackIsRestoring
<1>2. RollbackProgress'
  <2> SUFFICES ASSUME NEW q \in Procs, phase'[q] = "rollback" PROVE RollbackAt(q)'
    BY DEF RollbackProgress
  <2>1. CASE q = p
    BY <1>1, <2>1, RollbackAdvances DEF RollbackInv, RollbackProgress
  <2>2. CASE q # p
    BY <1>1, <2>2, RestoringKeeps DEF OthersStay, RollbackInv, RollbackProgress
  <2> QED
    BY <2>1, <2>2
<1>3. CASE DeleteNetworkPolicies(p, "rollback", "netpol")
  <2>1. pc[p] = "netpol" /\ left' = left \ {"netpol"}
    BY <1>3, FinishStays DEF DeleteNetworkPolicies
  <2>2. RollbackAt(p)
    BY <1>1 DEF RollbackInv, RollbackProgress
  <2>3. /\ pods = "up" /\ Src \in login /\ owner[Src] = "app" /\ sql[Tgt] = "absent"
        /\ ~master /\ helper # "present" /\ named
        /\ left \cap (Profiles \cup Certs \cup ArtefactsOn(Tgt)) = {}
    BY <2>1, <2>2 DEF RollbackAt, TargetlessSteps, UpdatedSteps, RestoredSteps, Profiles
  <2>4. job = "absent" /\ spec = Src /\ live = Src
    BY <1>1, <2>1 DEF IInv, Stages, RollbackStage, JoblessSteps, RollbackSteps, UpdatedSteps, RestoredSteps, NearCopy
  <2>5. left' \subseteq ArtefactsOn(Src)
    BY <2>1, <2>3, InstancesDiffer DEF TypeOK, DataTypeOK, Artefacts, ArtefactsOn
  <2>6. started' = {} /\ UNCHANGED <<spec, live>>
    BY <1>3 DEF DeleteNetworkPolicies, Finish, appVars
  <2> QED
    BY <1>1, <1>2, <2>3, <2>4, <2>5, <2>6 DEF RollbackInv, RollbackRestores, Restoring
<1>4. CASE RollbackNext(p) /\ ~DeleteNetworkPolicies(p, "rollback", "netpol")
  <2>1. UNCHANGED <<started, completed>>
    BY <1>4 DEF RollbackNext, ScaleIfSwitched, DeleteHelperApplication,
       DeleteMigrationJob, DeleteConnectionProfile, DeleteInstance, DeleteMasterInstance,
       DeleteTargetDatabaseResource, DeleteSourceCert, AwaitDatabaseResourceGone,
       UpdateApplicationInstance, AwaitRollout, UpdateApplicationUser, DeleteSslCerts,
       Step, Advance, CleanupConnectionProfile
  <2>2. started' = {} => spec' = Src /\ live' = Src
    BY DEF IInv, Stages, SpecAndDeployment
  <2> QED
    BY <1>1, <1>2, <2>1, <2>2 DEF RollbackInv, RollbackRestores, Restoring
<1> QED
  BY <1>3, <1>4

\* Naiserator has nothing to apply but the source.
LEMMA EnvironmentIsRestoring ==
    ASSUME Faultless, TypeOK, IInv, Environment, ~synced => spec = Src
    PROVE  Restoring
<1> USE InstancesDiffer DEF Restoring, TypeOK, DataTypeOK, Inst, appVars, cnrmVars, sqlVars, dmsVars
<1>1. CASE AppReconcile
  BY <1>1 DEF AppReconcile
<1>2. CASE HelperReconcile
  BY <1>2 DEF HelperReconcile
<1>3. CASE HelperCollected \/ DatabaseCollected
  BY <1>3 DEF HelperCollected, DatabaseCollected
<1>4. CASE PromotionDone
  BY <1>4 DEF PromotionDone
<1>5. CASE PodsStop \/ Write \/ DumpDone \/ CatchUp \/ SampleLag
  BY <1>5 DEF PodsStop, Write, DumpDone, CatchUp, SampleLag
<1>6. ~Redeploy /\ ~\E i \in Inst : InstanceReconcile(i)
  BY DEF Redeploy, InstanceReconcile, Faultless
<1> QED
  BY <1>1, <1>2, <1>3, <1>4, <1>5, <1>6 DEF Environment

LEMMA NextRollback ==
    ASSUME Faultless, TypeOK, IInv, IInv', Adopted, RollbackInv, [Next]_vars
    PROVE  RollbackInv'
<1>1. ASSUME Restoring, UNCHANGED <<phase, pc, started, completed>> PROVE RollbackInv'
  <2>1. RollbackProgress'
    BY <1>1, RestoringKeeps DEF RollbackInv, RollbackProgress
  <2>2. started' = {} => spec' = Src /\ live' = Src
    BY DEF IInv, Stages, SpecAndDeployment
  <2>3. "rollback" \in completed => spec = Src
    BY DEF RollbackInv, RollbackRestores
  <2> QED
    BY <1>1, <2>1, <2>2, <2>3 DEF RollbackInv, RollbackRestores, Restoring
<1>2. ASSUME NEW p \in Procs, Run(p) PROVE RollbackInv'
  <2>1. CASE RollbackNext(p)
    BY <2>1, RollbackKeepsRollback
  <2>2. CASE ~RollbackNext(p)
    <3>1. /\ phase[p] \in {"setup", "promote", "finalize"} /\ OthersStay(p)
          /\ phase'[p] \in {phase[p], "none"} /\ completed' \subseteq completed \cup {phase[p]}
      BY <1>2, <2>2, SetupStepStays, PromoteStepStays, FinalizeStepStays DEF Run
    <3>2. started # {}
      BY <3>1 DEF IInv, Stages, OneProgram
    <3>3. \A q \in Procs : phase[q] # "rollback"
      BY <3>1 DEF IInv, Stages, OneProgram
    <3>4. (\A q \in Procs : phase[q] # "rollback")' /\ ("rollback" \notin completed)'
      BY <3>1, <3>2, <3>3 DEF RollbackInv, OthersStay
    <3> QED
      BY <3>4 DEF RollbackInv, RollbackProgress, RollbackRestores
  <2> QED
    BY <2>1, <2>2
<1>3. ASSUME NEW p \in Procs, Exit(p) PROVE RollbackInv'
  <2>1. UNCHANGED <<helper, job, left, master, sql, owner, login, spec, named, synced, live, pods>>
    BY <1>3 DEF Exit, cnrmVars, sqlVars, dmsVars
  <2>2. RollbackProgress'
    BY <1>3, <2>1, ExitStays DEF RollbackInv, RollbackProgress, RollbackAt, OthersStay
  <2> QED
    BY <1>3, <2>1, <2>2, ExitStays DEF RollbackInv, RollbackRestores
<1>4. ASSUME NEW p \in Procs, NEW ph \in Phases, Start(p, ph) PROVE RollbackInv'
  <2>1. /\ UNCHANGED <<helper, job, left, master, sql, owner, login, spec, named, synced, live, pods>>
        /\ FirstStep("rollback") = "scale" /\ "rollback" \notin completed'
    BY <1>4, StartStays DEF appVars, cnrmVars, sqlVars, dmsVars, FirstStep
  <2>2. RollbackProgress'
    <3> SUFFICES ASSUME NEW q \in Procs, phase'[q] = "rollback" PROVE RollbackAt(q)'
      BY DEF RollbackProgress
    <3>1. CASE q = p
      BY <1>4, <2>1, <3>1, StartStays DEF RollbackAt, TargetlessSteps, UpdatedSteps, RestoredSteps
    <3>2. CASE q # p
      BY <1>4, <2>1, <3>2, StartStays DEF OthersStay, RollbackInv, RollbackProgress, RollbackAt
    <3> QED
      BY <3>1, <3>2
  <2> QED
    BY <2>1, <2>2 DEF RollbackInv, RollbackRestores
<1>5. CASE Environment
  <2>1. UNCHANGED runVars
    BY <1>5, EnvironmentKeepsRuns
  <2>2. CASE ~synced => spec = Src
    BY <1>1, <1>5, <2>1, <2>2, EnvironmentIsRestoring DEF runVars
  <2>3. CASE ~(~synced => spec = Src)
    <3>1. ~RollbackStarted /\ started # {}
      BY <2>3 DEF IInv, Stages, RollbackStage, SpecAndDeployment, NearCopy
    <3>2. (\A q \in Procs : phase[q] # "rollback") /\ "rollback" \notin completed
      BY <3>1 DEF IInv, Stages, OneProgram, RollbackStarted, RollbackInv
    <3> QED
      BY <2>1, <3>2 DEF runVars, RollbackInv, RollbackProgress, RollbackRestores
  <2> QED
    BY <2>2, <2>3
<1>6. CASE UNCHANGED vars
  BY <1>1, <1>6 DEF vars, appVars, cnrmVars, sqlVars, dmsVars, runVars, Restoring
<1> QED
  BY <1>2, <1>3, <1>4, <1>5, <1>6 DEF Next

\* When a rollback completes, the application is up on the source and of the migration
\* nothing is left but what was done to the source: also beside another rollback, in a
\* disciplined migration in which no deletion fails and no instance is created anew.
THEOREM RolledBack == ASSUME Faultless PROVE Spec => []RollbackRestores
<1>1. Init => RollbackInv
  BY DEF Init, RollbackInv, RollbackProgress, RollbackRestores
<1>2. Spec => []TypeOK /\ []IInv /\ []Adopted
  BY TypeCorrect, Inductive, AdoptedAlways DEF Faultless
<1>3. TypeOK /\ IInv /\ IInv' /\ Adopted /\ RollbackInv /\ [Next]_vars => RollbackInv'
  BY NextRollback
<1>4. RollbackInv => RollbackRestores
  BY DEF RollbackInv
<1> QED
  BY <1>1, <1>2, <1>3, <1>4, PTL DEF Spec

-----------------------------------------------------------------------------
(* What promote delivers *)

\* What promote has done stays done, and pods that run go on running.
Delivering ==
    /\ (helper' = "present") <=> (helper = "present")
    /\ job \in {"completed", "absent"} => job' = job
    /\ job = "promoting" => job' \in {"promoting", "completed"}
    /\ reduced' => reduced
    /\ reassigned \subseteq reassigned'
    /\ synced => synced' /\ (pods = "up" => pods' = "up")
    /\ (synced => pods = "up") => (synced' => pods' = "up")
    /\ synced /\ Tgt \in login => Tgt \in login'
    /\ Tgt \in backups => Tgt \in backups'

LEMMA EnvironmentIsDelivering ==
    ASSUME Reliable, TypeOK, IInv, Environment
    PROVE  Delivering
<1> USE InstancesDiffer DEF Delivering, TypeOK, DataTypeOK, Inst, appVars, cnrmVars, sqlVars, dmsVars
<1>1. CASE AppReconcile
  <2>1. \A i \in Inst \ {spec} : ~(owner[i] = "app" /\ policy[i])
    BY <1>1 DEF AppReconcile, Inst, IInv, SpecAndDeployment, CascadeOff, Stages
  <2>2. /\ UNCHANGED <<helper, job, reassigned, backups>> /\ (reduced' => reduced)
        /\ ~synced /\ pods' = "up"
    BY <1>1, <2>1 DEF AppReconcile
  <2> QED
    BY <2>2
<1>2. CASE HelperReconcile
  BY <1>2 DEF HelperReconcile
<1>3. CASE HelperCollected \/ DatabaseCollected
  BY <1>3 DEF HelperCollected, DatabaseCollected
<1>4. CASE PromotionDone
  BY <1>4 DEF PromotionDone, Reliable
<1>5. CASE PodsStop \/ Write \/ DumpDone \/ CatchUp \/ SampleLag \/ \E i \in Inst : InstanceReconcile(i)
  BY <1>5 DEF PodsStop, Write, DumpDone, CatchUp, SampleLag, InstanceReconcile
<1>6. ~Redeploy
  BY DEF Redeploy, Reliable, Disciplined
<1> QED
  BY <1>1, <1>2, <1>3, <1>4, <1>5, <1>6 DEF Environment

LEMMA DeliveringKeeps ==
    ASSUME TypeOK, TypeOK', PromoteInv, Delivering, UNCHANGED runVars
    PROVE  PromoteInv'
<1>1. OneRun'
  BY DEF PromoteInv, OneRun, runVars
<1>2. PromoteProgress'
  <2>1. FirstHalf => FirstHalf'
    BY DEF FirstHalf, Delivering, TypeOK, DataTypeOK
  <2>2. ASSUME NEW p \in Procs, PromoteAt(p) PROVE PromoteAt(p)'
    <3> USE <2>2 DEF Delivering, PromoteAt, SwitchedSteps, runVars, TakeOverSteps
    <3>1. (pc[p] \in {"user", "backup"} => synced)'
      OBVIOUS
    <3>2. (pc[p] = "backup" => Tgt \in login)'
      OBVIOUS
    <3>3. (pc[p] \in SwitchedSteps => (synced => pods = "up"))'
      OBVIOUS
    <3> QED
      BY <3>1, <3>2, <3>3
  <2> SUFFICES ASSUME PromoteStarted'
               PROVE  /\ helper' # "present" => FirstHalf'
                      /\ \A p \in Procs : phase'[p] = "promote" => PromoteAt(p)'
    BY DEF PromoteProgress
  <2>3. /\ helper # "present" => FirstHalf
        /\ \A p \in Procs : phase[p] = "promote" => PromoteAt(p)
    BY DEF PromoteInv, PromoteProgress, PromoteStarted, runVars
  <2>4. helper' # "present" => FirstHalf'
    <3> SUFFICES ASSUME helper' # "present" PROVE FirstHalf'
      OBVIOUS
    <3>1. helper # "present"
      BY DEF Delivering, TypeOK, DataTypeOK
    <3> QED
      BY <2>1, <2>3, <3>1
  <2>5. phase' = phase
    BY DEF runVars
  <2> QED
    BY <2>2, <2>3, <2>4, <2>5
<1>3. PromoteDone'
  BY DEF PromoteInv, PromoteDone, Delivering, runVars
<1> QED
  BY <1>1, <1>2, <1>3 DEF PromoteInv

\* The step a run of promote is at when it has taken one.
LEMMA PromoteAdvances ==
    ASSUME Reliable, TypeOK, NEW p \in Procs, PromoteAt(p), PromoteNext(p), phase'[p] = "promote"
    PROVE  PromoteAt(p)'
<1> USE AdvanceStays DEF PromoteAt, SwitchedSteps, appVars, cnrmVars, sqlVars, dmsVars,
TakeOverSteps
<1>1. CASE ResolveAppInstance(p, "promote", "resolve", "helper")
  <2>1. pc'[p] = "helper"
    BY <1>1 DEF ResolveAppInstance, Advance, TypeOK, RunTypeOK
  <2> QED
    BY <2>1
<1>2. CASE GetHelper(p)
  BY <1>2 DEF GetHelper
<1>3. CASE \/ ResolveTarget(p) \/ CheckReadyForPromotion(p)
          \/ ScaleApplication(p, "promote", "scale", "promote")
  BY <1>3 DEF ResolveTarget, CheckReadyForPromotion, ScaleApplication
<1>4. CASE InspectJob(p)
  BY <1>4 DEF InspectJob
<1>5. CASE StartPromotion(p)
  BY <1>5 DEF StartPromotion
<1>6. CASE AwaitPromotion(p)
  BY <1>6 DEF AwaitPromotion
<1>7. CASE UpdateTargetInstanceAfterPromotion(p)
  BY <1>7 DEF UpdateTargetInstanceAfterPromotion
<1>8. CASE PrepareTargetDatabase(p, "promote", "ownPostgres")
  BY <1>8 DEF PrepareTargetDatabase
<1>9. CASE TakeOverTarget(p)
  BY <1>9 DEF TakeOverTarget, ChangeOwnership, DeleteHelperApplication
<1>10. CASE \/ DeleteTargetDatabaseResource(p, "promote", "dbResource", "cnrm")
           \/ AwaitCnrmHandover(p)
  BY <1>10 DEF DeleteTargetDatabaseResource, AwaitCnrmHandover
<1>11. CASE UpdateApplicationInstance(Tgt, p, "promote", "update", "rollout")
  BY <1>11 DEF UpdateApplicationInstance
<1>12. CASE AwaitRollout(Tgt, p, "promote", "rollout", "user")
  BY <1>12 DEF AwaitRollout
<1>13. CASE UpdateApplicationUser(Tgt, p, "promote", "user", "backup")
  BY <1>13 DEF UpdateApplicationUser, Reliable
<1>14. CASE BackUpTarget(p)
  BY <1>14, FinishStays DEF BackUpTarget
<1> QED
  BY <1>1, <1>2, <1>3, <1>4, <1>5, <1>6, <1>7, <1>8, <1>9, <1>10, <1>11, <1>12, <1>13, <1>14
     DEF PromoteNext


\* The steps of promote, with no run beside it.
LEMMA PromoteKeepsFirstHalf ==
    ASSUME TypeOK, TypeOK', NEW p \in Procs, PromoteNext(p), PromoteAt(p),
           helper # "present" => FirstHalf, helper' # "present"
    PROVE  FirstHalf'
<1> USE DEF FirstHalf, appVars, cnrmVars, sqlVars, dmsVars
<1>1. CASE DeleteHelperApplication(p, "promote", "deleteHelper", "dbResource")
  <2>1. pc[p] = "deleteHelper"
    BY <1>1, AdvanceStays DEF DeleteHelperApplication
  <2>2. job = "completed" /\ ~reduced /\ {"postgres", "app"} \subseteq reassigned
    BY <2>1 DEF PromoteAt, TakeOverSteps
  <2> QED
    BY <1>1, <2>2 DEF DeleteHelperApplication, TypeOK, DataTypeOK, Databases
<1>2. CASE ~DeleteHelperApplication(p, "promote", "deleteHelper", "dbResource")
  <2>1. helper' = helper
    BY <1>2 DEF PromoteNext, ResolveAppInstance, GetHelper, ResolveTarget,
     CheckReadyForPromotion, ScaleApplication, InspectJob, StartPromotion, AwaitPromotion,
     UpdateTargetInstanceAfterPromotion, PrepareTargetDatabase, TakeOverTarget,
     ChangeOwnership, DeleteTargetDatabaseResource,
     AwaitCnrmHandover, UpdateApplicationInstance, AwaitRollout, UpdateApplicationUser,
     BackUpTarget
  <2>2. FirstHalf
    BY <2>1
  <2>3. CASE TakeOverTarget(p)
    BY <1>2, <2>2, <2>3 DEF TakeOverTarget, ChangeOwnership, TypeOK, DataTypeOK
  <2>4. CASE StartPromotion(p)
    BY <2>2, <2>4 DEF StartPromotion
  <2>5. CASE UpdateTargetInstanceAfterPromotion(p)
    BY <2>2, <2>5 DEF UpdateTargetInstanceAfterPromotion
  <2>6. CASE ~TakeOverTarget(p) /\ ~StartPromotion(p) /\ ~UpdateTargetInstanceAfterPromotion(p)
    <3>1. UNCHANGED <<job, reduced, reassigned>>
      BY <2>6 DEF PromoteNext, ResolveAppInstance, GetHelper, ResolveTarget,
         CheckReadyForPromotion, ScaleApplication, InspectJob, AwaitPromotion,
         PrepareTargetDatabase, DeleteTargetDatabaseResource, AwaitCnrmHandover,
         UpdateApplicationInstance, AwaitRollout, UpdateApplicationUser, BackUpTarget
    <3> QED
      BY <2>2, <3>1
  <2> QED
    BY <2>3, <2>4, <2>5, <2>6
<1> QED
  BY <1>1, <1>2

LEMMA PromoteKeepsPromote ==
    ASSUME Orderly, TypeOK, TypeOK', IInv, PromoteInv, NEW p \in Procs, PromoteNext(p)
    PROVE  PromoteInv'
<1>1. /\ phase[p] = "promote" /\ phase'[p] \in {"promote", "none"} /\ OthersStay(p)
      /\ started' = started /\ completed' \subseteq completed \cup {"promote"}
  BY PromoteStepStays
<1>2. \A q \in Procs \ {p} : phase[q] = "none" /\ phase'[q] = "none"
  BY <1>1 DEF PromoteInv, OneRun, OthersStay
<1>3. PromoteStarted /\ "promote" \notin completed
  <2>1. PromoteStarted
    BY <1>1 DEF PromoteStarted, IInv, Stages, OneProgram
  <2> QED
    BY <1>1, <2>1 DEF PromoteInv, PromoteDone, PromoteStarted
<1>4. PromoteAt(p) /\ (helper # "present" => FirstHalf)
  BY <1>1, <1>3 DEF PromoteInv, PromoteProgress
<1>5. OneRun'
  BY <1>2 DEF OneRun
<1>6. PromoteProgress'
  <2>1. helper' # "present" => FirstHalf'
    BY <1>4, PromoteKeepsFirstHalf
  <2>2. ASSUME NEW q \in Procs, phase'[q] = "promote" PROVE PromoteAt(q)'
    <3>1. q = p
      BY <1>2, <2>2
    <3> QED
      BY <1>4, <2>2, <3>1, PromoteAdvances DEF Orderly
  <2> QED
    BY <2>1, <2>2 DEF PromoteProgress
<1>7. PromoteDone'
  <2>1. CASE BackUpTarget(p)
    <3>1. pc[p] = "backup" /\ phase'[p] = "none"
      BY <2>1, FinishStays DEF BackUpTarget
    <3>2. synced /\ pods = "up" /\ helper # "present" /\ Tgt \in login
      BY <1>4, <3>1 DEF PromoteAt, SwitchedSteps, TakeOverSteps
    <3>3. Tgt \in backups' /\ UNCHANGED <<synced, pods, helper, login>>
      BY <2>1 DEF BackUpTarget, BackedUp, Orderly, Reliable, appVars, cnrmVars
    <3> QED
      BY <1>2, <3>1, <3>2, <3>3 DEF PromoteDone
  <2>2. CASE ~BackUpTarget(p)
    <3>1. completed' = completed
      <4>1. CASE TakeOverTarget(p)
        BY <4>1, AdvanceStays DEF TakeOverTarget, ChangeOwnership, DeleteHelperApplication
      <4>2. CASE ResolveAppInstance(p, "promote", "resolve", "helper")
        BY <4>2, ResolveStays DEF ResolveAppInstance
      <4>3. CASE ~TakeOverTarget(p) /\ ~ResolveAppInstance(p, "promote", "resolve", "helper")
        <5>1. \E from, to : Step(p, "promote", from, to)
          BY <2>2, <4>3 DEF PromoteNext, GetHelper, ResolveTarget, CheckReadyForPromotion,
             ScaleApplication, InspectJob, StartPromotion, AwaitPromotion,
             UpdateTargetInstanceAfterPromotion, PrepareTargetDatabase,
             DeleteTargetDatabaseResource, AwaitCnrmHandover, UpdateApplicationInstance,
             AwaitRollout, UpdateApplicationUser
        <5> QED
          BY <5>1, AdvanceStays
      <4> QED
        BY <4>1, <4>2, <4>3
    <3> QED
      BY <1>3, <3>1 DEF PromoteDone
  <2> QED
    BY <2>1, <2>2
<1> QED
  BY <1>5, <1>6, <1>7 DEF PromoteInv

\* Finalize, which only a completed promote precedes, takes nothing of it back.
LEMMA FinalizeIsDelivering ==
    ASSUME TypeOK, NEW p \in Procs, FinalizeNext(p)
    PROVE  /\ helper' = helper /\ UNCHANGED <<synced, pods>>
           /\ (FirstHalf => FirstHalf')
           /\ (Tgt \in login => Tgt \in login') /\ (Tgt \in backups => Tgt \in backups')
  BY InstancesDiffer DEF FinalizeNext, ResolveAppInstance, DeleteFinishedJob, DeleteMigrationJob,
     DeleteConnectionProfile, DeleteMasterInstance, DeleteInstance, InstanceGone,
     CleanupAuthNetworks, DeleteSslCerts, DeleteNetworkPolicies, FirstHalf, Finish,
     appVars, cnrmVars, sqlVars, dmsVars, TypeOK, DataTypeOK, CleanupConnectionProfile


\* Where promote has not been started, or rollback has, there is nothing to show.
LEMMA NothingPromoted ==
    ASSUME ~PromoteStarted', ("promote" \in completed' => "promote" \in started'), OneRun'
    PROVE  PromoteInv'
BY DEF PromoteInv, PromoteProgress, PromoteDone, PromoteStarted

LEMMA OneRunStays ==
    ASSUME OneRun, NEW p \in Procs, phase[p] # "none", OthersStay(p)
    PROVE  OneRun'
BY DEF OneRun, OthersStay

LEMMA StartKeepsPromote ==
    ASSUME Orderly, TypeOK, IInv, PromoteInv, NEW p \in Procs, NEW ph \in Phases, Start(p, ph)
    PROVE  PromoteInv'
<1>1. /\ OthersStay(p) /\ UNCHANGED <<view, appVars, cnrmVars, sqlVars, dmsVars, left>>
      /\ phase[p] = "none" /\ phase'[p] = ph /\ pc'[p] = FirstStep(ph)
      /\ started' = started \cup {ph} /\ completed' = completed \ {ph, "rollback"}
  BY StartStays
<1>2. \A q \in Procs : phase[q] = "none"
  BY DEF Orderly, Start, MayStart
<1>3. OneRun'
  BY <1>1, <1>2 DEF OneRun, OthersStay
<1>4. InOrder(ph)
  BY DEF Orderly, Reliable, Disciplined, AllRules, Start, MayStart
<1>5. completed \ {"rollback"} \subseteq started
  BY DEF IInv, Stages, OneProgram
<1>6. CASE ph = "setup"
  BY <1>1, <1>3, <1>4, <1>5, <1>6, NothingPromoted DEF InOrder, PromoteStarted
<1>7. CASE ph = "rollback"
  BY <1>1, <1>3, <1>5, <1>7, NothingPromoted DEF PromoteStarted
<1>8. CASE ph \in {"promote", "finalize"}
  <2>1. "rollback" \notin started
    BY <1>4, <1>8 DEF InOrder
  <2>2. helper # "present" => FirstHalf
    <3>1. CASE "promote" \in started
      BY <2>1, <3>1 DEF PromoteInv, PromoteProgress, PromoteStarted
    <3>2. CASE "promote" \notin started
      <4>1. ph = "promote" /\ "setup" \in completed /\ started \subseteq {"setup"}
        BY <1>4, <1>5, <1>8, <3>2 DEF InOrder
      <4> QED
        BY <4>1 DEF IInv, Stages, HelperKept
    <3> QED
      BY <3>1, <3>2
  <2>3. PromoteProgress'
    <3>1. helper' # "present" => FirstHalf'
      BY <1>1, <2>2 DEF FirstHalf, cnrmVars, sqlVars, dmsVars
    <3>2. ASSUME NEW q \in Procs, phase'[q] = "promote" PROVE PromoteAt(q)'
      <4>1. q = p /\ ph = "promote"
        BY <1>1, <1>2, <3>2 DEF OthersStay
      <4>2. pc'[q] = "resolve"
        BY <1>1, <4>1 DEF FirstStep
      <4> QED
        BY <4>2 DEF PromoteAt, SwitchedSteps, TakeOverSteps
    <3> QED
      BY <3>1, <3>2 DEF PromoteProgress
  <2>4. PromoteDone'
    <3> SUFFICES ASSUME "promote" \in completed'
                 PROVE  /\ \A q \in Procs : phase'[q] # "promote"
                        /\ synced' /\ pods' = "up" /\ helper' # "present"
                        /\ Tgt \in login' /\ Tgt \in backups'
      BY DEF PromoteDone
    <3>1. ph = "finalize" /\ "promote" \in completed
      BY <1>1, <1>8
    <3>2. synced /\ pods = "up" /\ helper # "present" /\ Tgt \in login /\ Tgt \in backups
      BY <2>1, <3>1 DEF PromoteInv, PromoteDone
    <3> QED
      BY <1>1, <1>2, <3>1, <3>2 DEF OthersStay, appVars, cnrmVars, sqlVars
  <2> QED
    BY <1>3, <2>3, <2>4 DEF PromoteInv
<1> QED
  BY <1>6, <1>7, <1>8 DEF Phases

LEMMA FinalizeKeepsPromote ==
    ASSUME Orderly, TypeOK, TypeOK', IInv, PromoteInv, NEW p \in Procs, FinalizeNext(p)
    PROVE  PromoteInv'
<1>1. /\ phase[p] = "finalize" /\ phase'[p] \in {"finalize", "none"} /\ OthersStay(p)
      /\ started' = started /\ completed' \subseteq completed \cup {"finalize"}
  BY FinalizeStepStays
<1>2. /\ helper' = helper /\ UNCHANGED <<synced, pods>>
      /\ (FirstHalf => FirstHalf')
      /\ (Tgt \in login => Tgt \in login') /\ (Tgt \in backups => Tgt \in backups')
  BY FinalizeIsDelivering
<1>3. OneRun'
  BY <1>1, OneRunStays DEF PromoteInv
<1>4. \A q \in Procs : phase[q] # "promote" /\ phase'[q] # "promote"
  BY <1>1 DEF PromoteInv, OneRun, OthersStay
<1>5. PromoteProgress'
  BY <1>1, <1>2, <1>4 DEF PromoteInv, PromoteProgress, PromoteStarted
<1>6. PromoteDone'
  BY <1>1, <1>2, <1>4 DEF PromoteInv, PromoteDone
<1> QED
  BY <1>3, <1>5, <1>6 DEF PromoteInv

\* What promote has to show is kept by every step, given the other invariants.
LEMMA NextPromote ==
    ASSUME Orderly, TypeOK, TypeOK', IInv, IInv', PromoteInv, [Next]_vars
    PROVE  PromoteInv'
<1>1. OneRun
  BY DEF PromoteInv
<1>2. ASSUME NEW p \in Procs, SetupNext(p) PROVE PromoteInv'
  <2>1. phase[p] = "setup" /\ OthersStay(p) /\ started' = started
    BY <1>2, SetupStepStays
  <2>2. started = {"setup"}
    BY <2>1 DEF IInv, Stages, OneProgram
  <2>3. OneRun'
    BY <1>1, <2>1, OneRunStays
  <2>4. ~PromoteStarted' /\ ("promote" \in completed' => "promote" \in started')
    BY <2>1, <2>2 DEF PromoteStarted, IInv, Stages, OneProgram
  <2> QED
    BY <2>3, <2>4, NothingPromoted
<1>3. ASSUME NEW p \in Procs, PromoteNext(p) PROVE PromoteInv'
  BY <1>3, PromoteKeepsPromote
<1>4. ASSUME NEW p \in Procs, RollbackNext(p) PROVE PromoteInv'
  <2>1. /\ phase[p] = "rollback" /\ OthersStay(p)
        /\ \/ started' = started /\ completed' = completed
           \/ started' = {} /\ completed' = {"rollback"}
    BY <1>4, RollbackStepStays
  <2>2. "rollback" \in started \/ (started = {} /\ completed = {"rollback"})
    BY <2>1 DEF IInv, Stages, OneProgram
  <2>3. OneRun'
    BY <1>1, <2>1, OneRunStays
  <2>4. ~PromoteStarted' /\ ("promote" \in completed' => "promote" \in started')
    BY <2>1, <2>2 DEF PromoteStarted, IInv, Stages, OneProgram
  <2> QED
    BY <2>3, <2>4, NothingPromoted
<1>5. ASSUME NEW p \in Procs, FinalizeNext(p) PROVE PromoteInv'
  BY <1>5, FinalizeKeepsPromote
<1>6. ASSUME NEW p \in Procs, NEW ph \in Phases, Start(p, ph) PROVE PromoteInv'
  BY <1>6, StartKeepsPromote
<1>7. ASSUME NEW p \in Procs, Exit(p) PROVE PromoteInv'
  <2>1. /\ OthersStay(p) /\ phase'[p] = "none" /\ UNCHANGED <<started, completed>>
        /\ phase[p] # "none"
        /\ UNCHANGED <<synced, pods, helper, owner, login, backups, job, reduced, reassigned>>
    BY <1>7, ExitStays DEF Exit, cnrmVars, sqlVars, dmsVars
  <2>2. OneRun'
    BY <1>1, <2>1, OneRunStays
  <2>3. \A q \in Procs : phase'[q] = "none"
    BY <1>1, <2>1 DEF OneRun, OthersStay
  <2>4. PromoteProgress'
    BY <2>1, <2>3 DEF PromoteInv, PromoteProgress, PromoteStarted, FirstHalf
  <2>5. PromoteDone'
    BY <2>1, <2>3 DEF PromoteInv, PromoteDone
  <2> QED
    BY <2>2, <2>4, <2>5 DEF PromoteInv
<1>8. CASE Environment
  <2>1. UNCHANGED runVars
    BY <1>8, EnvironmentKeepsRuns
  <2> QED
    BY <1>8, <2>1, EnvironmentIsDelivering, DeliveringKeeps DEF Orderly
<1>9. CASE UNCHANGED vars
  <2>1. Delivering /\ UNCHANGED runVars
    BY <1>9 DEF vars, appVars, cnrmVars, sqlVars, dmsVars, runVars, Delivering
  <2> QED
    BY <2>1, DeliveringKeeps
<1> QED
  BY <1>2, <1>3, <1>4, <1>5, <1>6, <1>7, <1>8, <1>9 DEF Next, Run

\* When a promote completes, by however many runs, one after the other, the application
\* is up on a target that is a primary of its own and wants for nothing promote owes it.
THEOREM Delivered == ASSUME Orderly PROVE Spec => []PromoteDelivers
<1>1. Init => PromoteInv
  BY DEF Init, PromoteInv, OneRun, PromoteProgress, PromoteStarted, PromoteDone
<1>2. Spec => []TypeOK /\ []IInv /\ []Adopted
  BY TypeCorrect, Inductive, AdoptedAlways DEF Orderly, Reliable
<1>3. TypeOK /\ TypeOK' /\ IInv /\ IInv' /\ PromoteInv /\ [Next]_vars => PromoteInv'
  BY NextPromote
<1>4. IInv /\ Adopted /\ PromoteInv => PromoteDelivers
  <2> SUFFICES ASSUME IInv, Adopted, PromoteInv,
                      "promote" \in completed, "rollback" \notin started
               PROVE  /\ spec = Tgt /\ live = Tgt /\ pods = "up"
                      /\ job \in {"completed", "absent"}
                      /\ reassigned = Databases /\ ~reduced
                      /\ Tgt \in login /\ Tgt \in backups
                      /\ helper # "present" /\ owner[Tgt] = "app"
    BY DEF PromoteDelivers
  <2>1. PromoteStarted
    BY DEF PromoteStarted, IInv, Stages, OneProgram
  <2>2. /\ synced /\ pods = "up" /\ helper # "present"
        /\ Tgt \in login /\ Tgt \in backups
    BY DEF PromoteInv, PromoteDone
  <2>3. FirstHalf
    BY <2>1, <2>2 DEF PromoteInv, PromoteProgress
  <2>4. spec = Tgt /\ live = Tgt
    BY <2>1, <2>2 DEF IInv, Stages, PromoteStage, SpecAndDeployment
  <2>5. owner[Tgt] = "app"
    BY <2>2, <2>4 DEF Adopted
  <2> QED
    BY <2>2, <2>3, <2>4, <2>5 DEF FirstHalf
<1> QED
  BY <1>1, <1>2, <1>3, <1>4, PTL DEF Spec
=============================================================================
