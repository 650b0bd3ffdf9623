---------------------------- MODULE SafetyProofs ----------------------------
(***************************************************************************)
(* What else a disciplined migration keeps: the way back to the source     *)
(* until finalize is run, the quiet of the source from the promotion on,   *)
(* and a standalone instance under the pods.                               *)
(***************************************************************************)
EXTENDS InvariantProofs

-----------------------------------------------------------------------------
(* The way back *)

\* The source and its database stay, and so does the start of a finalize.
SourceStays ==
    /\ sql[Src] = "standalone" => sql'[Src] = "standalone"
    /\ Src \in hasDb => Src \in hasDb'
    /\ "finalize" \in started => "finalize" \in started'

\* No database goes with the SQLDatabase that stands for it.
LEMMA NothingLost ==
    ASSUME TypeOK, IInv, "going" \in dbRes
    PROVE  ~policy[live]
BY InstancesDiffer DEF TypeOK, DataTypeOK, Inst, IInv, CascadeOff, OneProgram, Stages

LEMMA SetupKeepsSource ==
    ASSUME TypeOK, NEW p \in Procs, SetupNext(p)
    PROVE  SourceStays
<1> USE InstancesDiffer DEF SourceStays, Step, Advance, appVars, cnrmVars, sqlVars, dmsVars
<1>1. CASE \E profile \in Profiles : DeleteOldProfile(p, profile)
  BY <1>1 DEF DeleteOldProfile, DeleteConnectionProfile, CleanupConnectionProfile
<1>2. CASE \E profile \in Profiles : CreateConnectionProfile(p, profile)
  BY <1>2 DEF CreateConnectionProfile
<1>3. CASE DropHelperDatabase(p) \/ DemoteTargetInstance(p)
  BY <1>3 DEF DropHelperDatabase, DemoteTargetInstance, TypeOK, DataTypeOK, Inst
<1>4. CASE StartMigrationJob(p)
  BY <1>4 DEF StartMigrationJob, Finish
<1>5. CASE \/ ResolveSource(p) \/ CreateHelper(p) \/ AwaitHelper(p)
          \/ DeleteHelperDatabaseResource(p) \/ BackUpSource(p) \/ DisableCascadingDelete(p)
          \/ CreateNetworkPolicy(p) \/ PrepareSourceInstance(p)
  BY <1>5 DEF ResolveSource, CreateHelper, AwaitHelper, DeleteHelperDatabaseResource,
     BackUpSource, DisableCascadingDelete, CreateNetworkPolicy, PrepareSourceInstance
<1>6. CASE \/ PrepareSourceDatabase(p) \/ DropPgAuditExtension(p) \/ PrepareTargetInstance(p)
          \/ PrepareTargetDatabase(p, "setup", "deleteJob")
          \/ DeleteMigrationJob(p, "setup", "deleteJob", "deleteProfiles")
          \/ CreateMigrationJob(p) \/ ResolveTargetAgain(p) \/ AddTargetOutgoingIps(p)
  BY <1>6 DEF PrepareSourceDatabase, DropPgAuditExtension, PrepareTargetInstance,
     PrepareTargetDatabase, DeleteMigrationJob, CreateMigrationJob, ResolveTargetAgain,
     AddTargetOutgoingIps
<1> QED
  BY <1>1, <1>2, <1>3, <1>4, <1>5, <1>6 DEF SetupNext

LEMMA PromoteKeepsSource ==
    ASSUME TypeOK, IInv, NEW p \in Procs, PromoteNext(p)
    PROVE  SourceStays
<1> USE DEF SourceStays, Step, Advance, appVars, cnrmVars, sqlVars, dmsVars
<1>1. CASE BackUpTarget(p)
  BY <1>1 DEF BackUpTarget, Finish
<1>2. CASE TakeOverTarget(p)
  BY <1>2 DEF TakeOverTarget, ChangeOwnership, DeleteHelperApplication
<1>3. CASE PromoteNext(p) /\ ~BackUpTarget(p) /\ ~TakeOverTarget(p)
  BY <1>3 DEF PromoteNext, ResolveAppInstance, GetHelper, ResolveTarget,
     CheckReadyForPromotion, ScaleApplication, InspectJob, StartPromotion, AwaitPromotion,
     UpdateTargetInstanceAfterPromotion, PrepareTargetDatabase,
     DeleteTargetDatabaseResource, AwaitCnrmHandover, UpdateApplicationInstance,
     AwaitRollout, UpdateApplicationUser
<1> QED
  BY <1>1, <1>2, <1>3

LEMMA RollbackKeepsSource ==
    ASSUME TypeOK, IInv, NEW p \in Procs, RollbackNext(p)
    PROVE  SourceStays
<1> USE InstancesDiffer DEF SourceStays, Step, Advance, appVars, cnrmVars, sqlVars, dmsVars
<1>1. CASE DeleteTargetDatabaseResource(p, "rollback", "dbResource", "cert")
  BY <1>1 DEF DeleteTargetDatabaseResource
<1>2. CASE DeleteInstance(Tgt, p, "rollback", "target", "master")
  BY <1>2 DEF DeleteInstance, InstanceGone, TypeOK, DataTypeOK, Inst
<1>3. CASE DeleteNetworkPolicies(p, "rollback", "netpol")
  <2>1. phase[p] = "rollback" /\ UNCHANGED <<sql, hasDb>>
    BY <1>3 DEF DeleteNetworkPolicies, Finish, At
  <2>2. "finalize" \notin started
    BY <2>1 DEF IInv, Stages, OneProgram
  <2> QED
    BY <2>1, <2>2
<1>4. CASE \/ ScaleIfSwitched(p)
          \/ DeleteHelperApplication(p, "rollback", "deleteHelper", "deleteJob")
          \/ DeleteMigrationJob(p, "rollback", "deleteJob", "sourceProfile")
          \/ CleanupConnectionProfile("sourceProfile", p, "rollback", "sourceProfile", "targetProfile")
          \/ CleanupConnectionProfile("targetProfile", p, "rollback", "targetProfile", "target")
          \/ DeleteMasterInstance(TRUE, p, "rollback", "master", "dbResource")
          \/ DeleteSourceCert(p) \/ AwaitDatabaseResourceGone(p)
          \/ UpdateApplicationInstance(Src, p, "rollback", "update", "rollout")
          \/ AwaitRollout(Src, p, "rollback", "rollout", "user")
          \/ UpdateApplicationUser(Src, p, "rollback", "user", "certs")
          \/ DeleteSslCerts(p, "rollback", "certs", "netpol")
  BY <1>4 DEF ScaleIfSwitched, DeleteHelperApplication, DeleteMigrationJob,
     DeleteConnectionProfile, DeleteMasterInstance, DeleteSourceCert,
     AwaitDatabaseResourceGone, UpdateApplicationInstance, AwaitRollout,
     UpdateApplicationUser, DeleteSslCerts, CleanupConnectionProfile
<1> QED
  BY <1>1, <1>2, <1>3, <1>4 DEF RollbackNext

\* A finalize has started when one of its steps is taken, and stays so.
LEMMA FinalizeIsStarted ==
    ASSUME IInv, NEW p \in Procs, FinalizeNext(p)
    PROVE  "finalize" \in started /\ "finalize" \in started'
<1>1. phase[p] = "finalize" /\ started' = started
  BY DEF FinalizeNext, ResolveAppInstance, DeleteFinishedJob, DeleteMigrationJob,
     DeleteConnectionProfile, DeleteMasterInstance, DeleteInstance, CleanupAuthNetworks,
     DeleteSslCerts, DeleteNetworkPolicies, Finish, Step, Advance, At, CleanupConnectionProfile
<1> QED
  BY <1>1 DEF IInv, Stages, OneProgram

LEMMA EnvironmentKeepsSource ==
    ASSUME Disciplined, TypeOK, IInv, Environment, "finalize" \notin started
    PROVE  SourceStays
<1> USE InstancesDiffer DEF SourceStays, appVars, cnrmVars, sqlVars, dmsVars, runVars
<1>1. CASE AppReconcile
  <2>1. owner[Src] = "app" /\ policy[Src] => spec = Src
    BY <1>1 DEF AppReconcile, IInv, SpecAndDeployment, CascadeOff, Stages
  <2> QED
    BY <1>1, <2>1 DEF AppReconcile, TypeOK, DataTypeOK, Inst
<1>2. CASE \E i \in Inst : InstanceReconcile(i)
  BY <1>2 DEF InstanceReconcile, TypeOK, DataTypeOK
<1>3. CASE HelperReconcile \/ PromotionDone
  BY <1>3 DEF HelperReconcile, PromotionDone, TypeOK, DataTypeOK, Inst
<1>4. CASE DatabaseCollected
  <2>1. ~policy[live]
    BY <1>4, NothingLost DEF DatabaseCollected
  <2> QED
    BY <1>4, <2>1 DEF DatabaseCollected
<1>5. CASE HelperCollected \/ Redeploy \/ PodsStop \/ Write \/ DumpDone \/ CatchUp \/ SampleLag
  BY <1>5 DEF HelperCollected, Redeploy, PodsStop, Write, DumpDone, CatchUp, SampleLag
<1> QED
  BY <1>1, <1>2, <1>3, <1>4, <1>5 DEF Environment

LEMMA NextWayBack ==
    ASSUME Disciplined, TypeOK, IInv, WayBack, [Next]_vars
    PROVE  WayBack'
<1>1. SourceStays \/ "finalize" \in started'
  <2>1. ASSUME NEW p \in Procs, Run(p) PROVE SourceStays \/ "finalize" \in started'
    BY <2>1, SetupKeepsSource, PromoteKeepsSource, RollbackKeepsSource, FinalizeIsStarted DEF Run
  <2>2. ASSUME NEW p \in Procs, Exit(p) PROVE SourceStays
    BY <2>2 DEF Exit, SourceStays, sqlVars
  <2>3. ASSUME NEW p \in Procs, NEW ph \in Phases, Start(p, ph) PROVE SourceStays
    BY <2>3 DEF Start, Begin, SourceStays, sqlVars
  <2>4. ASSUME Environment PROVE SourceStays \/ "finalize" \in started'
    <3>1. UNCHANGED runVars
      BY <2>4, EnvironmentKeepsRuns
    <3> QED
      BY <2>4, <3>1, EnvironmentKeepsSource DEF runVars
  <2>5. ASSUME UNCHANGED vars PROVE SourceStays
    BY <2>5 DEF vars, sqlVars, runVars, SourceStays
  <2> QED
    BY <2>1, <2>2, <2>3, <2>4, <2>5 DEF Next
<1>2. CASE SourceStays
  BY <1>2 DEF SourceStays, WayBack
<1>3. CASE "finalize" \in started'
  BY <1>3 DEF WayBack
<1> QED
  BY <1>1, <1>2, <1>3

\* Until finalize is run, the source and its database exist: however often programs are
\* interrupted and repeated in the documented order, whichever of their operations fail
\* unseen, as long as rollback is begun only with cascading delete off, any program is
\* begun only when naiserator has applied the last change, and the team deploys nothing.
\* A rollback of a setup stopped before its step 9 is not among those.
THEOREM WayBackKept == ASSUME Disciplined PROVE Spec => []WayBack
<1>1. Init => WayBack
  BY InstancesDiffer DEF Init, WayBack, Inst
<1>2. Spec => []TypeOK /\ []IInv
  BY TypeCorrect, Inductive
<1>3. TypeOK /\ IInv /\ WayBack /\ [Next]_vars => WayBack'
  BY NextWayBack
<1> QED
  BY <1>1, <1>2, <1>3, PTL DEF Spec

-----------------------------------------------------------------------------
(* The quiet of the source *)

Promoting == job \in {"promoting", "completed"}

\* What a rollback asks naiserator for, it asks for when the job is gone.
RollbackAfterJob == RollbackStarted /\ job # "absent" => synced

Quiet == SourceQuietAfterPromotion /\ RollbackAfterJob

\* No step of these begins a promotion, starts pods or asks for another instance.
Calm ==
    /\ Promoting' => Promoting
    /\ job' # "absent" => job # "absent"
    /\ live' = live /\ synced' = synced
    /\ pods' = "up" => pods = "up"
    /\ RollbackStarted' => RollbackStarted

LEMMA CalmKeepsQuiet == Quiet /\ Calm => Quiet'
  BY DEF Quiet, Calm, SourceQuietAfterPromotion, RollbackAfterJob, Promoting

\* While setup goes on there is nothing to promote, and nothing was rolled back.
LEMMA SetupKeepsQuiet ==
    ASSUME TypeOK, IInv, NEW p \in Procs, SetupNext(p)
    PROVE  Quiet'
<1>1. phase[p] = "setup" /\ started' = started
  <2> USE DEF Step, Advance, At
  <2>1. CASE \E profile \in Profiles : DeleteOldProfile(p, profile) \/ CreateConnectionProfile(p, profile)
    BY <2>1 DEF DeleteOldProfile, DeleteConnectionProfile, CreateConnectionProfile, CleanupConnectionProfile
  <2>2. CASE StartMigrationJob(p)
    BY <2>2 DEF StartMigrationJob, Finish
  <2> QED
    BY <2>1, <2>2 DEF SetupNext, ResolveSource, CreateHelper, AwaitHelper,
       DeleteHelperDatabaseResource, DropHelperDatabase, BackUpSource, DisableCascadingDelete,
       CreateNetworkPolicy, PrepareSourceInstance, PrepareSourceDatabase, DropPgAuditExtension,
       PrepareTargetInstance, PrepareTargetDatabase, DeleteMigrationJob, CreateMigrationJob,
       DemoteTargetInstance, ResolveTargetAgain, AddTargetOutgoingIps
<1>2. started = {"setup"} /\ ~Promoting
  BY <1>1 DEF IInv, Stages, OneProgram, HelperKept, Promoting
<1>3. ~Promoting'
  <2> USE <1>2 DEF Promoting, Step, Advance, appVars, cnrmVars, sqlVars, dmsVars
  <2>1. CASE \E profile \in Profiles : DeleteOldProfile(p, profile) \/ CreateConnectionProfile(p, profile)
    BY <2>1 DEF DeleteOldProfile, DeleteConnectionProfile, CreateConnectionProfile, CleanupConnectionProfile
  <2>2. CASE StartMigrationJob(p) \/ CreateMigrationJob(p) \/ DeleteMigrationJob(p, "setup", "deleteJob", "deleteProfiles")
    BY <2>2 DEF StartMigrationJob, CreateMigrationJob, DeleteMigrationJob
  <2> QED
    BY <2>1, <2>2 DEF SetupNext, ResolveSource, CreateHelper, AwaitHelper,
       DeleteHelperDatabaseResource, DropHelperDatabase, BackUpSource, DisableCascadingDelete,
       CreateNetworkPolicy, PrepareSourceInstance, PrepareSourceDatabase, DropPgAuditExtension,
       PrepareTargetInstance, PrepareTargetDatabase,
       DemoteTargetInstance, ResolveTargetAgain, AddTargetOutgoingIps
<1> QED
  BY <1>1, <1>2, <1>3 DEF Quiet, SourceQuietAfterPromotion, RollbackAfterJob, RollbackStarted, Promoting

LEMMA PromoteKeepsQuiet ==
    ASSUME Disciplined, TypeOK, IInv, Quiet, NEW p \in Procs, PromoteNext(p)
    PROVE  Quiet'
<1> USE DEF Step, Advance, appVars, cnrmVars, sqlVars, dmsVars
<1>1. phase[p] = "promote" /\ started' = started
  BY DEF PromoteNext, ResolveAppInstance, GetHelper, ResolveTarget, CheckReadyForPromotion,
     ScaleApplication, InspectJob, StartPromotion, AwaitPromotion,
     UpdateTargetInstanceAfterPromotion, PrepareTargetDatabase, TakeOverTarget,
     ChangeOwnership, DeleteHelperApplication, DeleteTargetDatabaseResource,
     AwaitCnrmHandover, UpdateApplicationInstance, AwaitRollout, UpdateApplicationUser,
     BackUpTarget, Finish, At
<1>2. PromoteStarted /\ ~RollbackStarted
  BY <1>1 DEF IInv, Stages, OneProgram, PromoteStarted, RollbackStarted
<1>3. SourceQuietAfterPromotion'
  <2>1. CASE StartPromotion(p)
    <3>1. pods # "up" \/ SafeCopy
      BY <1>2, <2>1 DEF StartPromotion, At, IInv, PromoteStage, ScaledSteps, Stages
    <3> QED
      BY <2>1, <3>1 DEF StartPromotion, SafeCopy, SourceQuietAfterPromotion
  <2>2. CASE ScaleApplication(p, "promote", "scale", "promote")
    BY <2>2 DEF ScaleApplication, ScaledDown, Quiet, SourceQuietAfterPromotion
  <2>3. CASE PromoteNext(p) /\ ~StartPromotion(p) /\ ~ScaleApplication(p, "promote", "scale", "promote")
    <3>1. UNCHANGED <<job, live, pods>>
      BY <2>3 DEF PromoteNext, ResolveAppInstance, GetHelper, ResolveTarget,
         CheckReadyForPromotion, InspectJob, AwaitPromotion,
         UpdateTargetInstanceAfterPromotion, PrepareTargetDatabase, TakeOverTarget,
         ChangeOwnership, DeleteHelperApplication, DeleteTargetDatabaseResource,
         AwaitCnrmHandover, UpdateApplicationInstance, AwaitRollout, UpdateApplicationUser,
         BackUpTarget
    <3> QED
      BY <3>1 DEF Quiet, SourceQuietAfterPromotion
  <2> QED
    BY <2>1, <2>2, <2>3
<1> QED
  BY <1>1, <1>2, <1>3 DEF Quiet, RollbackAfterJob, RollbackStarted

\* The update of the application comes after the deletion of the job.
LEMMA RollbackKeepsQuiet ==
    ASSUME TypeOK, IInv, Quiet, NEW p \in Procs, RollbackNext(p)
    PROVE  Quiet'
<1> USE DEF Step, Advance, appVars, cnrmVars, sqlVars, dmsVars
<1>1. CASE UpdateApplicationInstance(Src, p, "rollback", "update", "rollout")
  <2>1. job = "absent" /\ job' = "absent"
    BY <1>1 DEF UpdateApplicationInstance, At, IInv, RollbackStage, JoblessSteps, RollbackSteps, Stages, NearCopy
  <2> QED
    BY <2>1 DEF Quiet, SourceQuietAfterPromotion, RollbackAfterJob
<1>2. CASE ScaleIfSwitched(p)
  <2>1. Calm
    BY <1>2 DEF ScaleIfSwitched, ScaledDown, Calm, Promoting, RollbackStarted
  <2> QED
    BY <2>1, CalmKeepsQuiet
<1>3. CASE DeleteNetworkPolicies(p, "rollback", "netpol")
  <2>1. Calm
    BY <1>3 DEF DeleteNetworkPolicies, Finish, Calm, Promoting, RollbackStarted
  <2> QED
    BY <2>1, CalmKeepsQuiet
<1>4. CASE \/ DeleteHelperApplication(p, "rollback", "deleteHelper", "deleteJob")
          \/ DeleteMigrationJob(p, "rollback", "deleteJob", "sourceProfile")
          \/ CleanupConnectionProfile("sourceProfile", p, "rollback", "sourceProfile", "targetProfile")
          \/ CleanupConnectionProfile("targetProfile", p, "rollback", "targetProfile", "target")
          \/ DeleteInstance(Tgt, p, "rollback", "target", "master")
          \/ DeleteMasterInstance(TRUE, p, "rollback", "master", "dbResource")
          \/ DeleteTargetDatabaseResource(p, "rollback", "dbResource", "cert")
          \/ DeleteSourceCert(p) \/ AwaitDatabaseResourceGone(p)
          \/ AwaitRollout(Src, p, "rollback", "rollout", "user")
          \/ UpdateApplicationUser(Src, p, "rollback", "user", "certs")
          \/ DeleteSslCerts(p, "rollback", "certs", "netpol")
  <2>1. Calm
    BY <1>4 DEF Calm, Promoting, RollbackStarted, DeleteHelperApplication, DeleteMigrationJob,
       DeleteConnectionProfile, DeleteInstance, DeleteMasterInstance,
       DeleteTargetDatabaseResource, DeleteSourceCert, AwaitDatabaseResourceGone,
       AwaitRollout, UpdateApplicationUser, DeleteSslCerts, CleanupConnectionProfile
  <2> QED
    BY <2>1, CalmKeepsQuiet
<1> QED
  BY <1>1, <1>2, <1>3, <1>4 DEF RollbackNext

LEMMA FinalizeIsCalm ==
    ASSUME NEW p \in Procs, FinalizeNext(p)
    PROVE  Calm
BY DEF Calm, Promoting, RollbackStarted, FinalizeNext, ResolveAppInstance, DeleteFinishedJob,
   DeleteMigrationJob, DeleteConnectionProfile, DeleteMasterInstance, DeleteInstance,
   CleanupAuthNetworks, DeleteSslCerts, DeleteNetworkPolicies, Finish, Step, Advance,
   appVars, cnrmVars, sqlVars, dmsVars, CleanupConnectionProfile

\* Naiserator configures the application with the source again only before a
\* promotion, or for a rollback, when the job is gone.
LEMMA EnvironmentKeepsQuiet ==
    ASSUME Disciplined, TypeOK, IInv, Quiet, Environment
    PROVE  Quiet'
<1> USE DEF appVars, cnrmVars, sqlVars, dmsVars, runVars
<1>1. CASE AppReconcile
  <2>1. synced' /\ job' = job /\ live' = spec /\ started' = started
    BY <1>1 DEF AppReconcile
  <2>2. Promoting => spec # Src
    <3>1. CASE RollbackStarted
      BY <1>1, <3>1 DEF AppReconcile, Quiet, RollbackAfterJob, Promoting
    <3>2. CASE PromoteStarted
      BY <1>1, <3>2, InstancesDiffer DEF AppReconcile, IInv, PromoteStage, Stages
    <3>3. CASE ~RollbackStarted /\ ~PromoteStarted
      <4>1. started \subseteq {"setup"}
        BY <3>3 DEF RollbackStarted, PromoteStarted, IInv, Stages, OneProgram, TypeOK, RunTypeOK, Phases
      <4> QED
        BY <4>1 DEF IInv, Stages, HelperKept, Promoting
    <3> QED
      BY <3>1, <3>2, <3>3
  <2> QED
    BY <2>1, <2>2 DEF Quiet, SourceQuietAfterPromotion, RollbackAfterJob, RollbackStarted, Promoting
<1>2. CASE Environment /\ ~AppReconcile
  <2>1. ~Redeploy
    BY DEF Redeploy, Disciplined
  <2>2. Calm
    BY <1>2, <2>1 DEF Environment, Calm, Promoting, RollbackStarted, InstanceReconcile,
       HelperReconcile, PromotionDone, HelperCollected, PodsStop, Write, DumpDone, CatchUp,
       SampleLag, DatabaseCollected
  <2> QED
    BY <2>2, CalmKeepsQuiet
<1> QED
  BY <1>1, <1>2

\* A rollback is begun when nothing is left to be synchronised.
LEMMA StartKeepsQuiet ==
    ASSUME Disciplined, TypeOK, Quiet, NEW p \in Procs, NEW ph \in Phases, Start(p, ph)
    PROVE  Quiet'
<1>1. /\ UNCHANGED <<job, live, pods, synced>> /\ started' = started \cup {ph}
      /\ ph \notin started => synced
  BY DEF Start, MayStart, Begin, Disciplined, AllRules, Phases, appVars, dmsVars
<1> QED
  BY <1>1 DEF Quiet, SourceQuietAfterPromotion, RollbackAfterJob, RollbackStarted

LEMMA NextQuiet ==
    ASSUME Disciplined, TypeOK, IInv, Quiet, [Next]_vars
    PROVE  Quiet'
<1>1. ASSUME NEW p \in Procs, Run(p) PROVE Quiet'
  BY <1>1, SetupKeepsQuiet, PromoteKeepsQuiet, RollbackKeepsQuiet, FinalizeIsCalm,
     CalmKeepsQuiet DEF Run
<1>2. ASSUME NEW p \in Procs, Exit(p) PROVE Quiet'
  <2>1. Calm
    BY <1>2 DEF Exit, Calm, Promoting, RollbackStarted, dmsVars
  <2> QED
    BY <2>1, CalmKeepsQuiet
<1>3. ASSUME UNCHANGED vars PROVE Quiet'
  <2>1. Calm
    BY <1>3 DEF vars, appVars, dmsVars, runVars, Calm, Promoting, RollbackStarted
  <2> QED
    BY <2>1, CalmKeepsQuiet
<1> QED
  BY <1>1, <1>2, <1>3, StartKeepsQuiet, EnvironmentKeepsQuiet DEF Next

\* From the start of the promotion on, the source has no pods but those that are being
\* stopped, whatever is interrupted, repeated or failed unseen: what they still write is
\* not copied, and no other pod is brought back there to write more.  Disciplined leaves
\* out the team's deploys and programs begun before naiserator applied the last change.
THEOREM SourceQuiet == ASSUME Disciplined PROVE Spec => []SourceQuietAfterPromotion
<1>1. Init => Quiet
  BY DEF Init, Quiet, SourceQuietAfterPromotion, RollbackAfterJob, RollbackStarted
<1>2. Spec => []TypeOK /\ []IInv
  BY TypeCorrect, Inductive
<1>3. TypeOK /\ IInv /\ Quiet /\ [Next]_vars => Quiet'
  BY NextQuiet
<1>4. Quiet => SourceQuietAfterPromotion
  BY DEF Quiet
<1> QED
  BY <1>1, <1>2, <1>3, <1>4, PTL DEF Spec

-----------------------------------------------------------------------------
(* A standalone instance under the pods *)

\* The steps of promote after the first change of ownership, which a replica refuses.
OwnedSteps == {"ownApp", "deleteHelper", "dbResource", "cnrm", "update", "rollout",
               "user", "backup"}

\* Once promote has owned a database, or shows that an earlier run has, the target is
\* no replica any more.
NoReplica ==
    /\ PromoteStarted
    /\ \/ spec = Tgt \/ helper # "present"
       \/ \E p \in Procs : phase[p] = "promote" /\ pc[p] \in OwnedSteps
    => sql[Tgt] # "replica"

Upright == ServesStandalone /\ NoReplica

LEMMA SetupKeepsUpright ==
    ASSUME TypeOK, IInv, Upright, NEW p \in Procs, SetupNext(p)
    PROVE  Upright'
<1>1. SourceStays
  BY SetupKeepsSource
<1>2. phase[p] = "setup" /\ started' = started /\ live' = live /\ pods' = pods
  <2> USE DEF Step, Advance, At, appVars
  <2>1. CASE \E profile \in Profiles : DeleteOldProfile(p, profile) \/ CreateConnectionProfile(p, profile)
    BY <2>1 DEF DeleteOldProfile, DeleteConnectionProfile, CreateConnectionProfile, CleanupConnectionProfile
  <2>2. CASE StartMigrationJob(p)
    BY <2>2 DEF StartMigrationJob, Finish
  <2> QED
    BY <2>1, <2>2 DEF SetupNext, ResolveSource, CreateHelper, AwaitHelper,
       DeleteHelperDatabaseResource, DropHelperDatabase, BackUpSource, DisableCascadingDelete,
       CreateNetworkPolicy, PrepareSourceInstance, PrepareSourceDatabase, DropPgAuditExtension,
       PrepareTargetInstance, PrepareTargetDatabase, DeleteMigrationJob, CreateMigrationJob,
       DemoteTargetInstance, ResolveTargetAgain, AddTargetOutgoingIps
<1>3. started = {"setup"} /\ live = Src
  BY <1>2 DEF IInv, Stages, OneProgram, SpecAndDeployment
<1> QED
  BY <1>1, <1>2, <1>3 DEF SourceStays, Upright, ServesStandalone, NoReplica, PromoteStarted

LEMMA PromoteKeepsUpright ==
    ASSUME TypeOK, IInv, Upright, NEW p \in Procs, PromoteNext(p)
    PROVE  Upright'
<1> USE DEF Step, Advance, At, appVars, cnrmVars, sqlVars, dmsVars
<1>1. /\ phase[p] = "promote" /\ started' = started /\ sql' = sql /\ live' = live
      /\ pods' = "up" => pods = "up"
  BY DEF PromoteNext, ResolveAppInstance, GetHelper, ResolveTarget, CheckReadyForPromotion,
     ScaleApplication, ScaledDown, InspectJob, StartPromotion, AwaitPromotion,
     UpdateTargetInstanceAfterPromotion, PrepareTargetDatabase, TakeOverTarget,
     ChangeOwnership, DeleteHelperApplication, DeleteTargetDatabaseResource,
     AwaitCnrmHandover, UpdateApplicationInstance, AwaitRollout, UpdateApplicationUser,
     BackUpTarget, Finish
<1>2. ServesStandalone'
  BY <1>1 DEF Upright, ServesStandalone
<1>3. PromoteStarted
  BY <1>1 DEF IInv, Stages, OneProgram, PromoteStarted
<1>4. NoReplica'
  <2>1. \A q \in Procs : q # p => phase'[q] = phase[q] /\ pc'[q] = pc[q]
    BY DEF TypeOK, RunTypeOK, PromoteNext, ResolveAppInstance, GetHelper, ResolveTarget,
       CheckReadyForPromotion, ScaleApplication, InspectJob, StartPromotion, AwaitPromotion,
       UpdateTargetInstanceAfterPromotion, PrepareTargetDatabase, TakeOverTarget,
       ChangeOwnership, DeleteHelperApplication, DeleteTargetDatabaseResource,
       AwaitCnrmHandover, UpdateApplicationInstance, AwaitRollout, UpdateApplicationUser,
       BackUpTarget, Finish, Leave
  <2>2. CASE GetHelper(p)
    <3>1. UNCHANGED <<spec, helper>> /\ (helper = "absent" \/ pc'[p] \notin OwnedSteps)
      BY <2>2 DEF GetHelper, OwnedSteps, TypeOK, RunTypeOK
    <3> QED
      BY <1>1, <1>3, <2>1, <3>1 DEF Upright, NoReplica, PromoteStarted
  <2>3. CASE ChangeOwnership("postgres", p, "ownPostgres", "ownApp")
    BY <2>3, <1>1 DEF ChangeOwnership, NoReplica
  <2>4. CASE PromoteNext(p) /\ ~GetHelper(p)
             /\ ~ChangeOwnership("postgres", p, "ownPostgres", "ownApp")
    <3>1. pc'[p] \in OwnedSteps => pc[p] \in OwnedSteps
      BY <2>4 DEF OwnedSteps, TypeOK, RunTypeOK,
         PromoteNext, ResolveAppInstance, ResolveTarget,
         CheckReadyForPromotion, ScaleApplication, InspectJob, StartPromotion, AwaitPromotion,
         UpdateTargetInstanceAfterPromotion, PrepareTargetDatabase, TakeOverTarget,
         ChangeOwnership, DeleteHelperApplication, DeleteTargetDatabaseResource,
         AwaitCnrmHandover, UpdateApplicationInstance, AwaitRollout, UpdateApplicationUser,
         BackUpTarget, Finish, Leave
    <3>2. UNCHANGED <<spec, helper>> \/ pc[p] \in OwnedSteps
      BY <2>4 DEF OwnedSteps,
         PromoteNext, ResolveAppInstance, ResolveTarget,
         CheckReadyForPromotion, ScaleApplication, InspectJob, StartPromotion, AwaitPromotion,
         UpdateTargetInstanceAfterPromotion, PrepareTargetDatabase, TakeOverTarget,
         ChangeOwnership, DeleteHelperApplication, DeleteTargetDatabaseResource,
         AwaitCnrmHandover, UpdateApplicationInstance, AwaitRollout, UpdateApplicationUser,
         BackUpTarget, Finish
    <3> QED
      BY <1>1, <1>3, <2>1, <3>1, <3>2 DEF Upright, NoReplica, PromoteStarted
  <2> QED
    BY <2>2, <2>3, <2>4
<1> QED
  BY <1>2, <1>4 DEF Upright

\* The target is deleted when no pod runs on it.
LEMMA RollbackKeepsUpright ==
    ASSUME TypeOK, IInv, Upright, NEW p \in Procs, RollbackNext(p)
    PROVE  Upright'
<1> USE DEF Step, Advance, At, appVars, cnrmVars, sqlVars, dmsVars
<1>1. /\ phase[p] = "rollback" /\ (started' = started \/ started' = {}) /\ live' = live
      /\ pods' = "up" => pods = "up"
  BY DEF RollbackNext, ScaleIfSwitched, ScaledDown, DeleteHelperApplication,
     DeleteMigrationJob, DeleteConnectionProfile, DeleteInstance, DeleteMasterInstance,
     DeleteTargetDatabaseResource, DeleteSourceCert, AwaitDatabaseResourceGone,
     UpdateApplicationInstance, AwaitRollout, UpdateApplicationUser, DeleteSslCerts,
     DeleteNetworkPolicies, Finish, CleanupConnectionProfile
<1>2. ~PromoteStarted'
  BY <1>1 DEF IInv, Stages, OneProgram, PromoteStarted
<1>3. ServesStandalone'
  <2>1. CASE DeleteInstance(Tgt, p, "rollback", "target", "master")
    <3>1. live = Tgt => pods # "up"
      BY <2>1 DEF DeleteInstance, IInv, RollbackStage, Stages, NearCopy
    <3>2. live = Src => sql'[live] = sql[live]
      BY <2>1, InstancesDiffer DEF DeleteInstance, InstanceGone, TypeOK, DataTypeOK, Inst
    <3> QED
      BY <1>1, <3>1, <3>2 DEF Upright, ServesStandalone, TypeOK, DataTypeOK, Inst
  <2>2. CASE RollbackNext(p) /\ ~DeleteInstance(Tgt, p, "rollback", "target", "master")
    <3>1. sql' = sql
      BY <2>2 DEF RollbackNext, ScaleIfSwitched, DeleteHelperApplication, DeleteMigrationJob,
         DeleteConnectionProfile, DeleteMasterInstance, DeleteTargetDatabaseResource,
         DeleteSourceCert, AwaitDatabaseResourceGone, UpdateApplicationInstance,
         AwaitRollout, UpdateApplicationUser, DeleteSslCerts, DeleteNetworkPolicies, CleanupConnectionProfile
    <3> QED
      BY <1>1, <3>1 DEF Upright, ServesStandalone
  <2> QED
    BY <2>1, <2>2
<1> QED
  BY <1>2, <1>3 DEF Upright, NoReplica

LEMMA FinalizeKeepsUpright ==
    ASSUME TypeOK, IInv, Upright, NEW p \in Procs, FinalizeNext(p)
    PROVE  Upright'
<1> USE DEF Step, Advance, At, appVars, cnrmVars, sqlVars, dmsVars
<1>1. /\ phase[p] = "finalize" /\ UNCHANGED <<spec, live, pods, helper, started>>
      /\ sql' = sql \/ sql' = [sql EXCEPT ![Src] = "absent"]
  BY DEF FinalizeNext, ResolveAppInstance, DeleteFinishedJob, DeleteMigrationJob,
     DeleteConnectionProfile, DeleteMasterInstance, DeleteInstance, InstanceGone,
     CleanupAuthNetworks, DeleteSslCerts, DeleteNetworkPolicies, Finish, CleanupConnectionProfile
<1>2. live = Tgt
  BY <1>1 DEF IInv, Stages, OneProgram, FinalizeStage, NearCopy
<1>3. sql'[Tgt] = sql[Tgt]
  BY <1>1, InstancesDiffer DEF TypeOK, DataTypeOK, Inst
<1>4. \A q \in Procs : phase'[q] = "promote" => phase[q] = "promote" /\ pc'[q] = pc[q]
  BY <1>1 DEF TypeOK, RunTypeOK, FinalizeNext, ResolveAppInstance, DeleteFinishedJob,
     DeleteMigrationJob, DeleteConnectionProfile, DeleteMasterInstance, DeleteInstance,
     CleanupAuthNetworks, DeleteSslCerts, DeleteNetworkPolicies, Finish, Leave, CleanupConnectionProfile
<1> QED
  BY <1>1, <1>2, <1>3, <1>4 DEF Upright, ServesStandalone, NoReplica, PromoteStarted

\* Naiserator drops no instance, and starts the pods on one that is no replica.
LEMMA ReconcileKeepsUpright ==
    ASSUME TypeOK, IInv, WayBack, Upright, AppReconcile
    PROVE  Upright'
<1>1. \A i \in Inst \ {spec} : ~(owner[i] = "app" /\ policy[i])
  BY DEF AppReconcile, Inst, IInv, SpecAndDeployment, CascadeOff, Stages
<1>2. live' = spec /\ spec' = spec /\ UNCHANGED <<helper, runVars>>
  BY DEF AppReconcile
<1>3. sql' = [i \in Inst |-> IF i = spec /\ sql[i] = "absent" THEN "standalone" ELSE sql[i]]
  BY <1>1 DEF AppReconcile
<1>4. sql[spec] # "replica"
  <2>1. CASE spec = Src
    <3>1. "finalize" \notin started
      BY <2>1, InstancesDiffer DEF IInv, Stages, FinalizeStage, NearCopy
    <3> QED
      BY <2>1, <3>1 DEF WayBack
  <2>2. CASE spec = Tgt
    <3>1. PromoteStarted
      BY <2>2, InstancesDiffer
         DEF AppReconcile, IInv, SpecAndDeployment, RollbackStage, RollbackStarted, PromoteStarted, Stages, NearCopy
    <3> QED
      BY <2>2, <3>1 DEF Upright, NoReplica
  <2> QED
    BY <2>1, <2>2 DEF TypeOK, DataTypeOK, Inst
<1>5. ServesStandalone'
  BY <1>2, <1>3, <1>4 DEF ServesStandalone, TypeOK, DataTypeOK
<1>6. sql'[Tgt] = "replica" => sql[Tgt] = "replica"
  BY <1>3 DEF Inst
<1> QED
  BY <1>2, <1>5, <1>6 DEF Upright, NoReplica, PromoteStarted, runVars

LEMMA EnvironmentKeepsUpright ==
    ASSUME Disciplined, TypeOK, IInv, WayBack, Upright, Environment
    PROVE  Upright'
<1>1. CASE AppReconcile
  BY <1>1, ReconcileKeepsUpright
<1>2. CASE Environment /\ ~AppReconcile
  <2> USE DEF appVars, cnrmVars, sqlVars, dmsVars, runVars
  <2>1. ~Redeploy
    BY DEF Redeploy, Disciplined
  <2>2. /\ UNCHANGED <<spec, live, runVars>> /\ (pods' = "up" => pods = "up")
        /\ helper' # "present" => helper # "present"
    BY <1>2, <2>1 DEF Environment, InstanceReconcile, HelperReconcile, PromotionDone,
       HelperCollected, PodsStop, Write, DumpDone, CatchUp, SampleLag, DatabaseCollected
  <2>3. \A i \in Inst : sql'[i] = sql[i] \/ sql'[i] = "standalone"
    BY <1>2, <2>1 DEF TypeOK, DataTypeOK, Inst, Environment, InstanceReconcile,
       HelperReconcile, PromotionDone, HelperCollected, PodsStop, Write, DumpDone, CatchUp,
       SampleLag, DatabaseCollected
  <2> QED
    BY <2>2, <2>3 DEF Upright, ServesStandalone, NoReplica, PromoteStarted, TypeOK, DataTypeOK, Inst
<1> QED
  BY <1>1, <1>2

\* When promote is started the first time, the helper application is there.
LEMMA StartKeepsUpright ==
    ASSUME Disciplined, TypeOK, IInv, Upright, NEW p \in Procs, NEW ph \in Phases, Start(p, ph)
    PROVE  Upright'
<1>1. /\ UNCHANGED <<spec, live, pods, helper, sql>> /\ started' = started \cup {ph}
      /\ phase[p] = "none" /\ InOrder(ph)
      /\ phase' = [phase EXCEPT ![p] = ph] /\ pc' = [pc EXCEPT ![p] = FirstStep(ph)]
  BY DEF Start, MayStart, Begin, Disciplined, AllRules, Phases, appVars, cnrmVars, sqlVars
<1>2. ServesStandalone'
  BY <1>1 DEF Upright, ServesStandalone
<1>3. NoReplica'
  <2>1. pc'[p] \notin OwnedSteps
    BY <1>1 DEF FirstStep, OwnedSteps, TypeOK, RunTypeOK
  <2>2. \A q \in Procs : phase'[q] = "promote" /\ pc'[q] \in OwnedSteps =>
                         phase[q] = "promote" /\ pc[q] \in OwnedSteps
    BY <1>1, <2>1 DEF TypeOK, RunTypeOK
  <2>3. CASE PromoteStarted
    BY <1>1, <2>2, <2>3 DEF Upright, NoReplica, PromoteStarted
  <2>4. CASE ~PromoteStarted /\ PromoteStarted'
    <3>1. ph = "promote" /\ "promote" \notin started
      BY <1>1, <2>4 DEF PromoteStarted
    <3>2. helper = "present" /\ spec = Src
      BY <1>1, <3>1 DEF InOrder, IInv, HelperKept, OneProgram, SpecAndDeployment, Stages
    <3>3. \A q \in Procs : phase[q] # "promote"
      BY <3>1 DEF IInv, Stages, OneProgram
    <3> QED
      BY <1>1, <2>2, <3>2, <3>3, InstancesDiffer DEF NoReplica
  <2> QED
    BY <2>3, <2>4 DEF NoReplica
<1> QED
  BY <1>2, <1>3 DEF Upright

LEMMA NextUpright ==
    ASSUME Disciplined, TypeOK, IInv, WayBack, Upright, [Next]_vars
    PROVE  Upright'
<1>1. ASSUME NEW p \in Procs, Run(p) PROVE Upright'
  BY <1>1, SetupKeepsUpright, PromoteKeepsUpright, RollbackKeepsUpright,
     FinalizeKeepsUpright DEF Run
<1>2. ASSUME NEW p \in Procs, Exit(p) PROVE Upright'
  <2>1. UNCHANGED <<spec, live, pods, helper, sql, started>>
    BY <1>2 DEF Exit, cnrmVars, sqlVars
  <2>2. \A q \in Procs : phase'[q] = "promote" => phase[q] = "promote" /\ pc'[q] = pc[q]
    BY <1>2 DEF Exit, Leave, TypeOK, RunTypeOK
  <2> QED
    BY <2>1, <2>2 DEF Upright, ServesStandalone, NoReplica, PromoteStarted
<1>3. ASSUME UNCHANGED vars PROVE Upright'
  BY <1>3 DEF vars, appVars, cnrmVars, sqlVars, runVars, Upright, ServesStandalone,
     NoReplica, PromoteStarted
<1> QED
  BY <1>1, <1>2, <1>3, StartKeepsUpright, EnvironmentKeepsUpright DEF Next

\* In a disciplined migration the pods never run on a replica or on an instance that is
\* gone: also when the promotion failed unseen, as the change of ownership then does not
\* get past.
THEOREM StandaloneServed == ASSUME Disciplined PROVE Spec => []ServesStandalone
<1>1. Init => Upright
  BY InstancesDiffer DEF Init, Inst, Upright, ServesStandalone, NoReplica, PromoteStarted
<1>2. Spec => []TypeOK /\ []IInv /\ []WayBack
  BY TypeCorrect, Inductive, WayBackKept
<1>3. TypeOK /\ IInv /\ WayBack /\ Upright /\ [Next]_vars => Upright'
  BY NextUpright
<1>4. Upright => ServesStandalone
  BY DEF Upright
<1> QED
  BY <1>1, <1>2, <1>3, <1>4, PTL DEF Spec
=============================================================================
