--------------------------- MODULE InvariantProofs ---------------------------
(***************************************************************************)
(* IInv is an inductive invariant of Spec for every Procs, given the rules *)
(* and the environment of Disciplined.  A step that leaves the variables   *)
(* of IInv alone and enters no stage of its program keeps it (QuietStep);  *)
(* for every other action there is a step for each conjunct it can         *)
(* disturb, citing the conjuncts it rests on.                              *)
(***************************************************************************)
EXTENDS MigratorInv, MigratorProofs

-----------------------------------------------------------------------------
(* Control *)

LEMMA StepControl ==
  ASSUME TypeOK, NEW p \in Procs, NEW ph, NEW from, NEW to, Advance(p, ph, from, to)
  PROVE  /\ phase[p] = ph /\ pc[p] = from
         /\ \A q \in Procs : pc'[q] = IF q = p THEN to ELSE pc[q]
         /\ UNCHANGED <<phase, started, completed>>
  BY DEF TypeOK, RunTypeOK, Advance, At

LEMMA LeaveControl ==
  ASSUME TypeOK, NEW p \in Procs, Leave(p)
  PROVE  \A q \in Procs : /\ phase'[q] = (IF q = p THEN "none" ELSE phase[q])
                          /\ pc'[q] = (IF q = p THEN "idle" ELSE pc[q])
  BY DEF TypeOK, RunTypeOK, Leave

\* What IInv says of the world is about these variables.
invVars == <<spec, cascade, synced, live, pods, helper, policy, job, fresh, near,
             "going" \in dbRes>>

\* The step leads to none of the stages IInv distinguishes that the run is not in.
NoNewStage(ph, from, to) ==
  /\ ph = "setup" => /\ to \in AfterCascade => from \in AfterCascade
                     /\ to \in AfterHelper => from \in AfterHelper
  /\ ph = "promote" => /\ to \in ScaledSteps => from \in ScaledSteps
                       /\ to \in PromotedSteps => from \in PromotedSteps
                       /\ to \in SwitchedSteps => from \in SwitchedSteps
  /\ ph = "rollback" => /\ to # "scale" => from # "scale"
                        /\ to \in JoblessSteps => from \in JoblessSteps
                        /\ to \in UpdatedSteps => from \in UpdatedSteps
                        /\ to \in RestoredSteps => from \in RestoredSteps

LEMMA QuietStep ==
  ASSUME TypeOK, IInv, NEW p \in Procs, NEW ph, NEW from, NEW to,
         Advance(p, ph, from, to), NoNewStage(ph, from, to), UNCHANGED invVars
  PROVE  Stages'
<1> USE StepControl DEF IInv, Stages, NoNewStage, invVars
<1>1. OneProgram'
  BY DEF OneProgram
<1>2. CascadeOff'
  BY DEF CascadeOff
<1>3. SpecAndDeployment'
  BY DEF SpecAndDeployment
<1>4. HelperKept'
  BY DEF HelperKept
<1>5. PromoteStage'
  BY DEF PromoteStage, PromoteStarted, SafeCopy, NearCopy
<1>6. RollbackStage'
  BY DEF RollbackStage, RollbackStarted, NearCopy
<1>7. FinalizeStage'
  BY DEF FinalizeStage, NearCopy
<1> QED
  BY <1>1, <1>2, <1>3, <1>4, <1>5, <1>6, <1>7

-----------------------------------------------------------------------------
(* Initially *)

LEMMA InitInv == Init => IInv
<1> SUFFICES ASSUME Init PROVE IInv
  OBVIOUS
<1>1. policy[Tgt] = FALSE /\ policy[Src] = cascade
  BY InstancesDiffer DEF Init, Inst
<1> QED
  BY <1>1 DEF Init, IInv, Stages, LagPoints, OneProgram, CascadeOff, SpecAndDeployment,
     HelperKept,
     PromoteStage, RollbackStage, FinalizeStage, PromoteStarted, RollbackStarted, NearCopy

-----------------------------------------------------------------------------
(* The programs *)

LEMMA SetupKeepsStages ==
  ASSUME Disciplined, TypeOK, IInv, NEW p \in Procs, SetupNext(p)
  PROVE  Stages'
<1> USE InstancesDiffer DEF Step, appVars, cnrmVars, sqlVars, dmsVars
<1>1. CASE \/ ResolveSource(p) \/ AwaitHelper(p) \/ DeleteHelperDatabaseResource(p)
          \/ BackUpSource(p) \/ CreateNetworkPolicy(p)
          \/ PrepareSourceInstance(p) \/ PrepareSourceDatabase(p)
          \/ DropPgAuditExtension(p) \/ PrepareTargetInstance(p)
          \/ PrepareTargetDatabase(p, "setup", "deleteJob")
          \/ ResolveTargetAgain(p) \/ AddTargetOutgoingIps(p)
  <2>1. \E from, to : /\ Advance(p, "setup", from, to) /\ NoNewStage("setup", from, to)
                     /\ UNCHANGED invVars
    BY <1>1 DEF invVars, NoNewStage, AfterCascade, AfterHelper, SetupSteps,
       ResolveSource, AwaitHelper, DeleteHelperDatabaseResource, BackUpSource,
       CreateNetworkPolicy, PrepareSourceInstance, PrepareSourceDatabase,
       DropPgAuditExtension, PrepareTargetInstance, PrepareTargetDatabase,
       ResolveTargetAgain, AddTargetOutgoingIps
  <2> QED
    BY <2>1, QuietStep
<1>2. CASE \E profile \in Profiles : DeleteOldProfile(p, profile)
  <2>1. \E from, to : /\ Advance(p, "setup", from, to) /\ NoNewStage("setup", from, to)
                     /\ UNCHANGED invVars
    BY <1>2 DEF invVars, NoNewStage, AfterCascade, AfterHelper, SetupSteps,
       DeleteOldProfile, DeleteConnectionProfile, Profiles
  <2> QED
    BY <2>1, QuietStep
<1>3. CASE \E profile \in Profiles : CreateConnectionProfile(p, profile)
  <2>1. \E from, to : /\ Advance(p, "setup", from, to) /\ NoNewStage("setup", from, to)
                     /\ UNCHANGED invVars
    BY <1>3 DEF invVars, NoNewStage, AfterCascade, AfterHelper, SetupSteps,
       CreateConnectionProfile, ToCreate, Profiles
  <2> QED
    BY <2>1, QuietStep
<1>4. CASE CreateHelper(p)
  <2>1. HelperKept'
    BY <1>4, StepControl DEF IInv, Stages, CreateHelper, SetupSteps, HelperKept, AfterHelper,
       TypeOK, DataTypeOK, Disciplined, AllRules, Phases, Inst
  <2> QED
    BY <1>4, <2>1, StepControl DEF IInv, Stages, CreateHelper, SetupSteps, OneProgram,
       CascadeOff, AfterCascade, SpecAndDeployment, PromoteStage, PromoteStarted,
       SafeCopy, ScaledSteps, PromotedSteps, SwitchedSteps, RollbackStage,
       RollbackStarted, JoblessSteps, UpdatedSteps, RestoredSteps, FinalizeStage, NearCopy
<1>5. CASE DropHelperDatabase(p)
  <2>1. PromoteStage'
    BY <1>5, StepControl DEF IInv, Stages, DropHelperDatabase, SetupSteps, PromoteStage,
       PromoteStarted, SafeCopy, ScaledSteps, PromotedSteps, SwitchedSteps, OneProgram, NearCopy
  <2>2. RollbackStage'
    BY <1>5, StepControl DEF IInv, Stages, DropHelperDatabase, SetupSteps, RollbackStage,
       RollbackStarted, JoblessSteps, UpdatedSteps, RestoredSteps, OneProgram, NearCopy
  <2>3. FinalizeStage'
    BY <1>5, StepControl DEF IInv, Stages, DropHelperDatabase, SetupSteps, FinalizeStage,
       OneProgram, NearCopy
  <2> QED
    BY <1>5, <2>1, <2>2, <2>3, StepControl DEF IInv, Stages, DropHelperDatabase, SetupSteps,
       OneProgram, CascadeOff, AfterCascade, SpecAndDeployment, HelperKept,
       AfterHelper
<1>6. CASE DisableCascadingDelete(p)
  <2>1. CascadeOff'
    BY <1>6, StepControl DEF IInv, Stages, DisableCascadingDelete, SetupSteps, CascadeOff,
       AfterCascade, TypeOK, DataTypeOK, Disciplined, AllRules, Phases, Inst
  <2>2. SpecAndDeployment'
    BY <1>6, StepControl DEF IInv, Stages, DisableCascadingDelete, SetupSteps,
       SpecAndDeployment, TypeOK, DataTypeOK, Disciplined, AllRules, Phases, Inst
  <2>3. PromoteStage'
    BY <1>6, StepControl DEF IInv, Stages, DisableCascadingDelete, SetupSteps, PromoteStage,
       PromoteStarted, SafeCopy, ScaledSteps, PromotedSteps, SwitchedSteps, OneProgram, NearCopy
  <2>4. RollbackStage'
    BY <1>6, StepControl DEF IInv, Stages, DisableCascadingDelete, SetupSteps, RollbackStage,
       RollbackStarted, JoblessSteps, UpdatedSteps, RestoredSteps, OneProgram, NearCopy
  <2>5. FinalizeStage'
    BY <1>6, StepControl DEF IInv, Stages, DisableCascadingDelete, SetupSteps, FinalizeStage,
       OneProgram, NearCopy
  <2> QED
    BY <1>6, <2>1, <2>2, <2>3, <2>4, <2>5, StepControl DEF IInv, Stages,
       DisableCascadingDelete, SetupSteps, OneProgram, HelperKept, AfterHelper
<1>7. CASE DeleteMigrationJob(p, "setup", "deleteJob", "deleteProfiles")
  <2> QED
    BY <1>7, StepControl DEF IInv, Stages, DeleteMigrationJob, SetupSteps, OneProgram,
       CascadeOff, AfterCascade, SpecAndDeployment, HelperKept, AfterHelper,
       PromoteStage, PromoteStarted, SafeCopy, ScaledSteps, PromotedSteps,
       SwitchedSteps, RollbackStage, RollbackStarted, JoblessSteps, UpdatedSteps,
       RestoredSteps, FinalizeStage, NearCopy
<1>8. CASE CreateMigrationJob(p)
  <2>1. RollbackStage'
    BY <1>8, StepControl DEF IInv, Stages, CreateMigrationJob, SetupSteps, RollbackStage,
       RollbackStarted, JoblessSteps, UpdatedSteps, RestoredSteps, OneProgram, NearCopy
  <2> QED
    BY <1>8, <2>1, StepControl DEF IInv, Stages, CreateMigrationJob, SetupSteps, OneProgram,
       CascadeOff, AfterCascade, SpecAndDeployment, HelperKept, AfterHelper,
       PromoteStage, PromoteStarted, SafeCopy, ScaledSteps, PromotedSteps,
       SwitchedSteps, FinalizeStage, NearCopy
<1>9. CASE DemoteTargetInstance(p)
  <2>1. PromoteStage'
    BY <1>9, StepControl DEF IInv, Stages, DemoteTargetInstance, SetupSteps, PromoteStage,
       PromoteStarted, SafeCopy, ScaledSteps, PromotedSteps, SwitchedSteps, OneProgram, NearCopy
  <2>2. RollbackStage'
    BY <1>9, StepControl DEF IInv, Stages, DemoteTargetInstance, SetupSteps, RollbackStage,
       RollbackStarted, JoblessSteps, UpdatedSteps, RestoredSteps, OneProgram, NearCopy
  <2>3. FinalizeStage'
    BY <1>9, StepControl DEF IInv, Stages, DemoteTargetInstance, SetupSteps, FinalizeStage,
       OneProgram, NearCopy
  <2> QED
    BY <1>9, <2>1, <2>2, <2>3, StepControl DEF IInv, Stages, DemoteTargetInstance, SetupSteps,
       OneProgram, CascadeOff, AfterCascade, SpecAndDeployment, HelperKept,
       AfterHelper
<1>10. CASE StartMigrationJob(p)
  <2> QED
    BY <1>10, LeaveControl DEF IInv, Stages, StartMigrationJob, Finish, At, SetupSteps,
       OneProgram, CascadeOff, AfterCascade, SpecAndDeployment, HelperKept,
       AfterHelper, PromoteStage, PromoteStarted, SafeCopy, ScaledSteps,
       PromotedSteps, SwitchedSteps, RollbackStage, RollbackStarted, JoblessSteps,
       UpdatedSteps, RestoredSteps, FinalizeStage, NearCopy
<1> QED
  BY <1>1, <1>2, <1>3, <1>4, <1>5, <1>6, <1>7, <1>8, <1>9, <1>10 DEF SetupNext

LEMMA PromoteKeepsStages ==
  ASSUME Disciplined, TypeOK, IInv, NEW p \in Procs, PromoteNext(p)
  PROVE  Stages'
<1> USE InstancesDiffer DEF Step, appVars, cnrmVars, sqlVars, dmsVars
<1>1. CASE \/ ResolveAppInstance(p, "promote", "resolve", "helper")
          \/ ResolveTarget(p) \/ CheckReadyForPromotion(p) \/ AwaitPromotion(p)
          \/ UpdateTargetInstanceAfterPromotion(p)
          \/ PrepareTargetDatabase(p, "promote", "ownPostgres")
          \/ ChangeOwnership("postgres", p, "ownPostgres", "ownApp")
          \/ ChangeOwnership("app", p, "ownApp", "deleteHelper")
          \/ AwaitCnrmHandover(p)
          \/ AwaitRollout(Tgt, p, "promote", "rollout", "user")
          \/ UpdateApplicationUser(Tgt, p, "promote", "user", "backup")
  <2>1. \E from, to : /\ Advance(p, "promote", from, to) /\ NoNewStage("promote", from, to)
                     /\ UNCHANGED invVars
    BY <1>1 DEF invVars, NoNewStage, ScaledSteps, PromotedSteps, SwitchedSteps,
       ResolveAppInstance, ResolveTarget, CheckReadyForPromotion, AwaitPromotion,
       UpdateTargetInstanceAfterPromotion, PrepareTargetDatabase, ChangeOwnership,
       AwaitCnrmHandover, AwaitRollout, UpdateApplicationUser
  <2> QED
    BY <2>1, QuietStep
<1>2. CASE GetHelper(p)
  <2>1. PromoteStage'
    BY <1>2, StepControl DEF IInv, Stages, GetHelper, PromoteStage, PromoteStarted, SafeCopy,
       ScaledSteps, PromotedSteps, SwitchedSteps, NearCopy
  <2> QED
    BY <1>2, <2>1, StepControl DEF IInv, Stages, GetHelper, OneProgram, CascadeOff,
       AfterCascade, SpecAndDeployment, HelperKept, AfterHelper, RollbackStage,
       RollbackStarted, JoblessSteps, UpdatedSteps, RestoredSteps, FinalizeStage, NearCopy
<1>3. CASE ScaleApplication(p, "promote", "scale", "promote")
  <2>1. PromoteStage'
    BY <1>3, StepControl DEF IInv, Stages, ScaleApplication, ScaledDown, PromoteStage,
       PromoteStarted, SafeCopy, ScaledSteps, PromotedSteps, SwitchedSteps, NearCopy
  <2> QED
    BY <1>3, <2>1, StepControl DEF IInv, Stages, ScaleApplication, ScaledDown, OneProgram,
       CascadeOff, AfterCascade, SpecAndDeployment, HelperKept, AfterHelper,
       RollbackStage, RollbackStarted, JoblessSteps, UpdatedSteps, RestoredSteps,
       FinalizeStage, NearCopy
<1>4. CASE InspectJob(p)
  <2>1. PromoteStage'
    BY <1>4, StepControl DEF IInv, Stages, InspectJob, PromoteStage, PromoteStarted, SafeCopy,
       ScaledSteps, PromotedSteps, SwitchedSteps, NearCopy
  <2> QED
    BY <1>4, <2>1, StepControl DEF IInv, Stages, InspectJob, OneProgram, CascadeOff,
       AfterCascade, SpecAndDeployment, HelperKept, AfterHelper, RollbackStage,
       RollbackStarted, JoblessSteps, UpdatedSteps, RestoredSteps, FinalizeStage, NearCopy
<1>5. CASE StartPromotion(p)
  <2>1. HelperKept'
    BY <1>5, StepControl DEF IInv, Stages, StartPromotion, LagReachedZero, Disciplined,
       HelperKept, AfterHelper, OneProgram
  <2>2. PromoteStage'
    BY <1>5, StepControl DEF IInv, Stages, StartPromotion, LagReachedZero, ZeroPoints, LagPoints, Disciplined,
       PromoteStage, PromoteStarted, SafeCopy, ScaledSteps, PromotedSteps,
       SwitchedSteps, NearCopy
  <2> QED
    BY <1>5, <2>1, <2>2, StepControl DEF IInv, Stages, StartPromotion, LagReachedZero,
       Disciplined, OneProgram, CascadeOff, AfterCascade, SpecAndDeployment,
       RollbackStage, RollbackStarted, JoblessSteps, UpdatedSteps, RestoredSteps,
       FinalizeStage, NearCopy
<1>6. CASE DeleteHelperApplication(p, "promote", "deleteHelper", "dbResource")
  <2>1. HelperKept'
    BY <1>6, StepControl DEF IInv, Stages, DeleteHelperApplication, HelperKept, AfterHelper,
       OneProgram
  <2>2. PromoteStage'
    BY <1>6, StepControl DEF IInv, Stages, DeleteHelperApplication, PromoteStage,
       PromoteStarted, SafeCopy, ScaledSteps, PromotedSteps, SwitchedSteps, NearCopy
  <2> QED
    BY <1>6, <2>1, <2>2, StepControl DEF IInv, Stages, DeleteHelperApplication, OneProgram,
       CascadeOff, AfterCascade, SpecAndDeployment, RollbackStage, RollbackStarted,
       JoblessSteps, UpdatedSteps, RestoredSteps, FinalizeStage, NearCopy
<1>7. CASE DeleteTargetDatabaseResource(p, "promote", "dbResource", "cnrm")
  <2>1. CascadeOff'
    BY <1>7, StepControl DEF IInv, Stages, DeleteTargetDatabaseResource, OneProgram,
       CascadeOff, AfterCascade
  <2> QED
    BY <1>7, <2>1, StepControl DEF IInv, Stages, DeleteTargetDatabaseResource,
       OneProgram, SpecAndDeployment, HelperKept, AfterHelper, PromoteStage, PromoteStarted,
       SafeCopy, ScaledSteps, PromotedSteps, SwitchedSteps, RollbackStage, RollbackStarted,
       JoblessSteps, UpdatedSteps, RestoredSteps, FinalizeStage, NearCopy
<1>8. CASE UpdateApplicationInstance(Tgt, p, "promote", "update", "rollout")
  <2>1. SpecAndDeployment'
    BY <1>8, StepControl DEF IInv, Stages, UpdateApplicationInstance, SpecAndDeployment,
       OneProgram
  <2>2. PromoteStage'
    BY <1>8, StepControl DEF IInv, Stages, UpdateApplicationInstance, PromoteStage,
       PromoteStarted, SafeCopy, ScaledSteps, PromotedSteps, SwitchedSteps, NearCopy
  <2>3. RollbackStage'
    BY <1>8, StepControl DEF IInv, Stages, UpdateApplicationInstance, RollbackStage,
       RollbackStarted, JoblessSteps, UpdatedSteps, RestoredSteps, OneProgram, NearCopy
  <2>4. FinalizeStage'
    BY <1>8, StepControl DEF IInv, Stages, UpdateApplicationInstance, FinalizeStage,
       OneProgram, NearCopy
  <2> QED
    BY <1>8, <2>1, <2>2, <2>3, <2>4, StepControl DEF IInv, Stages, UpdateApplicationInstance,
       OneProgram, CascadeOff, AfterCascade, HelperKept, AfterHelper
<1>9. CASE BackUpTarget(p)
  <2>1. PromoteStage'
    BY <1>9, LeaveControl DEF IInv, Stages, BackUpTarget, Finish, At, PromoteStage,
       PromoteStarted, SafeCopy, ScaledSteps, PromotedSteps, SwitchedSteps, NearCopy
  <2> QED
    BY <1>9, <2>1, LeaveControl DEF IInv, Stages, BackUpTarget, Finish, At, OneProgram,
       CascadeOff, AfterCascade, SpecAndDeployment, HelperKept, AfterHelper,
       RollbackStage, RollbackStarted, JoblessSteps, UpdatedSteps, RestoredSteps,
       FinalizeStage, NearCopy
<1> QED
  BY <1>1, <1>2, <1>3, <1>4, <1>5, <1>6, <1>7, <1>8, <1>9 DEF PromoteNext, TakeOverTarget

LEMMA RollbackKeepsStages ==
  ASSUME Disciplined, TypeOK, IInv, NEW p \in Procs, RollbackNext(p)
  PROVE  Stages'
<1> USE InstancesDiffer DEF Step, appVars, cnrmVars, sqlVars, dmsVars
<1>1. CASE \/ CleanupConnectionProfile("sourceProfile", p, "rollback", "sourceProfile", "targetProfile")
          \/ CleanupConnectionProfile("targetProfile", p, "rollback", "targetProfile", "target")
          \/ DeleteMasterInstance(TRUE, p, "rollback", "master", "dbResource")
          \/ DeleteSourceCert(p) \/ AwaitDatabaseResourceGone(p)
          \/ UpdateApplicationUser(Src, p, "rollback", "user", "certs")
          \/ DeleteSslCerts(p, "rollback", "certs", "netpol")
  <2>1. \E from, to : /\ Advance(p, "rollback", from, to) /\ NoNewStage("rollback", from, to)
                     /\ UNCHANGED invVars
    BY <1>1 DEF invVars, NoNewStage, RollbackSteps, JoblessSteps, UpdatedSteps,
       RestoredSteps, CleanupConnectionProfile, DeleteConnectionProfile,
       DeleteMasterInstance, DeleteSourceCert, AwaitDatabaseResourceGone, UpdateApplicationUser, DeleteSslCerts
  <2> QED
    BY <2>1, QuietStep
<1>2. CASE ScaleIfSwitched(p)
  <2>1. PromoteStage'
    BY <1>2, StepControl DEF IInv, Stages, ScaleIfSwitched, ScaledDown, RollbackSteps,
       PromoteStage, PromoteStarted, SafeCopy, ScaledSteps, PromotedSteps,
       SwitchedSteps, NearCopy
  <2>2. RollbackStage'
    BY <1>2, StepControl DEF IInv, Stages, ScaleIfSwitched, ScaledDown, RollbackSteps,
       RollbackStage, RollbackStarted, JoblessSteps, UpdatedSteps, RestoredSteps,
       OneProgram, SpecAndDeployment, TypeOK, DataTypeOK, Disciplined, AllRules,
       Phases, Inst, NearCopy
  <2> QED
    BY <1>2, <2>1, <2>2, StepControl DEF IInv, Stages, ScaleIfSwitched, ScaledDown,
       RollbackSteps, OneProgram, CascadeOff, AfterCascade, SpecAndDeployment,
       HelperKept, AfterHelper, FinalizeStage, NearCopy
<1>3. CASE DeleteHelperApplication(p, "rollback", "deleteHelper", "deleteJob")
  <2>1. HelperKept'
    BY <1>3, StepControl DEF IInv, Stages, DeleteHelperApplication, RollbackSteps, HelperKept,
       AfterHelper, OneProgram
  <2>2. PromoteStage'
    BY <1>3, StepControl DEF IInv, Stages, DeleteHelperApplication, RollbackSteps,
       PromoteStage, PromoteStarted, SafeCopy, ScaledSteps, PromotedSteps,
       SwitchedSteps, OneProgram, NearCopy
  <2> QED
    BY <1>3, <2>1, <2>2, StepControl DEF IInv, Stages, DeleteHelperApplication, RollbackSteps,
       OneProgram, CascadeOff, AfterCascade, SpecAndDeployment, RollbackStage,
       RollbackStarted, JoblessSteps, UpdatedSteps, RestoredSteps, FinalizeStage, NearCopy
<1>4. CASE DeleteMigrationJob(p, "rollback", "deleteJob", "sourceProfile")
  <2>1. RollbackStage'
    BY <1>4, StepControl DEF IInv, Stages, DeleteMigrationJob, RollbackSteps, RollbackStage,
       RollbackStarted, JoblessSteps, UpdatedSteps, RestoredSteps, NearCopy
  <2> QED
    BY <1>4, <2>1, StepControl DEF IInv, Stages, DeleteMigrationJob, RollbackSteps,
       OneProgram, CascadeOff, AfterCascade, SpecAndDeployment, HelperKept,
       AfterHelper, PromoteStage, PromoteStarted, SafeCopy, ScaledSteps,
       PromotedSteps, SwitchedSteps, FinalizeStage, NearCopy
<1>5. CASE DeleteInstance(Tgt, p, "rollback", "target", "master")
  <2>1. PromoteStage'
    BY <1>5, StepControl DEF IInv, Stages, DeleteInstance, InstanceGone, RollbackSteps,
       PromoteStage, PromoteStarted, SafeCopy, ScaledSteps, PromotedSteps,
       SwitchedSteps, OneProgram, NearCopy
  <2>2. RollbackStage'
    BY <1>5, StepControl DEF IInv, Stages, DeleteInstance, InstanceGone, RollbackSteps,
       RollbackStage, RollbackStarted, JoblessSteps, UpdatedSteps, RestoredSteps, NearCopy
  <2>3. FinalizeStage'
    BY <1>5, StepControl DEF IInv, Stages, DeleteInstance, InstanceGone, RollbackSteps,
       FinalizeStage, OneProgram, NearCopy
  <2> QED
    BY <1>5, <2>1, <2>2, <2>3, StepControl DEF IInv, Stages, DeleteInstance, InstanceGone,
       RollbackSteps, OneProgram, CascadeOff, AfterCascade, SpecAndDeployment,
       HelperKept, AfterHelper
<1>6. CASE DeleteTargetDatabaseResource(p, "rollback", "dbResource", "cert")
  <2>1. CascadeOff'
    BY <1>6, StepControl DEF IInv, Stages, DeleteTargetDatabaseResource, RollbackSteps, OneProgram,
       CascadeOff, AfterCascade
  <2> QED
    BY <1>6, <2>1, StepControl DEF IInv, Stages, DeleteTargetDatabaseResource, RollbackSteps,
       OneProgram, SpecAndDeployment, HelperKept, AfterHelper, PromoteStage, PromoteStarted,
       SafeCopy, ScaledSteps, PromotedSteps, SwitchedSteps, RollbackStage, RollbackStarted,
       JoblessSteps, UpdatedSteps, RestoredSteps, FinalizeStage, NearCopy
<1>7. CASE UpdateApplicationInstance(Src, p, "rollback", "update", "rollout")
  <2>1. PromoteStage'
    BY <1>7, StepControl DEF IInv, Stages, UpdateApplicationInstance, RollbackSteps,
       PromoteStage, PromoteStarted, SafeCopy, ScaledSteps, PromotedSteps,
       SwitchedSteps, OneProgram, NearCopy
  <2>2. RollbackStage'
    BY <1>7, StepControl DEF IInv, Stages, UpdateApplicationInstance, RollbackSteps,
       RollbackStage, RollbackStarted, JoblessSteps, UpdatedSteps, RestoredSteps, NearCopy
  <2>3. FinalizeStage'
    BY <1>7, StepControl DEF IInv, Stages, UpdateApplicationInstance, RollbackSteps,
       FinalizeStage, OneProgram, NearCopy
  <2> QED
    BY <1>7, <2>1, <2>2, <2>3, StepControl DEF IInv, Stages, UpdateApplicationInstance,
       RollbackSteps, OneProgram, CascadeOff, AfterCascade, SpecAndDeployment,
       HelperKept, AfterHelper
<1>8. CASE AwaitRollout(Src, p, "rollback", "rollout", "user")
  <2>1. RollbackStage'
    BY <1>8, StepControl DEF IInv, Stages, AwaitRollout, RollbackSteps, RollbackStage,
       RollbackStarted, JoblessSteps, UpdatedSteps, RestoredSteps, SpecAndDeployment, NearCopy
  <2> QED
    BY <1>8, <2>1, StepControl DEF IInv, Stages, AwaitRollout, RollbackSteps, OneProgram,
       CascadeOff, AfterCascade, SpecAndDeployment, HelperKept, AfterHelper,
       PromoteStage, PromoteStarted, SafeCopy, ScaledSteps, PromotedSteps,
       SwitchedSteps, FinalizeStage, NearCopy
<1>9. CASE DeleteNetworkPolicies(p, "rollback", "netpol")
  <2>1. SpecAndDeployment'
    BY <1>9, LeaveControl DEF IInv, Stages, DeleteNetworkPolicies, Finish, At, RollbackSteps,
       SpecAndDeployment, RollbackStage, RollbackStarted, JoblessSteps, UpdatedSteps,
       RestoredSteps, NearCopy
  <2>2. HelperKept'
    BY <1>9, LeaveControl DEF IInv, Stages, DeleteNetworkPolicies, Finish, At, RollbackSteps,
       HelperKept, AfterHelper, RollbackStage, RollbackStarted, JoblessSteps,
       UpdatedSteps, RestoredSteps, NearCopy
  <2>3. FinalizeStage'
    BY <1>9, LeaveControl DEF IInv, Stages, DeleteNetworkPolicies, Finish, At, RollbackSteps,
       FinalizeStage, OneProgram, NearCopy
  <2> QED
    BY <1>9, <2>1, <2>2, <2>3, LeaveControl DEF IInv, Stages, DeleteNetworkPolicies, Finish,
       At, RollbackSteps, OneProgram, CascadeOff, AfterCascade, PromoteStage,
       PromoteStarted, SafeCopy, ScaledSteps, PromotedSteps, SwitchedSteps,
       RollbackStage, RollbackStarted, JoblessSteps, UpdatedSteps, RestoredSteps, NearCopy
<1> QED
  BY <1>1, <1>2, <1>3, <1>4, <1>5, <1>6, <1>7, <1>8, <1>9 DEF RollbackNext

LEMMA FinalizeKeepsStages ==
  ASSUME Disciplined, TypeOK, IInv, NEW p \in Procs, FinalizeNext(p)
  PROVE  Stages'
<1> USE InstancesDiffer DEF Step, appVars, cnrmVars, sqlVars, dmsVars
<1>1. CASE \/ ResolveAppInstance(p, "finalize", "resolve", "deleteJob")
          \/ CleanupConnectionProfile("sourceProfile", p, "finalize", "sourceProfile", "targetProfile")
          \/ CleanupConnectionProfile("targetProfile", p, "finalize", "targetProfile", "master")
          \/ DeleteMasterInstance(view[p] = Tgt, p, "finalize", "master", "source")
          \/ CleanupAuthNetworks(p)
          \/ DeleteSslCerts(p, "finalize", "certs", "netpol")
  <2>1. \E from, to : /\ Advance(p, "finalize", from, to) /\ NoNewStage("finalize", from, to)
                     /\ UNCHANGED invVars
    BY <1>1 DEF invVars, NoNewStage, ResolveAppInstance, CleanupConnectionProfile, DeleteConnectionProfile,
       DeleteMasterInstance, CleanupAuthNetworks, DeleteSslCerts
  <2> QED
    BY <2>1, QuietStep
<1>2. CASE DeleteFinishedJob(p)
  <2> QED
    BY <1>2, StepControl DEF IInv, Stages, DeleteFinishedJob, DeleteMigrationJob,
       FinalizeSteps, OneProgram, CascadeOff, AfterCascade, SpecAndDeployment,
       HelperKept, AfterHelper, PromoteStage, PromoteStarted, SafeCopy, ScaledSteps,
       PromotedSteps, SwitchedSteps, RollbackStage, RollbackStarted, JoblessSteps,
       UpdatedSteps, RestoredSteps, FinalizeStage, NearCopy
<1>3. CASE DeleteInstance(Src, p, "finalize", "source", "networks")
  <2>1. PromoteStage'
    BY <1>3, StepControl DEF IInv, Stages, DeleteInstance, InstanceGone, PromoteStage,
       PromoteStarted, SafeCopy, ScaledSteps, PromotedSteps, SwitchedSteps, NearCopy
  <2>2. FinalizeStage'
    BY <1>3, StepControl DEF IInv, Stages, DeleteInstance, InstanceGone, FinalizeStage,
       OneProgram, NearCopy
  <2> QED
    BY <1>3, <2>1, <2>2, StepControl DEF IInv, Stages, DeleteInstance, InstanceGone,
       OneProgram, CascadeOff, AfterCascade, SpecAndDeployment, HelperKept,
       AfterHelper, RollbackStage, RollbackStarted, JoblessSteps, UpdatedSteps,
       RestoredSteps, NearCopy
<1>4. CASE DeleteNetworkPolicies(p, "finalize", "netpol")
  <2> QED
    BY <1>4, LeaveControl DEF IInv, Stages, DeleteNetworkPolicies, Finish, At, FinalizeSteps,
       OneProgram, CascadeOff, AfterCascade, SpecAndDeployment, HelperKept,
       AfterHelper, PromoteStage, PromoteStarted, SafeCopy, ScaledSteps,
       PromotedSteps, SwitchedSteps, RollbackStage, RollbackStarted, JoblessSteps,
       UpdatedSteps, RestoredSteps, FinalizeStage, NearCopy
<1> QED
  BY <1>1, <1>2, <1>3, <1>4 DEF FinalizeNext

-----------------------------------------------------------------------------
(* The operator *)

LEMMA ExitKeepsStages ==
  ASSUME Disciplined, TypeOK, IInv, NEW p \in Procs, Exit(p)
  PROVE  Stages'
  BY LeaveControl DEF Exit, IInv, Stages, cnrmVars, sqlVars, dmsVars, OneProgram, CascadeOff,
     AfterCascade, SpecAndDeployment, HelperKept, AfterHelper, PromoteStage,
     PromoteStarted, SafeCopy, ScaledSteps, PromotedSteps, SwitchedSteps,
     RollbackStage, RollbackStarted, JoblessSteps, UpdatedSteps, RestoredSteps,
     FinalizeStage, SetupSteps, RollbackSteps, NearCopy

LEMMA StartKeepsStages ==
  ASSUME Disciplined, TypeOK, IInv, NEW p \in Procs, NEW ph \in Phases, Start(p, ph)
  PROVE  Stages'
<1> USE InstancesDiffer DEF Start, MayStart, InOrder, Begin, FirstStep, RunTypeOK,
        TypeOK, DataTypeOK, Disciplined, AllRules, Phases, Inst, appVars, cnrmVars, sqlVars, dmsVars
<1>1. CASE ph = "setup"
  <2> QED
    BY <1>1 DEF IInv, Stages, SetupSteps, RollbackSteps, OneProgram, CascadeOff, AfterCascade,
       SpecAndDeployment, HelperKept, AfterHelper, PromoteStage, PromoteStarted,
       SafeCopy, ScaledSteps, PromotedSteps, SwitchedSteps, RollbackStage,
       RollbackStarted, JoblessSteps, UpdatedSteps, RestoredSteps, FinalizeStage, NearCopy
<1>2. CASE ph = "promote"
  <2>1. PromoteStage'
    BY <1>2 DEF IInv, Stages, SetupSteps, RollbackSteps, PromoteStage, PromoteStarted,
       SafeCopy, ScaledSteps, PromotedSteps, SwitchedSteps, OneProgram,
       SpecAndDeployment, HelperKept, AfterHelper, NearCopy
  <2> QED
    BY <1>2, <2>1 DEF IInv, Stages, SetupSteps, RollbackSteps, OneProgram, CascadeOff,
       AfterCascade, SpecAndDeployment, HelperKept, AfterHelper, RollbackStage,
       RollbackStarted, JoblessSteps, UpdatedSteps, RestoredSteps, FinalizeStage, NearCopy
<1>3. CASE ph = "rollback"
  <2>1. RollbackStage'
    BY <1>3 DEF IInv, Stages, SetupSteps, RollbackSteps, RollbackStage, RollbackStarted,
       JoblessSteps, UpdatedSteps, RestoredSteps, SpecAndDeployment, PromoteStage,
       PromoteStarted, SafeCopy, ScaledSteps, PromotedSteps, SwitchedSteps, NearCopy
  <2> QED
    BY <1>3, <2>1 DEF IInv, Stages, SetupSteps, RollbackSteps, OneProgram, CascadeOff,
       AfterCascade, SpecAndDeployment, HelperKept, AfterHelper, PromoteStage,
       PromoteStarted, SafeCopy, ScaledSteps, PromotedSteps, SwitchedSteps,
       FinalizeStage, NearCopy
<1>4. CASE ph = "finalize"
  <2>1. FinalizeStage'
    BY <1>4 DEF IInv, Stages, SetupSteps, RollbackSteps, FinalizeStage, OneProgram,
       SpecAndDeployment, PromoteStage, PromoteStarted, SafeCopy, ScaledSteps,
       PromotedSteps, SwitchedSteps, NearCopy
  <2> QED
    BY <1>4, <2>1 DEF IInv, Stages, SetupSteps, RollbackSteps, OneProgram, CascadeOff,
       AfterCascade, SpecAndDeployment, HelperKept, AfterHelper, PromoteStage,
       PromoteStarted, SafeCopy, ScaledSteps, PromotedSteps, SwitchedSteps,
       RollbackStage, RollbackStarted, JoblessSteps, UpdatedSteps, RestoredSteps, NearCopy
<1> QED
  BY <1>1, <1>2, <1>3, <1>4

-----------------------------------------------------------------------------
(* The environment *)

LEMMA EnvironmentKeepsStages ==
  ASSUME Disciplined, TypeOK, IInv, Environment
  PROVE  Stages'
<1> USE InstancesDiffer DEF appVars, cnrmVars, sqlVars, dmsVars, runVars
<1>1. CASE HelperReconcile
  <2> QED
    BY <1>1 DEF IInv, Stages, HelperReconcile, OneProgram, CascadeOff, AfterCascade,
       SpecAndDeployment, HelperKept, AfterHelper, PromoteStage, PromoteStarted,
       SafeCopy, ScaledSteps, PromotedSteps, SwitchedSteps, RollbackStage,
       RollbackStarted, JoblessSteps, UpdatedSteps, RestoredSteps, FinalizeStage, NearCopy
<1>2. CASE HelperCollected
  <2>1. HelperKept'
    BY <1>2 DEF IInv, Stages, HelperCollected, HelperKept, AfterHelper
  <2>2. PromoteStage'
    BY <1>2 DEF IInv, Stages, HelperCollected, PromoteStage, PromoteStarted, SafeCopy,
       ScaledSteps, PromotedSteps, SwitchedSteps, NearCopy
  <2> QED
    BY <1>2, <2>1, <2>2 DEF IInv, Stages, HelperCollected, OneProgram, CascadeOff,
       AfterCascade, SpecAndDeployment, RollbackStage, RollbackStarted, JoblessSteps,
       UpdatedSteps, RestoredSteps, FinalizeStage, NearCopy
<1>3. CASE AppReconcile
  <2>1. CascadeOff'
    BY <1>3 DEF IInv, Stages, AppReconcile, CascadeOff, AfterCascade, SpecAndDeployment,
       TypeOK, DataTypeOK, Disciplined, AllRules, Phases, Inst
  <2>2. RollbackStage'
    BY <1>3 DEF IInv, Stages, AppReconcile, RollbackStage, RollbackStarted, JoblessSteps,
       UpdatedSteps, RestoredSteps, OneProgram, SpecAndDeployment, TypeOK, DataTypeOK,
       Disciplined, AllRules, Phases, Inst, NearCopy
  <2>3. FinalizeStage'
    BY <1>3 DEF IInv, Stages, AppReconcile, FinalizeStage, CascadeOff, AfterCascade,
       SpecAndDeployment, TypeOK, DataTypeOK, Disciplined, AllRules, Phases, Inst, NearCopy
  <2> QED
    BY <1>3, <2>1, <2>2, <2>3 DEF IInv, Stages, AppReconcile, OneProgram, SpecAndDeployment,
       HelperKept, AfterHelper, PromoteStage, PromoteStarted, SafeCopy, ScaledSteps,
       PromotedSteps, SwitchedSteps, NearCopy
<1>4. CASE \E i \in Inst : InstanceReconcile(i)
  <2> QED
    BY <1>4 DEF IInv, Stages, InstanceReconcile, OneProgram, CascadeOff, AfterCascade,
       SpecAndDeployment, HelperKept, AfterHelper, PromoteStage, PromoteStarted,
       SafeCopy, ScaledSteps, PromotedSteps, SwitchedSteps, RollbackStage,
       RollbackStarted, JoblessSteps, UpdatedSteps, RestoredSteps, FinalizeStage, NearCopy
<1>5. CASE PodsStop
  <2> QED
    BY <1>5 DEF IInv, Stages, PodsStop, OneProgram, CascadeOff, AfterCascade,
       SpecAndDeployment, HelperKept, AfterHelper, PromoteStage, PromoteStarted,
       SafeCopy, ScaledSteps, PromotedSteps, SwitchedSteps, RollbackStage,
       RollbackStarted, JoblessSteps, UpdatedSteps, RestoredSteps, FinalizeStage, NearCopy
<1>6. CASE Write
  <2>1. PromoteStage'
    BY <1>6 DEF IInv, Stages, Write, TypeOK, DataTypeOK, PromoteStage, PromoteStarted, SafeCopy,
       ScaledSteps, PromotedSteps, SwitchedSteps, NearCopy
  <2>2. FinalizeStage'
    BY <1>6 DEF IInv, Stages, Write, FinalizeStage, NearCopy
  <2> QED
    BY <1>6, <2>1, <2>2 DEF IInv, Stages, Write, OneProgram, CascadeOff, AfterCascade,
       SpecAndDeployment, HelperKept, AfterHelper, RollbackStage, RollbackStarted,
       JoblessSteps, UpdatedSteps, RestoredSteps, NearCopy
<1>7. CASE DumpDone
  <2> QED
    BY <1>7 DEF IInv, Stages, DumpDone, OneProgram, CascadeOff, AfterCascade,
       SpecAndDeployment, HelperKept, AfterHelper, PromoteStage, PromoteStarted,
       SafeCopy, ScaledSteps, PromotedSteps, SwitchedSteps, RollbackStage,
       RollbackStarted, JoblessSteps, UpdatedSteps, RestoredSteps, FinalizeStage, NearCopy
<1>8. CASE CatchUp
  <2> QED
    BY <1>8 DEF IInv, Stages, CatchUp, OneProgram, CascadeOff, AfterCascade,
       SpecAndDeployment, HelperKept, AfterHelper, PromoteStage, PromoteStarted,
       SafeCopy, ScaledSteps, PromotedSteps, SwitchedSteps, RollbackStage,
       RollbackStarted, JoblessSteps, UpdatedSteps, RestoredSteps, FinalizeStage, NearCopy
<1>9. CASE SampleLag
  <2> QED
    BY <1>9 DEF IInv, Stages, SampleLag, OneProgram, CascadeOff, AfterCascade,
       SpecAndDeployment, HelperKept, AfterHelper, PromoteStage, PromoteStarted,
       SafeCopy, ScaledSteps, PromotedSteps, SwitchedSteps, RollbackStage,
       RollbackStarted, JoblessSteps, UpdatedSteps, RestoredSteps, FinalizeStage, NearCopy
<1>10. CASE PromotionDone
  <2> QED
    BY <1>10 DEF IInv, Stages, PromotionDone, OneProgram, CascadeOff, AfterCascade,
       SpecAndDeployment, HelperKept, AfterHelper, PromoteStage, PromoteStarted,
       SafeCopy, ScaledSteps, PromotedSteps, SwitchedSteps, RollbackStage,
       RollbackStarted, JoblessSteps, UpdatedSteps, RestoredSteps, FinalizeStage, NearCopy
<1>11. ~Redeploy
  BY DEF Redeploy, Disciplined
<1>12. CASE DatabaseCollected
  <2>1. PromoteStage'
    BY <1>12 DEF IInv, Stages, DatabaseCollected, Inst, PromoteStage, PromoteStarted, SafeCopy,
       ScaledSteps, PromotedSteps, SwitchedSteps, CascadeOff, AfterCascade, NearCopy
  <2>2. RollbackStage'
    BY <1>12 DEF IInv, Stages, DatabaseCollected, Inst, RollbackStage, RollbackStarted,
       JoblessSteps, UpdatedSteps, RestoredSteps, CascadeOff, AfterCascade, NearCopy
  <2>3. FinalizeStage'
    BY <1>12 DEF IInv, Stages, DatabaseCollected, Inst, FinalizeStage, OneProgram, CascadeOff,
       AfterCascade, NearCopy
  <2> QED
    BY <1>12, <2>1, <2>2, <2>3 DEF IInv, Stages, DatabaseCollected, OneProgram, CascadeOff,
       AfterCascade, SpecAndDeployment, HelperKept, AfterHelper
<1> QED
  BY <1>1, <1>2, <1>3, <1>4, <1>5, <1>6, <1>7, <1>8, <1>9, <1>10, <1>11, <1>12
     DEF Environment

-----------------------------------------------------------------------------
(* The theorems *)

LEMMA NextStages ==
  ASSUME Disciplined, TypeOK, IInv, [Next]_vars
  PROVE  Stages'
<1>1. ASSUME NEW p \in Procs, Run(p) PROVE Stages'
  BY <1>1, SetupKeepsStages, PromoteKeepsStages, RollbackKeepsStages,
     FinalizeKeepsStages DEF Run
<1>2. CASE UNCHANGED vars
  BY <1>2 DEF vars, appVars, cnrmVars, sqlVars, dmsVars, runVars, IInv, Stages, OneProgram,
     CascadeOff, AfterCascade, SpecAndDeployment, HelperKept, AfterHelper,
     PromoteStage, PromoteStarted, SafeCopy, ScaledSteps, PromotedSteps,
     SwitchedSteps, RollbackStage, RollbackStarted, JoblessSteps, UpdatedSteps,
     RestoredSteps, FinalizeStage, NearCopy
<1> QED
  BY <1>1, <1>2, ExitKeepsStages, StartKeepsStages, EnvironmentKeepsStages DEF Next

\* What LagPoints is about.
pointVars == <<job, zeros, fresh, near, sql>>

\* Of the programs, only a job that runs no more, or not yet, loses the target's rows.
LEMMA RunKeepsLagPoints ==
  ASSUME TypeOK, IInv, NEW p \in Procs, Run(p)
  PROVE  LagPoints'
<1> USE InstancesDiffer DEF appVars, cnrmVars, sqlVars, dmsVars, pointVars
<1>0. ASSUME UNCHANGED pointVars PROVE LagPoints'
  BY <1>0 DEF IInv, LagPoints
<1>1. ASSUME NEW ph, NEW from, NEW to, DeleteMigrationJob(p, ph, from, to) PROVE LagPoints'
  BY <1>1 DEF DeleteMigrationJob, IInv, LagPoints
<1>2. CASE SetupNext(p)
  <2>1. CASE DropHelperDatabase(p)
    BY <2>1 DEF DropHelperDatabase, IInv, LagPoints
  <2>2. CASE CreateMigrationJob(p) \/ DemoteTargetInstance(p) \/ StartMigrationJob(p)
    BY <2>2 DEF CreateMigrationJob, DemoteTargetInstance, StartMigrationJob, IInv, LagPoints
  <2> QED
    BY <1>0, <1>1, <1>2, <2>1, <2>2 DEF SetupNext, ResolveSource, CreateHelper, AwaitHelper,
       DeleteHelperDatabaseResource, BackUpSource, DisableCascadingDelete,
       CreateNetworkPolicy, PrepareSourceInstance, PrepareSourceDatabase,
       DropPgAuditExtension, PrepareTargetInstance, PrepareTargetDatabase,
       DeleteOldProfile, DeleteConnectionProfile, CreateConnectionProfile,
       ResolveTargetAgain, AddTargetOutgoingIps
<1>3. CASE PromoteNext(p)
  <2>1. CASE StartPromotion(p)
    BY <2>1 DEF StartPromotion, IInv, LagPoints
  <2> QED
    BY <1>0, <1>3, <2>1 DEF PromoteNext, TakeOverTarget, ResolveAppInstance, GetHelper,
       ResolveTarget, CheckReadyForPromotion, ScaleApplication, InspectJob, AwaitPromotion,
       UpdateTargetInstanceAfterPromotion, PrepareTargetDatabase, ChangeOwnership,
       DeleteHelperApplication, DeleteTargetDatabaseResource, AwaitCnrmHandover,
       UpdateApplicationInstance, AwaitRollout, UpdateApplicationUser, BackUpTarget
<1>4. CASE RollbackNext(p)
  <2>1. CASE DeleteInstance(Tgt, p, "rollback", "target", "master")
    <3>1. job = "absent" /\ job' = job
      BY <2>1 DEF DeleteInstance, Step, Advance, At, IInv, Stages, RollbackStage, JoblessSteps,
         RollbackSteps
    <3>2. fresh' \subseteq near'
      BY <2>1 DEF DeleteInstance, InstanceGone, IInv, LagPoints
    <3> QED
      BY <3>1, <3>2 DEF LagPoints
  <2> QED
    BY <1>0, <1>1, <1>4, <2>1 DEF RollbackNext, ScaleIfSwitched, DeleteHelperApplication,
       CleanupConnectionProfile, DeleteConnectionProfile, DeleteMasterInstance,
       DeleteTargetDatabaseResource, DeleteSourceCert, AwaitDatabaseResourceGone,
       UpdateApplicationInstance, AwaitRollout, UpdateApplicationUser, DeleteSslCerts,
       DeleteNetworkPolicies
<1>5. CASE FinalizeNext(p)
  <2>1. CASE DeleteInstance(Src, p, "finalize", "source", "networks")
    BY <2>1 DEF DeleteInstance, InstanceGone, TypeOK, DataTypeOK, Inst, IInv, LagPoints
  <2> QED
    BY <1>0, <1>1, <1>5, <2>1 DEF FinalizeNext, ResolveAppInstance, DeleteFinishedJob,
       CleanupConnectionProfile, DeleteConnectionProfile, DeleteMasterInstance,
       CleanupAuthNetworks, DeleteSslCerts, DeleteNetworkPolicies
<1> QED
  BY <1>2, <1>3, <1>4, <1>5 DEF Run

\* A row that is committed while the job replicates is one of the latest, and the first
\* point that is not zero takes the zero ones with it.
LEMMA EnvironmentKeepsLagPoints ==
  ASSUME Disciplined, TypeOK, IInv, Environment
  PROVE  LagPoints'
<1> USE InstancesDiffer DEF IInv, LagPoints, appVars, cnrmVars, sqlVars, dmsVars, runVars
<1>1. CASE HelperReconcile
  BY <1>1 DEF HelperReconcile, TypeOK, DataTypeOK, Inst
<1>2. CASE AppReconcile
  <2>1. policy[Tgt] = FALSE
    BY DEF Stages, CascadeOff
  <2>2. sql[Tgt] = "replica" => sql'[Tgt] = "replica"
    BY <1>2, <2>1 DEF AppReconcile, Inst
  <2>3. Tgt \in near => Tgt \in near'
    BY <1>2, <2>1 DEF AppReconcile, Inst
  <2> QED
    BY <1>2, <2>2, <2>3 DEF AppReconcile
<1>3. CASE DatabaseCollected
  BY <1>3 DEF DatabaseCollected, Stages, CascadeOff
<1>4. CASE \E i \in Inst : InstanceReconcile(i)
  BY <1>4 DEF InstanceReconcile, TypeOK, DataTypeOK, Inst
<1>5. CASE Write \/ CatchUp
  BY <1>5 DEF Write, CatchUp
<1>6. CASE DumpDone \/ PromotionDone
  BY <1>6 DEF DumpDone, PromotionDone
<1>7. CASE SampleLag
  BY <1>7 DEF SampleLag
<1>8. CASE HelperCollected \/ PodsStop \/ Redeploy
  BY <1>8 DEF HelperCollected, PodsStop, Redeploy
<1> QED
  BY <1>1, <1>2, <1>3, <1>4, <1>5, <1>6, <1>7, <1>8 DEF Environment

LEMMA NextInv ==
  ASSUME Disciplined, TypeOK, IInv, [Next]_vars
  PROVE  IInv'
<1>1. ASSUME UNCHANGED vars PROVE LagPoints'
  BY <1>1 DEF vars, sqlVars, dmsVars, IInv, LagPoints
<1>2. ASSUME NEW p \in Procs, Exit(p) \/ \E ph \in Phases : Start(p, ph)
      PROVE  LagPoints'
  BY <1>2 DEF Exit, Start, Begin, sqlVars, dmsVars, IInv, LagPoints
<1>3. LagPoints'
  BY <1>1, <1>2, RunKeepsLagPoints, EnvironmentKeepsLagPoints DEF Next, IInv
<1> QED
  BY <1>3, NextStages DEF IInv

\* IInv holds in every state of every disciplined migration, with any number of
\* overlapping runs of one program.  Disciplined bounds what the operator and the team do:
\* the documented order, no deploy of an old manifest, no rollback with cascading delete
\* on, no program begun before the last change is synchronised.  The gate is the code's:
\* three zero points, whatever the pods do.
THEOREM Inductive == ASSUME Disciplined PROVE Spec => []IInv
<1>1. Init /\ [][Next]_vars /\ []TypeOK => []IInv
  BY InitInv, NextInv, PTL
<1> QED
  BY <1>1, TypeCorrect, PTL DEF Spec

LEMMA IInvServes ==
  ASSUME TypeOK, IInv PROVE ServesCommittedRows
  BY InstancesDiffer DEF ServesCommittedRows, TypeOK, DataTypeOK, Inst, IInv, Stages,
     OneProgram, SpecAndDeployment, PromoteStage, PromoteStarted, SafeCopy,
     RollbackStage, RollbackStarted, FinalizeStage, NearCopy, LagPoints

LEMMA IInvSurvive ==
  ASSUME IInv PROVE SourceRowsSurvive
  BY DEF SourceRowsSurvive, IInv, Stages, FinalizeStage, NearCopy, LagPoints

\* In a disciplined migration pods never run on an instance that lacks more than the latest
\* rows, those committed after the points that opened the gate: no interleaving of runs,
\* crashes and reconciliations switches too early or back.  How recent the missing rows
\* are is said by OnlyRecentRowsMissing of LagGateProofs.
THEOREM CommittedRowsServed == ASSUME Disciplined PROVE Spec => []ServesCommittedRows
  BY Inductive, TypeCorrect, IInvServes, PTL

\* In a disciplined migration no deletion, demotion or reconciliation takes the source
\* before finalize, nor then the last copy that lacks none but the latest rows.
THEOREM RowsSurvive == ASSUME Disciplined PROVE Spec => []SourceRowsSurvive
  BY Inductive, IInvSurvive, PTL
=============================================================================
