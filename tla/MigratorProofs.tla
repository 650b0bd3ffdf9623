--------------------------- MODULE MigratorProofs ---------------------------
(***************************************************************************)
(* Theorems about Migrator, for every Procs, Rules and Faults.  TypeOK     *)
(* holds whatever the operator and the environment do; the others assume   *)
(* Disciplined.                                                            *)
(***************************************************************************)
EXTENDS Migrator, TLAPS

-----------------------------------------------------------------------------
(* The control of the runs *)

\* The steps of each program, and of no program.
LEMMA StepsOfPhase ==
  /\ StepsOf("setup") = SetupSteps /\ StepsOf("promote") = PromoteSteps
  /\ StepsOf("rollback") = RollbackSteps /\ StepsOf("finalize") = FinalizeSteps
  /\ StepsOf("none") = {"idle"}
  BY DEF StepsOf

LEMMA AdvanceType ==
  ASSUME RunTypeOK, NEW p \in Procs, NEW ph \in Phases, NEW from, NEW to \in StepsOf(ph),
         Advance(p, ph, from, to), view' \in [Procs -> Inst]
  PROVE  RunTypeOK'
  BY DEF RunTypeOK, Advance, At

LEMMA StepType ==
  ASSUME RunTypeOK, NEW p \in Procs, NEW ph \in Phases, NEW from, NEW to \in StepsOf(ph),
         Step(p, ph, from, to)
  PROVE  RunTypeOK'
  BY AdvanceType DEF Step, RunTypeOK

LEMMA LeaveType ==
  ASSUME RunTypeOK, NEW p \in Procs, Leave(p),
         started' \subseteq Phases, completed' \subseteq Phases
  PROVE  RunTypeOK'
  BY StepsOfPhase DEF RunTypeOK, Leave, Inst

LEMMA FinishType ==
  ASSUME RunTypeOK, NEW p \in Procs, NEW ph \in Phases, NEW from, Finish(p, ph, from)
  PROVE  RunTypeOK'
  BY LeaveType DEF RunTypeOK, Finish

LEMMA OtherProfile == \A profile \in Profiles : Other(profile) \in Profiles \ {profile}
  BY DEF Other, Profiles

\* What a step of each program does to the control.
LEMMA SetupControl ==
  ASSUME NEW p \in Procs, SetupNext(p)
  PROVE  \/ \E from, to \in SetupSteps : Step(p, "setup", from, to)
         \/ ResolveSource(p)
         \/ Finish(p, "setup", "start")
         \/ Leave(p) /\ UNCHANGED <<started, completed>>
<1>1. ASSUME NEW profile \in Profiles, DeleteOldProfile(p, profile)
      PROVE  \E from, to \in SetupSteps : Step(p, "setup", from, to)
  BY <1>1, OtherProfile DEF DeleteOldProfile, DeleteConnectionProfile, Profiles, SetupSteps
<1>2. ASSUME NEW profile \in Profiles, CreateConnectionProfile(p, profile)
      PROVE  \E from, to \in SetupSteps : Step(p, "setup", from, to)
  BY <1>2, OtherProfile DEF CreateConnectionProfile, ToCreate, Profiles, SetupSteps
<1> QED
  BY <1>1, <1>2 DEF SetupNext, SetupSteps, CreateHelper, AwaitHelper,
     DeleteHelperDatabaseResource, DropHelperDatabase, BackUpSource, DisableCascadingDelete,
     CreateNetworkPolicy, PrepareSourceInstance, PrepareSourceDatabase, DropPgAuditExtension,
     PrepareTargetInstance, PrepareTargetDatabase, DeleteMigrationJob, CreateMigrationJob,
     DemoteTargetInstance, ResolveTargetAgain, AddTargetOutgoingIps, StartMigrationJob

LEMMA PromoteControl ==
  ASSUME NEW p \in Procs, PromoteNext(p)
  PROVE  \/ \E from, to \in PromoteSteps : Step(p, "promote", from, to)
         \/ ResolveAppInstance(p, "promote", "resolve", "helper")
         \/ Finish(p, "promote", "backup")
  BY DEF PromoteNext, PromoteSteps, GetHelper, ResolveTarget, CheckReadyForPromotion,
     ScaleApplication, InspectJob, StartPromotion, AwaitPromotion,
     UpdateTargetInstanceAfterPromotion, PrepareTargetDatabase, TakeOverTarget,
     ChangeOwnership, DeleteHelperApplication, DeleteTargetDatabaseResource,
     AwaitCnrmHandover, UpdateApplicationInstance, AwaitRollout, UpdateApplicationUser,
     BackUpTarget

LEMMA RollbackControl ==
  ASSUME NEW p \in Procs, RollbackNext(p)
  PROVE  \/ \E from, to \in RollbackSteps : Step(p, "rollback", from, to)
         \/ Finish(p, "rollback", "netpol")
  BY DEF RollbackNext, RollbackSteps, ScaleIfSwitched, DeleteHelperApplication,
     DeleteMigrationJob, CleanupConnectionProfile, DeleteConnectionProfile, DeleteInstance, DeleteMasterInstance,
     DeleteTargetDatabaseResource, DeleteSourceCert, AwaitDatabaseResourceGone,
     UpdateApplicationInstance, AwaitRollout, UpdateApplicationUser, DeleteSslCerts,
     DeleteNetworkPolicies

LEMMA FinalizeControl ==
  ASSUME NEW p \in Procs, FinalizeNext(p)
  PROVE  \/ \E from, to \in FinalizeSteps : Step(p, "finalize", from, to)
         \/ ResolveAppInstance(p, "finalize", "resolve", "deleteJob")
         \/ Finish(p, "finalize", "netpol")
  BY DEF FinalizeNext, FinalizeSteps, DeleteFinishedJob, DeleteMigrationJob,
     CleanupConnectionProfile, DeleteConnectionProfile, DeleteMasterInstance, DeleteInstance, CleanupAuthNetworks,
     DeleteSslCerts, DeleteNetworkPolicies

LEMMA RunKeepsRunType ==
  ASSUME TypeOK, NEW p \in Procs, Run(p)
  PROVE  RunTypeOK'
<1> USE StepsOfPhase, AdvanceType, StepType, FinishType DEF Phases
<1>1. CASE SetupNext(p)
  <2>1. CASE ResolveSource(p)
    BY <2>1 DEF ResolveSource, TypeOK, DataTypeOK, RunTypeOK, SetupSteps
  <2>2. CASE Leave(p) /\ UNCHANGED <<started, completed>>
    BY <2>2, LeaveType DEF TypeOK, RunTypeOK
  <2> QED
    BY <1>1, <2>1, <2>2, SetupControl DEF TypeOK
<1>2. CASE PromoteNext(p)
  <2>1. CASE ResolveAppInstance(p, "promote", "resolve", "helper")
    BY <2>1 DEF ResolveAppInstance, TypeOK, DataTypeOK, RunTypeOK, PromoteSteps
  <2> QED
    BY <1>2, <2>1, PromoteControl DEF TypeOK
<1>3. CASE RollbackNext(p)
  BY <1>3, RollbackControl DEF TypeOK
<1>4. CASE FinalizeNext(p)
  <2>1. CASE ResolveAppInstance(p, "finalize", "resolve", "deleteJob")
    BY <2>1 DEF ResolveAppInstance, TypeOK, DataTypeOK, RunTypeOK, FinalizeSteps
  <2> QED
    BY <1>4, <2>1, FinalizeControl DEF TypeOK
<1> QED
  BY <1>1, <1>2, <1>3, <1>4 DEF Run

-----------------------------------------------------------------------------
(* Type correctness *)

LEMMA InitType == Init => TypeOK
<1> SUFFICES ASSUME Init PROVE TypeOK
  OBVIOUS
<1>1. RunTypeOK
  <2>1. \A p \in Procs : phase[p] = "none" /\ pc[p] = "idle"
    BY DEF Init
  <2>2. /\ phase \in [Procs -> Phases \cup {"none"}] /\ DOMAIN pc = Procs
        /\ view \in [Procs -> Inst]
    BY DEF Init, Inst
  <2> QED
    BY <2>1, <2>2, StepsOfPhase DEF Init, RunTypeOK
<1>2. policy \in [Inst -> BOOLEAN]
  BY Zenon DEF Init
<1>3. /\ named \in BOOLEAN /\ cascade \in BOOLEAN /\ synced \in BOOLEAN
      /\ master \in BOOLEAN /\ reduced \in BOOLEAN
  BY DEF Init
<1>4. /\ owner \in [Inst -> {"none", "helper", "app"}]
      /\ sql \in [Inst -> {"absent", "standalone", "replica"}]
  BY DEF Init
<1>5. /\ spec \in Inst /\ live \in Inst
      /\ hasDb \subseteq Inst /\ fresh \subseteq Inst /\ near \subseteq Inst
      /\ login \subseteq Inst /\ backups \subseteq Inst
      /\ reassigned \subseteq Databases /\ left \subseteq Artefacts
      /\ asked = "none" /\ pods = "up" /\ helper = "absent" /\ dbRes = {"app"}
      /\ job = "absent" /\ zeros \in 0..ZeroPoints
  BY DEF Init, Inst, ZeroPoints
<1> QED
  BY <1>1, <1>2, <1>3, <1>4, <1>5 DEF TypeOK, DataTypeOK

LEMMA SetupDataType ==
  ASSUME TypeOK, NEW p \in Procs, SetupNext(p)
  PROVE  DataTypeOK'
<1> USE DEF TypeOK, DataTypeOK, Inst, appVars, cnrmVars, sqlVars, dmsVars
<1>1. CASE ResolveSource(p)
  BY <1>1 DEF ResolveSource
<1>2. CASE CreateHelper(p)
  BY <1>2 DEF CreateHelper
<1>3. CASE AwaitHelper(p)
  BY <1>3 DEF AwaitHelper
<1>4. CASE DeleteHelperDatabaseResource(p)
  BY <1>4 DEF DeleteHelperDatabaseResource
<1>5. CASE DropHelperDatabase(p)
  BY <1>5 DEF DropHelperDatabase
<1>6. CASE BackUpSource(p)
  <2>1. backups' \subseteq Inst
    BY <1>6 DEF BackUpSource, BackedUp, RunTypeOK
  <2> QED
    BY <1>6, <2>1 DEF BackUpSource
<1>7. CASE DisableCascadingDelete(p)
  <2>1. synced' \in BOOLEAN
    BY <1>7, Zenon DEF DisableCascadingDelete
  <2>2. cascade' \in BOOLEAN
        /\ UNCHANGED <<spec, named, asked, live, pods, cnrmVars, sqlVars, dmsVars, left>>
    BY <1>7 DEF DisableCascadingDelete
  <2> QED
    BY <2>1, <2>2
<1>8. CASE CreateNetworkPolicy(p)
  <2>1. left' = left \cup {"netpol"} \/ left' = left
    BY <1>8 DEF CreateNetworkPolicy
  <2>2. left' \subseteq Artefacts
    BY <2>1 DEF Artefacts
  <2> QED
    BY <1>8, <2>2 DEF CreateNetworkPolicy
<1>9. CASE PrepareSourceInstance(p)
  BY <1>9 DEF PrepareSourceInstance, Artefacts
<1>10. CASE PrepareSourceDatabase(p)
  BY <1>10 DEF PrepareSourceDatabase, Artefacts, Certs
<1>11. CASE PrepareTargetInstance(p)
  BY <1>11 DEF PrepareTargetInstance, Artefacts
<1>12. CASE PrepareTargetDatabase(p, "setup", "deleteJob")
  BY <1>12 DEF PrepareTargetDatabase, Artefacts, Certs
<1>13. CASE DeleteMigrationJob(p, "setup", "deleteJob", "deleteProfiles")
  BY <1>13 DEF DeleteMigrationJob, ZeroPoints
<1>14. CASE \E profile \in Profiles : DeleteOldProfile(p, profile)
  <2>1. left' \subseteq left /\ UNCHANGED <<appVars, cnrmVars, sqlVars, dmsVars>>
    BY <1>14 DEF DeleteOldProfile, DeleteConnectionProfile
  <2> QED
    BY <2>1
<1>15. CASE \E profile \in Profiles : CreateConnectionProfile(p, profile)
  BY <1>15 DEF CreateConnectionProfile, Artefacts
<1>16. CASE CreateMigrationJob(p)
  BY <1>16 DEF CreateMigrationJob
<1>17. CASE DemoteTargetInstance(p)
  <2>1. sql' \in [Inst -> {"absent", "standalone", "replica"}]
    BY <1>17 DEF DemoteTargetInstance
  <2>2. master' \in BOOLEAN
    BY <1>17 DEF DemoteTargetInstance
  <2>3. hasDb' \subseteq Inst /\ fresh' \subseteq Inst /\ near' \subseteq Inst /\ reassigned' \subseteq Databases
    BY <1>17 DEF DemoteTargetInstance
  <2>4. UNCHANGED <<reduced, login, backups, appVars, cnrmVars, dmsVars, left>>
    BY <1>17 DEF DemoteTargetInstance
  <2> QED
    BY <2>1, <2>2, <2>3, <2>4
<1>18. CASE ResolveTargetAgain(p)
  BY <1>18 DEF ResolveTargetAgain
<1>19. CASE AddTargetOutgoingIps(p)
  BY <1>19 DEF AddTargetOutgoingIps, Artefacts
<1>20. CASE StartMigrationJob(p)
  BY <1>20 DEF StartMigrationJob, ZeroPoints
<1>21. CASE DropPgAuditExtension(p)
  BY <1>21 DEF DropPgAuditExtension
<1> QED
  BY <1>1, <1>2, <1>3, <1>4, <1>5, <1>6, <1>7, <1>8, <1>9, <1>10, <1>11, <1>12, <1>13,
     <1>14, <1>15, <1>16, <1>17, <1>18, <1>19, <1>20, <1>21 DEF SetupNext

LEMMA PromoteDataType ==
  ASSUME DataTypeOK, NEW p \in Procs, PromoteNext(p)
  PROVE  DataTypeOK'
<1> USE DEF DataTypeOK, Inst, appVars, cnrmVars, sqlVars, dmsVars
<1>1. CASE ResolveAppInstance(p, "promote", "resolve", "helper")
  BY <1>1 DEF ResolveAppInstance
<1>2. CASE GetHelper(p) \/ ResolveTarget(p) \/ CheckReadyForPromotion(p)
  <2>1. UNCHANGED <<appVars, cnrmVars, sqlVars, dmsVars, left>>
    BY <1>2 DEF GetHelper, ResolveTarget, CheckReadyForPromotion
  <2> QED
    BY <2>1
<1>3. CASE ScaleApplication(p, "promote", "scale", "promote")
  BY <1>3 DEF ScaleApplication, ScaledDown
<1>4. CASE InspectJob(p) \/ StartPromotion(p) \/ AwaitPromotion(p)
  <2>1. CASE StartPromotion(p)
    BY <2>1 DEF StartPromotion
  <2>2. CASE UNCHANGED <<appVars, cnrmVars, sqlVars, dmsVars, left>>
    BY <2>2
  <2> QED
    BY <1>4, <2>1, <2>2 DEF InspectJob, AwaitPromotion
<1>5. CASE UpdateTargetInstanceAfterPromotion(p)
  <2>1. /\ reduced' \in BOOLEAN
        /\ UNCHANGED <<sql, master, hasDb, fresh, near, reassigned, login, backups>>
        /\ UNCHANGED <<appVars, cnrmVars, dmsVars, left>>
    BY <1>5 DEF UpdateTargetInstanceAfterPromotion
  <2> QED
    BY <2>1
<1>6. CASE PrepareTargetDatabase(p, "promote", "ownPostgres")
  BY <1>6 DEF PrepareTargetDatabase, Artefacts, Certs
<1>7. CASE TakeOverTarget(p)
  <2>1. ASSUME NEW database \in Databases, NEW from, NEW to, ChangeOwnership(database, p, from, to)
        PROVE  DataTypeOK'
    BY <2>1 DEF ChangeOwnership
  <2>2. CASE DeleteHelperApplication(p, "promote", "deleteHelper", "dbResource")
    BY <2>2 DEF DeleteHelperApplication
  <2> QED
    BY <1>7, <2>1, <2>2 DEF TakeOverTarget, Databases
<1>8. CASE DeleteTargetDatabaseResource(p, "promote", "dbResource", "cnrm")
  BY <1>8 DEF DeleteTargetDatabaseResource
<1>9. CASE AwaitCnrmHandover(p)
  BY <1>9 DEF AwaitCnrmHandover
<1>10. CASE UpdateApplicationInstance(Tgt, p, "promote", "update", "rollout")
  BY <1>10 DEF UpdateApplicationInstance
<1>11. CASE AwaitRollout(Tgt, p, "promote", "rollout", "user")
  BY <1>11 DEF AwaitRollout
<1>12. CASE UpdateApplicationUser(Tgt, p, "promote", "user", "backup")
  BY <1>12 DEF UpdateApplicationUser
<1>13. CASE BackUpTarget(p)
  BY <1>13 DEF BackUpTarget, BackedUp
<1> QED
  BY <1>1, <1>2, <1>3, <1>4, <1>5, <1>6, <1>7, <1>8, <1>9, <1>10, <1>11, <1>12, <1>13
     DEF PromoteNext

\* The operation deletes what is part of the instance, or fails.
LEMMA DeletedInstanceDataType ==
  ASSUME DataTypeOK, NEW i \in Inst, NEW p, NEW ph, NEW from, NEW to,
         DeleteInstance(i, p, ph, from, to)
  PROVE  DataTypeOK'
<1> USE DEF DataTypeOK, Inst, appVars, cnrmVars, dmsVars
<1>1. CASE InstanceGone(i)
  BY <1>1 DEF DeleteInstance, InstanceGone
<1>2. CASE UNCHANGED <<sql, hasDb, fresh, near, reduced, reassigned, login, backups, left>>
  BY <1>2 DEF DeleteInstance
<1> QED
  BY <1>1, <1>2 DEF DeleteInstance

LEMMA DeletedMasterDataType ==
  ASSUME DataTypeOK, NEW exists \in BOOLEAN, NEW p, NEW ph, NEW from, NEW to,
         DeleteMasterInstance(exists, p, ph, from, to)
  PROVE  DataTypeOK'
<1>1. CASE master' = (master /\ ~exists)
  <2>1. master' \in BOOLEAN
    BY <1>1
  <2> QED
    BY <2>1 DEF DeleteMasterInstance, DataTypeOK, appVars, cnrmVars, dmsVars
<1>2. CASE UNCHANGED master
  BY <1>2 DEF DeleteMasterInstance, DataTypeOK, appVars, cnrmVars, dmsVars
<1> QED
  BY <1>1, <1>2 DEF DeleteMasterInstance

\* The operation deletes the profile, or fails.
LEMMA CleanedProfileDataType ==
  ASSUME DataTypeOK, NEW profile, NEW p, NEW ph, NEW from, NEW to,
         CleanupConnectionProfile(profile, p, ph, from, to)
  PROVE  DataTypeOK'
<1>1. left' \subseteq left /\ UNCHANGED <<appVars, cnrmVars, sqlVars, dmsVars>>
  BY DEF CleanupConnectionProfile, DeleteConnectionProfile
<1> QED
  BY <1>1 DEF DataTypeOK, Inst, appVars, cnrmVars, sqlVars, dmsVars

LEMMA RollbackDataType ==
  ASSUME DataTypeOK, NEW p \in Procs, RollbackNext(p)
  PROVE  DataTypeOK'
<1>d. ASSUME DeleteInstance(Tgt, p, "rollback", "target", "master") PROVE DataTypeOK'
  BY <1>d, DeletedInstanceDataType DEF Inst
<1>m. ASSUME DeleteMasterInstance(TRUE, p, "rollback", "master", "dbResource") PROVE DataTypeOK'
  BY <1>m, DeletedMasterDataType
<1> USE DEF DataTypeOK, Inst, appVars, cnrmVars, sqlVars, dmsVars
<1>1. CASE ScaleIfSwitched(p)
  BY <1>1 DEF ScaleIfSwitched, ScaledDown
<1>2. CASE DeleteHelperApplication(p, "rollback", "deleteHelper", "deleteJob")
  BY <1>2 DEF DeleteHelperApplication
<1>3. CASE DeleteMigrationJob(p, "rollback", "deleteJob", "sourceProfile")
  BY <1>3 DEF DeleteMigrationJob, ZeroPoints
<1>4. CASE CleanupConnectionProfile("sourceProfile", p, "rollback", "sourceProfile", "targetProfile")
  BY <1>4, CleanedProfileDataType
<1>5. CASE CleanupConnectionProfile("targetProfile", p, "rollback", "targetProfile", "target")
  BY <1>5, CleanedProfileDataType
<1>8. CASE DeleteTargetDatabaseResource(p, "rollback", "dbResource", "cert")
  BY <1>8 DEF DeleteTargetDatabaseResource
<1>9. CASE DeleteSourceCert(p) \/ AwaitDatabaseResourceGone(p)
  <2>1. UNCHANGED <<appVars, cnrmVars, sqlVars, dmsVars, left>>
    BY <1>9 DEF DeleteSourceCert, AwaitDatabaseResourceGone
  <2> QED
    BY <2>1
<1>10. CASE UpdateApplicationInstance(Src, p, "rollback", "update", "rollout")
  BY <1>10 DEF UpdateApplicationInstance
<1>11. CASE AwaitRollout(Src, p, "rollback", "rollout", "user")
  BY <1>11 DEF AwaitRollout
<1>12. CASE UpdateApplicationUser(Src, p, "rollback", "user", "certs")
  BY <1>12 DEF UpdateApplicationUser
<1>13. CASE DeleteSslCerts(p, "rollback", "certs", "netpol")
  BY <1>13 DEF DeleteSslCerts
<1>14. CASE DeleteNetworkPolicies(p, "rollback", "netpol")
  BY <1>14 DEF DeleteNetworkPolicies
<1> QED
  BY <1>1, <1>2, <1>3, <1>4, <1>5, <1>d, <1>m, <1>8, <1>9, <1>10, <1>11, <1>12, <1>13,
     <1>14 DEF RollbackNext

LEMMA FinalizeDataType ==
  ASSUME DataTypeOK, NEW p \in Procs, FinalizeNext(p)
  PROVE  DataTypeOK'
<1>d. ASSUME DeleteInstance(Src, p, "finalize", "source", "networks") PROVE DataTypeOK'
  BY <1>d, DeletedInstanceDataType DEF Inst
<1>m. ASSUME DeleteMasterInstance(view[p] = Tgt, p, "finalize", "master", "source") PROVE DataTypeOK'
  BY <1>m, DeletedMasterDataType
<1> USE DEF DataTypeOK, Inst, appVars, cnrmVars, sqlVars, dmsVars
<1>1. CASE ResolveAppInstance(p, "finalize", "resolve", "deleteJob")
  BY <1>1 DEF ResolveAppInstance
<1>2. CASE DeleteFinishedJob(p)
  <2>1. CASE DeleteMigrationJob(p, "finalize", "deleteJob", "sourceProfile")
    BY <2>1 DEF DeleteMigrationJob, ZeroPoints
  <2>2. CASE UNCHANGED <<appVars, cnrmVars, sqlVars, dmsVars, left>>
    BY <2>2
  <2> QED
    BY <1>2, <2>1, <2>2 DEF DeleteFinishedJob
<1>3. CASE CleanupConnectionProfile("sourceProfile", p, "finalize", "sourceProfile", "targetProfile")
  BY <1>3, CleanedProfileDataType
<1>4. CASE CleanupConnectionProfile("targetProfile", p, "finalize", "targetProfile", "master")
  BY <1>4, CleanedProfileDataType
<1>7. CASE CleanupAuthNetworks(p)
  BY <1>7 DEF CleanupAuthNetworks
<1>8. CASE DeleteSslCerts(p, "finalize", "certs", "netpol")
  BY <1>8 DEF DeleteSslCerts
<1>9. CASE DeleteNetworkPolicies(p, "finalize", "netpol")
  BY <1>9 DEF DeleteNetworkPolicies
<1> QED
  BY <1>1, <1>2, <1>3, <1>4, <1>m, <1>d, <1>7, <1>8, <1>9 DEF FinalizeNext

LEMMA EnvironmentDataType ==
  ASSUME DataTypeOK, Environment
  PROVE  DataTypeOK'
<1> USE DEF DataTypeOK, Inst, appVars, cnrmVars, sqlVars, dmsVars
<1>1. CASE HelperReconcile
  <2>1. owner' \in [Inst -> {"none", "helper", "app"}] /\ policy' \in [Inst -> BOOLEAN]
    BY <1>1 DEF HelperReconcile
  <2>2. sql' \in [Inst -> {"absent", "standalone", "replica"}]
    BY <1>1 DEF HelperReconcile
  <2>3. dbRes' \subseteq {"app", "helper", "going"} /\ hasDb' \subseteq Inst /\ reduced' \in BOOLEAN
    BY <1>1 DEF HelperReconcile
  <2> QED
    BY <1>1, <2>1, <2>2, <2>3 DEF HelperReconcile
<1>2. CASE HelperCollected
  BY <1>2 DEF HelperCollected
<1>3. CASE AppReconcile
  BY <1>3 DEF AppReconcile
<1>4. CASE Redeploy
  BY <1>4 DEF Redeploy
<1>5. CASE \E i \in Inst : InstanceReconcile(i)
  BY <1>5 DEF InstanceReconcile
<1>6. CASE PodsStop \/ Write
  <2>1. CASE PodsStop
    BY <2>1 DEF PodsStop
  <2>2. CASE Write
    BY <2>2 DEF Write
  <2> QED
    BY <1>6, <2>1, <2>2
<1>7. CASE DumpDone \/ CatchUp
  <2>1. CASE DumpDone
    BY <2>1 DEF DumpDone
  <2>2. CASE CatchUp
    BY <2>2 DEF CatchUp
  <2> QED
    BY <1>7, <2>1, <2>2
<1>8. CASE SampleLag
  BY <1>8 DEF SampleLag, ZeroPoints
<1>9. CASE PromotionDone
  BY <1>9 DEF PromotionDone
<1>10. CASE DatabaseCollected
  BY <1>10 DEF DatabaseCollected
<1> QED
  BY <1>1, <1>2, <1>3, <1>4, <1>5, <1>6, <1>7, <1>8, <1>9, <1>10 DEF Environment

LEMMA EnvironmentKeepsRuns == Environment => UNCHANGED runVars
  BY DEF Environment, HelperReconcile, HelperCollected, AppReconcile, DatabaseCollected, Redeploy,
     InstanceReconcile, PodsStop, Write, DumpDone, CatchUp, SampleLag, PromotionDone

LEMMA NextType == TypeOK /\ [Next]_vars => TypeOK'
<1> SUFFICES ASSUME TypeOK, [Next]_vars PROVE TypeOK'
  OBVIOUS
<1>1. ASSUME NEW p \in Procs, Run(p) PROVE TypeOK'
  BY <1>1, RunKeepsRunType, SetupDataType, PromoteDataType, RollbackDataType,
     FinalizeDataType DEF Run, TypeOK
<1>2. ASSUME NEW p \in Procs, Exit(p) PROVE TypeOK'
  <2>1. DataTypeOK'
    BY <1>2 DEF Exit, TypeOK, DataTypeOK, cnrmVars, sqlVars, dmsVars
  <2> QED
    BY <1>2, <2>1, LeaveType DEF Exit, TypeOK, RunTypeOK
<1>3. ASSUME NEW p \in Procs, NEW ph \in Phases, Start(p, ph) PROVE TypeOK'
  <2>1. Begin(p, ph, FirstStep(ph)) /\ FirstStep(ph) \in StepsOf(ph)
    BY <1>3, StepsOfPhase DEF Start, FirstStep, Phases, SetupSteps, PromoteSteps,
       RollbackSteps, FinalizeSteps
  <2>2. RunTypeOK'
    BY <2>1 DEF Begin, TypeOK, RunTypeOK
  <2> QED
    BY <2>1, <2>2 DEF Begin, TypeOK, DataTypeOK, appVars, cnrmVars, sqlVars, dmsVars
<1>4. CASE Environment
  BY <1>4, EnvironmentDataType, EnvironmentKeepsRuns DEF TypeOK, RunTypeOK, runVars
<1>5. CASE UNCHANGED vars
  BY <1>5 DEF vars, appVars, cnrmVars, sqlVars, dmsVars, runVars, TypeOK, DataTypeOK,
     RunTypeOK
<1> QED
  BY <1>1, <1>2, <1>3, <1>4, <1>5 DEF Next

\* Every variable keeps its type, and every run is at a step of its own program.
THEOREM TypeCorrect == Spec => []TypeOK
  BY InitType, NextType, PTL DEF Spec

=============================================================================
