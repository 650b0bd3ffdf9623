-------------------------- MODULE RefinementProofs --------------------------
(***************************************************************************)
(* A disciplined migration keeps the promise of Switchover, and deletes no *)
(* instance under the application.  Most steps touch neither the pods nor  *)
(* the rows (Harmless); for each of the others IInv tells which step of    *)
(* Switchover it is.                                                       *)
(***************************************************************************)
EXTENDS InvariantProofs

\* What NeverDeletesServing says of one step.
SparesServing ==
  \A i \in Inst : sql[i] # "absent" /\ sql'[i] = "absent" => live # i \/ pods # "up"

Harmless ==
  /\ UNCHANGED <<live, pods, fresh, near>>
  /\ \A i \in Inst : sql'[i] = "absent" => sql[i] = "absent"

\* A step that is one of Switchover, or none, and spares what serves.
Keeps == [Promise!Next]_(Promise!vars) /\ SparesServing

\* At most the job begins to replicate, or ends it.
LEMMA HarmlessKeeps == Harmless => Keeps
<1> SUFFICES ASSUME Harmless PROVE Keeps
  OBVIOUS
<1>1. SparesServing
  BY DEF Harmless, SparesServing
<1>2. CASE (job' = "cdc") = (job = "cdc")
  BY <1>1, <1>2 DEF Harmless, Keeps, Promise!vars
<1>3. CASE (job' = "cdc") = ~(job = "cdc")
  BY <1>1, <1>3 DEF Harmless, Keeps, Promise!Next, Promise!Replicate
<1> QED
  BY <1>2, <1>3

-----------------------------------------------------------------------------
(* The harmless steps *)

LEMMA SetupHarmless ==
  ASSUME TypeOK, NEW p \in Procs, SetupNext(p)
  PROVE  Harmless \/ DropHelperDatabase(p) \/ DemoteTargetInstance(p)
<1> USE DEF Harmless, appVars, cnrmVars, sqlVars, dmsVars
<1>1. CASE \E profile \in Profiles : DeleteOldProfile(p, profile)
  BY <1>1 DEF DeleteOldProfile, DeleteConnectionProfile
<1>2. CASE \E profile \in Profiles : CreateConnectionProfile(p, profile)
  BY <1>2 DEF CreateConnectionProfile
<1> QED
  BY <1>1, <1>2 DEF SetupNext, ResolveSource, CreateHelper, AwaitHelper,
     DeleteHelperDatabaseResource, BackUpSource, DisableCascadingDelete,
     CreateNetworkPolicy, PrepareSourceInstance, PrepareSourceDatabase, DropPgAuditExtension,
     PrepareTargetInstance, PrepareTargetDatabase, DeleteMigrationJob, CreateMigrationJob,
     ResolveTargetAgain, AddTargetOutgoingIps, StartMigrationJob

LEMMA PromoteHarmless ==
  ASSUME TypeOK, NEW p \in Procs, PromoteNext(p)
  PROVE  \/ Harmless
         \/ ScaleApplication(p, "promote", "scale", "promote")
  BY DEF Harmless, appVars, cnrmVars, sqlVars, dmsVars, PromoteNext, ResolveAppInstance,
     GetHelper, ResolveTarget, CheckReadyForPromotion, InspectJob, StartPromotion,
     AwaitPromotion, UpdateTargetInstanceAfterPromotion, PrepareTargetDatabase,
     TakeOverTarget, ChangeOwnership, DeleteHelperApplication,
     DeleteTargetDatabaseResource, AwaitCnrmHandover,
     UpdateApplicationInstance, AwaitRollout, UpdateApplicationUser, BackUpTarget

LEMMA RollbackHarmless ==
  ASSUME TypeOK, NEW p \in Procs, RollbackNext(p)
  PROVE  \/ Harmless
         \/ ScaleIfSwitched(p)
         \/ DeleteInstance(Tgt, p, "rollback", "target", "master")
  BY DEF Harmless, appVars, cnrmVars, sqlVars, dmsVars, RollbackNext,
     DeleteHelperApplication, DeleteMigrationJob, CleanupConnectionProfile,
     DeleteConnectionProfile, DeleteMasterInstance, DeleteTargetDatabaseResource, DeleteSourceCert, AwaitDatabaseResourceGone,
     UpdateApplicationInstance, AwaitRollout, UpdateApplicationUser, DeleteSslCerts,
     DeleteNetworkPolicies

LEMMA FinalizeHarmless ==
  ASSUME TypeOK, NEW p \in Procs, FinalizeNext(p)
  PROVE  Harmless \/ DeleteInstance(Src, p, "finalize", "source", "networks")
  BY DEF Harmless, appVars, cnrmVars, sqlVars, dmsVars, FinalizeNext, ResolveAppInstance,
     DeleteFinishedJob, DeleteMigrationJob, CleanupConnectionProfile, DeleteConnectionProfile, DeleteMasterInstance,
     CleanupAuthNetworks, DeleteSslCerts, DeleteNetworkPolicies

LEMMA EnvironmentHarmless ==
  ASSUME TypeOK, Environment
  PROVE  \/ Harmless \/ AppReconcile \/ DatabaseCollected \/ PodsStop \/ Write
         \/ CatchUp \/ SampleLag
<1> USE DEF Harmless, TypeOK, DataTypeOK, appVars, cnrmVars, sqlVars, dmsVars
<1>1. CASE HelperReconcile
  BY <1>1 DEF HelperReconcile
<1>2. CASE \E i \in Inst : InstanceReconcile(i)
  BY <1>2 DEF InstanceReconcile
<1>3. CASE PromotionDone
  BY <1>3 DEF PromotionDone
<1>4. CASE HelperCollected \/ Redeploy \/ DumpDone
  BY <1>4 DEF HelperCollected, Redeploy, DumpDone
<1> QED
  BY <1>1, <1>2, <1>3, <1>4 DEF Environment

-----------------------------------------------------------------------------
(* The others *)

\* The application serves where every row is.
LEMMA ServesFromSource ==
  ASSUME TypeOK, IInv
  PROVE  /\ \A p \in Procs : phase[p] = "setup" => live = Src
         /\ "finalize" \notin started \/ live = Src \/ job = "cdc" =>
              Src \in fresh /\ Src \in near
  BY InstancesDiffer DEF IInv, Stages, LagPoints, OneProgram, SpecAndDeployment, FinalizeStage,
     NearCopy

\* An instance is lost that the application does not run on.
LEMMA LoseKeeps ==
  ASSUME NEW i \in Inst, live # i \/ pods # "up", fresh' = fresh \ {i},
         near' = near \ {i}, near' # {}, UNCHANGED <<live, pods, job>>, i \in Inst,
         \A j \in Inst \ {i} : sql'[j] = sql[j]
  PROVE  Keeps
<1>1. SparesServing
  BY DEF SparesServing
<1>2. Promise!Lose(i) \/ UNCHANGED Promise!vars
  BY InstancesDiffer DEF Promise!Lose, Promise!vars, Inst
<1>3. i \in Promise!Inst
  BY DEF Promise!Inst, Inst
<1> QED
  BY <1>1, <1>2, <1>3 DEF Keeps, Promise!Next

LEMMA StopKeeps ==
  ASSUME TypeOK, pods' \in {pods, "stopping", "down"}, UNCHANGED <<live, fresh, near, sql, job>>
  PROVE  Keeps
<1>1. SparesServing
  BY DEF SparesServing
<1>2. Promise!Stop \/ UNCHANGED Promise!vars
  BY DEF Promise!Stop, Promise!vars
<1> QED
  BY <1>1, <1>2 DEF Keeps, Promise!Next

LEMMA NextKeeps ==
  ASSUME Disciplined, TypeOK, TypeOK', IInv, IInv', [Next]_vars
  PROVE  Keeps
<1> USE InstancesDiffer
<1>1. ASSUME NEW p \in Procs, SetupNext(p) PROVE Keeps
  <2>1. phase[p] = "setup" => live = Src /\ Src \in near
    BY ServesFromSource
  <2>2. CASE DropHelperDatabase(p)
    <3>1. phase[p] = "setup" /\ UNCHANGED <<live, pods, sql, job>>
      BY <2>2 DEF DropHelperDatabase, Step, Advance, At, appVars, dmsVars
    <3>2. CASE UNCHANGED <<fresh, near>>
      BY <3>1, <3>2, HarmlessKeeps DEF Harmless
    <3>3. CASE fresh' = fresh \ {Tgt} /\ near' = near \ {Tgt}
      BY <3>1, <3>3, <2>1, LoseKeeps DEF Inst
    <3> QED
      BY <2>2, <3>2, <3>3 DEF DropHelperDatabase
  <2>3. CASE DemoteTargetInstance(p)
    <3>1. phase[p] = "setup" /\ UNCHANGED <<live, pods, job>>
      BY <2>3 DEF DemoteTargetInstance, Step, Advance, At, appVars, dmsVars
    <3>2. CASE fresh' = fresh \ {Tgt} /\ near' = near \ {Tgt} /\ sql' = [sql EXCEPT ![Tgt] = "replica"]
      <4>1. \A j \in Inst \ {Tgt} : sql'[j] = sql[j]
        BY <3>2 DEF TypeOK, DataTypeOK
      <4> QED
        BY <3>1, <3>2, <4>1, <2>1, LoseKeeps DEF Inst
    <3>3. CASE UNCHANGED <<sql, fresh, near>>
      BY <3>1, <3>3, HarmlessKeeps DEF Harmless
    <3> QED
      BY <2>3, <3>2, <3>3 DEF DemoteTargetInstance
  <2> QED
    BY <1>1, <2>2, <2>3, SetupHarmless, HarmlessKeeps
<1>2. ASSUME NEW p \in Procs, PromoteNext(p) PROVE Keeps
  <2>1. CASE ScaleApplication(p, "promote", "scale", "promote")
    BY <2>1, StopKeeps DEF ScaleApplication, ScaledDown, sqlVars, dmsVars
  <2> QED
    BY <1>2, <2>1, PromoteHarmless, HarmlessKeeps
<1>3. ASSUME NEW p \in Procs, RollbackNext(p) PROVE Keeps
  <2>1. CASE ScaleIfSwitched(p)
    BY <2>1, StopKeeps DEF ScaleIfSwitched, ScaledDown, sqlVars, dmsVars
  <2>2. CASE DeleteInstance(Tgt, p, "rollback", "target", "master")
    <3>1. At(p, "rollback", "target") /\ UNCHANGED <<live, pods, job>>
      BY <2>2 DEF DeleteInstance, Step, Advance, appVars, dmsVars
    <3>2. CASE UNCHANGED <<sql, fresh, near>>
      BY <3>1, <3>2, HarmlessKeeps DEF Harmless
    <3>3. CASE InstanceGone(Tgt)
      <4>1. /\ fresh' = fresh \ {Tgt} /\ near' = near \ {Tgt}
            /\ \A j \in Inst \ {Tgt} : sql'[j] = sql[j]
        BY <3>3 DEF InstanceGone, TypeOK, DataTypeOK
      <4>2. (live # Tgt \/ pods # "up") /\ Src \in near
        BY <3>1, ServesFromSource DEF At, IInv, Stages, OneProgram, RollbackStage
      <4> QED
        BY <3>1, <4>1, <4>2, LoseKeeps DEF Inst
    <3> QED
      BY <2>2, <3>2, <3>3 DEF DeleteInstance
  <2> QED
    BY <1>3, <2>1, <2>2, RollbackHarmless, HarmlessKeeps
<1>4. ASSUME NEW p \in Procs, FinalizeNext(p) PROVE Keeps
  <2>1. CASE DeleteInstance(Src, p, "finalize", "source", "networks")
    <3>1. At(p, "finalize", "source") /\ UNCHANGED <<live, pods, job>>
      BY <2>1 DEF DeleteInstance, Step, Advance, appVars, dmsVars
    <3>2. CASE UNCHANGED <<sql, fresh, near>>
      BY <3>1, <3>2, HarmlessKeeps DEF Harmless
    <3>3. CASE InstanceGone(Src)
      <4>1. /\ fresh' = fresh \ {Src} /\ near' = near \ {Src}
            /\ \A j \in Inst \ {Src} : sql'[j] = sql[j]
        BY <3>3 DEF InstanceGone, TypeOK, DataTypeOK
      <4>2. live = Tgt /\ Tgt \in near
        BY <3>1 DEF At, IInv, Stages, OneProgram, FinalizeStage, NearCopy
      <4> QED
        BY <3>1, <4>1, <4>2, LoseKeeps DEF Inst
    <3> QED
      BY <2>1, <3>2, <3>3 DEF DeleteInstance
  <2> QED
    BY <1>4, <2>1, FinalizeHarmless, HarmlessKeeps
<1>5. CASE Environment
  <2>1. CASE AppReconcile
    <3>1. \A i \in Inst \ {spec} : ~policy[i]
      BY DEF IInv, Stages, CascadeOff, SpecAndDeployment, TypeOK, DataTypeOK, Inst
    <3>2. /\ UNCHANGED <<fresh, near, job>> /\ live' = spec /\ pods' = "up"
          /\ \A i \in Inst : sql'[i] = "absent" => sql[i] = "absent"
      BY <2>1, <3>1 DEF AppReconcile, TypeOK, DataTypeOK, dmsVars
    <3>3. live' \in near'
      <4>1. ServesCommittedRows'
        <5>1. (TypeOK /\ IInv => ServesCommittedRows)'
          BY IInvServes, PTL
        <5> QED
          BY <5>1
      <4> QED
        BY <4>1, <3>2 DEF ServesCommittedRows
    <3>4. Promise!Serve(spec) /\ spec \in Promise!Inst
      BY <3>2, <3>3 DEF Promise!Serve, Promise!Inst, TypeOK, DataTypeOK, Inst
    <3> QED
      BY <3>2, <3>4 DEF Keeps, SparesServing, Promise!Next
  <2>2. CASE PodsStop
    BY <2>2, StopKeeps DEF PodsStop, sqlVars, dmsVars
  <2>3. CASE Write
    <3>1. /\ pods \in {"up", "stopping"} /\ live = Src /\ fresh' = fresh \cap {Src}
          /\ near' = IF job = "cdc" \/ pods = "stopping" THEN near ELSE near \cap {Src}
          /\ UNCHANGED <<live, pods, sql, job>>
      BY <2>3 DEF Write, appVars, dmsVars, TypeOK, DataTypeOK
    <3>2. Src \in fresh /\ Src \in near
      BY <3>1, ServesFromSource
    <3>3. fresh' = {Src} /\ near \cap {Src} = {Src}
      BY <3>1, <3>2
    <3>4. ASSUME pods = "up" PROVE Promise!Commit
      BY <3>1, <3>2, <3>3, <3>4 DEF Promise!Commit
    <3>5. ASSUME pods = "stopping" PROVE Promise!Commit
      <4>1. "none" # Src
        BY InstancesDiffer
      <4> QED
        BY <3>1, <3>2, <3>3, <3>5, <4>1 DEF Promise!Commit
    <3>6. Promise!Commit
      BY <3>1, <3>4, <3>5
    <3> QED
      BY <3>1, <3>6 DEF Keeps, SparesServing, Promise!Next
  <2>4. CASE CatchUp
    <3>1. /\ job = "cdc" /\ Src \in fresh
          /\ fresh' = fresh \cup {Tgt} /\ near' = near \cup {Tgt}
          /\ UNCHANGED <<live, pods, sql, job>>
      BY <2>4 DEF CatchUp, appVars, dmsVars
    <3>2. Src \in near
      BY <3>1, ServesFromSource
    <3>3. Promise!CatchUp
      BY <3>1, <3>2 DEF Promise!CatchUp, Promise!Inst, TypeOK, DataTypeOK, Inst
    <3> QED
      BY <3>1, <3>3 DEF Keeps, SparesServing, Promise!Next
  <2>5. CASE SampleLag
    <3>1. job = "cdc" /\ UNCHANGED <<live, pods, sql, fresh, job>>
      BY <2>5 DEF SampleLag, appVars
    <3>2. CASE UNCHANGED near
      BY <3>1, <3>2, HarmlessKeeps DEF Harmless
    <3>3. CASE Tgt \notin fresh /\ near' = near \ {Tgt}
      <4>1. Src \in near'
        BY <3>1, <3>3, ServesFromSource
      <4>2. Promise!FallBehind
        BY <3>1, <3>3, <4>1 DEF Promise!FallBehind
      <4> QED
        BY <3>1, <4>2 DEF Keeps, SparesServing, Promise!Next
    <3> QED
      BY <2>5, <3>2, <3>3 DEF SampleLag
  <2>6. CASE DatabaseCollected
    <3>1. ~policy[live]
      BY <2>6 DEF DatabaseCollected, IInv, Stages, CascadeOff, TypeOK, DataTypeOK, Inst
    <3> QED
      BY <2>6, <3>1, HarmlessKeeps DEF DatabaseCollected, Harmless, appVars
  <2> QED
    BY <1>5, <2>1, <2>2, <2>3, <2>4, <2>5, <2>6, EnvironmentHarmless, HarmlessKeeps
<1>6. ASSUME NEW p \in Procs, Exit(p) PROVE Keeps
  BY <1>6, HarmlessKeeps DEF Exit, Harmless, sqlVars
<1>7. ASSUME NEW p \in Procs, NEW ph \in Phases, Start(p, ph) PROVE Keeps
  BY <1>7, HarmlessKeeps DEF Start, Begin, Harmless, appVars, sqlVars
<1>8. CASE UNCHANGED vars
  BY <1>8, HarmlessKeeps DEF vars, Harmless, appVars, sqlVars
<1> QED
  BY <1>1, <1>2, <1>3, <1>4, <1>5, <1>6, <1>7, <1>8 DEF Next, Run

-----------------------------------------------------------------------------
(* The theorems *)

LEMMA InitPromise == Init => Promise!Init
  BY DEF Init, Promise!Init

\* In a disciplined migration the programs with their platform implement Switchover, which
\* lets a switch go to a copy that lacks none but the latest rows.
THEOREM Refines == ASSUME Disciplined PROVE Spec => SwitchoverSpec
<1>1. TypeOK /\ TypeOK' /\ IInv /\ IInv' /\ [Next]_vars => [Promise!Next]_(Promise!vars)
  BY NextKeeps DEF Keeps
<1> QED
  BY <1>1, InitPromise, TypeCorrect, Inductive, PTL DEF Spec, SwitchoverSpec, Promise!Spec

\* In a disciplined migration neither rollback, finalize nor naiserator deletes an instance
\* under running pods; a rollback may delete it under pods that are being stopped.
THEOREM NoServingDeleted == ASSUME Disciplined PROVE Spec => NeverDeletesServing
<1>1. TypeOK /\ TypeOK' /\ IInv /\ IInv' /\ [Next]_vars => [SparesServing]_vars
  BY NextKeeps DEF Keeps
<1> QED
  BY <1>1, TypeCorrect, Inductive, PTL DEF Spec, NeverDeletesServing, SparesServing
=============================================================================
