---------------------------- MODULE DetailProofs ----------------------------
(***************************************************************************)
(* Detailed adds data to Migrator and takes no step of its own: what is    *)
(* proved of Migrator holds of it.  Then, what holds of the data.          *)
(***************************************************************************)
EXTENDS DetailInv, RefinementProofs, OutcomeProofs

\* The programs that clean up.
DetailCleanup(p) == DetailRollback(p) \/ DetailFinalize(p)

\* A step of a program with its data is a step of the program.
LEMMA DetailRunIsRun ==
    ASSUME NEW p \in Procs, DetailRun(p)
    PROVE  Run(p)
<1>1. CASE DetailSetup(p)
  <2>1. SetupNext(p)
    BY <1>1 DEF DetailSetup, SetupNext
  <2> QED
    BY <2>1 DEF Run
<1>2. CASE DetailPromote(p)
  <2>1. PromoteNext(p)
    BY <1>2 DEF DetailPromote, PromoteNext
  <2> QED
    BY <2>1 DEF Run
<1>3. CASE DetailCleanup(p)
  <2>1. RollbackNext(p) \/ FinalizeNext(p)
    BY <1>3 DEF DetailCleanup, DetailRollback, DetailFinalize, RollbackNext, FinalizeNext
  <2> QED
    BY <2>1 DEF Run
<1>4. CASE ~Touched(p) /\ Run(p)
  BY <1>4
<1> QED
  BY <1>1, <1>2, <1>3, <1>4 DEF DetailRun, DetailCleanup, DetailRollback, DetailFinalize

\* So is every other step, or it leaves what Migrator knows as it is.
LEMMA DetailStep == [DetailNext]_detailedVars => [Next]_vars
<1> SUFFICES ASSUME [DetailNext]_detailedVars PROVE [Next]_vars
  OBVIOUS
<1>1. CASE \E p \in Procs : DetailRun(p)
  BY <1>1, DetailRunIsRun DEF Next
<1>2. CASE \E p \in Procs : Exit(p) /\ Forget(p)
  BY <1>2 DEF Next
<1>3. CASE \E p \in Procs, ph \in Phases : Start(p, ph) /\ UNCHANGED details
  BY <1>3 DEF Next
<1>4. CASE DetailEnvironment
  <2>1. Environment
    BY <1>4 DEF DetailEnvironment, HelperApplied, Environment
  <2> QED
    BY <2>1 DEF Next
<1>5. CASE EnableAudit
  BY <1>5 DEF EnableAudit
<1>6. CASE UNCHANGED detailedVars
  BY <1>6 DEF detailedVars
<1> QED
  BY <1>1, <1>2, <1>3, <1>4, <1>5, <1>6 DEF DetailNext

\* The detailed model implements Migrator.
THEOREM ImplementsMigrator == DetailSpec => Spec
<1>1. DetailInit => Init
  BY DEF DetailInit
<1> QED
  BY <1>1, DetailStep, PTL DEF DetailSpec, Spec

\* With its settings, flags and passwords too, a disciplined migration keeps the
\* promise of Switchover.
THEOREM DetailedRefines == ASSUME Disciplined PROVE DetailSpec => SwitchoverSpec
BY ImplementsMigrator, Refines, PTL


-----------------------------------------------------------------------------
(* What the programs make of settings *)

LEMMA EntriesMade ==
    ASSUME NEW e, IsEntry(e), NEW version
    PROVE  IsEntry(DefineInstance(version, e)) /\ IsEntry(HelperInstance(version, e))
BY DEF IsEntry, DefineInstance, HelperInstance, StripPgAuditFlags

LEMMA SettingsMade ==
    ASSUME NEW e, IsEntry(e)
    PROVE  IsSettings(Created(e)) /\ Created(e).backup /\ Created(e).nets = {}
BY DEF IsEntry, IsSettings, Created

LEMMA SettingsApplied ==
    ASSUME NEW e, IsEntry(e), NEW r, IsSettings(r)
    PROVE  /\ IsSettings(Applied(e, r)) /\ Applied(e, r).backup /\ Applied(e, r).nets = r.nets
           /\ Protection(Applied(e, r)) = Protection(Created(e))
           /\ Applied(e, r).version = e.version
           /\ \A f \in DOMAIN e.flags :
                f \in DOMAIN Applied(e, r).flags /\ Applied(e, r).flags[f] = e.flags[f]
BY DEF IsEntry, IsSettings, Applied, Created, Protection

LEMMA NetworkAdded ==
    ASSUME NEW nets, \A net \in nets : net.value = OwnNetwork.value => net = OwnNetwork
    PROVE  /\ OwnNetwork \in AppendAuthNetIfNotExists(nets, OwnNetwork)
           /\ nets \subseteq AppendAuthNetIfNotExists(nets, OwnNetwork)
           /\ \A net \in AppendAuthNetIfNotExists(nets, OwnNetwork) :
                net.value = OwnNetwork.value => net = OwnNetwork
BY DEF AppendAuthNetIfNotExists, OwnNetwork

LEMMA FlagSet ==
    ASSUME NEW flags, flags \in [DOMAIN flags -> {"on", "off"}], NEW name
    PROVE  /\ SetFlag(flags, name) \in [DOMAIN SetFlag(flags, name) -> {"on", "off"}]
           /\ \A f \in DOMAIN flags :
                f \in DOMAIN SetFlag(flags, name) /\ SetFlag(flags, name)[f] = flags[f]
BY DEF SetFlag

LEMMA SettingsPrepared ==
    ASSUME NEW r, IsSettings(r)
    PROVE  /\ IsSettings(SourcePrepared(r, OwnNetwork))
           /\ SourcePrepared(r, OwnNetwork).backup = r.backup
           /\ Protection(SourcePrepared(r, OwnNetwork)) = Protection(r)
           /\ OwnNetwork \in SourcePrepared(r, OwnNetwork).nets
           /\ IsSettings(TargetPrepared(r, OwnNetwork))
           /\ ~TargetPrepared(r, OwnNetwork).backup
           /\ OwnNetwork \in TargetPrepared(r, OwnNetwork).nets
           /\ Suits(TargetPrepared(r, OwnNetwork))
<1> DEFINE once == SetFlag(r.flags, "cloudsql.enable_pglogical")
           twice == SetFlag(once, "cloudsql.logical_decoding")
           nets == AppendAuthNetIfNotExists(r.nets, OwnNetwork)
<1>1. once \in [DOMAIN once -> {"on", "off"}]
  BY FlagSet DEF IsSettings
<1>2. twice \in [DOMAIN twice -> {"on", "off"}]
  BY <1>1, FlagSet
<1>3. OwnNetwork \in nets /\ \A net \in nets : net.value = OwnNetwork.value => net = OwnNetwork
  BY NetworkAdded DEF IsSettings
<1>4. SourcePrepared(r, OwnNetwork) = [r EXCEPT !.nets = nets, !.flags = twice]
  BY DEF SourcePrepared, IsSettings
<1> HIDE DEF once, twice, nets
<1>5. /\ IsSettings(SourcePrepared(r, OwnNetwork))
      /\ SourcePrepared(r, OwnNetwork).backup = r.backup
      /\ Protection(SourcePrepared(r, OwnNetwork)) = Protection(r)
      /\ OwnNetwork \in SourcePrepared(r, OwnNetwork).nets
  BY <1>2, <1>3, <1>4 DEF IsSettings, Protection
<1>6. TargetPrepared(r, OwnNetwork) =
        [r EXCEPT !.backup = FALSE, !.pitr = FALSE, !.ha = FALSE,
                  !.flags = StripPgAuditFlags(r.flags), !.nets = nets]
  BY DEF TargetPrepared, IsSettings, nets
<1>7. StripPgAuditFlags(r.flags) \in [DOMAIN StripPgAuditFlags(r.flags) -> {"on", "off"}]
  BY DEF StripPgAuditFlags, IsSettings
<1>8. DOMAIN StripPgAuditFlags(r.flags) \cap AuditFlags = {}
  BY DEF StripPgAuditFlags
<1> QED
  BY <1>3, <1>5, <1>6, <1>7, <1>8 DEF IsSettings, Suits, HasPgAuditFlags

LEMMA AddressesDiffer ==
    \A idx \in DOMAIN ResolveOutgoingIps(Outgoing) : TargetNetwork(idx).value # OwnNetwork.value
<1>1. Len(Outgoing) \in Nat /\ Len(Outgoing) \in DOMAIN Outgoing
  BY OutgoingGiven
<1>2. /\ DOMAIN ResolveOutgoingIps(Outgoing) = {1}
      /\ ResolveOutgoingIps(Outgoing)[1] = Outgoing[Len(Outgoing)]
  BY <1>1, OutgoingGiven DEF ResolveOutgoingIps
<1>3. Outgoing[Len(Outgoing)] # "own"
  BY <1>1, OutgoingGiven
<1> QED
  BY <1>2, <1>3 DEF TargetNetwork, OwnNetwork

LEMMA SettingsRestored ==
    ASSUME NEW r, IsSettings(r), NEW source, IsSettings(source)
    PROVE  /\ IsSettings(ProtectedAs(source, r))
           /\ ProtectedAs(source, r).backup = source.backup
           /\ ProtectedAs(source, r).nets = r.nets
           /\ Protection(ProtectedAs(source, r)) = Protection(source)
           /\ ProtectedAs(source, r).flags = r.flags
           /\ ProtectedAs(source, r).version = r.version
BY DEF IsSettings, ProtectedAs, Protection


LEMMA NetsCleaned ==
    ASSUME NEW r, IsSettings(r)
    PROVE  LET cleaned == [r EXCEPT !.nets = RemoveMigrationAuthNetwork(@)] IN
           /\ IsSettings(cleaned) /\ cleaned.backup = r.backup /\ Protection(cleaned) = Protection(r)
           /\ cleaned.flags = r.flags /\ cleaned.version = r.version
           /\ (OwnNetwork \in r.nets => OwnNetwork \in cleaned.nets)
<1> DEFINE nets == RemoveMigrationAuthNetwork(r.nets)
<1>1. nets \subseteq r.nets /\ (OwnNetwork \in r.nets => OwnNetwork \in nets)
  BY DEF RemoveMigrationAuthNetwork, OwnNetwork
<1> HIDE DEF nets
<1>2. [r EXCEPT !.nets = RemoveMigrationAuthNetwork(@)] = [r EXCEPT !.nets = nets]
  BY DEF nets, IsSettings
<1> QED
  BY <1>1, <1>2 DEF IsSettings, Protection

LEMMA FlagsReplaced ==
    ASSUME NEW r, IsSettings(r), NEW flags, flags \in [DOMAIN flags -> {"on", "off"}]
    PROVE  LET new == [r EXCEPT !.flags = flags] IN
           /\ IsSettings(new) /\ new.flags = flags
           /\ new.backup = r.backup /\ new.nets = r.nets /\ new.version = r.version
           /\ Protection(new) = Protection(r)
BY DEF IsSettings, Protection

-----------------------------------------------------------------------------
(* Types *)

LEMMA TypesAgree == SettingTypes /\ KnowledgeTypes => DetailTypeOK
BY DEF SettingTypes, KnowledgeTypes, DetailTypeOK, Shapes, IsEntry, IsSettings, Created

LEMMA ConfigureShapes ==
    ASSUME Shapes, NEW i \in Inst, NEW settings, IsSettings(settings), Configure(i, settings)
    PROVE  Shapes' /\ res'[i] = settings /\ \A j \in Inst \ {i} : res'[j] = res[j]
BY DEF Shapes, Configure, IsEntry, IsSettings

LEMMA ApplyShapes ==
    ASSUME Shapes, NEW i \in Inst, NEW e, IsEntry(e), ApplyTo(i, e)
    PROVE  /\ Shapes' /\ res'[i].backup /\ (sql[i] # "absent" => res'[i].nets = res[i].nets)
           /\ \A j \in Inst \ {i} : res'[j] = res[j]
<1>1. /\ IsSettings(Created(e)) /\ Created(e).backup
      /\ IsSettings(Applied(e, res[i])) /\ Applied(e, res[i]).backup
      /\ Applied(e, res[i]).nets = res[i].nets
  BY SettingsMade, SettingsApplied DEF Shapes
<1> QED
  BY <1>1, ConfigureShapes DEF ApplyTo

\* The steps that no settings go with change nothing the settings are related to, but
\* take artefacts away with their instance.
Inert ==
    /\ {"sourceNet", "targetNet"} \cap left' \subseteq left
    /\ Profiles \cap left \subseteq left'
    /\ sql'[Src] = "absent" => sql[Src] = "absent" \/ "sourceNet" \notin left'
    /\ sql'[Tgt] = "absent" => sql[Tgt] = "absent" \/ "targetNet" \notin left'
    /\ sql'[Tgt] # "absent" => sql[Tgt] # "absent" /\ reduced' = reduced

LEMMA InertKeeps ==
    ASSUME SettingTypes, Inert, UNCHANGED <<entry, manifest, wanted, res>>
    PROVE  SettingTypes'
BY DEF SettingTypes, Inert, Shapes, IsEntry, IsSettings

LEMMA SetupUntouched ==
    ASSUME TypeOK, NEW p \in Procs, SetupNext(p), ~Touched(p)
    PROVE  Inert
<1> USE InstancesDiffer DEF Inert, TypeOK, DataTypeOK, Inst, sqlVars
<1>1. CASE CreateHelper(p) \/ AwaitHelper(p) \/ DeleteHelperDatabaseResource(p)
           \/ DropHelperDatabase(p) \/ BackUpSource(p) \/ DisableCascadingDelete(p)
  BY <1>1 DEF CreateHelper, AwaitHelper, DeleteHelperDatabaseResource, DropHelperDatabase,
     BackUpSource, DisableCascadingDelete
<1>2. CASE CreateNetworkPolicy(p)
  BY <1>2 DEF CreateNetworkPolicy
<1>3. CASE DeleteMigrationJob(p, "setup", "deleteJob", "deleteProfiles")
           \/ CreateMigrationJob(p) \/ DemoteTargetInstance(p) \/ ResolveTargetAgain(p)
  BY <1>3 DEF DeleteMigrationJob, CreateMigrationJob, DemoteTargetInstance, ResolveTargetAgain
<1>4. CASE \/ ResolveSource(p) \/ PrepareSourceInstance(p) \/ PrepareSourceDatabase(p)
           \/ DropPgAuditExtension(p) \/ PrepareTargetInstance(p)
           \/ PrepareTargetDatabase(p, "setup", "deleteJob")
           \/ AddTargetOutgoingIps(p) \/ StartMigrationJob(p)
  BY <1>4 DEF Touched, ResolveSource, PrepareSourceInstance, PrepareSourceDatabase,
     DropPgAuditExtension, PrepareTargetInstance, PrepareTargetDatabase, AddTargetOutgoingIps,
     StartMigrationJob, Finish, Step, Advance, At, SetupData, PromoteData, RollbackData,
     FinalizeData
<1>5. CASE \E profile \in Profiles : DeleteOldProfile(p, profile) \/ CreateConnectionProfile(p, profile)
  BY <1>5, OtherProfile DEF Touched, DeleteOldProfile, DeleteConnectionProfile,
     CreateConnectionProfile, ToCreate, Profiles, Step, Advance, At, CleanupConnectionProfile,
     SetupData, PromoteData, RollbackData, FinalizeData
<1> QED
  BY <1>1, <1>2, <1>3, <1>4, <1>5 DEF SetupNext

LEMMA PromoteUntouched ==
    ASSUME TypeOK, NEW p \in Procs, PromoteNext(p), ~Touched(p)
    PROVE  Inert
<1>1. UNCHANGED <<sql, reduced>> /\ (left' = left \/ left' = left \cup {"targetCert"})
  <2>1. CASE ResolveAppInstance(p, "promote", "resolve", "helper") \/ TakeOverTarget(p)
             \/ BackUpTarget(p)
    BY <2>1 DEF ResolveAppInstance, TakeOverTarget, ChangeOwnership, DeleteHelperApplication,
       BackUpTarget, sqlVars
  <2>2. CASE UpdateTargetInstanceAfterPromotion(p)
    BY <2>2 DEF Touched, UpdateTargetInstanceAfterPromotion, Step, Advance, At, PromoteData
  <2>3. CASE PrepareTargetDatabase(p, "promote", "ownPostgres")
    BY <2>3 DEF PrepareTargetDatabase, sqlVars
  <2> QED
    BY <2>1, <2>2, <2>3 DEF PromoteNext, GetHelper, ResolveTarget, CheckReadyForPromotion,
       ScaleApplication, InspectJob, StartPromotion, AwaitPromotion,
       DeleteTargetDatabaseResource, AwaitCnrmHandover, UpdateApplicationInstance,
       AwaitRollout, UpdateApplicationUser, sqlVars
<1> QED
  BY <1>1 DEF Inert, Profiles

LEMMA CleanupUntouched ==
    ASSUME TypeOK, NEW p \in Procs, RollbackNext(p) \/ FinalizeNext(p), ~Touched(p)
    PROVE  Inert
<1> USE InstancesDiffer DEF Inert, TypeOK, DataTypeOK, Inst, sqlVars
<1>1. CASE \/ DeleteInstance(Tgt, p, "rollback", "target", "master")
           \/ DeleteInstance(Src, p, "finalize", "source", "networks")
  BY <1>1 DEF DeleteInstance, InstanceGone, ArtefactsOn, Profiles
<1>2. CASE \E ph, from, to : DeleteSslCerts(p, ph, from, to) \/ DeleteNetworkPolicies(p, ph, from)
  BY <1>2 DEF DeleteSslCerts, DeleteNetworkPolicies, Certs, Profiles
<1>3. CASE \E ph \in {"rollback", "finalize"} :
            CleanupConnectionProfile("sourceProfile", p, ph, "sourceProfile", "targetProfile")
  BY <1>3 DEF Touched, DeleteConnectionProfile, Step, Advance, At, CleanupConnectionProfile,
     SetupData, PromoteData, RollbackData, FinalizeData
<1>4. CASE \/ CleanupConnectionProfile("targetProfile", p, "rollback", "targetProfile", "target")
           \/ CleanupConnectionProfile("targetProfile", p, "finalize", "targetProfile", "master")
  BY <1>4 DEF Touched, DeleteConnectionProfile, Step, Advance, At, CleanupConnectionProfile,
     SetupData, PromoteData, RollbackData, FinalizeData
<1>5. CASE \/ ScaleIfSwitched(p)
           \/ DeleteHelperApplication(p, "rollback", "deleteHelper", "deleteJob")
           \/ DeleteMigrationJob(p, "rollback", "deleteJob", "sourceProfile")
           \/ DeleteMasterInstance(TRUE, p, "rollback", "master", "dbResource")
           \/ DeleteTargetDatabaseResource(p, "rollback", "dbResource", "cert")
           \/ DeleteSourceCert(p)
           \/ AwaitDatabaseResourceGone(p)
           \/ UpdateApplicationInstance(Src, p, "rollback", "update", "rollout")
           \/ AwaitRollout(Src, p, "rollback", "rollout", "user")
           \/ UpdateApplicationUser(Src, p, "rollback", "user", "certs")
  BY <1>5 DEF ScaleIfSwitched, DeleteHelperApplication, DeleteMigrationJob,
     DeleteMasterInstance, DeleteTargetDatabaseResource, DeleteSourceCert,
     AwaitDatabaseResourceGone, UpdateApplicationInstance, AwaitRollout, UpdateApplicationUser
<1>6. CASE \/ ResolveAppInstance(p, "finalize", "resolve", "deleteJob")
           \/ DeleteFinishedJob(p)
           \/ DeleteMasterInstance(view[p] = Tgt, p, "finalize", "master", "source")
           \/ CleanupAuthNetworks(p)
  BY <1>6 DEF ResolveAppInstance, DeleteFinishedJob, DeleteMigrationJob, DeleteMasterInstance,
     CleanupAuthNetworks
<1>7. CASE RollbackNext(p)
  BY <1>1, <1>2, <1>3, <1>4, <1>5, <1>7 DEF RollbackNext
<1>8. CASE FinalizeNext(p)
  BY <1>1, <1>2, <1>3, <1>4, <1>6, <1>8 DEF FinalizeNext
<1> QED
  BY <1>7, <1>8


LEMMA SetupSettingTypes ==
    ASSUME TypeOK, SettingTypes, SourceInView, NEW p \in Procs, DetailSetup(p)
    PROVE  SettingTypes'
<1> USE InstancesDiffer DEF Inst
<1>1. /\ phase[p] = "setup" /\ (pc[p] # "resolve" => view[p] = Src)
  <2>1. phase[p] = "setup"
    BY SetupStepStays DEF DetailSetup, SetupNext
  <2> QED
    BY <2>1 DEF SourceInView
<1>2. CASE CreateHelper(p) /\ DescribeHelper
  <2>1. Shapes'
    BY <1>2, EntriesMade DEF SettingTypes, Shapes, DescribeHelper, IsEntry, IsSettings
  <2> QED
    BY <1>2, <2>1 DEF SettingTypes, CreateHelper, DescribeHelper, sqlVars
<1>3. CASE PrepareSourceInstance(p) /\ Configure(view[p], SourcePrepared(res[view[p]], OwnNetwork))
  <2>1. view[p] = Src
    BY <1>1, <1>3, AdvanceStays DEF PrepareSourceInstance
  <2>2. /\ IsSettings(SourcePrepared(res[Src], OwnNetwork))
        /\ SourcePrepared(res[Src], OwnNetwork).backup = res[Src].backup
        /\ OwnNetwork \in SourcePrepared(res[Src], OwnNetwork).nets
    BY SettingsPrepared DEF SettingTypes, Shapes
  <2>3. Shapes' /\ res'[Src] = SourcePrepared(res[Src], OwnNetwork) /\ res'[Tgt] = res[Tgt]
    BY <1>3, <2>1, <2>2, ConfigureShapes DEF SettingTypes
  <2>4. sql[Src] # "absent" /\ UNCHANGED <<sql, reduced>> /\ left' = left \cup {"sourceNet"}
    BY <1>3, <2>1 DEF PrepareSourceInstance, Resolvable, sqlVars
  <2> QED
    BY <2>2, <2>3, <2>4 DEF SettingTypes
<1>4. CASE PrepareTargetInstance(p) /\ Configure(Tgt, TargetPrepared(res[Tgt], OwnNetwork))
  <2>1. /\ IsSettings(TargetPrepared(res[Tgt], OwnNetwork))
        /\ ~TargetPrepared(res[Tgt], OwnNetwork).backup
        /\ OwnNetwork \in TargetPrepared(res[Tgt], OwnNetwork).nets
    BY SettingsPrepared DEF SettingTypes, Shapes
  <2>2. Shapes' /\ res'[Tgt] = TargetPrepared(res[Tgt], OwnNetwork) /\ res'[Src] = res[Src]
    BY <1>4, <2>1, ConfigureShapes DEF SettingTypes
  <2>3. /\ sql[Tgt] # "absent" /\ sql' = sql /\ reduced' = TRUE /\ left' = left \cup {"targetNet"}
        /\ res'[Tgt].backup \in BOOLEAN
    BY <1>4, <2>2 DEF PrepareTargetInstance, Resolvable, Shapes, IsSettings
  <2> QED
    BY <2>1, <2>2, <2>3 DEF SettingTypes
<1>5. CASE AddTargetOutgoingIps(p) /\ AllowTarget(view[p])
  <2> DEFINE new == {TargetNetwork(idx) : idx \in DOMAIN ResolveOutgoingIps(Outgoing)}
             add == {net \in new : AppendAuthNetIfNotExists(res[Src].nets, net) # res[Src].nets}
  <2>1. view[p] = Src
    BY <1>1, <1>5, AdvanceStays DEF AddTargetOutgoingIps
  <2>2. \A net \in add : net.value # OwnNetwork.value
    BY AddressesDiffer
  <2>3. Configure(Src, [res[Src] EXCEPT !.nets = @ \cup add])
    BY <1>5, <2>1 DEF AllowTarget
  <2> HIDE DEF add
  <2>4. /\ IsSettings([res[Src] EXCEPT !.nets = @ \cup add])
        /\ [res[Src] EXCEPT !.nets = @ \cup add].backup = res[Src].backup
        /\ [res[Src] EXCEPT !.nets = @ \cup add].nets = res[Src].nets \cup add
    BY <2>2 DEF SettingTypes, Shapes, IsSettings
  <2>5. Shapes' /\ res'[Src] = [res[Src] EXCEPT !.nets = @ \cup add] /\ res'[Tgt] = res[Tgt]
    BY <2>3, <2>4, ConfigureShapes DEF SettingTypes
  <2>6. UNCHANGED <<sql, reduced>> /\ left' = left \cup {"sourceIps"}
    BY <1>5 DEF AddTargetOutgoingIps, sqlVars
  <2> QED
    BY <2>4, <2>5, <2>6 DEF SettingTypes
<1>6. CASE DetailSetup(p) /\ ~(CreateHelper(p) /\ DescribeHelper)
           /\ ~(PrepareSourceInstance(p) /\ Configure(view[p], SourcePrepared(res[view[p]], OwnNetwork)))
           /\ ~(PrepareTargetInstance(p) /\ Configure(Tgt, TargetPrepared(res[Tgt], OwnNetwork)))
           /\ ~(AddTargetOutgoingIps(p) /\ AllowTarget(view[p]))
  <2>1. UNCHANGED <<settingVars, sql, reduced>>
    BY <1>6 DEF DetailSetup, ResolveSource, ReadFlags, PrepareSourceDatabase, InstallExtension,
       NewPassword, DropPgAuditExtension, DropAudit, PrepareTargetDatabase, SetPassword,
       DeleteOldProfile, DeleteConnectionProfile, DropProfile, CreateConnectionProfile,
       FillProfile, StartMigrationJob, Forget, sqlVars, details, CleanupConnectionProfile
  <2>2. {"sourceNet", "targetNet"} \cap left' \subseteq left
    BY <1>6 DEF DetailSetup, ResolveSource, PrepareSourceDatabase, DropPgAuditExtension,
       PrepareTargetDatabase, DeleteOldProfile, DeleteConnectionProfile,
       CreateConnectionProfile, StartMigrationJob, Profiles, CleanupConnectionProfile
  <2> QED
    BY <2>1, <2>2 DEF SettingTypes, settingVars, Shapes, IsEntry, IsSettings
<1> QED
  BY <1>2, <1>3, <1>4, <1>5, <1>6

LEMMA RedefineKeepsTypes ==
    ASSUME SettingTypes, NEW version, Redefine(version), UNCHANGED <<sql, reduced, left>>
    PROVE  SettingTypes'
<1>1. IsEntry(DefineInstance(version, entry))
  BY EntriesMade DEF SettingTypes, Shapes
<1>2. Shapes'
  BY <1>1 DEF SettingTypes, Shapes, Redefine, IsEntry, IsSettings
<1> QED
  BY <1>2 DEF SettingTypes, Redefine

LEMMA PromoteSettingTypes ==
    ASSUME TypeOK, SettingTypes, SourceInView, NEW p \in Procs, DetailPromote(p)
    PROVE  SettingTypes'
<1>1. CASE UpdateTargetInstanceAfterPromotion(p) /\ RestoreProtection(view[p])
  <2>1. view[p] = Src
    BY <1>1, AdvanceStays DEF UpdateTargetInstanceAfterPromotion, SourceInView
  <2>2. /\ IsSettings(ProtectedAs(res[Src], res[Tgt]))
        /\ ProtectedAs(res[Src], res[Tgt]).backup
        /\ ProtectedAs(res[Src], res[Tgt]).nets = res[Tgt].nets
    BY SettingsRestored DEF SettingTypes, Shapes, Inst
  <2>3. Shapes' /\ res'[Tgt] = ProtectedAs(res[Src], res[Tgt]) /\ res'[Src] = res[Src]
    BY <1>1, <2>1, <2>2, ConfigureShapes, InstancesDiffer DEF SettingTypes, RestoreProtection, Inst
  <2>4. UNCHANGED <<sql, left>> /\ reduced' = FALSE
    BY <1>1 DEF UpdateTargetInstanceAfterPromotion
  <2> QED
    BY <2>2, <2>3, <2>4 DEF SettingTypes
<1>2. CASE UpdateApplicationInstance(Tgt, p, "promote", "update", "rollout") /\ Redefine(TargetVersion)
  BY <1>2, RedefineKeepsTypes DEF UpdateApplicationInstance, sqlVars
<1>3. CASE \/ PrepareTargetDatabase(p, "promote", "ownPostgres") /\ SetPassword(p, Tgt)
           \/ TakeOverTarget(p) /\ pc[p] # "deleteHelper" /\ Connected(p)
  <2>1. UNCHANGED <<settingVars, sql, reduced>> /\ {"sourceNet", "targetNet"} \cap left' \subseteq left
    BY <1>3 DEF PrepareTargetDatabase, SetPassword, NewPassword, details, sqlVars,
       TakeOverTarget, ChangeOwnership, DeleteHelperApplication, Connected
  <2> QED
    BY <2>1 DEF SettingTypes, settingVars, Shapes, IsEntry, IsSettings
<1> QED
  BY <1>1, <1>2, <1>3 DEF DetailPromote


\* The profiles that rollback and finalize delete.
LEMMA CleanupProfile ==
    ASSUME TypeOK, NEW p \in Procs, RollbackNext(p) \/ FinalizeNext(p), pc[p] \in Profiles
    PROVE  /\ \E profile \in Profiles : left' \in {left, left \ {profile}}
           /\ UNCHANGED <<phase, view, appVars, cnrmVars, sqlVars, dmsVars>>
<1>1. RollbackNext(p) \/ FinalizeNext(p)
  OBVIOUS
<1>2. ASSUME NEW profile \in Profiles, NEW ph, NEW to,
             CleanupConnectionProfile(profile, p, ph, profile, to)
      PROVE  /\ left' \in {left, left \ {profile}}
             /\ UNCHANGED <<phase, view, appVars, cnrmVars, sqlVars, dmsVars>>
  BY <1>2, AdvanceStays DEF DeleteConnectionProfile, CleanupConnectionProfile
<1>3. CASE RollbackNext(p)
  <2>1. \/ CleanupConnectionProfile("sourceProfile", p, "rollback", "sourceProfile", "targetProfile")
        \/ CleanupConnectionProfile("targetProfile", p, "rollback", "targetProfile", "target")
    BY <1>3 DEF RollbackNext, Profiles, Step, Advance, At, Finish, ScaleIfSwitched,
       DeleteHelperApplication, DeleteMigrationJob, DeleteInstance, DeleteMasterInstance,
       DeleteTargetDatabaseResource, DeleteSourceCert, AwaitDatabaseResourceGone,
       UpdateApplicationInstance, AwaitRollout, UpdateApplicationUser, DeleteSslCerts,
       DeleteNetworkPolicies
  <2> QED
    BY <1>2, <2>1 DEF Profiles
<1>4. CASE FinalizeNext(p)
  <2>1. \/ CleanupConnectionProfile("sourceProfile", p, "finalize", "sourceProfile", "targetProfile")
        \/ CleanupConnectionProfile("targetProfile", p, "finalize", "targetProfile", "master")
    BY <1>4 DEF FinalizeNext, Profiles, Step, Advance, At, Finish, ResolveAppInstance,
       DeleteFinishedJob, DeleteMigrationJob, DeleteMasterInstance, DeleteInstance,
       CleanupAuthNetworks, DeleteSslCerts, DeleteNetworkPolicies
  <2> QED
    BY <1>2, <2>1 DEF Profiles
<1> QED
  BY <1>1, <1>3, <1>4

LEMMA CleanupSettingTypes ==
    ASSUME TypeOK, SettingTypes, NEW p \in Procs, DetailCleanup(p)
    PROVE  SettingTypes'
<1>1. CASE (RollbackNext(p) \/ FinalizeNext(p)) /\ pc[p] \in Profiles /\ DropProfile
  BY <1>1, CleanupProfile DEF SettingTypes, DropProfile, settingVars, sqlVars,
     Shapes, IsEntry, IsSettings
<1>2. CASE UpdateApplicationInstance(Src, p, "rollback", "update", "rollout") /\ Redefine(SourceVersion)
  BY <1>2, RedefineKeepsTypes DEF UpdateApplicationInstance, sqlVars
<1>3. CASE /\ CleanupAuthNetworks(p)
           /\ Configure(view[p], [res[view[p]] EXCEPT !.nets = RemoveMigrationAuthNetwork(@)])
  <2> DEFINE i == view[p]
             cleaned == [res[i] EXCEPT !.nets = RemoveMigrationAuthNetwork(@)]
  <2>1. i \in Inst
    BY DEF TypeOK, RunTypeOK
  <2>2. /\ IsSettings(cleaned) /\ cleaned.backup = res[i].backup
        /\ (OwnNetwork \in res[i].nets => OwnNetwork \in cleaned.nets)
    BY <2>1, NetsCleaned DEF SettingTypes, Shapes
  <2>3. Configure(i, cleaned)
    BY <1>3
  <2> HIDE DEF cleaned
  <2>4. Shapes' /\ res'[i] = cleaned /\ \A j \in Inst \ {i} : res'[j] = res[j]
    BY <2>1, <2>2, <2>3, ConfigureShapes DEF SettingTypes
  <2>5. UNCHANGED <<sql, reduced, left>>
    BY <1>3 DEF CleanupAuthNetworks, sqlVars
  <2> QED
    BY <2>1, <2>2, <2>4, <2>5 DEF SettingTypes, Inst
<1> QED
  BY <1>1, <1>2, <1>3 DEF DetailCleanup, DetailRollback, DetailFinalize

LEMMA EnvironmentSettingTypes ==
    ASSUME TypeOK, SettingTypes, DetailEnvironment
    PROVE  SettingTypes'
<1> USE InstancesDiffer DEF TypeOK, DataTypeOK, Inst
<1>1. CASE HelperApplied
  <2>1. /\ Shapes' /\ res'[Tgt].backup /\ (sql[Tgt] # "absent" => res'[Tgt].nets = res[Tgt].nets)
        /\ res'[Src] = res[Src]
    BY <1>1, ApplyShapes DEF HelperApplied, SettingTypes, Shapes
  <2>2. /\ sql'[Src] = sql[Src] /\ sql'[Tgt] # "absent" /\ reduced' = FALSE /\ left' = left
    BY <1>1 DEF HelperApplied, HelperReconcile
  <2>3. res'[Tgt].backup \in BOOLEAN
    BY <2>1 DEF Shapes, IsSettings
  <2> QED
    BY <2>1, <2>2, <2>3 DEF SettingTypes
<1>2. CASE AppReconcile /\ ApplyTo(spec, entry)
  <2>1. /\ Shapes' /\ res'[spec].backup /\ (sql[spec] # "absent" => res'[spec].nets = res[spec].nets)
        /\ \A j \in Inst \ {spec} : res'[j] = res[j]
    BY <1>2, ApplyShapes DEF SettingTypes, Shapes
  <2>2. res'[spec].backup \in BOOLEAN
    BY <2>1 DEF Shapes, IsSettings
  <2>3. /\ reduced' = (reduced /\ spec # Tgt) /\ left' \subseteq left
        /\ sql'[spec] # "absent"
        /\ \A i \in Inst \ {spec} : \/ sql'[i] = sql[i]
                                    \/ sql'[i] = "absent" /\ left' \cap ArtefactsOn(i) = {}
    BY <1>2 DEF AppReconcile
  <2>4. CASE spec = Tgt
    BY <2>1, <2>2, <2>3, <2>4 DEF SettingTypes, ArtefactsOn
  <2>5. CASE spec = Src
    BY <2>1, <2>2, <2>3, <2>5 DEF SettingTypes, ArtefactsOn
  <2> QED
    BY <2>4, <2>5
<1>3. CASE /\ \/ HelperCollected \/ DatabaseCollected \/ PodsStop \/ Write
              \/ DumpDone \/ CatchUp \/ SampleLag \/ PromotionDone
           /\ UNCHANGED details
  <2>1. /\ UNCHANGED <<left, reduced, settingVars>>
        /\ \A i \in Inst : sql'[i] = "absent" <=> sql[i] = "absent"
    BY <1>3 DEF HelperCollected, PodsStop, Write, DumpDone, CatchUp, SampleLag, PromotionDone,
       details, sqlVars, DatabaseCollected
  <2> QED
    BY <2>1 DEF SettingTypes, settingVars, Shapes, IsEntry, IsSettings
<1> QED
  BY <1>1, <1>2, <1>3 DEF DetailEnvironment

LEMMA AuditSettingTypes ==
    ASSUME TypeOK, SettingTypes, EnableAudit
    PROVE  SettingTypes'
<1> DEFINE on(flags) ==
      [f \in DOMAIN flags \cup AuditFlags |-> IF f \in AuditFlags THEN "on" ELSE flags[f]]
<1>1. ASSUME NEW flags, flags \in [DOMAIN flags -> {"on", "off"}]
      PROVE  on(flags) \in [DOMAIN on(flags) -> {"on", "off"}]
  BY <1>1
<1>2. /\ entry' = [entry EXCEPT !.flags = on(entry.flags)]
      /\ manifest' = [manifest EXCEPT !.flags = on(manifest.flags)]
      /\ res' = [res EXCEPT ![live].flags = on(res[live].flags)]
      /\ UNCHANGED <<wanted, sql, reduced, left>>
  BY DEF EnableAudit, vars, sqlVars, SettingTypes, Shapes, IsEntry, IsSettings, TypeOK, DataTypeOK
<1>3. live \in Inst
  BY DEF TypeOK, DataTypeOK
<1>4. /\ on(entry.flags) \in [DOMAIN on(entry.flags) -> {"on", "off"}]
      /\ on(manifest.flags) \in [DOMAIN on(manifest.flags) -> {"on", "off"}]
      /\ on(res[live].flags) \in [DOMAIN on(res[live].flags) -> {"on", "off"}]
  BY <1>1, <1>3 DEF SettingTypes, Shapes, IsEntry, IsSettings
<1> HIDE DEF on
<1>5. IsEntry(entry') /\ IsEntry(manifest') /\ IsEntry(wanted')
  BY <1>2, <1>4 DEF SettingTypes, Shapes, IsEntry
<1>6. /\ res' = [i \in Inst |-> res'[i]]
      /\ \A i \in Inst : /\ IsSettings(res'[i])
                         /\ res'[i].backup = res[i].backup /\ res'[i].nets = res[i].nets
  <2> DEFINE new == [res[live] EXCEPT !.flags = on(res[live].flags)]
  <2>1. IsSettings(new) /\ new.backup = res[live].backup /\ new.nets = res[live].nets
    BY <1>3, <1>4, FlagsReplaced DEF SettingTypes, Shapes
  <2>2. res' = [res EXCEPT ![live] = new]
    BY <1>2, <1>3 DEF SettingTypes, Shapes
  <2> HIDE DEF new
  <2> QED
    BY <1>3, <2>1, <2>2 DEF SettingTypes, Shapes
<1>7. Shapes'
  BY <1>5, <1>6 DEF Shapes, IsEntry, IsSettings
<1> QED
  BY <1>2, <1>6, <1>7 DEF SettingTypes, Inst


\* What a run steps to has the source in view, if it had.
LEMMA NextInView == TypeOK /\ SourceInView /\ [Next]_vars => SourceInView'
<1> SUFFICES ASSUME TypeOK, SourceInView, [Next]_vars PROVE SourceInView'
  OBVIOUS
<1> DEFINE Views(p) == /\ phase[p] = "setup" /\ pc[p] # "resolve" => view[p] = Src
                       /\ phase[p] = "promote" /\ pc[p] \in
                           {"scale", "promote", "lag", "wait", "restore"} => view[p] = Src
<1>1. ASSUME NEW p \in Procs, OthersStay(p), Views(p)' PROVE SourceInView'
  BY <1>1 DEF SourceInView, OthersStay
<1>2. ASSUME NEW p \in Procs, phase'[p] = "none", OthersStay(p) PROVE SourceInView'
  BY <1>2 DEF SourceInView, OthersStay
<1>3. ASSUME NEW p \in Procs, SetupNext(p) PROVE SourceInView'
  <2>1. OthersStay(p) /\ phase[p] = "setup" /\ phase'[p] \in {"setup", "none"}
    BY <1>3, SetupStepStays
  <2>2. CASE ResolveSource(p)
    <3>1. view'[p] = Src
      BY <2>2 DEF ResolveSource, TypeOK, DataTypeOK, RunTypeOK, Inst
    <3> QED
      BY <1>1, <2>1, <3>1
  <2>3. CASE StartMigrationJob(p)
    <3>1. phase'[p] = "none"
      BY <2>3 DEF StartMigrationJob, Finish, Leave, TypeOK, RunTypeOK
    <3> QED
      BY <1>2, <2>1, <3>1
  <2>4. CASE ~ResolveSource(p) /\ ~StartMigrationJob(p)
    <3>1. CASE \E profile \in Profiles : DeleteOldProfile(p, profile) \/ CreateConnectionProfile(p, profile)
      <4>1. view' = view /\ pc[p] # "resolve"
        BY <3>1, OtherProfile, AdvanceStays DEF DeleteOldProfile, DeleteConnectionProfile,
           CreateConnectionProfile, Profiles, ToCreate, CleanupConnectionProfile
      <4> QED
        BY <1>1, <2>1, <4>1 DEF SourceInView
    <3>2. CASE ~\E profile \in Profiles : DeleteOldProfile(p, profile) \/ CreateConnectionProfile(p, profile)
      <4>1. \E from, to : Step(p, "setup", from, to) /\ from # "resolve"
        BY <1>3, <2>4, <3>2 DEF SetupNext, CreateHelper, AwaitHelper,
           DeleteHelperDatabaseResource, DropHelperDatabase, BackUpSource, DisableCascadingDelete,
           CreateNetworkPolicy, PrepareSourceInstance, PrepareSourceDatabase, DropPgAuditExtension,
           PrepareTargetInstance, PrepareTargetDatabase, DeleteMigrationJob, CreateMigrationJob,
           DemoteTargetInstance, ResolveTargetAgain, AddTargetOutgoingIps
      <4>2. view' = view /\ pc[p] # "resolve"
        BY <4>1, AdvanceStays
      <4> QED
        BY <1>1, <2>1, <4>2 DEF SourceInView
    <3> QED
      BY <3>1, <3>2
  <2> QED
    BY <2>2, <2>3, <2>4
<1>4. ASSUME NEW p \in Procs, PromoteNext(p) PROVE SourceInView'
  <2>1. OthersStay(p) /\ phase[p] = "promote" /\ phase'[p] \in {"promote", "none"}
    BY <1>4, PromoteStepStays
  <2>2. CASE BackUpTarget(p)
    BY <1>2, <2>1, <2>2, FinishStays DEF BackUpTarget
  <2>3. CASE ResolveAppInstance(p, "promote", "resolve", "helper")
    <3>1. pc'[p] = "helper"
      BY <2>3, ResolveStays DEF ResolveAppInstance
    <3> QED
      BY <1>1, <2>1, <3>1
  <2>4. CASE CheckReadyForPromotion(p)
    <3>1. view'[p] = Src
      BY <2>4 DEF CheckReadyForPromotion, Step
    <3> QED
      BY <1>1, <2>1, <3>1
  <2>5. CASE ~BackUpTarget(p) /\ ~ResolveAppInstance(p, "promote", "resolve", "helper")
             /\ ~CheckReadyForPromotion(p)
    <3>1. \E from, to :
            /\ Step(p, "promote", from, to)
            /\ \/ from \in {"scale", "promote", "lag", "wait", "restore"}
               \/ to \notin {"scale", "promote", "lag", "wait", "restore"}
      <4>1. CASE TakeOverTarget(p)
        BY <4>1 DEF TakeOverTarget, ChangeOwnership, DeleteHelperApplication
      <4>2. CASE GetHelper(p) \/ InspectJob(p)
        BY <4>2 DEF GetHelper, InspectJob
      <4> QED
        BY <1>4, <2>5, <4>1, <4>2 DEF PromoteNext, ResolveTarget, ScaleApplication,
           StartPromotion, AwaitPromotion, UpdateTargetInstanceAfterPromotion,
           PrepareTargetDatabase, DeleteTargetDatabaseResource, AwaitCnrmHandover,
           UpdateApplicationInstance, AwaitRollout, UpdateApplicationUser
    <3> QED
      BY <1>1, <2>1, <3>1, AdvanceStays DEF SourceInView
  <2> QED
    BY <2>2, <2>3, <2>4, <2>5
<1>5. ASSUME NEW p \in Procs, RollbackNext(p) \/ FinalizeNext(p) PROVE SourceInView'
  <2>1. OthersStay(p) /\ phase'[p] \notin {"setup", "promote"}
    BY <1>5, RollbackStepStays, FinalizeStepStays
  <2> QED
    BY <1>1, <2>1
<1>6. ASSUME NEW p \in Procs, NEW ph \in Phases, Start(p, ph) PROVE SourceInView'
  <2>1. OthersStay(p) /\ phase'[p] = ph /\ pc'[p] = FirstStep(ph)
    BY <1>6, StartStays
  <2> QED
    BY <1>1, <2>1 DEF FirstStep
<1>7. ASSUME NEW p \in Procs, Exit(p) PROVE SourceInView'
  BY <1>2, <1>7, ExitStays
<1>8. CASE Environment \/ UNCHANGED vars
  BY <1>8, EnvironmentKeepsRuns DEF vars, runVars, SourceInView
<1> QED
  BY <1>3, <1>4, <1>5, <1>6, <1>7, <1>8 DEF Next, Run

LEMMA ForgetKnows ==
    ASSUME KnowledgeTypes, NEW p \in Procs, Forget(p), Profiles \cap left \subseteq left'
    PROVE  KnowledgeTypes'
BY DEF KnowledgeTypes, Forget

LEMMA PasswordKnows ==
    ASSUME KnowledgeTypes, NEW p \in Procs, NEW i \in Inst, SetPassword(p, i),
           Profiles \cap left \subseteq left'
    PROVE  KnowledgeTypes'
BY DEF KnowledgeTypes, SetPassword, NewPassword, details, auditVars, credentialVars, ProfileOf,
   Profiles

LEMMA RunKnows ==
    ASSUME TypeOK, KnowledgeTypes, NEW p \in Procs, DetailRun(p)
    PROVE  KnowledgeTypes'
<1>1. CASE DetailSetup(p)
  <2> USE DEF KnowledgeTypes
  <2>1. CASE \/ ResolveSource(p) /\ ReadFlags(p)
             \/ CreateHelper(p) /\ DescribeHelper
             \/ DropPgAuditExtension(p) /\ DropAudit(p)
    BY <2>1 DEF ResolveSource, ReadFlags, CreateHelper, DescribeHelper,
       DropPgAuditExtension, DropAudit, auditVars, credentialVars
  <2>2. CASE \/ PrepareSourceInstance(p) /\ Configure(view[p], SourcePrepared(res[view[p]], OwnNetwork))
             \/ PrepareTargetInstance(p) /\ Configure(Tgt, TargetPrepared(res[Tgt], OwnNetwork))
             \/ AddTargetOutgoingIps(p) /\ AllowTarget(view[p])
    BY <2>2 DEF PrepareSourceInstance, PrepareTargetInstance, AddTargetOutgoingIps,
       AllowTarget, Configure, auditVars, credentialVars
  <2>3. CASE PrepareSourceDatabase(p) /\ (SetPassword(p, view[p]) \/ InstallExtension(p))
    <3>1. Profiles \cap left \subseteq left' /\ view[p] \in Inst
      BY <2>3 DEF PrepareSourceDatabase, TypeOK, RunTypeOK
    <3> QED
      BY <2>3, <3>1, PasswordKnows DEF InstallExtension, details, auditVars, credentialVars
  <2>4. CASE PrepareTargetDatabase(p, "setup", "deleteJob") /\ SetPassword(p, Tgt)
    BY <2>4, PasswordKnows DEF PrepareTargetDatabase, Inst
  <2>5. CASE \E profile \in Profiles : DeleteOldProfile(p, profile) /\ DropProfile
    BY <2>5 DEF DropProfile, auditVars
  <2>6. CASE \E profile \in Profiles : CreateConnectionProfile(p, profile) /\ FillProfile(p, profile)
    BY <2>6 DEF CreateConnectionProfile, FillProfile, auditVars
  <2>7. CASE StartMigrationJob(p) /\ Forget(p)
    BY <2>7, ForgetKnows DEF StartMigrationJob
  <2> QED
    BY <1>1, <2>1, <2>2, <2>3, <2>4, <2>5, <2>6, <2>7 DEF DetailSetup
<1>2. CASE DetailPromote(p)
  <2> USE DEF KnowledgeTypes
  <2>1. CASE PrepareTargetDatabase(p, "promote", "ownPostgres") /\ SetPassword(p, Tgt)
    BY <2>1, PasswordKnows DEF PrepareTargetDatabase, Inst
  <2>2. CASE TakeOverTarget(p) /\ pc[p] # "deleteHelper" /\ Connected(p)
    BY <2>2 DEF TakeOverTarget, ChangeOwnership, DeleteHelperApplication, Connected, details,
       auditVars, credentialVars
  <2>3. CASE \/ UpdateTargetInstanceAfterPromotion(p) /\ RestoreProtection(view[p])
             \/ /\ UpdateApplicationInstance(Tgt, p, "promote", "update", "rollout")
                /\ Redefine(TargetVersion)
    BY <2>3 DEF UpdateTargetInstanceAfterPromotion, RestoreProtection, Configure,
       UpdateApplicationInstance, Redefine, auditVars, credentialVars
  <2> QED
    BY <1>2, <2>1, <2>2, <2>3 DEF DetailPromote
<1>3. CASE DetailCleanup(p)
  BY <1>3 DEF DetailCleanup, DropProfile, UpdateApplicationInstance, Redefine,
     CleanupAuthNetworks, Configure, KnowledgeTypes, auditVars, credentialVars, DetailRollback,
     DetailFinalize
<1>4. CASE ~Touched(p) /\ Run(p) /\ IF phase'[p] = "none" THEN Forget(p) ELSE UNCHANGED details
  <2>1. Inert
    BY <1>4, SetupUntouched, PromoteUntouched, CleanupUntouched DEF Run
  <2>2. CASE Forget(p)
    BY <2>1, <2>2, ForgetKnows DEF Inert
  <2>3. CASE UNCHANGED details
    BY <2>1, <2>3 DEF Inert, KnowledgeTypes, details, auditVars, credentialVars
  <2> QED
    BY <1>4, <2>2, <2>3
<1> QED
  BY <1>1, <1>2, <1>3, <1>4 DEF DetailRun, DetailCleanup

LEMMA RunSettingTypes ==
    ASSUME TypeOK, SettingTypes, SourceInView, NEW p \in Procs, DetailRun(p)
    PROVE  SettingTypes'
<1>1. CASE ~Touched(p) /\ Run(p) /\ IF phase'[p] = "none" THEN Forget(p) ELSE UNCHANGED details
  <2>1. Inert
    BY <1>1, SetupUntouched, PromoteUntouched, CleanupUntouched DEF Run
  <2>2. UNCHANGED <<entry, manifest, wanted, res>>
    BY <1>1 DEF Forget, details, settingVars
  <2> QED
    BY <2>1, <2>2, InertKeeps
<1> QED
  BY <1>1, SetupSettingTypes, PromoteSettingTypes, CleanupSettingTypes DEF DetailRun,
     DetailCleanup

LEMMA NextDetailTypes ==
    ASSUME TypeOK, DetailTypes, [DetailNext]_detailedVars
    PROVE  DetailTypes'
<1> USE DEF DetailTypes
<1>1. SourceInView'
  BY DetailStep, NextInView
<1>2. CASE UNCHANGED <<left, sql, reduced, details>>
  BY <1>1, <1>2 DEF SettingTypes, KnowledgeTypes, Shapes, IsEntry, IsSettings, details,
     settingVars, auditVars, credentialVars
<1>3. CASE \E p \in Procs : DetailRun(p)
  BY <1>1, <1>3, RunSettingTypes, RunKnows
<1>4. CASE \E p \in Procs : Exit(p) /\ Forget(p)
  <2>1. Inert /\ UNCHANGED <<entry, manifest, wanted, res>>
    BY <1>4 DEF Exit, Forget, Inert, sqlVars, settingVars
  <2> QED
    BY <1>1, <1>4, <2>1, InertKeeps, ForgetKnows DEF Inert
<1>5. CASE \E p \in Procs, ph \in Phases : Start(p, ph) /\ UNCHANGED details
  BY <1>2, <1>5 DEF Start, Begin, sqlVars
<1>6. CASE DetailEnvironment
  <2>1. UNCHANGED <<auditVars, credentialVars>> /\ Profiles \cap left \subseteq left'
    BY <1>6 DEF DetailEnvironment, HelperApplied, ApplyTo, Configure, HelperReconcile, AppReconcile,
       HelperCollected, PodsStop, Write, DumpDone, CatchUp, SampleLag, PromotionDone, details,
       ArtefactsOn, Profiles, DatabaseCollected
  <2>2. KnowledgeTypes'
    BY <2>1 DEF KnowledgeTypes, auditVars, credentialVars
  <2> QED
    BY <1>1, <1>6, <2>2, EnvironmentSettingTypes
<1>7. CASE EnableAudit
  <2>1. audited' \in BOOLEAN /\ UNCHANGED <<read, credentialVars, left>>
    BY <1>7 DEF EnableAudit, KnowledgeTypes, vars
  <2>2. KnowledgeTypes'
    BY <2>1 DEF KnowledgeTypes, credentialVars
  <2> QED
    BY <1>1, <1>7, <2>2, AuditSettingTypes
<1>8. CASE UNCHANGED detailedVars
  BY <1>2, <1>8 DEF detailedVars, vars, sqlVars
<1> QED
  BY <1>3, <1>4, <1>5, <1>6, <1>7, <1>8 DEF DetailNext

LEMMA InitDetailTypes == DetailInit => DetailTypes
<1> SUFFICES ASSUME DetailInit PROVE DetailTypes
  OBVIOUS
<1>1. IsEntry(entry) /\ IsSettings(Created(entry)) /\ Created(entry).backup
  BY EntriesGiven, SettingsMade DEF DetailInit
<1>2. SettingTypes
  BY <1>1, InstancesDiffer DEF DetailInit, Init, SettingTypes, Shapes, Inst
<1>3. KnowledgeTypes /\ SourceInView
  BY DEF DetailInit, Init, KnowledgeTypes, SourceInView, HasPgAuditFlags
<1> QED
  BY <1>2, <1>3 DEF DetailTypes

LEMMA DetailTypesAlways == DetailSpec => []TypeOK /\ []DetailTypes
<1>1. DetailSpec => []TypeOK
  BY ImplementsMigrator, TypeCorrect, PTL
<1> QED
  BY <1>1, InitDetailTypes, NextDetailTypes, PTL DEF DetailSpec

\* Whatever the operator and the platform do: settings are of their shape, and what
\* Migrator says of networks, profiles and the preparation of the target (reduced) is
\* what the settings say.
THEOREM DetailTypeCorrect == DetailSpec => []DetailTypeOK
BY DetailTypesAlways, TypesAgree, PTL DEF DetailTypes


-----------------------------------------------------------------------------
(* The target and its helper application *)

LEMMA SetupKeepsHelperOwns ==
    ASSUME Disciplined, TypeOK, IInv, HelperOwns, NEW p \in Procs, SetupNext(p)
    PROVE  HelperOwns'
<1>1. /\ phase[p] = "setup" /\ phase'[p] \in {"setup", "none"} /\ OthersStay(p)
      /\ started' = started /\ completed' \subseteq completed \cup {"setup"} /\ owner' = owner
  BY SetupStepStays, RunLeavesOwners DEF Run, Unowned
<1>2. started = {"setup"}
  BY <1>1 DEF IInv, Stages, OneProgram
<1>3. CASE StartMigrationJob(p)
  <2>1. owner[Tgt] = "helper" /\ phase'[p] = "none"
    BY <1>1, <1>3 DEF StartMigrationJob, Finish, Leave, At, AfterHelper, SetupSteps, HelperOwns,
       TypeOK, RunTypeOK
  <2> QED
    BY <1>1, <1>2, <2>1 DEF HelperOwns, OthersStay
<1>4. CASE AwaitHelper(p)
  <2>1. owner[Tgt] = "helper"
    BY <1>4 DEF AwaitHelper
  <2> QED
    BY <1>1, <1>2, <2>1 DEF HelperOwns, OthersStay
<1>5. CASE ~StartMigrationJob(p) /\ ~AwaitHelper(p)
  <2>1. /\ pc'[p] \in AfterHelper \ {"helperRollout"} => pc[p] \in AfterHelper \ {"helperRollout"}
        /\ completed' = completed
    <3>1. CASE ResolveSource(p)
      BY <3>1, ResolveStays DEF ResolveSource, AfterHelper
    <3>2. CASE CreateHelper(p)
      BY <3>2, AdvanceStays DEF CreateHelper
    <3>3. CASE \E profile \in Profiles : DeleteOldProfile(p, profile) \/ CreateConnectionProfile(p, profile)
      BY <3>3, AdvanceStays, OtherProfile DEF DeleteOldProfile, DeleteConnectionProfile,
         CreateConnectionProfile, Profiles, ToCreate, AfterHelper, SetupSteps, CleanupConnectionProfile
    <3>4. CASE ~ResolveSource(p) /\ ~CreateHelper(p)
               /\ ~\E profile \in Profiles : DeleteOldProfile(p, profile) \/ CreateConnectionProfile(p, profile)
      <4>1. \E from, to : Step(p, "setup", from, to) /\ from \in AfterHelper \ {"helperRollout"}
        BY <1>5, <3>4 DEF SetupNext, DeleteHelperDatabaseResource, DropHelperDatabase,
           BackUpSource, DisableCascadingDelete, CreateNetworkPolicy, PrepareSourceInstance,
           PrepareSourceDatabase, DropPgAuditExtension, PrepareTargetInstance,
           PrepareTargetDatabase, DeleteMigrationJob, CreateMigrationJob,
           DemoteTargetInstance, ResolveTargetAgain, AddTargetOutgoingIps, AfterHelper, SetupSteps
      <4> QED
        BY <4>1, AdvanceStays
    <3> QED
      BY <3>1, <3>2, <3>3, <3>4
  <2>2. helper' = "present" => helper = "present" \/ "setup" \notin completed
    BY <1>2 DEF IInv, Stages, HelperKept
  <2> QED
    BY <1>1, <1>2, <2>1, <2>2 DEF HelperOwns, OthersStay, PromoteStarted
<1> QED
  BY <1>3, <1>4, <1>5

LEMMA NextHelperOwns ==
    ASSUME Disciplined, TypeOK, IInv, IInv', Adopted, HelperOwns, [Next]_vars
    PROVE  HelperOwns'
<1>1. ASSUME NEW p \in Procs, PromoteNext(p) \/ FinalizeNext(p) PROVE HelperOwns'
  <2>1. /\ phase[p] \in {"promote", "finalize"} /\ phase'[p] # "setup" /\ OthersStay(p)
        /\ started' = started /\ ("setup" \in completed' => "setup" \in completed)
    BY <1>1, PromoteStepStays, FinalizeStepStays
  <2>2. owner' = owner
    BY <1>1, RunLeavesOwners DEF Run, Unowned
  <2>3. helper' = "present" => helper = "present"
    <3>1. CASE PromoteNext(p)
      BY <3>1 DEF PromoteNext, ResolveAppInstance, GetHelper, ResolveTarget,
         CheckReadyForPromotion, ScaleApplication, InspectJob, StartPromotion, AwaitPromotion,
         UpdateTargetInstanceAfterPromotion, PrepareTargetDatabase, TakeOverTarget,
         ChangeOwnership, DeleteHelperApplication, DeleteTargetDatabaseResource,
         AwaitCnrmHandover, UpdateApplicationInstance, AwaitRollout, UpdateApplicationUser,
         BackUpTarget, cnrmVars
    <3> QED
      BY <1>1, <3>1, FinalizeIsDelivering
  <2> QED
    BY <2>1, <2>2, <2>3 DEF HelperOwns, OthersStay, PromoteStarted
<1>2. ASSUME NEW p \in Procs, RollbackNext(p) PROVE HelperOwns'
  <2>1. /\ phase[p] = "rollback" /\ phase'[p] \in {"rollback", "none"} /\ OthersStay(p)
        /\ \/ started' = started /\ completed' = completed
           \/ started' = {} /\ completed' = {"rollback"}
    BY <1>2, RollbackStepStays
  <2>2. "rollback" \in started \/ (started = {} /\ completed = {"rollback"})
    BY <2>1 DEF IInv, Stages, OneProgram
  <2>3. \A q \in Procs : phase'[q] # "setup"
    BY <2>1 DEF IInv, Stages, OneProgram, OthersStay
  <2> QED
    BY <2>1, <2>2, <2>3 DEF HelperOwns, PromoteStarted
<1>3. ASSUME NEW p \in Procs, NEW ph \in Phases, Start(p, ph) PROVE HelperOwns'
  <2>1. /\ OthersStay(p) /\ UNCHANGED <<helper, owner, spec, synced>>
        /\ phase'[p] = ph /\ pc'[p] = FirstStep(ph)
        /\ started' = started \cup {ph} /\ completed' = completed \ {ph, "rollback"}
    BY <1>3, StartStays DEF cnrmVars, appVars
  <2>2. InOrder(ph) /\ (ph \notin started => synced)
    BY <1>3 DEF Disciplined, AllRules, Phases, Start, MayStart
  <2>3. started' = {"setup"} => owner[Tgt] # "app"
    <3> SUFFICES ASSUME started' = {"setup"}, started # {"setup"} PROVE owner[Tgt] # "app"
      BY DEF HelperOwns
    <3>2. ph \notin started
      BY <2>1
    <3>1. spec = Src
      BY <2>1 DEF IInv, Stages, SpecAndDeployment
    <3> QED
      BY <2>2, <3>1, <3>2, InstancesDiffer DEF Adopted, Inst
  <2>4. \A q \in Procs : phase'[q] = "setup" /\ pc'[q] \in AfterHelper \ {"helperRollout"} =>
          owner[Tgt] = "helper"
    BY <2>1 DEF HelperOwns, OthersStay, FirstStep, AfterHelper
  <2>5. (PromoteStarted \/ ("setup" \in completed /\ "rollback" \notin started))'
          => PromoteStarted \/ ("setup" \in completed /\ "rollback" \notin started)
    BY <2>1, <2>2 DEF PromoteStarted, InOrder, Phases, IInv, Stages, OneProgram
  <2> QED
    BY <2>1, <2>3, <2>4, <2>5 DEF HelperOwns
<1>4. ASSUME NEW p \in Procs, Exit(p) PROVE HelperOwns'
  BY <1>4, ExitStays DEF Exit, HelperOwns, OthersStay, PromoteStarted, cnrmVars
<1>5. CASE Environment
  <2>1. UNCHANGED <<phase, pc, started, completed>>
    BY <1>5, EnvironmentKeepsRuns DEF runVars
  <2>2. CASE HelperReconcile
    BY <2>1, <2>2 DEF HelperReconcile, HelperOwns, PromoteStarted, TypeOK, DataTypeOK, Inst
  <2>3. CASE HelperCollected
    BY <2>1, <2>3 DEF HelperCollected, HelperOwns, PromoteStarted, TypeOK, DataTypeOK, Inst,
       IInv, HelperKept, Stages
  <2>4. CASE AppReconcile
    <3>1. ~synced /\ helper' = helper /\ owner'[Tgt] = IF spec = Tgt THEN "app"
                                    ELSE IF owner[Tgt] = "app" THEN "none" ELSE owner[Tgt]
      BY <2>4 DEF AppReconcile, Inst
    <3>2. started = {"setup"} => spec = Src
      BY DEF IInv, Stages, SpecAndDeployment
    <3>3. \A p \in Procs : phase[p] = "setup" => started = {"setup"}
      BY DEF IInv, Stages, OneProgram
    <3>4. PromoteStarted => spec = Tgt
      BY <3>1 DEF IInv, Stages, PromoteStage
    <3>5. ~PromoteStarted /\ "setup" \in completed /\ "rollback" \notin started => started = {"setup"}
      <4>1. completed \ {"rollback"} \subseteq started /\ started \subseteq Phases
        BY DEF IInv, Stages, OneProgram, TypeOK, RunTypeOK
      <4>2. "finalize" \in started => "promote" \in started
        BY DEF IInv, Stages, OneProgram
      <4> QED
        BY <4>1, <4>2 DEF PromoteStarted, Phases
    <3>6. started = {"setup"} => owner'[Tgt] = owner[Tgt]
      BY <3>1, <3>2, InstancesDiffer DEF HelperOwns
    <3> QED
      BY <2>1, <3>1, <3>3, <3>4, <3>5, <3>6 DEF HelperOwns, PromoteStarted
  <2>5. CASE Environment /\ ~HelperReconcile /\ ~HelperCollected /\ ~AppReconcile
    <3>1. UNCHANGED <<helper, owner>>
      BY <2>5 DEF Environment, InstanceReconcile, PodsStop, Write, DumpDone, CatchUp,
         SampleLag, PromotionDone, Redeploy, cnrmVars, DatabaseCollected
    <3> QED
      BY <2>1, <3>1 DEF HelperOwns, PromoteStarted
  <2> QED
    BY <1>5, <2>2, <2>3, <2>4, <2>5
<1>6. CASE UNCHANGED vars
  BY <1>6 DEF vars, cnrmVars, runVars, HelperOwns, PromoteStarted
<1> QED
  BY <1>1, <1>2, <1>3, <1>4, <1>5, <1>6, SetupKeepsHelperOwns DEF Next, Run

LEMMA HelperOwnsAlways == ASSUME Disciplined PROVE Spec => []HelperOwns
<1>1. Init => HelperOwns
  BY InstancesDiffer DEF Init, HelperOwns, PromoteStarted, Inst
<1>2. Spec => []TypeOK /\ []IInv /\ []Adopted
  BY TypeCorrect, Inductive, AdoptedAlways
<1> QED
  BY <1>1, <1>2, NextHelperOwns, PTL DEF Spec


-----------------------------------------------------------------------------
(* What the target is asked for *)

\* The steps of setup, rollback and finalize leave the entry to what promote made of it,
\* but for rollback's own update.
LEMMA SetupKeepsAsked ==
    ASSUME Disciplined, TypeOK, IInv, IInv', DetailTypes, AskedInv, NEW p \in Procs,
    DetailSetup(p)
    PROVE  AskedInv'
<1>1. SetupNext(p)
  BY DEF DetailSetup, SetupNext
<1>2. phase[p] = "setup" /\ started' = started
  BY <1>1, SetupStepStays
<1>3. started = {"setup"}
  BY <1>2 DEF IInv, Stages, OneProgram
<1>4. spec' = Src /\ ~PromoteStarted'
  BY <1>2, <1>3 DEF IInv, Stages, SpecAndDeployment, PromoteStarted
<1>5. UNCHANGED <<entry, manifest>> /\ Protection(res'[Src]) = Protection(res[Src])
  <2>1. CASE PrepareSourceInstance(p) /\ Configure(view[p], SourcePrepared(res[view[p]], OwnNetwork))
    <3>1. view[p] \in Inst
      BY DEF TypeOK, RunTypeOK
    <3>2. /\ IsSettings(SourcePrepared(res[view[p]], OwnNetwork))
          /\ Protection(SourcePrepared(res[view[p]], OwnNetwork)) = Protection(res[view[p]])
      BY <3>1, SettingsPrepared DEF DetailTypes, SettingTypes, Shapes
    <3>3. /\ res'[view[p]] = SourcePrepared(res[view[p]], OwnNetwork)
          /\ \A j \in Inst \ {view[p]} : res'[j] = res[j]
      BY <2>1, <3>1, <3>2, ConfigureShapes DEF DetailTypes, SettingTypes
    <3> QED
      BY <2>1, <3>2, <3>3 DEF Configure, Inst
  <2>2. CASE PrepareTargetInstance(p) /\ Configure(Tgt, TargetPrepared(res[Tgt], OwnNetwork))
    BY <2>2, InstancesDiffer DEF Configure, DetailTypes, SettingTypes, Shapes
  <2>3. CASE AddTargetOutgoingIps(p) /\ AllowTarget(view[p])
    <3>1. PICK nets : res' = [res EXCEPT ![view[p]] = [res[view[p]] EXCEPT !.nets = nets]]
                      /\ UNCHANGED <<entry, manifest>>
      <4> DEFINE add == {net \in {TargetNetwork(idx) : idx \in DOMAIN ResolveOutgoingIps(Outgoing)} :
                           AppendAuthNetIfNotExists(res[view[p]].nets, net) # res[view[p]].nets}
      <4>1. /\ res' = [res EXCEPT ![view[p]] = [res[view[p]] EXCEPT !.nets = @ \cup add]]
            /\ UNCHANGED <<entry, manifest>>
        BY <2>3 DEF AllowTarget, Configure
      <4> HIDE DEF add
      <4>2. [res[view[p]] EXCEPT !.nets = @ \cup add]
              = [res[view[p]] EXCEPT !.nets = res[view[p]].nets \cup add]
        BY DEF DetailTypes, SettingTypes, Shapes, IsSettings, TypeOK, RunTypeOK
      <4> QED
        BY <4>1, <4>2
    <3>2. view[p] \in Inst /\ res = [i \in Inst |-> res[i]] /\ IsSettings(res[view[p]])
      BY DEF TypeOK, RunTypeOK, DetailTypes, SettingTypes, Shapes
    <3> DEFINE new == [res[view[p]] EXCEPT !.nets = nets]
    <3>3. Protection(new) = Protection(res[view[p]])
      BY <3>2 DEF IsSettings, Protection
    <3>4. res' = [res EXCEPT ![view[p]] = new]
      BY <3>1
    <3> HIDE DEF new
    <3>5. res'[Src] = IF view[p] = Src THEN new ELSE res[Src]
      BY <3>2, <3>4 DEF Inst
    <3> QED
      BY <3>1, <3>3, <3>5
  <2>4. CASE DetailSetup(p) /\ ~(AddTargetOutgoingIps(p) /\ AllowTarget(view[p]))
           /\ ~(PrepareSourceInstance(p) /\ Configure(view[p], SourcePrepared(res[view[p]], OwnNetwork)))
           /\ ~(PrepareTargetInstance(p) /\ Configure(Tgt, TargetPrepared(res[Tgt], OwnNetwork)))
    BY <2>4 DEF DetailSetup, ReadFlags, DescribeHelper, InstallExtension, NewPassword,
       DropAudit, SetPassword, DropProfile, FillProfile, Forget, details, settingVars
  <2> QED
    BY <2>1, <2>2, <2>3, <2>4
<1> QED
  BY <1>4, <1>5, InstancesDiffer DEF AskedInv, Protected, Created, Protection

\* A step that leaves what is asked for, and the instances as well protected.
SameAsked ==
    /\ UNCHANGED <<entry, manifest>>
    /\ \A i \in Inst : /\ Protection(res'[i]) = Protection(res[i])
                      /\ res'[i].flags = res[i].flags /\ res'[i].version = res[i].version

LEMMA UntouchedKeepsAsked ==
    ASSUME Disciplined, TypeOK, IInv, IInv', AskedInv, NEW p \in Procs,
           SetupNext(p) \/ RollbackNext(p), SameAsked
    PROVE  AskedInv'
<1>1. ~PromoteStarted'
  <2>1. CASE SetupNext(p)
    <3>1. phase[p] = "setup" /\ started' = started
      BY <2>1, SetupStepStays
    <3> QED
      BY <3>1 DEF IInv, Stages, OneProgram, PromoteStarted
  <2>2. CASE RollbackNext(p)
    <3>1. phase[p] = "rollback" /\ (started' = started \/ started' = {})
      BY <2>2, RollbackStepStays
    <3> QED
      BY <3>1 DEF IInv, Stages, OneProgram, PromoteStarted
  <2> QED
    BY <2>1, <2>2
<1>2. (spec' = Tgt => spec = Tgt) /\ (synced' => synced /\ spec' = spec)
  <2>1. CASE SetupNext(p)
    <3>1. phase[p] = "setup" /\ started' = started
      BY <2>1, SetupStepStays
    <3>2. spec' = Src
      BY <3>1 DEF IInv, Stages, OneProgram, SpecAndDeployment
    <3> QED
      BY <2>1, <3>2, InstancesDiffer, RunLeavesOwners DEF Run, Unowned
  <2>2. CASE RollbackNext(p)
    BY <2>2, InstancesDiffer DEF RollbackNext, ScaleIfSwitched, DeleteHelperApplication,
       DeleteMigrationJob, DeleteConnectionProfile, DeleteInstance, DeleteMasterInstance,
       DeleteTargetDatabaseResource, DeleteSourceCert, AwaitDatabaseResourceGone,
       UpdateApplicationInstance, AwaitRollout, UpdateApplicationUser, DeleteSslCerts,
       DeleteNetworkPolicies, appVars, CleanupConnectionProfile
  <2> QED
    BY <2>1, <2>2
<1> QED
  BY <1>1, <1>2 DEF AskedInv, SameAsked, Protected, Carries, Inst


LEMMA FinalizeKeepsAsked ==
    ASSUME Disciplined, TypeOK, IInv, AskedInv, NEW p \in Procs, FinalizeNext(p), SameAsked
    PROVE  AskedInv'
<1>1. /\ OthersStay(p) /\ phase'[p] # "promote"
      /\ started' = started /\ ("promote" \in completed' => "promote" \in completed)
  BY FinalizeStepStays
<1>2. helper' = helper /\ synced' = synced /\ spec' = spec
  BY DEF FinalizeNext, ResolveAppInstance, DeleteFinishedJob, DeleteMigrationJob,
     DeleteConnectionProfile, DeleteMasterInstance, DeleteInstance, CleanupAuthNetworks,
     DeleteSslCerts, DeleteNetworkPolicies, appVars, cnrmVars, CleanupConnectionProfile
<1> QED
  BY <1>1, <1>2 DEF AskedInv, SameAsked, Protected, Carries, PromoteStarted, OthersStay, Inst

\* What a run of promote knows of the target and of the helper application.
AskedAt(p) ==
    /\ pc[p] \in FirstHalfDone => Protected(Tgt)
    /\ pc[p] \in SecondHalf => helper # "present"
    /\ pc[p] \in {"user", "backup"} => Carries

LEMMA PromoteStays ==
    ASSUME Disciplined, TypeOK, IInv, NEW p \in Procs, PromoteNext(p)
    PROVE  /\ PromoteStarted /\ PromoteStarted'
           /\ helper # "present" => helper' # "present"
           /\ \/ helper' = helper
              \/ pc[p] = "deleteHelper"
<1>1. phase[p] = "promote" /\ started' = started
  BY PromoteStepStays
<1>2. CASE TakeOverTarget(p)
  BY <1>1, <1>2, AdvanceStays DEF TakeOverTarget, ChangeOwnership, DeleteHelperApplication,
     PromoteStarted, IInv, Stages, OneProgram, cnrmVars
<1>3. CASE ~TakeOverTarget(p)
  <2>1. helper' = helper
    BY <1>3 DEF PromoteNext, ResolveAppInstance, GetHelper, ResolveTarget,
       CheckReadyForPromotion, ScaleApplication, InspectJob, StartPromotion, AwaitPromotion,
       UpdateTargetInstanceAfterPromotion, PrepareTargetDatabase,
       DeleteTargetDatabaseResource, AwaitCnrmHandover, UpdateApplicationInstance,
       AwaitRollout, UpdateApplicationUser, BackUpTarget, cnrmVars
  <2> QED
    BY <1>1, <2>1 DEF PromoteStarted, IInv, Stages, OneProgram
<1> QED
  BY <1>2, <1>3

\* The same, or better protected.
KeepsAsked ==
    /\ UNCHANGED <<entry, manifest>>
    /\ \A i \in Inst : Protected(i) => Protected(i)'
    /\ Carries => Carries'

LEMMA SameIsKept == SameAsked => KeepsAsked
BY DEF SameAsked, KeepsAsked, Protected, Carries, Inst

\* The step a run of promote is at when it has taken one that asks for nothing.
LEMMA AskedAdvances ==
    ASSUME Disciplined, TypeOK, IInv, AskedInv, NEW p \in Procs, PromoteNext(p), KeepsAsked,
           AskedAt(p), phase'[p] = "promote",
           UpdateTargetInstanceAfterPromotion(p) => Protected(Tgt)'
    PROVE  AskedAt(p)'
<1> USE DEF AskedAt, FirstHalfDone, SecondHalf, SwitchedSteps
<1>1. /\ Protected(Tgt) => Protected(Tgt)'
      /\ Carries => Carries'
  BY DEF KeepsAsked, Inst
<1>2. helper # "present" => helper' # "present"
  BY PromoteStays
<1>3. phase[p] = "promote" /\ PromoteStarted
  BY PromoteStepStays, PromoteStays
<1>4. CASE ResolveAppInstance(p, "promote", "resolve", "helper")
  <2>1. pc'[p] = "helper"
    BY <1>4, ResolveStays DEF ResolveAppInstance
  <2> QED
    BY <2>1
<1>5. CASE GetHelper(p)
  BY <1>5, AdvanceStays DEF GetHelper, cnrmVars
<1>6. CASE \/ ResolveTarget(p) \/ CheckReadyForPromotion(p)
          \/ ScaleApplication(p, "promote", "scale", "promote")
          \/ InspectJob(p) \/ StartPromotion(p) \/ AwaitPromotion(p)
  BY <1>6, AdvanceStays DEF ResolveTarget, CheckReadyForPromotion, ScaleApplication,
     InspectJob, StartPromotion, AwaitPromotion
<1>7. CASE PrepareTargetDatabase(p, "promote", "ownPostgres")
  BY <1>1, <1>7, AdvanceStays DEF PrepareTargetDatabase
<1>8. CASE ChangeOwnership("postgres", p, "ownPostgres", "ownApp")
           \/ ChangeOwnership("app", p, "ownApp", "deleteHelper")
  BY <1>1, <1>8, AdvanceStays DEF ChangeOwnership
<1>9. CASE DeleteHelperApplication(p, "promote", "deleteHelper", "dbResource")
  BY <1>9, AdvanceStays DEF DeleteHelperApplication
<1>10. CASE \/ DeleteTargetDatabaseResource(p, "promote", "dbResource", "cnrm")
            \/ AwaitCnrmHandover(p)
            \/ UpdateApplicationInstance(Tgt, p, "promote", "update", "rollout")
  BY <1>2, <1>10, AdvanceStays DEF DeleteTargetDatabaseResource, AwaitCnrmHandover,
     UpdateApplicationInstance
<1>11. CASE AwaitRollout(Tgt, p, "promote", "rollout", "user")
  <2>1. pc[p] = "rollout" /\ pc'[p] = "user" /\ synced
    BY <1>11, AdvanceStays DEF AwaitRollout
  <2>2. spec = Tgt
    BY <1>3, <2>1 DEF IInv, Stages, PromoteStage, SwitchedSteps
  <2>3. Carries
    BY <2>1, <2>2 DEF AskedInv
  <2> QED
    BY <1>1, <1>2, <2>1, <2>3
<1>12. CASE UpdateApplicationUser(Tgt, p, "promote", "user", "backup")
  BY <1>1, <1>2, <1>12, AdvanceStays DEF UpdateApplicationUser
<1>13. CASE BackUpTarget(p)
  BY <1>13, FinishStays DEF BackUpTarget
<1>14. CASE UpdateTargetInstanceAfterPromotion(p)
  BY <1>14, AdvanceStays DEF UpdateTargetInstanceAfterPromotion
<1> QED
  BY <1>14, <1>4, <1>5, <1>6, <1>7, <1>8, <1>9, <1>10, <1>11, <1>12, <1>13 DEF PromoteNext, TakeOverTarget

LEMMA PromoteKeepsAsked ==
    ASSUME Disciplined, TypeOK, IInv, IInv', AskedInv, NEW p \in Procs, PromoteNext(p), KeepsAsked,
           UpdateTargetInstanceAfterPromotion(p) => Protected(Tgt)',
           ~UpdateApplicationInstance(Tgt, p, "promote", "update", "rollout")
    PROVE  AskedInv'
<1>1. /\ phase[p] = "promote" /\ phase'[p] \in {"promote", "none"} /\ OthersStay(p)
      /\ started' = started /\ completed' \subseteq completed \cup {"promote"}
  BY PromoteStepStays
<1>2. /\ PromoteStarted /\ PromoteStarted'
      /\ helper # "present" => helper' # "present"
      /\ helper' = helper \/ pc[p] = "deleteHelper"
  BY PromoteStays
<1>3. spec' = spec /\ synced' = synced
  BY DEF PromoteNext, ResolveAppInstance, GetHelper, ResolveTarget,
     CheckReadyForPromotion, ScaleApplication, InspectJob, StartPromotion, AwaitPromotion,
     UpdateTargetInstanceAfterPromotion, PrepareTargetDatabase, TakeOverTarget, ChangeOwnership,
     DeleteHelperApplication, DeleteTargetDatabaseResource, AwaitCnrmHandover, AwaitRollout,
     UpdateApplicationUser, BackUpTarget, appVars
<1>4. /\ Protected(Tgt) => Protected(Tgt)'
      /\ Protected(Src) => Protected(Src)'
      /\ Carries => Carries'
  BY DEF KeepsAsked, Inst
<1>5. AskedAt(p)
  BY <1>1, <1>2 DEF AskedInv, AskedAt
<1>6. helper' # "present" => Protected(Tgt)'
  BY <1>2, <1>4, <1>5 DEF AskedInv, AskedAt, FirstHalfDone
<1>7. "promote" \in completed' => helper' # "present" /\ Carries'
  <2>1. CASE BackUpTarget(p)
    <3>1. pc[p] = "backup"
      BY <2>1, FinishStays DEF BackUpTarget
    <3> QED
      BY <1>2, <1>4, <1>5, <3>1 DEF AskedAt, SecondHalf, SwitchedSteps
  <2>2. CASE ~BackUpTarget(p)
    <3>1. completed' = completed
      BY <2>2 DEF PromoteNext, ResolveAppInstance, GetHelper, ResolveTarget,
         CheckReadyForPromotion, ScaleApplication, InspectJob, StartPromotion, AwaitPromotion,
         UpdateTargetInstanceAfterPromotion, PrepareTargetDatabase, TakeOverTarget,
         ChangeOwnership, DeleteHelperApplication,
         DeleteTargetDatabaseResource, AwaitCnrmHandover, AwaitRollout, UpdateApplicationUser,
         Step, Advance
    <3> QED
      BY <1>2, <1>4, <3>1 DEF AskedInv
  <2> QED
    BY <2>1, <2>2
<1>8. ASSUME NEW q \in Procs, phase'[q] = "promote" PROVE AskedAt(q)'
  <2>1. CASE q = p
    BY <1>5, <1>8, <2>1, AskedAdvances
  <2>2. CASE q # p
    <3>1. phase[q] = "promote" /\ pc'[q] = pc[q]
      BY <1>1, <1>8, <2>2 DEF OthersStay
    <3>2. AskedAt(q)
      BY <1>2, <3>1 DEF AskedInv, AskedAt
    <3> QED
      BY <1>2, <1>4, <3>1, <3>2 DEF AskedAt
  <2> QED
    BY <2>1, <2>2
<1>9. UNCHANGED <<entry, manifest>>
  BY DEF KeepsAsked
<1>10. (PromoteStarted =>
          /\ helper # "present" => Protected(Tgt)
          /\ "promote" \in completed => helper # "present" /\ Carries
          /\ \A q \in Procs : phase[q] = "promote" => AskedAt(q))'
  BY <1>6, <1>7, <1>8
<1>11. (synced' /\ spec' = Tgt => Carries') /\ Protected(Src)'
  <2>1. synced' /\ spec' = Tgt => synced /\ spec = Tgt
    BY <1>3
  <2>2. (synced /\ spec = Tgt => Carries) /\ Protected(Src)
    BY DEF AskedInv
  <2> QED
    BY <1>4, <2>1, <2>2
<1>12. (/\ entry.ha = manifest.ha /\ entry.pitr = manifest.pitr /\ entry.flags = manifest.flags
        /\ spec = Tgt /\ TargetVersion # Unset => entry.version = TargetVersion)'
  BY <1>3, <1>9 DEF AskedInv
<1> QED
  BY <1>10, <1>11, <1>12 DEF AskedInv, AskedAt

LEMMA RestoreProtects ==
    ASSUME TypeOK, DetailTypes, AskedInv, NEW p \in Procs,
           UpdateTargetInstanceAfterPromotion(p), RestoreProtection(view[p])
    PROVE  KeepsAsked /\ Protected(Tgt)'
<1>1. phase[p] = "promote" /\ pc[p] = "restore"
  BY AdvanceStays DEF UpdateTargetInstanceAfterPromotion
<1>2. view[p] = Src /\ Src \in Inst /\ Tgt \in Inst
  BY <1>1 DEF DetailTypes, SourceInView, Inst
<1> DEFINE new == ProtectedAs(res[Src], res[Tgt])
<1>3. /\ IsSettings(new) /\ Protection(new) = Protection(res[Src])
      /\ new.flags = res[Tgt].flags /\ new.version = res[Tgt].version
  BY <1>2, SettingsRestored DEF DetailTypes, SettingTypes, Shapes
<1>4. Configure(Tgt, new)
  BY <1>2 DEF RestoreProtection
<1> HIDE DEF new
<1>5. /\ res'[Tgt] = new /\ res'[Src] = res[Src]
      /\ UNCHANGED <<entry, manifest>>
  BY <1>2, <1>4, InstancesDiffer DEF Configure, DetailTypes, SettingTypes, Shapes
<1>6. Protected(Src) /\ Protected(Src)' /\ Protected(Tgt)'
  BY <1>3, <1>5 DEF AskedInv, Protected
<1>7. Carries => Carries'
  BY <1>3, <1>5 DEF Carries
<1> QED
  BY <1>5, <1>6, <1>7 DEF KeepsAsked, Inst

\* An entry with another version asks for the same protection and the same flags.
LEMMA Redefined ==
    ASSUME DetailTypes, AskedInv, NEW version, Redefine(version)
    PROVE  /\ entry'.ha = entry.ha /\ entry'.pitr = entry.pitr /\ entry'.flags = entry.flags
           /\ entry'.version = IF version = Unset THEN entry.version ELSE version
           /\ UNCHANGED <<manifest, res>>
           /\ \A i \in Inst : Protected(i) => Protected(i)'
           /\ entry'.version = entry.version => (Carries => Carries')
<1>1. /\ entry'.ha = entry.ha /\ entry'.pitr = entry.pitr /\ entry'.flags = entry.flags
      /\ entry'.version = IF version = Unset THEN entry.version ELSE version
      /\ UNCHANGED <<manifest, res>>
  BY DEF Redefine, DefineInstance, DetailTypes, SettingTypes, Shapes, IsEntry
<1>2. Protection(Created(entry')) = Protection(Created(entry))
  BY <1>1 DEF Protection, Created
<1> QED
  BY <1>1, <1>2 DEF Protected, Carries

LEMMA UpdateKeepsAsked ==
    ASSUME Disciplined, TypeOK, IInv, IInv', DetailTypes, AskedInv, NEW p \in Procs,
           UpdateApplicationInstance(Tgt, p, "promote", "update", "rollout"),
           Redefine(TargetVersion)
    PROVE  AskedInv'
<1>1. /\ phase[p] = "promote" /\ pc[p] = "update" /\ pc'[p] = "rollout"
      /\ OthersStay(p) /\ UNCHANGED <<phase, started, completed>>
  BY AdvanceStays DEF UpdateApplicationInstance
<1>2. spec' = Tgt /\ synced' = FALSE /\ helper' = helper
  BY DEF UpdateApplicationInstance, cnrmVars
<1>3. /\ entry'.ha = entry.ha /\ entry'.pitr = entry.pitr /\ entry'.flags = entry.flags
      /\ entry'.version = IF TargetVersion = Unset THEN entry.version ELSE TargetVersion
      /\ UNCHANGED <<manifest, res>>
      /\ \A i \in Inst : Protected(i) => Protected(i)'
      /\ entry'.version = entry.version => (Carries => Carries')
  BY Redefined
<1>4. spec = Tgt => (Carries => Carries')
  BY <1>3 DEF AskedInv
<1>5. PromoteStarted /\ PromoteStarted'
  BY <1>1 DEF IInv, Stages, OneProgram, PromoteStarted
<1>6. AskedAt(p) /\ helper # "present"
  BY <1>1, <1>5 DEF AskedInv, AskedAt, SecondHalf
<1>7. ASSUME NEW q \in Procs, phase'[q] = "promote" PROVE AskedAt(q)'
  <2>1. CASE q = p
    BY <1>1, <1>2, <1>6, <2>1 DEF AskedAt, FirstHalfDone
  <2>2. CASE q # p
    <3>1. phase[q] = "promote" /\ pc'[q] = pc[q]
      BY <1>1, <1>7, <2>2 DEF OthersStay
    <3>2. AskedAt(q) /\ (pc[q] \in {"user", "backup"} => spec = Tgt)
      BY <1>5, <3>1 DEF AskedInv, AskedAt, IInv, PromoteStage, SwitchedSteps, Stages
    <3> QED
      BY <1>2, <1>3, <1>4, <3>1, <3>2 DEF AskedAt, Inst
  <2> QED
    BY <2>1, <2>2
<1>8. (PromoteStarted =>
          /\ helper # "present" => Protected(Tgt)
          /\ "promote" \in completed => helper # "present" /\ Carries
          /\ \A q \in Procs : phase[q] = "promote" => AskedAt(q))'
  <2>1. Protected(Tgt)'
    BY <1>3, <1>5, <1>6 DEF AskedInv, Inst
  <2>2. "promote" \in completed' => Carries'
    BY <1>1, <1>4, <1>5 DEF AskedInv, IInv, PromoteStage, Stages
  <2> QED
    BY <1>2, <1>6, <1>7, <2>1, <2>2
<1>9. (synced' /\ spec' = Tgt => Carries') /\ Protected(Src)'
  BY <1>2, <1>3 DEF AskedInv, Inst
<1>10. (/\ entry.ha = manifest.ha /\ entry.pitr = manifest.pitr /\ entry.flags = manifest.flags
        /\ spec = Tgt /\ TargetVersion # Unset => entry.version = TargetVersion)'
  BY <1>3 DEF AskedInv
<1> QED
  BY <1>8, <1>9, <1>10 DEF AskedInv, AskedAt

LEMMA PromoteAsks ==
    ASSUME Disciplined, TypeOK, IInv, IInv', DetailTypes, AskedInv, NEW p \in Procs,
           DetailPromote(p)
    PROVE  AskedInv'
<1>1. PromoteNext(p)
  BY DEF DetailPromote, PromoteNext
<1>2. CASE UpdateTargetInstanceAfterPromotion(p) /\ RestoreProtection(view[p])
  <2>1. ~UpdateApplicationInstance(Tgt, p, "promote", "update", "rollout")
    BY <1>2, AdvanceStays DEF UpdateTargetInstanceAfterPromotion, UpdateApplicationInstance
  <2> QED
    BY <1>1, <1>2, <2>1, RestoreProtects, PromoteKeepsAsked
<1>3. CASE UpdateApplicationInstance(Tgt, p, "promote", "update", "rollout") /\ Redefine(TargetVersion)
  BY <1>3, UpdateKeepsAsked
<1>4. CASE \/ PrepareTargetDatabase(p, "promote", "ownPostgres") /\ SetPassword(p, Tgt)
           \/ TakeOverTarget(p) /\ pc[p] # "deleteHelper" /\ Connected(p)
  <2>1. SameAsked
    BY <1>4 DEF SetPassword, NewPassword, Connected, details, settingVars, SameAsked
  <2>2. pc[p] \in FirstHalfDone
    BY <1>4, AdvanceStays DEF PrepareTargetDatabase, TakeOverTarget, ChangeOwnership,
       DeleteHelperApplication, FirstHalfDone
  <2>3. /\ ~UpdateTargetInstanceAfterPromotion(p)
        /\ ~UpdateApplicationInstance(Tgt, p, "promote", "update", "rollout")
    BY <2>2, AdvanceStays DEF UpdateTargetInstanceAfterPromotion, UpdateApplicationInstance,
       FirstHalfDone
  <2> QED
    BY <1>1, <2>1, <2>3, SameIsKept, PromoteKeepsAsked
<1> QED
  BY <1>2, <1>3, <1>4 DEF DetailPromote

LEMMA CleanupAsks ==
    ASSUME Disciplined, TypeOK, IInv, IInv', DetailTypes, AskedInv, NEW p \in Procs,
           DetailCleanup(p)
    PROVE  AskedInv'
<1>1. CASE (RollbackNext(p) \/ FinalizeNext(p)) /\ pc[p] \in Profiles /\ DropProfile
  <2>1. SameAsked
    BY <1>1 DEF DropProfile, settingVars, SameAsked
  <2>2. RollbackNext(p) \/ FinalizeNext(p)
    BY <1>1, SetupStepStays, PromoteStepStays DEF Run
  <2> QED
    BY <2>1, <2>2, UntouchedKeepsAsked, FinalizeKeepsAsked
<1>2. CASE UpdateApplicationInstance(Src, p, "rollback", "update", "rollout") /\ Redefine(SourceVersion)
  <2>1. RollbackNext(p)
    BY <1>2 DEF RollbackNext
  <2>2. phase[p] = "rollback" /\ (started' = started \/ started' = {})
    BY <2>1, RollbackStepStays
  <2>3. ~PromoteStarted'
    BY <2>2 DEF IInv, Stages, OneProgram, PromoteStarted
  <2>4. spec' = Src /\ synced' = FALSE
    BY <1>2 DEF UpdateApplicationInstance
  <2>5. /\ entry'.ha = entry.ha /\ entry'.pitr = entry.pitr /\ entry'.flags = entry.flags
        /\ manifest' = manifest /\ \A i \in Inst : Protected(i) => Protected(i)'
    BY <1>2, Redefined
  <2>6. Protected(Src)'
    BY <2>5 DEF AskedInv, Inst
  <2> QED
    BY <2>3, <2>4, <2>5, <2>6, InstancesDiffer DEF AskedInv
<1>3. CASE /\ CleanupAuthNetworks(p)
           /\ Configure(view[p], [res[view[p]] EXCEPT !.nets = RemoveMigrationAuthNetwork(@)])
  <2> DEFINE i == view[p]
             cleaned == [res[i] EXCEPT !.nets = RemoveMigrationAuthNetwork(@)]
  <2>1. i \in Inst
    BY DEF TypeOK, RunTypeOK
  <2>2. /\ Protection(cleaned) = Protection(res[i])
        /\ cleaned.flags = res[i].flags /\ cleaned.version = res[i].version
    BY <2>1, NetsCleaned DEF DetailTypes, SettingTypes, Shapes
  <2>3. Configure(i, cleaned)
    BY <1>3
  <2> HIDE DEF i, cleaned
  <2>4. SameAsked
    BY <2>1, <2>2, <2>3 DEF Configure, SameAsked, DetailTypes, SettingTypes, Shapes
  <2> QED
    BY <1>3, <2>4, FinalizeKeepsAsked DEF FinalizeNext
<1> QED
  BY <1>1, <1>2, <1>3 DEF DetailCleanup, DetailRollback, DetailFinalize

LEMMA RunAsks ==
    ASSUME Disciplined, TypeOK, IInv, IInv', DetailTypes, AskedInv, NEW p \in Procs,
    DetailRun(p)
    PROVE  AskedInv'
<1>1. CASE ~Touched(p) /\ Run(p) /\ IF phase'[p] = "none" THEN Forget(p) ELSE UNCHANGED details
  <2>1. SameAsked
    BY <1>1 DEF Forget, details, settingVars, SameAsked
  <2>2. CASE PromoteNext(p)
    <3>1. phase[p] = "promote" /\ pc[p] \notin {"restore", "update"}
      BY <1>1, <2>2, PromoteStepStays DEF Touched, SetupData, PromoteData, RollbackData,
         FinalizeData
    <3>2. /\ ~UpdateTargetInstanceAfterPromotion(p)
          /\ ~UpdateApplicationInstance(Tgt, p, "promote", "update", "rollout")
      BY <3>1, AdvanceStays DEF UpdateTargetInstanceAfterPromotion, UpdateApplicationInstance
    <3> QED
      BY <2>1, <2>2, <3>2, SameIsKept, PromoteKeepsAsked
  <2> QED
    BY <1>1, <2>1, <2>2, UntouchedKeepsAsked, FinalizeKeepsAsked DEF Run
<1> QED
  BY <1>1, SetupKeepsAsked, PromoteAsks, CleanupAsks DEF DetailRun, DetailCleanup

LEMMA StartKeepsAsked ==
    ASSUME Disciplined, TypeOK, IInv, AskedInv, NEW p \in Procs, NEW ph \in Phases, Start(p, ph),
           UNCHANGED details
    PROVE  AskedInv'
<1>1. /\ OthersStay(p) /\ UNCHANGED <<spec, synced, helper, entry, manifest, res>>
      /\ phase'[p] = ph /\ pc'[p] = FirstStep(ph)
      /\ started' = started \cup {ph} /\ completed' = completed \ {ph, "rollback"}
  BY StartStays DEF appVars, cnrmVars, details, settingVars
<1>2. InOrder(ph)
  BY DEF Disciplined, AllRules, Start, MayStart, Phases
<1>3. (Protected(Tgt) <=> Protected(Tgt)') /\ (Carries <=> Carries')
  BY <1>1 DEF Protected, Carries
<1>4. /\ (entry.ha = manifest.ha /\ entry.pitr = manifest.pitr /\ entry.flags = manifest.flags)'
      /\ spec' = Tgt /\ TargetVersion # Unset => entry'.version = TargetVersion
      /\ Protected(Src)'
      /\ (synced' /\ spec' = Tgt => Carries')
  <2>1. Protected(Src) => Protected(Src)'
    BY <1>1 DEF Protected
  <2>2. synced' /\ spec' = Tgt => synced /\ spec = Tgt
    BY <1>1
  <2>3. (entry.ha = manifest.ha /\ entry.pitr = manifest.pitr /\ entry.flags = manifest.flags)'
    BY <1>1 DEF AskedInv
  <2>4. spec' = Tgt /\ TargetVersion # Unset => entry'.version = TargetVersion
    BY <1>1 DEF AskedInv
  <2> QED
    BY <1>3, <2>1, <2>2, <2>3, <2>4 DEF AskedInv
<1>5. PromoteStarted' =>
        /\ helper' # "present" => Protected(Tgt)'
        /\ "promote" \in completed' => helper' # "present" /\ Carries'
        /\ \A q \in Procs : phase'[q] = "promote" => AskedAt(q)'
  <2> SUFFICES ASSUME PromoteStarted'
               PROVE  /\ helper' # "present" => Protected(Tgt)'
                      /\ "promote" \in completed' => helper' # "present" /\ Carries'
                      /\ \A q \in Procs : phase'[q] = "promote" => AskedAt(q)'
    OBVIOUS
  <2>1. CASE PromoteStarted
    <3>1. ASSUME NEW q \in Procs, phase'[q] = "promote" PROVE AskedAt(q)'
      <4>1. CASE q = p
        BY <1>1, <3>1, <4>1 DEF AskedAt, FirstStep, FirstHalfDone, SecondHalf, SwitchedSteps
      <4>2. CASE q # p
        BY <1>1, <1>3, <2>1, <3>1, <4>2 DEF AskedInv, AskedAt, OthersStay
      <4> QED
        BY <4>1, <4>2
    <3> QED
      BY <1>1, <1>3, <2>1, <3>1 DEF AskedInv
  <2>2. CASE ~PromoteStarted
    <3>1. ph = "promote" /\ "promote" \notin started /\ "setup" \in completed
          /\ started \subseteq {"setup"}
      BY <1>1, <1>2, <2>2 DEF PromoteStarted, InOrder
    <3>2. helper = "present" /\ "promote" \notin completed'
      BY <1>1, <3>1 DEF IInv, Stages, HelperKept
    <3>3. \A q \in Procs : phase'[q] = "promote" => q = p
      BY <1>1, <3>1 DEF IInv, Stages, OneProgram, OthersStay
    <3>4. AskedAt(p)'
      BY <1>1, <3>1 DEF AskedAt, FirstStep, FirstHalfDone, SecondHalf, SwitchedSteps
    <3> QED
      BY <1>1, <3>2, <3>3, <3>4
  <2> QED
    BY <2>1, <2>2
<1> QED
  BY <1>4, <1>5 DEF AskedInv, AskedAt

\* What else happens leaves the runs where they are, or ends one.
LEMMA IdleKeepsAsked ==
    ASSUME AskedInv, KeepsAsked,
           UNCHANGED <<started, completed>>,
           \A q \in Procs : phase'[q] = "none" \/ (phase'[q] = phase[q] /\ pc'[q] = pc[q]),
           PromoteStarted /\ helper # "present" => helper' # "present",
           PromoteStarted /\ helper' # "present" => helper # "present" \/ Protected(Tgt)',
           spec' = spec, synced' /\ spec' = Tgt => Carries'
    PROVE  AskedInv'
<1>1. PromoteStarted' = PromoteStarted
  BY DEF PromoteStarted
<1>2. /\ Protected(Tgt) => Protected(Tgt)'
      /\ Protected(Src) => Protected(Src)'
      /\ Carries => Carries'
      /\ UNCHANGED <<entry, manifest>>
  BY DEF KeepsAsked, Inst
<1>3. PromoteStarted' =>
        /\ helper' # "present" => Protected(Tgt)'
        /\ "promote" \in completed' => helper' # "present" /\ Carries'
        /\ \A q \in Procs : phase'[q] = "promote" => AskedAt(q)'
  <2> SUFFICES ASSUME PromoteStarted
               PROVE  /\ helper' # "present" => Protected(Tgt)'
                      /\ "promote" \in completed' => helper' # "present" /\ Carries'
                      /\ \A q \in Procs : phase'[q] = "promote" => AskedAt(q)'
    BY <1>1
  <2>1. ASSUME NEW q \in Procs, phase'[q] = "promote" PROVE AskedAt(q)'
    <3>1. phase[q] = "promote" /\ pc'[q] = pc[q]
      BY <2>1
    <3>2. AskedAt(q)
      BY <3>1 DEF AskedInv, AskedAt
    <3> QED
      BY <1>2, <3>1, <3>2 DEF AskedAt
  <2> QED
    BY <1>2, <2>1 DEF AskedInv
<1>4. /\ (entry.ha = manifest.ha /\ entry.pitr = manifest.pitr /\ entry.flags = manifest.flags)'
      /\ spec' = Tgt /\ TargetVersion # Unset => entry'.version = TargetVersion
      /\ Protected(Src)'
  BY <1>2 DEF AskedInv
<1> QED
  BY <1>3, <1>4 DEF AskedInv, AskedAt

LEMMA EnvironmentKeepsAsked ==
    ASSUME Disciplined, TypeOK, IInv, Adopted, HelperOwns, DetailTypes, AskedInv, DetailEnvironment
    PROVE  AskedInv'
<1>1. Environment
  BY DEF DetailEnvironment, HelperApplied, Environment
<1>2. UNCHANGED <<phase, pc, started, completed>>
  BY <1>1, EnvironmentKeepsRuns DEF runVars
<1>3. res = [i \in Inst |-> res[i]] /\ \A i \in Inst : IsSettings(res[i])
  BY DEF DetailTypes, SettingTypes, Shapes
<1>4. CASE HelperApplied
  <2>1. /\ helper = "present" /\ owner[Tgt] = "none" /\ helper' = helper
        /\ UNCHANGED <<spec, synced, entry, manifest>>
    BY <1>4 DEF HelperApplied, HelperReconcile, ApplyTo, Configure, appVars
  <2>2. ~PromoteStarted
    BY <2>1 DEF HelperOwns
  <2>3. ~(synced /\ spec = Tgt)
    BY <2>1 DEF Adopted
  <2>4. res'[Src] = res[Src]
    BY <1>3, <1>4, InstancesDiffer DEF HelperApplied, ApplyTo, Configure, Inst
  <2>5. ~PromoteStarted'
    BY <1>2, <2>2 DEF PromoteStarted
  <2>6. ~(synced' /\ spec' = Tgt)
    BY <2>1, <2>3
  <2> QED
    BY <2>1, <2>4, <2>5, <2>6 DEF AskedInv, Protected
<1>5. CASE AppReconcile /\ ApplyTo(spec, entry)
  <2>1. spec \in Inst /\ ~synced /\ spec' = spec /\ helper' = helper
    BY <1>5 DEF AppReconcile, TypeOK, DataTypeOK
  <2>2. /\ Protection(res'[spec]) = Protection(Created(entry)) /\ UNCHANGED <<entry, manifest>>
        /\ res'[spec].version = entry.version
        /\ \A f \in DOMAIN entry.flags :
             f \in DOMAIN res'[spec].flags /\ res'[spec].flags[f] = entry.flags[f]
        /\ \A i \in Inst \ {spec} : res'[i] = res[i]
    <3> DEFINE new == IF sql[spec] = "absent" THEN Created(entry) ELSE Applied(entry, res[spec])
    <3>1. /\ Protection(new) = Protection(Created(entry)) /\ new.version = entry.version
          /\ \A f \in DOMAIN entry.flags :
               f \in DOMAIN new.flags /\ new.flags[f] = entry.flags[f]
      <4>1. Created(entry).version = entry.version /\ Created(entry).flags = entry.flags
        BY DEF Created
      <4> QED
        BY <1>3, <2>1, <4>1, SettingsApplied DEF DetailTypes, SettingTypes, Shapes
    <3>2. Configure(spec, new)
      BY <1>5 DEF ApplyTo
    <3> HIDE DEF new
    <3>3. res'[spec] = new /\ (\A i \in Inst \ {spec} : res'[i] = res[i])
          /\ UNCHANGED <<entry, manifest>>
      BY <1>3, <2>1, <3>2 DEF Configure
    <3> QED
      BY <3>1, <3>3
  <2>3. \A i \in Inst : Protected(i) => Protected(i)'
    BY <2>2 DEF Protected
  <2>4. spec = Tgt => Carries'
    BY <2>2 DEF Carries
  <2>5. spec # Tgt => (Carries => Carries')
    BY <2>2 DEF Carries, Inst
  <2>6. KeepsAsked
    BY <2>2, <2>3, <2>4, <2>5 DEF KeepsAsked
  <2> QED
    BY <1>2, <2>1, <2>4, <2>6, IdleKeepsAsked
<1>6. CASE /\ \/ HelperCollected \/ DatabaseCollected \/ PodsStop \/ Write
              \/ DumpDone \/ CatchUp \/ SampleLag \/ PromotionDone
           /\ UNCHANGED details
  <2>1. /\ UNCHANGED <<spec, synced>>
        /\ helper # "present" => helper' # "present"
        /\ helper' # "present" => helper # "present"
    BY <1>6 DEF HelperCollected, PodsStop, Write, DumpDone, CatchUp, SampleLag, PromotionDone,
       appVars, cnrmVars, DatabaseCollected
  <2>2. SameAsked
    BY <1>6 DEF details, settingVars, SameAsked
  <2>3. synced' /\ spec' = Tgt => Carries'
    <3>1. synced' /\ spec' = Tgt => synced /\ spec = Tgt
      BY <2>1
    <3> QED
      BY <2>2, <3>1, SameIsKept DEF AskedInv, KeepsAsked
  <2> QED
    BY <1>2, <2>1, <2>2, <2>3, SameIsKept, IdleKeepsAsked
<1> QED
  BY <1>4, <1>5, <1>6 DEF DetailEnvironment

LEMMA AuditKeepsAsked ==
    ASSUME Disciplined, TypeOK, IInv, DetailTypes, AskedInv, EnableAudit
    PROVE  AskedInv'
<1> DEFINE on(flags) ==
      [f \in DOMAIN flags \cup AuditFlags |-> IF f \in AuditFlags THEN "on" ELSE flags[f]]
<1>1. live = spec /\ synced /\ live \in Inst
  BY DEF EnableAudit, IInv, SpecAndDeployment, TypeOK, DataTypeOK, Stages
<1>2. UNCHANGED vars
  BY DEF EnableAudit
<1>3. /\ entry' = [entry EXCEPT !.flags = on(entry.flags)]
      /\ manifest' = [manifest EXCEPT !.flags = on(manifest.flags)]
      /\ res' = [res EXCEPT ![live].flags = on(res[live].flags)]
  BY DEF EnableAudit, DetailTypes, SettingTypes, Shapes, IsEntry, IsSettings, TypeOK, DataTypeOK
<1>4. \A f \in DOMAIN on(entry.flags) :
        /\ f \in DOMAIN entry.flags => entry.flags[f] = on(entry.flags)[f] \/ f \in AuditFlags
        /\ f \in AuditFlags => on(entry.flags)[f] = "on"
  OBVIOUS
<1>5. Carries => \A f \in DOMAIN on(entry.flags) :
        f \in DOMAIN on(res[Tgt].flags) /\ on(res[Tgt].flags)[f] = on(entry.flags)[f]
  BY DEF Carries
<1>6. entry.flags = manifest.flags => on(entry.flags) = on(manifest.flags)
  OBVIOUS
<1>7. on(res[live].flags) \in [DOMAIN on(res[live].flags) -> {"on", "off"}]
  BY <1>1 DEF DetailTypes, SettingTypes, Shapes, IsSettings
<1> HIDE DEF on
<1>8. /\ entry'.ha = entry.ha /\ entry'.pitr = entry.pitr /\ entry'.version = entry.version
      /\ entry'.flags = on(entry.flags)
      /\ manifest'.ha = manifest.ha /\ manifest'.pitr = manifest.pitr
      /\ manifest'.flags = on(manifest.flags)
  BY <1>3 DEF DetailTypes, SettingTypes, Shapes, IsEntry
<1> DEFINE new == [res[live] EXCEPT !.flags = on(res[live].flags)]
<1>9. /\ Protection(new) = Protection(res[live]) /\ new.version = res[live].version
      /\ new.flags = on(res[live].flags)
  BY <1>1, <1>7, FlagsReplaced DEF DetailTypes, SettingTypes, Shapes
<1>10. res'[live] = new /\ \A i \in Inst \ {live} : res'[i] = res[i]
  BY <1>1, <1>3 DEF DetailTypes, SettingTypes, Shapes
<1> HIDE DEF new
<1>11. Protection(Created(entry')) = Protection(Created(entry))
  BY <1>8 DEF Protection, Created
<1>12. \A i \in Inst : Protected(i) => Protected(i)'
  BY <1>9, <1>10, <1>11 DEF Protected
<1>13. spec = Tgt => (Carries => Carries')
  BY <1>1, <1>5, <1>8, <1>9, <1>10 DEF Carries
<1>14. /\ UNCHANGED <<phase, pc, started, completed, spec, synced, helper>>
       /\ PromoteStarted' = PromoteStarted
  BY <1>2 DEF vars, runVars, appVars, cnrmVars, PromoteStarted
<1>15. PromoteStarted' =>
        /\ helper' # "present" => Protected(Tgt)'
        /\ "promote" \in completed' => helper' # "present" /\ Carries'
        /\ \A q \in Procs : phase'[q] = "promote" =>
            /\ pc'[q] \in FirstHalfDone => Protected(Tgt)'
            /\ pc'[q] \in SecondHalf => helper' # "present"
            /\ pc'[q] \in {"user", "backup"} => Carries'
  BY <1>1, <1>12, <1>13, <1>14 DEF AskedInv, IInv, PromoteStage, SwitchedSteps, Inst, Stages
<1>16. Protected(Src)' /\ (synced' /\ spec' = Tgt => Carries')
  <2>1. synced' /\ spec' = Tgt => synced /\ spec = Tgt
    BY <1>14
  <2> QED
    BY <1>12, <1>13, <2>1 DEF AskedInv, Inst
<1>17. (/\ entry.ha = manifest.ha /\ entry.pitr = manifest.pitr /\ entry.flags = manifest.flags
        /\ spec = Tgt /\ TargetVersion # Unset => entry.version = TargetVersion)'
  BY <1>6, <1>8, <1>14 DEF AskedInv
<1> QED
  BY <1>15, <1>16, <1>17 DEF AskedInv

LEMMA NextAsked ==
    ASSUME Disciplined, TypeOK, IInv, IInv', Adopted, HelperOwns, DetailTypes, AskedInv,
           [DetailNext]_detailedVars
    PROVE  AskedInv'
<1>1. ASSUME NEW p \in Procs, Exit(p), Forget(p) PROVE AskedInv'
  <2>1. OthersStay(p) /\ phase'[p] = "none" /\ UNCHANGED <<started, completed, spec, synced, helper>>
    BY <1>1, ExitStays DEF Exit, cnrmVars
  <2>2. SameAsked
    BY <1>1 DEF Forget, settingVars, SameAsked
  <2>3. synced' /\ spec' = Tgt => Carries'
    <3>1. synced' /\ spec' = Tgt => synced /\ spec = Tgt
      BY <2>1
    <3> QED
      BY <2>2, <3>1, SameIsKept DEF AskedInv, KeepsAsked
  <2> QED
    BY <2>1, <2>2, <2>3, SameIsKept, IdleKeepsAsked DEF OthersStay
<1>2. CASE UNCHANGED detailedVars
  <2>1. SameAsked /\ UNCHANGED <<phase, pc, started, completed, spec, synced, helper>>
    BY <1>2 DEF detailedVars, details, settingVars, SameAsked, vars, runVars, appVars, cnrmVars
  <2>2. synced' /\ spec' = Tgt => Carries'
    <3>1. synced' /\ spec' = Tgt => synced /\ spec = Tgt
      BY <2>1
    <3> QED
      BY <2>1, <3>1, SameIsKept DEF AskedInv, KeepsAsked
  <2> QED
    BY <2>1, <2>2, SameIsKept, IdleKeepsAsked
<1> QED
  BY <1>1, <1>2, RunAsks, StartKeepsAsked, EnvironmentKeepsAsked, AuditKeepsAsked DEF DetailNext

LEMMA InitAsked == DetailInit => AskedInv
BY InstancesDiffer DEF DetailInit, Init, AskedInv, Protected, PromoteStarted, Inst

LEMMA AskedAlways ==
    ASSUME Disciplined PROVE DetailSpec => []TypeOK /\ []IInv /\ []AskedInv
<1>1. DetailSpec => []TypeOK /\ []IInv /\ []Adopted /\ []HelperOwns /\ []DetailTypes
  BY ImplementsMigrator, TypeCorrect, Inductive, AdoptedAlways, HelperOwnsAlways,
     DetailTypesAlways, PTL
<1>2. DetailInit => AskedInv
  BY InitAsked
<1>3. /\ TypeOK /\ IInv /\ IInv' /\ Adopted /\ HelperOwns /\ DetailTypes /\ AskedInv
      /\ [DetailNext]_detailedVars
      => AskedInv'
  BY NextAsked
<1> QED
  BY <1>1, <1>2, <1>3, PTL DEF DetailSpec

\* Under the discipline of MigratorInv, for any entry and any settings of the target: a
\* promote that finds no helper application, and so skips UpdateTargetInstanceAfterPromotion,
\* finds a target that is as well protected as the application asks for.
THEOREM ProtectionBack == ASSUME Disciplined PROVE DetailSpec => []ProtectionRestored
<1>1. AskedInv => ProtectionRestored
  BY DEF AskedInv, ProtectionRestored, Protected
<1> QED
  BY <1>1, AskedAlways, PTL

\* Under the same discipline, runs that overlap included: with a completed promote the
\* target has the protection, the flags and the version the team asks for.
THEOREM AskedForDelivered == ASSUME Disciplined PROVE DetailSpec => []TargetAsAskedFor
<1>1. ASSUME IInv, AskedInv PROVE TargetAsAskedFor
  <2> SUFFICES ASSUME "promote" \in completed, "rollback" \notin started
               PROVE  /\ Protection(res[Tgt]) = Protection(Created(manifest))
                      /\ \A f \in DOMAIN manifest.flags :
                           f \in DOMAIN res[Tgt].flags /\ res[Tgt].flags[f] = manifest.flags[f]
                      /\ TargetVersion # Unset => res[Tgt].version = TargetVersion
    BY DEF TargetAsAskedFor
  <2>1. PromoteStarted
    BY <1>1 DEF IInv, Stages, OneProgram, PromoteStarted
  <2>2. spec = Tgt
    BY <1>1, <2>1 DEF IInv, Stages, PromoteStage
  <2>3. Protected(Tgt) /\ Carries
    BY <1>1, <2>1 DEF AskedInv
  <2>4. Protection(Created(entry)) = Protection(Created(manifest)) /\ entry.flags = manifest.flags
    BY <1>1 DEF AskedInv, Protection, Created
  <2> QED
    BY <1>1, <2>2, <2>3, <2>4 DEF AskedInv, Protected, Carries
<1> QED
  BY <1>1, AskedAlways, PTL

-----------------------------------------------------------------------------
(* What DMS replicates *)

\* What a run of promote knows of the job.
JobAt(p) ==
    /\ pc[p] = "wait" => job \in {"promoting", "completed", "failed"}
    /\ pc[p] \in {"restore"} \cup FirstHalfDone \cup SecondHalf => job \notin Running

\* The job is left alone, deleted, or ends.
JobWanes ==
    \/ job' \in {job, "absent"}
    \/ {job, job'} \subseteq {"dump", "cdc"}
    \/ job = "promoting" /\ job' \in {"completed", "failed"}

LEMMA PromoteJobAdvances ==
    ASSUME Disciplined, TypeOK, IInv, JobInv, NEW p \in Procs, PromoteNext(p), JobAt(p),
           phase'[p] = "promote", ~StartPromotion(p)
    PROVE  JobAt(p)' /\ job' = job
<1> USE DEF JobAt, FirstHalfDone, SecondHalf, SwitchedSteps
<1>1. phase[p] = "promote" /\ PromoteStarted
  BY PromoteStepStays, PromoteStays
<1>2. CASE ResolveAppInstance(p, "promote", "resolve", "helper")
  <2>1. pc'[p] = "helper" /\ job' = job
    BY <1>2, ResolveStays DEF ResolveAppInstance, dmsVars
  <2> QED
    BY <2>1
<1>3. CASE GetHelper(p)
  <2>1. /\ job' = job
        /\ pc'[p] = IF helper = "absent" THEN "dbResource" ELSE "target"
    BY <1>3, AdvanceStays DEF GetHelper, dmsVars
  <2>2. helper = "absent" => job \notin Running
    BY <1>1 DEF JobInv
  <2> QED
    BY <2>1, <2>2
<1>4. CASE InspectJob(p)
  <2>1. job' = job /\ pc'[p] = IF job \in {"promoting", "completed"} THEN "wait" ELSE "lag"
    BY <1>4, AdvanceStays DEF InspectJob, dmsVars
  <2> QED
    BY <2>1
<1>5. CASE AwaitPromotion(p)
  <2>1. job' = job /\ job # "promoting" /\ pc[p] = "wait" /\ pc'[p] = "restore"
    BY <1>5, AdvanceStays DEF AwaitPromotion, dmsVars
  <2> QED
    BY <2>1 DEF Running
<1>6. CASE BackUpTarget(p)
  BY <1>6, FinishStays DEF BackUpTarget
<1>7. CASE \/ ResolveTarget(p) \/ CheckReadyForPromotion(p)
           \/ ScaleApplication(p, "promote", "scale", "promote")
  <2>1. job' = job /\ pc'[p] \in {"ready", "scale", "promote"}
    BY <1>7, AdvanceStays DEF ResolveTarget, CheckReadyForPromotion, ScaleApplication, dmsVars
  <2> QED
    BY <2>1
<1>8. CASE \/ UpdateTargetInstanceAfterPromotion(p)
           \/ PrepareTargetDatabase(p, "promote", "ownPostgres")
           \/ TakeOverTarget(p)
           \/ DeleteTargetDatabaseResource(p, "promote", "dbResource", "cnrm")
           \/ AwaitCnrmHandover(p)
           \/ UpdateApplicationInstance(Tgt, p, "promote", "update", "rollout")
           \/ AwaitRollout(Tgt, p, "promote", "rollout", "user")
           \/ UpdateApplicationUser(Tgt, p, "promote", "user", "backup")
  <2>1. job' = job /\ pc[p] \in {"restore"} \cup FirstHalfDone \cup SecondHalf /\ pc'[p] # "wait"
    BY <1>8, AdvanceStays DEF UpdateTargetInstanceAfterPromotion, PrepareTargetDatabase,
       TakeOverTarget, ChangeOwnership, DeleteHelperApplication, DeleteTargetDatabaseResource,
       AwaitCnrmHandover, UpdateApplicationInstance, AwaitRollout, UpdateApplicationUser,
       dmsVars
  <2> QED
    BY <2>1
<1> QED
  BY <1>2, <1>3, <1>4, <1>5, <1>6, <1>7, <1>8 DEF PromoteNext

LEMMA PromoteKeepsJob ==
    ASSUME Disciplined, TypeOK, IInv, JobInv, NEW p \in Procs, PromoteNext(p)
    PROVE  JobInv'
<1>1. /\ phase[p] = "promote" /\ OthersStay(p) /\ PromoteStarted
  BY PromoteStepStays, PromoteStays
<1>2. /\ JobAt(p) /\ (spec = Tgt => job \notin Running)
      /\ \A q \in Procs : phase[q] = "promote" => JobAt(q)
      /\ helper # "present" => job \notin Running
  BY <1>1 DEF JobInv, JobAt
<1>3. CASE StartPromotion(p)
  <2>1. job = "cdc" /\ job' = "promoting" /\ pc'[p] = "wait" /\ UNCHANGED <<spec, helper>>
    BY <1>3, AdvanceStays DEF StartPromotion, appVars, cnrmVars
  <2>2. spec' # Tgt /\ helper' = "present"
    BY <1>2, <2>1 DEF Running
  <2>3. ASSUME NEW q \in Procs, phase'[q] = "promote" PROVE JobAt(q)'
    <3>1. CASE q = p
      BY <2>1, <3>1 DEF JobAt, FirstHalfDone, SecondHalf, SwitchedSteps
    <3>2. CASE q # p
      BY <1>1, <1>2, <2>1, <2>3, <3>2 DEF JobAt, OthersStay, Running
    <3> QED
      BY <3>1, <3>2
  <2> QED
    BY <2>2, <2>3 DEF JobInv, JobAt
<1>4. CASE ~StartPromotion(p)
  <2>1. job' = job
    BY <1>4 DEF PromoteNext, ResolveAppInstance, GetHelper, ResolveTarget,
       CheckReadyForPromotion, ScaleApplication, InspectJob, AwaitPromotion,
       UpdateTargetInstanceAfterPromotion, PrepareTargetDatabase, TakeOverTarget,
       ChangeOwnership, DeleteHelperApplication, DeleteTargetDatabaseResource,
       AwaitCnrmHandover, UpdateApplicationInstance, AwaitRollout, UpdateApplicationUser,
       BackUpTarget, dmsVars
  <2>2. spec' = Tgt => job \notin Running
    <3>1. CASE UpdateApplicationInstance(Tgt, p, "promote", "update", "rollout")
      BY <1>2, <3>1, AdvanceStays DEF UpdateApplicationInstance, JobAt, SecondHalf
    <3>2. CASE ~UpdateApplicationInstance(Tgt, p, "promote", "update", "rollout")
      <4>1. spec' = spec
        BY <1>4, <3>2 DEF PromoteNext, ResolveAppInstance, GetHelper, ResolveTarget,
           CheckReadyForPromotion, ScaleApplication, InspectJob, AwaitPromotion,
           UpdateTargetInstanceAfterPromotion, PrepareTargetDatabase, TakeOverTarget,
           ChangeOwnership, DeleteHelperApplication, DeleteTargetDatabaseResource,
           AwaitCnrmHandover, AwaitRollout, UpdateApplicationUser, BackUpTarget, appVars
      <4> QED
        BY <1>2, <4>1
    <3> QED
      BY <3>1, <3>2
  <2>3. helper' # "present" => job \notin Running
    BY <1>2, PromoteStays DEF JobAt, FirstHalfDone
  <2>4. ASSUME NEW q \in Procs, phase'[q] = "promote" PROVE JobAt(q)'
    <3>1. CASE q = p
      BY <1>2, <1>4, <2>4, <3>1, PromoteJobAdvances
    <3>2. CASE q # p
      BY <1>1, <1>2, <2>1, <2>4, <3>2 DEF JobAt, OthersStay
    <3> QED
      BY <3>1, <3>2
  <2> QED
    BY <2>1, <2>2, <2>3, <2>4 DEF JobInv, JobAt
<1> QED
  BY <1>3, <1>4

\* Beside promote the job only ends, where the runs and the application stay.
LEMMA IdleKeepsJob ==
    ASSUME TypeOK, JobInv, JobWanes, started' = started, spec' = spec,
           \A q \in Procs : phase'[q] = "promote" =>
               phase[q] = "promote" /\ pc'[q] = pc[q] /\ (job' = "absent" => job = "absent"),
           helper' # "present" => helper # "present" \/ ~PromoteStarted
    PROVE  JobInv'
<1>1. job \notin Running => job' \notin Running
  BY DEF JobWanes, Running, TypeOK, DataTypeOK
<1>2. /\ job \in {"promoting", "completed", "failed"} =>
           job' \in {"promoting", "completed", "failed"} \/ (job' = "absent" /\ job # "absent")
      /\ PromoteStarted' = PromoteStarted
  BY DEF JobWanes, Running, PromoteStarted
<1> QED
  BY <1>1, <1>2 DEF JobInv


LEMMA NextJob ==
    ASSUME Disciplined, TypeOK, IInv, IInv', JobInv, [Next]_vars
    PROVE  JobInv'
<1>1. ASSUME NEW p \in Procs, SetupNext(p) PROVE JobInv'
  <2>1. phase[p] = "setup" /\ started' = started
    BY <1>1, SetupStepStays
  <2>2. started' = {"setup"}
    BY <2>1 DEF IInv, Stages, OneProgram
  <2> QED
    BY <2>2, InstancesDiffer DEF IInv, Stages, SpecAndDeployment, JobInv, PromoteStarted
<1>2. ASSUME NEW p \in Procs, RollbackNext(p) PROVE JobInv'
  <2>1. phase[p] = "rollback" /\ (started' = started \/ started' = {})
    BY <1>2, RollbackStepStays
  <2>2. ~PromoteStarted'
    BY <2>1 DEF IInv, Stages, OneProgram, PromoteStarted
  <2>3. (spec' = Tgt => spec = Tgt) /\ job' \in {job, "absent"}
    BY <1>2, InstancesDiffer DEF RollbackNext, ScaleIfSwitched, DeleteHelperApplication,
       DeleteMigrationJob, DeleteConnectionProfile, DeleteInstance, DeleteMasterInstance,
       DeleteTargetDatabaseResource, DeleteSourceCert, AwaitDatabaseResourceGone,
       UpdateApplicationInstance, AwaitRollout, UpdateApplicationUser, DeleteSslCerts,
       DeleteNetworkPolicies, appVars, dmsVars, CleanupConnectionProfile
  <2> QED
    BY <2>2, <2>3 DEF JobInv, Running
<1>3. ASSUME NEW p \in Procs, FinalizeNext(p) PROVE JobInv'
  <2>1. /\ phase[p] = "finalize" /\ phase'[p] # "promote" /\ OthersStay(p) /\ started' = started
    BY <1>3, FinalizeStepStays
  <2>2. \A q \in Procs : phase'[q] # "promote"
    BY <2>1 DEF IInv, Stages, OneProgram, OthersStay
  <2>3. job' \in {job, "absent"} /\ spec' = spec /\ helper' = helper
    BY <1>3 DEF FinalizeNext, ResolveAppInstance, DeleteFinishedJob, DeleteMigrationJob,
       DeleteConnectionProfile, DeleteMasterInstance, DeleteInstance, CleanupAuthNetworks,
       DeleteSslCerts, DeleteNetworkPolicies, appVars, cnrmVars, dmsVars, CleanupConnectionProfile
  <2> QED
    BY <2>1, <2>2, <2>3, IdleKeepsJob DEF JobWanes
<1>4. ASSUME NEW p \in Procs, NEW ph \in Phases, Start(p, ph) PROVE JobInv'
  <2>1. /\ OthersStay(p) /\ UNCHANGED <<spec, helper, job>> /\ phase[p] = "none"
        /\ phase'[p] = ph /\ pc'[p] = FirstStep(ph) /\ started' = started \cup {ph}
    BY <1>4, StartStays DEF appVars, cnrmVars, dmsVars
  <2>2. InOrder(ph)
    BY <1>4 DEF Disciplined, AllRules, Start, MayStart, Phases
  <2>3. PromoteStarted' => PromoteStarted \/ (helper = "present" /\ \A q \in Procs : phase[q] # "promote")
    BY <2>1, <2>2 DEF PromoteStarted, InOrder, IInv, Stages, OneProgram, HelperKept, Phases
  <2>4. ASSUME PromoteStarted', NEW q \in Procs, phase'[q] = "promote" PROVE JobAt(q)'
    <3>1. CASE q = p
      BY <2>1, <2>4, <3>1 DEF JobAt, FirstStep, FirstHalfDone, SecondHalf, SwitchedSteps
    <3>2. CASE q # p
      BY <2>1, <2>3, <2>4, <3>2 DEF JobInv, JobAt, OthersStay
    <3> QED
      BY <3>1, <3>2
  <2> QED
    BY <2>1, <2>3, <2>4 DEF JobInv, JobAt
<1>5. ASSUME NEW p \in Procs, Exit(p) PROVE JobInv'
  <2>1. OthersStay(p) /\ phase'[p] = "none" /\ UNCHANGED <<started, job, spec, helper>>
    BY <1>5, ExitStays DEF Exit, cnrmVars, dmsVars
  <2> QED
    BY <2>1, IdleKeepsJob DEF JobWanes, OthersStay
<1>6. CASE Environment
  <2>1. UNCHANGED <<phase, pc, started>>
    BY <1>6, EnvironmentKeepsRuns DEF runVars
  <2>2. spec' = spec
    BY <1>6 DEF Environment, HelperReconcile, HelperCollected, AppReconcile, InstanceReconcile,
       PodsStop, Write, DumpDone, CatchUp, SampleLag, PromotionDone, Redeploy, appVars,
       Disciplined, DatabaseCollected
  <2>3. /\ helper' # "present" => helper # "present"
        /\ JobWanes /\ (job' = "absent" => job = "absent")
    BY <1>6 DEF Environment, HelperReconcile, HelperCollected, AppReconcile, InstanceReconcile,
       PodsStop, Write, DumpDone, CatchUp, SampleLag, PromotionDone, Redeploy, JobWanes,
       cnrmVars, dmsVars, DatabaseCollected
  <2> QED
    BY <2>1, <2>2, <2>3, IdleKeepsJob
<1>7. CASE UNCHANGED vars
  BY <1>7, IdleKeepsJob DEF vars, appVars, cnrmVars, dmsVars, runVars, JobWanes
<1> QED
  BY <1>1, <1>2, <1>3, <1>4, <1>5, <1>6, <1>7, PromoteKeepsJob DEF Next, Run

LEMMA JobAlways == ASSUME Disciplined PROVE Spec => []JobInv
<1>1. Init => JobInv
  BY InstancesDiffer DEF Init, JobInv, PromoteStarted, Running
<1>2. Spec => []TypeOK /\ []IInv
  BY TypeCorrect, Inductive
<1> QED
  BY <1>1, <1>2, NextJob, PTL DEF Spec


\* What a run of setup knows of the audit and of the target.
SuitAt(p) ==
    /\ pc[p] # "resolve" => (p \in read => HasPgAuditFlags(entry.flags))
    /\ pc[p] \in UnauditedSteps /\ p \in read => ~audited
    /\ pc[p] \in PreparedSteps => Suits(res[Tgt])

LEMMA SuitsMade ==
    ASSUME NEW e, IsEntry(e), Suits(e), NEW r, IsSettings(r)
    PROVE  Suits(Created(e)) /\ (Suits(r) => Suits(Applied(e, r)))
<1>1. /\ Created(e).ha = e.ha /\ Created(e).pitr = e.pitr /\ Created(e).flags = e.flags
      /\ Applied(e, r).ha = e.ha /\ Applied(e, r).pitr = e.pitr
      /\ DOMAIN Applied(e, r).flags = DOMAIN e.flags \cup DOMAIN r.flags
  BY DEF Created, Applied
<1> QED
  BY <1>1 DEF Suits, HasPgAuditFlags

LEMMA HelperSuits ==
    ASSUME NEW e, IsEntry(e), NEW version
    PROVE  Suits(HelperInstance(version, e))
<1>1. HelperInstance(version, e).flags = StripPgAuditFlags(e.flags)
  BY DEF HelperInstance, DefineInstance, IsEntry
<1>2. ~HelperInstance(version, e).ha /\ ~HelperInstance(version, e).pitr
  BY DEF HelperInstance, DefineInstance, IsEntry
<1>3. DOMAIN StripPgAuditFlags(e.flags) \cap AuditFlags = {}
  BY DEF StripPgAuditFlags
<1> QED
  BY <1>1, <1>2, <1>3 DEF Suits, HasPgAuditFlags

\* Steps that leave what replicates as it suits DMS.
KeepsSuited ==
    /\ UNCHANGED <<wanted, audited>>
    /\ entry'.flags = entry.flags
    /\ job' \in Running => job \in Running
    /\ helper' = "present" => helper = "present"
    /\ Suits(res[Tgt]) /\ (job \in Running \/ \E q \in Procs : phase[q] = "setup") => Suits(res'[Tgt])

LEMMA SuitedKept ==
    ASSUME SuitInv, KeepsSuited,
           \A q \in Procs : phase'[q] = "setup" =>
               SuitAt(q)' \/ (phase[q] = "setup" /\ pc'[q] = pc[q] /\ (q \in read' <=> q \in read))
    PROVE  SuitInv'
<1>1. /\ (audited => HasPgAuditFlags(entry.flags))'
      /\ (helper = "present" => Suits(wanted))'
      /\ (job \in Running => Suits(res[Tgt]))'
  BY DEF SuitInv, KeepsSuited
<1>2. ASSUME NEW q \in Procs, phase'[q] = "setup" PROVE SuitAt(q)'
  <2>1. CASE phase[q] = "setup" /\ pc'[q] = pc[q] /\ (q \in read' <=> q \in read)
    BY <2>1 DEF SuitInv, SuitAt, KeepsSuited
  <2> QED
    BY <1>2, <2>1
<1> QED
  BY <1>1, <1>2 DEF SuitInv, SuitAt

\* Setup's step, of which only the start of the job needs a suited target.
LEMMA SetupAdvancesSuit ==
    ASSUME Disciplined, TypeOK, IInv, DetailTypes, SuitInv, NEW p \in Procs, DetailSetup(p),
           phase'[p] = "setup"
    PROVE  SuitAt(p)'
<1> USE DEF SuitAt, UnauditedSteps, PreparedSteps, AfterCascade, SetupSteps
<1>1. phase[p] = "setup" /\ (pc[p] # "resolve" => view[p] = Src) /\ SuitAt(p)
  BY SetupStepStays DEF DetailSetup, SetupNext, DetailTypes, SourceInView, SuitInv
<1>2. CASE ResolveSource(p) /\ ReadFlags(p)
  <2>1. pc'[p] = "helper" /\ entry' = entry
    BY <1>2, ResolveStays DEF ResolveSource, ReadFlags, settingVars
  <2>2. p \in read' => HasPgAuditFlags(entry.flags)
    BY <1>2 DEF ReadFlags
  <2> QED
    BY <2>1, <2>2
<1>3. CASE CreateHelper(p) /\ DescribeHelper
  <2>1. pc'[p] = "helperRollout" /\ pc[p] = "helper" /\ UNCHANGED <<entry, read>>
    BY <1>3, AdvanceStays DEF CreateHelper, DescribeHelper, auditVars
  <2> QED
    BY <1>1, <2>1
<1>4. CASE PrepareSourceInstance(p) /\ Configure(view[p], SourcePrepared(res[view[p]], OwnNetwork))
  <2>1. pc'[p] = "sourcePassword" /\ pc[p] = "sourceInstance" /\ UNCHANGED <<entry, read>>
    BY <1>4, AdvanceStays DEF PrepareSourceInstance, Configure, auditVars
  <2> QED
    BY <1>1, <2>1
<1>5. CASE PrepareSourceDatabase(p) /\ pc[p] = "pglogical" /\ InstallExtension(p)
  <2>1. /\ pc[p] = "pglogical" /\ UNCHANGED <<entry, read, audited>>
        /\ pc'[p] = IF p \in read THEN "dropPgAudit" ELSE "targetInstance"
    BY <1>5 DEF InstallExtension, details, settingVars, auditVars
  <2> QED
    BY <1>1, <2>1
<1>13. CASE PrepareSourceDatabase(p) /\ pc[p] = "sourcePassword" /\ SetPassword(p, view[p])
  <2>1. UNCHANGED <<entry, read, audited>>
    BY <1>13 DEF SetPassword, NewPassword, details, settingVars, auditVars
  <2>2. pc[p] = "sourcePassword" /\ pc'[p] = "sourceCert"
    BY <1>13, AdvanceStays DEF PrepareSourceDatabase
  <2> QED
    BY <1>1, <2>1, <2>2
<1>6. CASE DropPgAuditExtension(p) /\ DropAudit(p)
  <2>1. /\ pc'[p] = "targetInstance" /\ pc[p] = "dropPgAudit" /\ audited' = FALSE
        /\ UNCHANGED <<entry, read>>
    BY <1>6, AdvanceStays DEF DropPgAuditExtension, DropAudit, settingVars
  <2> QED
    BY <1>1, <2>1
<1>7. CASE PrepareTargetInstance(p) /\ Configure(Tgt, TargetPrepared(res[Tgt], OwnNetwork))
  <2>1. /\ pc'[p] = "targetPassword" /\ pc[p] = "targetInstance"
        /\ UNCHANGED <<entry, read, audited>>
    BY <1>7, AdvanceStays DEF PrepareTargetInstance, Configure, auditVars
  <2>2. Suits(TargetPrepared(res[Tgt], OwnNetwork))
    BY SettingsPrepared DEF DetailTypes, SettingTypes, Shapes, Inst
  <2>3. res'[Tgt] = TargetPrepared(res[Tgt], OwnNetwork)
    BY <1>7 DEF Configure, DetailTypes, SettingTypes, Shapes, Inst
  <2> QED
    BY <1>1, <2>1, <2>2, <2>3
<1>8. CASE /\ PrepareTargetDatabase(p, "setup", "deleteJob") /\ pc[p] = "targetPassword"
           /\ SetPassword(p, Tgt)
  <2>1. /\ pc'[p] = "targetCert" /\ pc[p] = "targetPassword"
        /\ UNCHANGED <<entry, read, audited, res>>
    BY <1>8, AdvanceStays DEF PrepareTargetDatabase, SetPassword, NewPassword, details,
       settingVars, auditVars
  <2> QED
    BY <1>1, <2>1
<1>9. CASE \E profile \in Profiles :
             \/ DeleteOldProfile(p, profile) /\ DropProfile
             \/ CreateConnectionProfile(p, profile) /\ FillProfile(p, profile)
  <2>1. /\ \E from, to \in PreparedSteps : pc[p] = from /\ pc'[p] = to
        /\ UNCHANGED <<entry, read, audited, res>>
    <3>1. UNCHANGED <<entry, read, audited, res>>
      BY <1>9 DEF DropProfile, FillProfile, settingVars, auditVars
    <3>2. \E from, to \in PreparedSteps : Step(p, "setup", from, to)
      BY <1>9, OtherProfile DEF DeleteOldProfile, DeleteConnectionProfile,
         CreateConnectionProfile, Profiles, ToCreate, CleanupConnectionProfile
    <3> QED
      BY <3>1, <3>2, AdvanceStays
  <2> QED
    BY <1>1, <2>1
<1>10. CASE AddTargetOutgoingIps(p) /\ AllowTarget(view[p])
  <2>1. pc[p] = "allow" /\ pc'[p] = "start"
    BY <1>10, AdvanceStays DEF AddTargetOutgoingIps
  <2>2. UNCHANGED <<entry, read, audited>> /\ res'[Tgt] = res[Tgt]
    BY <1>1, <1>10, <2>1, InstancesDiffer DEF AllowTarget, Configure, auditVars, DetailTypes,
       SettingTypes, Shapes, Inst
  <2> QED
    BY <1>1, <2>1, <2>2
<1>11. CASE StartMigrationJob(p)
  BY <1>11 DEF StartMigrationJob, Finish, Leave, TypeOK, RunTypeOK
<1> QED
  BY <1>2, <1>3, <1>4, <1>5, <1>6, <1>7, <1>8, <1>9, <1>10, <1>11, <1>13 DEF DetailSetup

LEMMA SetupKeepsSuit ==
    ASSUME Disciplined, TypeOK, IInv, DetailTypes, SuitInv, NEW p \in Procs, DetailSetup(p)
    PROVE  SuitInv'
<1>1. phase[p] = "setup" /\ OthersStay(p) /\ (pc[p] # "resolve" => view[p] = Src)
  BY SetupStepStays DEF DetailSetup, SetupNext, DetailTypes, SourceInView
<1>2. SuitAt(p) /\ \A q \in Procs : phase[q] = "setup" => SuitAt(q)
  BY <1>1 DEF SuitInv, SuitAt
<1>3. /\ entry' = entry
      /\ \A q \in Procs \ {p} : q \in read' <=> q \in read
      /\ audited' => audited
  BY DEF DetailSetup, ReadFlags, DescribeHelper, Configure, AllowTarget, InstallExtension,
     SetPassword, NewPassword, DropAudit, DropProfile, FillProfile, Forget, details,
     settingVars, auditVars
<1>4. Suits(res[Tgt]) => Suits(res'[Tgt])
  <2>1. CASE PrepareSourceInstance(p) /\ Configure(view[p], SourcePrepared(res[view[p]], OwnNetwork))
    <3>1. pc[p] = "sourceInstance"
      BY <2>1, AdvanceStays DEF PrepareSourceInstance
    <3>2. res'[Tgt] = res[Tgt]
      BY <1>1, <2>1, <3>1, InstancesDiffer DEF Configure, DetailTypes, SettingTypes, Shapes, Inst
    <3> QED
      BY <3>2
  <2>2. CASE PrepareTargetInstance(p) /\ Configure(Tgt, TargetPrepared(res[Tgt], OwnNetwork))
    <3>1. Suits(TargetPrepared(res[Tgt], OwnNetwork))
      BY SettingsPrepared DEF DetailTypes, SettingTypes, Shapes, Inst
    <3>2. res'[Tgt] = TargetPrepared(res[Tgt], OwnNetwork)
      BY <2>2 DEF Configure, DetailTypes, SettingTypes, Shapes, Inst
    <3> QED
      BY <3>1, <3>2
  <2>3. CASE AddTargetOutgoingIps(p) /\ AllowTarget(view[p])
    <3>1. pc[p] = "allow"
      BY <2>3, AdvanceStays DEF AddTargetOutgoingIps
    <3>2. res'[Tgt] = res[Tgt]
      BY <1>1, <2>3, <3>1, InstancesDiffer DEF AllowTarget, Configure, DetailTypes,
         SettingTypes, Shapes, Inst
    <3> QED
      BY <3>2
  <2>4. CASE res' = res
    BY <2>4
  <2> QED
    BY <2>1, <2>2, <2>3, <2>4 DEF DetailSetup, ReadFlags, DescribeHelper, InstallExtension,
       SetPassword, NewPassword, DropAudit, DropProfile, FillProfile, Forget, details,
       settingVars
<1>5. job' \in Running => job \in Running \/ Suits(res[Tgt])
  <2>1. CASE StartMigrationJob(p)
    <3>1. pc[p] = "start"
      BY <2>1 DEF StartMigrationJob, Finish, At
    <3> QED
      BY <1>2, <3>1 DEF SuitAt, UnauditedSteps, PreparedSteps, AfterCascade, SetupSteps
  <2>2. CASE ~StartMigrationJob(p)
    BY <2>2 DEF DetailSetup, ResolveSource, CreateHelper, PrepareSourceInstance,
       PrepareSourceDatabase, DropPgAuditExtension, PrepareTargetInstance,
       PrepareTargetDatabase,
       DeleteOldProfile, DeleteConnectionProfile, CreateConnectionProfile, AddTargetOutgoingIps,
       dmsVars, CleanupConnectionProfile
  <2> QED
    BY <2>1, <2>2
<1>6. helper' = "present" => Suits(wanted')
  <2>1. CASE CreateHelper(p) /\ DescribeHelper
    <3>1. IsEntry(entry)
      BY DEF DetailTypes, SettingTypes, Shapes
    <3> QED
      BY <2>1, <3>1, HelperSuits DEF CreateHelper, DescribeHelper, SuitInv
  <2>2. CASE ~(CreateHelper(p) /\ DescribeHelper)
    <3>1. helper' = helper /\ wanted' = wanted
      BY <2>2 DEF DetailSetup, ResolveSource, PrepareSourceInstance,
         PrepareSourceDatabase, DropPgAuditExtension, PrepareTargetInstance,
         PrepareTargetDatabase, DeleteOldProfile, DeleteConnectionProfile, CreateConnectionProfile,
         AddTargetOutgoingIps, StartMigrationJob, cnrmVars, ReadFlags, Configure, AllowTarget,
         InstallExtension, SetPassword, NewPassword, DropAudit, DropProfile, FillProfile,
         Forget, details, settingVars, CleanupConnectionProfile
    <3> QED
      BY <3>1 DEF SuitInv
  <2> QED
    BY <2>1, <2>2
<1>7. ASSUME NEW q \in Procs, phase'[q] = "setup" PROVE SuitAt(q)'
  <2>1. CASE q = p
    BY <1>7, <2>1, SetupAdvancesSuit
  <2>2. CASE q # p
    BY <1>1, <1>2, <1>3, <1>4, <1>7, <2>2 DEF SuitAt, OthersStay
  <2> QED
    BY <2>1, <2>2
<1>8. (audited => HasPgAuditFlags(entry.flags))' /\ (job \in Running => Suits(res[Tgt]))'
  BY <1>3, <1>4, <1>5 DEF SuitInv
<1> QED
  BY <1>6, <1>7, <1>8 DEF SuitInv, SuitAt


\* Untouched, a step of setup does not pass the steps that make what replicates suit.
LEMMA SetupIdlesSuit ==
    ASSUME TypeOK, DetailTypes, SuitInv, NEW p \in Procs, SetupNext(p), ~Touched(p),
           UNCHANGED details, phase'[p] = "setup"
    PROVE  SuitAt(p)' /\ KeepsSuited
<1> USE DEF SuitAt, UnauditedSteps, PreparedSteps, AfterCascade, SetupSteps
<1>1. /\ phase[p] = "setup" /\ SuitAt(p)
      /\ UNCHANGED <<entry, manifest, wanted, res, audited, read>>
  BY SetupStepStays DEF SuitInv, details, settingVars, auditVars
<1>2. \E from, to : /\ Step(p, "setup", from, to) /\ from # "resolve"
                    /\ to \in UnauditedSteps => from \in UnauditedSteps
                    /\ to \in PreparedSteps => from \in PreparedSteps
                    /\ (job' \in Running => job \in Running) /\ helper' = helper
  <2>1. CASE \/ AwaitHelper(p) \/ DeleteHelperDatabaseResource(p) \/ DropHelperDatabase(p)
             \/ BackUpSource(p) \/ DisableCascadingDelete(p) \/ CreateNetworkPolicy(p)
    BY <2>1 DEF AwaitHelper, DeleteHelperDatabaseResource, DropHelperDatabase, BackUpSource,
       DisableCascadingDelete, CreateNetworkPolicy, cnrmVars, dmsVars
  <2>2. CASE \/ DeleteMigrationJob(p, "setup", "deleteJob", "deleteProfiles")
             \/ CreateMigrationJob(p) \/ DemoteTargetInstance(p) \/ ResolveTargetAgain(p)
    BY <2>2 DEF DeleteMigrationJob, CreateMigrationJob, DemoteTargetInstance, ResolveTargetAgain,
       cnrmVars, dmsVars, Running
  <2>3. CASE \/ ResolveSource(p) \/ CreateHelper(p) \/ PrepareSourceInstance(p)
             \/ DropPgAuditExtension(p) \/ PrepareTargetInstance(p)
             \/ AddTargetOutgoingIps(p) \/ StartMigrationJob(p)
             \/ \E profile \in Profiles : DeleteOldProfile(p, profile) \/ CreateConnectionProfile(p, profile)
    <3>1. pc[p] \in {"resolve", "helper", "sourceInstance",
                     "dropPgAudit", "targetInstance", "allow", "start", "deleteProfiles",
                     "sourceProfile", "targetProfile", "createProfiles", "createSource", "createTarget"}
      BY <2>3 DEF ResolveSource, CreateHelper, PrepareSourceInstance,
         DropPgAuditExtension, PrepareTargetInstance,
         AddTargetOutgoingIps, StartMigrationJob, Finish, DeleteOldProfile,
         DeleteConnectionProfile, CreateConnectionProfile, ToCreate, Profiles, Step, Advance, At, CleanupConnectionProfile
    <3> QED
      BY <1>1, <3>1 DEF Touched, SetupData
  <2>4. CASE PrepareSourceDatabase(p) \/ PrepareTargetDatabase(p, "setup", "deleteJob")
    <3>1. \/ Step(p, "setup", "sourceCert", "pglogical")
          \/ Step(p, "setup", "targetCert", "deleteJob")
      BY <1>1, <2>4 DEF PrepareSourceDatabase, PrepareTargetDatabase, Touched, SetupData, Step,
         Advance, At
    <3>2. job' = job /\ helper' = helper
      BY <2>4 DEF PrepareSourceDatabase, PrepareTargetDatabase, dmsVars, cnrmVars
    <3> QED
      BY <3>1, <3>2
  <2> QED
    BY <2>1, <2>2, <2>3, <2>4 DEF SetupNext
<1>3. PICK from, to : /\ Step(p, "setup", from, to) /\ from # "resolve"
                      /\ to \in UnauditedSteps => from \in UnauditedSteps
                      /\ to \in PreparedSteps => from \in PreparedSteps
                      /\ (job' \in Running => job \in Running) /\ helper' = helper
  BY <1>2
<1>4. pc[p] = from /\ pc'[p] = to
  BY <1>3, AdvanceStays
<1> QED
  BY <1>1, <1>3, <1>4 DEF KeepsSuited

LEMMA PromoteIsSuited ==
    ASSUME Disciplined, TypeOK, IInv, JobInv, DetailTypes, NEW p \in Procs,
           DetailPromote(p) \/ (PromoteNext(p) /\ ~Touched(p) /\ UNCHANGED <<settingVars, audited>>)
    PROVE  KeepsSuited /\ PromoteNext(p)
<1>1. PromoteNext(p)
  BY DEF DetailPromote, PromoteNext
<1>2. phase[p] = "promote" /\ PromoteStarted
  BY <1>1, PromoteStepStays, PromoteStays
<1>3. (job' \in Running => job \in Running) /\ (helper' = "present" => helper = "present")
  BY <1>1, PromoteStays DEF PromoteNext, ResolveAppInstance, GetHelper, ResolveTarget,
     CheckReadyForPromotion, ScaleApplication, InspectJob, StartPromotion, AwaitPromotion,
     UpdateTargetInstanceAfterPromotion, PrepareTargetDatabase, TakeOverTarget,
     ChangeOwnership, DeleteHelperApplication, DeleteTargetDatabaseResource,
     AwaitCnrmHandover, UpdateApplicationInstance, AwaitRollout, UpdateApplicationUser,
     BackUpTarget, dmsVars, Running
<1>4. /\ UNCHANGED <<wanted, audited>> /\ entry'.flags = entry.flags
      /\ (res' = res \/ pc[p] = "restore")
  <2>1. CASE UpdateTargetInstanceAfterPromotion(p) /\ RestoreProtection(view[p])
    BY <2>1, AdvanceStays DEF UpdateTargetInstanceAfterPromotion, RestoreProtection, Configure,
       auditVars
  <2>2. CASE Redefine(TargetVersion)
    BY <2>2 DEF Redefine, DefineInstance, auditVars, DetailTypes, SettingTypes, Shapes, IsEntry
  <2>3. CASE UNCHANGED <<settingVars, audited>>
    BY <2>3 DEF settingVars
  <2> QED
    BY <2>1, <2>2, <2>3 DEF DetailPromote, SetPassword, NewPassword, Connected, details,
       auditVars
<1>5. pc[p] = "restore" => job \notin Running
  BY <1>2 DEF JobInv
<1>6. \A q \in Procs : phase[q] # "setup"
  BY <1>2 DEF IInv, Stages, OneProgram
<1> QED
  BY <1>1, <1>3, <1>4, <1>5, <1>6 DEF KeepsSuited

LEMMA CleanupIsSuited ==
    ASSUME Disciplined, TypeOK, IInv, DetailTypes, NEW p \in Procs,
           \/ DetailCleanup(p)
           \/ (RollbackNext(p) \/ FinalizeNext(p)) /\ UNCHANGED <<settingVars, audited>>
    PROVE  KeepsSuited /\ (RollbackNext(p) \/ FinalizeNext(p))
<1>1. RollbackNext(p) \/ FinalizeNext(p)
  BY SetupStepStays, PromoteStepStays DEF DetailCleanup, Run, RollbackNext, FinalizeNext,
     DetailRollback, DetailFinalize
<1>2. (job' \in Running => job \in Running) /\ (helper' = "present" => helper = "present")
  <2>1. CASE RollbackNext(p)
    BY <2>1 DEF RollbackNext, ScaleIfSwitched, DeleteHelperApplication,
       DeleteMigrationJob, DeleteConnectionProfile, DeleteInstance, DeleteMasterInstance,
       DeleteTargetDatabaseResource, DeleteSourceCert, AwaitDatabaseResourceGone,
       UpdateApplicationInstance, AwaitRollout, UpdateApplicationUser, DeleteSslCerts,
       DeleteNetworkPolicies, cnrmVars, dmsVars, Running, CleanupConnectionProfile
  <2>2. CASE FinalizeNext(p)
    BY <2>2 DEF FinalizeNext, ResolveAppInstance, DeleteFinishedJob, DeleteMigrationJob,
       DeleteConnectionProfile, DeleteMasterInstance, DeleteInstance, CleanupAuthNetworks,
       DeleteSslCerts, DeleteNetworkPolicies, cnrmVars, dmsVars, Running, CleanupConnectionProfile
  <2> QED
    BY <1>1, <2>1, <2>2
<1>3. /\ UNCHANGED <<wanted, audited>> /\ entry'.flags = entry.flags
      /\ Suits(res[Tgt]) => Suits(res'[Tgt])
  <2>1. CASE DropProfile \/ UNCHANGED <<settingVars, audited>>
    BY <2>1 DEF DropProfile, settingVars, auditVars
  <2>2. CASE Redefine(SourceVersion)
    BY <2>2 DEF Redefine, DefineInstance, auditVars, DetailTypes, SettingTypes, Shapes, IsEntry
  <2>3. CASE Configure(view[p], [res[view[p]] EXCEPT !.nets = RemoveMigrationAuthNetwork(@)])
    <3> DEFINE i == view[p]
               cleaned == [res[i] EXCEPT !.nets = RemoveMigrationAuthNetwork(@)]
    <3>1. i \in Inst /\ IsSettings(res[i])
      BY DEF TypeOK, RunTypeOK, DetailTypes, SettingTypes, Shapes
    <3>2. cleaned.ha = res[i].ha /\ cleaned.pitr = res[i].pitr /\ cleaned.flags = res[i].flags
      BY <3>1 DEF IsSettings
    <3>3. Configure(i, cleaned)
      BY <2>3
    <3> HIDE DEF i, cleaned
    <3>4. res'[i] = cleaned /\ (\A j \in Inst \ {i} : res'[j] = res[j])
          /\ UNCHANGED <<wanted, audited, entry>>
      BY <3>1, <3>3 DEF Configure, DetailTypes, SettingTypes, Shapes, auditVars
    <3> QED
      BY <3>1, <3>2, <3>4 DEF Suits, Inst
  <2> QED
    BY <2>1, <2>2, <2>3 DEF DetailCleanup, DetailRollback, DetailFinalize
<1> QED
  BY <1>1, <1>2, <1>3 DEF KeepsSuited

LEMMA RunKeepsSuit ==
    ASSUME Disciplined, TypeOK, IInv, JobInv, DetailTypes, SuitInv, NEW p \in Procs, DetailRun(p)
    PROVE  SuitInv'
<1>1. CASE DetailSetup(p)
  BY <1>1, SetupKeepsSuit
<1>2. CASE KeepsSuited /\ phase'[p] # "setup" /\ OthersStay(p) /\ (\A q \in Procs \ {p} : q \in read' <=> q \in read)
  BY <1>2, SuitedKept DEF OthersStay
<1>3. CASE DetailPromote(p)
  <2>1. read' = read
    BY <1>3 DEF DetailPromote, RestoreProtection, Configure, SetPassword, NewPassword,
       Connected, Redefine, details, auditVars
  <2> QED
    BY <1>2, <1>3, <2>1, PromoteIsSuited, PromoteStepStays
<1>4. CASE DetailCleanup(p)
  <2>1. read' = read
    BY <1>4 DEF DetailCleanup, DropProfile, Configure, Redefine, auditVars, DetailRollback,
       DetailFinalize
  <2> QED
    BY <1>2, <1>4, <2>1, CleanupIsSuited, RollbackStepStays, FinalizeStepStays
<1>5. CASE ~Touched(p) /\ Run(p) /\ IF phase'[p] = "none" THEN Forget(p) ELSE UNCHANGED details
  <2>1. /\ UNCHANGED <<settingVars, audited>> /\ \A q \in Procs \ {p} : q \in read' <=> q \in read
    BY <1>5 DEF Forget, details, auditVars
  <2>2. CASE SetupNext(p)
    <3>1. ~StartMigrationJob(p)
      <4>1. StartMigrationJob(p) => phase[p] = "setup" /\ pc[p] = "start"
        BY DEF StartMigrationJob, Finish, At
      <4> QED
        BY <1>5, <4>1 DEF Touched, SetupData, PromoteData, RollbackData, FinalizeData
    <3>2. phase'[p] = "setup" /\ OthersStay(p)
      <4>1. phase[p] = "setup" /\ phase' = phase
        BY <2>2, <3>1, SetupStepStays DEF SetupNext, ResolveSource, CreateHelper, AwaitHelper,
           DeleteHelperDatabaseResource, DropHelperDatabase, BackUpSource, DisableCascadingDelete,
           CreateNetworkPolicy, PrepareSourceInstance, PrepareSourceDatabase, DropPgAuditExtension,
           PrepareTargetInstance, PrepareTargetDatabase, DeleteMigrationJob, DeleteOldProfile,
           DeleteConnectionProfile, CreateConnectionProfile, CreateMigrationJob,
           DemoteTargetInstance, ResolveTargetAgain, AddTargetOutgoingIps, Step, Advance, CleanupConnectionProfile
      <4> QED
        BY <2>2, <4>1, SetupStepStays
    <3>3. UNCHANGED details
      BY <1>5, <3>2
    <3>4. SuitAt(p)' /\ KeepsSuited
      BY <1>5, <2>2, <3>2, <3>3, SetupIdlesSuit
    <3>5. \A q \in Procs : q \in read' <=> q \in read
      BY <3>3 DEF details, auditVars
    <3> QED
      BY <3>2, <3>4, <3>5, SuitedKept DEF OthersStay
  <2>3. CASE PromoteNext(p)
    BY <1>2, <1>5, <2>1, <2>3, PromoteIsSuited, PromoteStepStays
  <2>4. CASE RollbackNext(p) \/ FinalizeNext(p)
    BY <1>2, <2>1, <2>4, CleanupIsSuited, RollbackStepStays, FinalizeStepStays
  <2> QED
    BY <1>5, <2>2, <2>3, <2>4 DEF Run
<1> QED
  BY <1>1, <1>3, <1>4, <1>5 DEF DetailRun, DetailCleanup

LEMMA EnvironmentKeepsSuit ==
    ASSUME Disciplined, TypeOK, IInv, JobInv, DetailTypes, SuitInv, DetailEnvironment
    PROVE  SuitInv'
<1>1. Environment
  BY DEF DetailEnvironment, HelperApplied, Environment
<1>2. UNCHANGED <<phase, pc, read>>
  <2>1. read' = read
    BY DEF DetailEnvironment, HelperApplied, ApplyTo, Configure, details, auditVars
  <2> QED
    BY <1>1, <2>1, EnvironmentKeepsRuns DEF runVars
<1>3. /\ (job' \in Running => job \in Running) /\ (helper' = "present" => helper = "present")
      /\ UNCHANGED <<wanted, audited, entry>>
  BY DEF DetailEnvironment, HelperApplied, HelperReconcile, AppReconcile, HelperCollected,
     PodsStop, Write, DumpDone, CatchUp, SampleLag, PromotionDone, ApplyTo, Configure, details,
     settingVars, auditVars, cnrmVars, dmsVars, Running, DatabaseCollected
<1>4. Suits(res[Tgt]) /\ (job \in Running \/ \E q \in Procs : phase[q] = "setup") => Suits(res'[Tgt])
  <2>1. CASE HelperApplied
    <3>1. Suits(Created(wanted)) /\ (Suits(res[Tgt]) => Suits(Applied(wanted, res[Tgt])))
      <4>1. helper = "present" /\ IsEntry(wanted) /\ IsSettings(res[Tgt])
        BY <2>1 DEF HelperApplied, HelperReconcile, DetailTypes, SettingTypes, Shapes, Inst
      <4> QED
        BY <4>1, SuitsMade DEF SuitInv
    <3>2. res'[Tgt] \in {Created(wanted), Applied(wanted, res[Tgt])}
      BY <2>1 DEF HelperApplied, ApplyTo, Configure, DetailTypes, SettingTypes, Shapes, Inst
    <3> QED
      BY <3>1, <3>2
  <2>2. CASE AppReconcile /\ ApplyTo(spec, entry)
    <3>1. CASE spec = Tgt
      <4>1. job \notin Running
        BY <3>1 DEF JobInv
      <4>2. \A q \in Procs : phase[q] # "setup"
        BY <3>1, InstancesDiffer DEF IInv, Stages, OneProgram, SpecAndDeployment
      <4> QED
        BY <4>1, <4>2
    <3>2. CASE spec # Tgt
      <4>1. res'[Tgt] = res[Tgt]
        BY <2>2, <3>2 DEF ApplyTo, Configure, DetailTypes, SettingTypes, Shapes, Inst
      <4> QED
        BY <4>1
    <3> QED
      BY <3>1, <3>2
  <2>3. CASE UNCHANGED details
    BY <2>3 DEF details, settingVars
  <2> QED
    BY <2>1, <2>2, <2>3 DEF DetailEnvironment
<1>5. KeepsSuited
  BY <1>3, <1>4 DEF KeepsSuited
<1>6. \A q \in Procs : phase'[q] = "setup" =>
        phase[q] = "setup" /\ pc'[q] = pc[q] /\ (q \in read' <=> q \in read)
  BY <1>2
<1> QED
  BY <1>5, <1>6, SuitedKept

LEMMA NextSuit ==
    ASSUME Disciplined, TypeOK, IInv, JobInv, DetailTypes, SuitInv, [DetailNext]_detailedVars
    PROVE  SuitInv'
<1>1. ASSUME NEW p \in Procs, Exit(p), Forget(p) PROVE SuitInv'
  <2>1. OthersStay(p) /\ phase'[p] = "none" /\ UNCHANGED <<job, helper>>
    BY <1>1, ExitStays DEF Exit, cnrmVars, dmsVars
  <2>2. /\ UNCHANGED <<entry, wanted, res, audited>>
        /\ \A q \in Procs \ {p} : q \in read' <=> q \in read
    BY <1>1 DEF Forget, settingVars
  <2>3. KeepsSuited
    BY <2>1, <2>2 DEF KeepsSuited
  <2>4. \A q \in Procs : phase'[q] = "setup" =>
          phase[q] = "setup" /\ pc'[q] = pc[q] /\ (q \in read' <=> q \in read)
    BY <2>1, <2>2 DEF OthersStay
  <2> QED
    BY <2>3, <2>4, SuitedKept
<1>2. ASSUME NEW p \in Procs, NEW ph \in Phases, Start(p, ph), UNCHANGED details PROVE SuitInv'
  <2>1. OthersStay(p) /\ UNCHANGED <<job, helper>> /\ pc'[p] = FirstStep(ph) /\ phase'[p] = ph
    BY <1>2, StartStays DEF cnrmVars, dmsVars
  <2>2. UNCHANGED <<entry, wanted, res, audited, read>>
    BY <1>2 DEF details, settingVars, auditVars
  <2>3. KeepsSuited
    BY <2>1, <2>2 DEF KeepsSuited
  <2>4. ph = "setup" => SuitAt(p)'
    BY <2>1 DEF SuitAt, FirstStep, UnauditedSteps, PreparedSteps, AfterCascade
  <2>5. \A q \in Procs : phase'[q] = "setup" =>
          SuitAt(q)' \/ (phase[q] = "setup" /\ pc'[q] = pc[q] /\ (q \in read' <=> q \in read))
    BY <2>1, <2>2, <2>4 DEF OthersStay
  <2> QED
    BY <2>3, <2>5, SuitedKept
<1>3. CASE EnableAudit
  <2>1. /\ UNCHANGED vars /\ wanted' = wanted /\ read' = read
        /\ synced /\ ~HasPgAuditFlags(entry.flags)
        /\ live # Tgt => res'[Tgt] = res[Tgt]
    BY <1>3 DEF EnableAudit, DetailTypes, SettingTypes, Shapes, Inst
  <2>2. HasPgAuditFlags(entry'.flags)
    <3> DEFINE new == [f \in DOMAIN entry.flags \cup AuditFlags |->
                         IF f \in AuditFlags THEN "on" ELSE entry.flags[f]]
    <3>1. DOMAIN new \cap AuditFlags # {}
      BY DEF AuditFlags
    <3>2. entry' = [entry EXCEPT !.flags = new]
      BY <1>3 DEF EnableAudit, DetailTypes, SettingTypes, Shapes, IsEntry
    <3> HIDE DEF new
    <3>3. entry'.flags = new
      BY <3>2 DEF DetailTypes, SettingTypes, Shapes, IsEntry
    <3> QED
      BY <3>1, <3>3 DEF HasPgAuditFlags
  <2>3. UNCHANGED <<job, helper, phase, pc, started, spec, live>>
    BY <2>1 DEF vars, appVars, dmsVars, cnrmVars, runVars
  <2>4. live = Tgt => /\ job \notin Running
                     /\ \A q \in Procs : phase[q] # "setup"
    <3>1. live = Tgt => spec = Tgt
      BY <2>1 DEF IInv, Stages, SpecAndDeployment
    <3>2. spec = Tgt => job \notin Running
      BY DEF JobInv
    <3>3. spec = Tgt => \A q \in Procs : phase[q] # "setup"
      BY InstancesDiffer DEF IInv, Stages, OneProgram, SpecAndDeployment
    <3> QED
      BY <3>1, <3>2, <3>3
  <2>5. \A q \in Procs : phase[q] = "setup" /\ pc[q] # "resolve" => q \notin read
    BY <2>1 DEF SuitInv
  <2>6. "resolve" \notin UnauditedSteps \cup PreparedSteps
    BY DEF UnauditedSteps, PreparedSteps, AfterCascade
  <2> QED
    BY <2>1, <2>2, <2>3, <2>4, <2>5, <2>6 DEF SuitInv
<1>4. CASE UNCHANGED detailedVars
  <2>1. /\ UNCHANGED <<entry, wanted, res, audited, read, job, helper, phase, pc>>
    BY <1>4 DEF detailedVars, details, settingVars, auditVars, vars, dmsVars, cnrmVars, runVars
  <2>2. KeepsSuited /\ \A q \in Procs : phase'[q] = "setup" =>
          phase[q] = "setup" /\ pc'[q] = pc[q] /\ (q \in read' <=> q \in read)
    BY <2>1 DEF KeepsSuited
  <2> QED
    BY <2>2, SuitedKept
<1> QED
  BY <1>1, <1>2, <1>3, <1>4, RunKeepsSuit, EnvironmentKeepsSuit DEF DetailNext

LEMMA SuitAlways == ASSUME Disciplined PROVE DetailSpec => []SuitInv
<1>1. DetailSpec => []TypeOK /\ []IInv /\ []JobInv /\ []DetailTypes
  BY ImplementsMigrator, TypeCorrect, Inductive, JobAlways, DetailTypesAlways, PTL
<1>2. DetailInit => SuitInv
  BY DEF DetailInit, Init, SuitInv, Running
<1>3. TypeOK /\ IInv /\ JobInv /\ DetailTypes /\ SuitInv /\ [DetailNext]_detailedVars => SuitInv'
  BY NextSuit
<1> QED
  BY <1>1, <1>2, <1>3, PTL DEF DetailSpec

\* Under the discipline of MigratorInv: whichever run created the helper application, the
\* replica under a job has nothing DMS cannot handle; and a setup that read, at step 2, an
\* application with auditing on has the extension gone when it starts the job.  Of a setup
\* that read one with auditing off nothing is said: the team may turn it on in between.
THEOREM SuitedReplica == ASSUME Disciplined PROVE DetailSpec => []ReplicaSuitsDms
<1>1. DetailTypes /\ SuitInv => ReplicaSuitsDms
  <2>1. "start" \in UnauditedSteps
    BY DEF UnauditedSteps, AfterCascade, SetupSteps
  <2>2. SuitInv => (job \in {"dump", "cdc", "promoting"} =>
                     ~res[Tgt].ha /\ ~res[Tgt].pitr /\ ~HasPgAuditFlags(res[Tgt].flags))
    BY DEF SuitInv, Suits, Running
  <2>3. KnowledgeTypes /\ SuitInv => \A p \in read : At(p, "setup", "start") => ~audited
    BY <2>1 DEF SuitInv, KnowledgeTypes, At
  <2> QED
    BY <2>2, <2>3 DEF DetailTypes, ReplicaSuitsDms
<1> QED
  BY <1>1, SuitAlways, DetailTypesAlways, PTL


-----------------------------------------------------------------------------
(* The password of the source *)

LEMMA OneRunAlways == ASSUME "exclusive" \in Rules PROVE Spec => []OneRun
<1>1. Init => OneRun
  BY DEF Init, OneRun
<1>2. ASSUME TypeOK, OneRun, [Next]_vars PROVE OneRun'
  <2>1. ASSUME NEW p \in Procs, phase[p] # "none", OthersStay(p) PROVE OneRun'
    BY <1>2, <2>1, OneRunStays
  <2>2. ASSUME NEW p \in Procs, Run(p) PROVE OneRun'
    <3>1. phase[p] # "none" /\ OthersStay(p)
      BY <1>2, <2>2, SetupStepStays, PromoteStepStays, RollbackStepStays, FinalizeStepStays DEF Run
    <3> QED
      BY <2>1, <3>1
  <2>3. ASSUME NEW p \in Procs, Exit(p) PROVE OneRun'
    <3>1. phase[p] # "none" /\ OthersStay(p)
      BY <1>2, <2>3, ExitStays DEF Exit
    <3> QED
      BY <2>1, <3>1
  <2>4. ASSUME NEW p \in Procs, NEW ph \in Phases, Start(p, ph) PROVE OneRun'
    <3>1. OthersStay(p) /\ \A q \in Procs : phase[q] = "none"
      BY <1>2, <2>4, StartStays DEF Start, MayStart
    <3> QED
      BY <3>1 DEF OneRun, OthersStay
  <2>5. CASE Environment \/ UNCHANGED vars
    BY <1>2, <2>5, EnvironmentKeepsRuns DEF vars, runVars, OneRun
  <2> QED
    BY <1>2, <2>2, <2>3, <2>4, <2>5 DEF Next
<1>3. Spec => []TypeOK
  BY TypeCorrect
<1> QED
  BY <1>1, <1>2, <1>3, PTL DEF Spec

\* What a run of setup that is past the drop knows, of the source's password too.
PastAt(p) ==
    /\ job \notin {"dump", "cdc"}
    /\ "opFails" \notin Faults => Tgt \notin hasDb
    /\ pc[p] \in PasswordSteps => holder[Src] = p
    /\ pc[p] \in NewProfileSteps => "sourceProfile" \notin stale

\* Steps that leave a run past the drop what it knows, and a job its replica.
KeepsPassword ==
    /\ job' \in {"dump", "cdc"} => job \in {"dump", "cdc"}
    /\ "sourceProfile" \in stale' => "sourceProfile" \in stale

LEMMA IdleKeepsCredential ==
    ASSUME CredentialInv, KeepsPassword,
           \A q \in Procs : PastDrop(q)' =>
               /\ PastDrop(q) /\ (Tgt \in hasDb' => Tgt \in hasDb)
               /\ pc'[q] = pc[q] \/ PastAt(q)'
               /\ holder[Src] = q => holder'[Src] = q
    PROVE  CredentialInv'
<1>1. ASSUME NEW q \in Procs, PastDrop(q)' PROVE PastAt(q)'
  <2>1. PastDrop(q) /\ PastAt(q)
    BY <1>1 DEF CredentialInv, PastAt
  <2> QED
    BY <1>1, <2>1 DEF PastAt, KeepsPassword
<1>2. \A q, r \in Procs : PastDrop(q)' /\ PastDrop(r)' => q = r
  BY DEF CredentialInv
<1>3. CredentialsCurrent'
  BY DEF CredentialInv, CredentialsCurrent, KeepsPassword
<1> QED
  BY <1>1, <1>2, <1>3 DEF CredentialInv, PastAt

\* Only one run gets past the drop.
LEMMA DropIsFirst ==
    ASSUME OneDrops, TypeOK, IInv, "exclusive" \in Rules => OneRun, CredentialInv,
           NEW p \in Procs, DropHelperDatabase(p)
    PROVE  /\ \A q \in Procs : ~PastDrop(q)
           /\ job \notin {"dump", "cdc"} /\ ("opFails" \notin Faults => Tgt \notin hasDb')
<1>1. phase[p] = "setup" /\ pc[p] = "dropDatabase" /\ sql[Tgt] = "standalone" /\ Tgt \in hasDb
  BY AdvanceStays DEF DropHelperDatabase
<1>2. ~PastDrop(p)
  BY <1>1 DEF PastDrop, AfterDrop
<1>3. ASSUME NEW q \in Procs, PastDrop(q) PROVE FALSE
  BY <1>1, <1>2, <1>3 DEF OneDrops, OneRun, CredentialInv, PastDrop
<1>4. job \notin {"dump", "cdc"}
  BY <1>1 DEF IInv, LagPoints
<1>5. "opFails" \notin Faults => Tgt \notin hasDb'
  BY DEF DropHelperDatabase
<1> QED
  BY <1>3, <1>4, <1>5


LEMMA PastDropAdvances ==
    ASSUME TypeOK, DetailTypes, CredentialInv, NEW p \in Procs, PastDrop(p), DetailRun(p),
           SetupNext(p), ~StartMigrationJob(p)
    PROVE  PastAt(p)' /\ phase'[p] = "setup"
<1> USE DEF PasswordSteps, NewProfileSteps, AfterDrop, AfterHelper, SetupSteps
<1>1. /\ PastAt(p) /\ view[p] = Src /\ phase[p] = "setup"
      /\ holder = [i \in Inst |-> holder[i]]
  BY DEF PastAt, CredentialInv, PastDrop, DetailTypes, SourceInView, KnowledgeTypes
<1>2. job' \notin {"dump", "cdc"} /\ (Tgt \in hasDb' => Tgt \in hasDb)
  BY <1>1 DEF SetupNext, ResolveSource, CreateHelper, AwaitHelper,
     DeleteHelperDatabaseResource, DropHelperDatabase, BackUpSource, DisableCascadingDelete,
     CreateNetworkPolicy, PrepareSourceInstance, PrepareSourceDatabase, DropPgAuditExtension,
     PrepareTargetInstance, PrepareTargetDatabase, DeleteMigrationJob, DeleteOldProfile,
     DeleteConnectionProfile, CreateConnectionProfile, CreateMigrationJob,
     DemoteTargetInstance, ResolveTargetAgain, AddTargetOutgoingIps, PastAt, sqlVars, dmsVars, CleanupConnectionProfile
<1> DEFINE Follows(from, to) ==
      /\ to \in PasswordSteps => from \in PasswordSteps
      /\ to \in NewProfileSteps => from \in NewProfileSteps
<1>3. ASSUME NEW from, NEW to, Step(p, "setup", from, to), Follows(from, to),
             holder'[Src] = holder[Src], "sourceProfile" \in stale' => "sourceProfile" \in stale
      PROVE  PastAt(p)' /\ phase'[p] = "setup"
  <2>1. pc[p] = from /\ pc'[p] = to /\ phase'[p] = "setup"
    BY <1>3, AdvanceStays
  <2> QED
    BY <1>1, <1>2, <1>3, <2>1 DEF PastAt
<1>4. CASE DetailSetup(p)
  <2>1. CASE ResolveSource(p) \/ CreateHelper(p)
    <3>1. pc[p] \in {"resolve", "helper"}
      BY <2>1 DEF ResolveSource, CreateHelper, Step, Advance, At
    <3> QED
      BY <3>1 DEF PastDrop
  <2>2. CASE \/ PrepareSourceInstance(p) /\ Configure(view[p], SourcePrepared(res[view[p]], OwnNetwork))
             \/ DropPgAuditExtension(p) /\ DropAudit(p)
             \/ PrepareTargetInstance(p) /\ Configure(Tgt, TargetPrepared(res[Tgt], OwnNetwork))
             \/ AddTargetOutgoingIps(p) /\ AllowTarget(view[p])
    <3>1. \E from, to : Step(p, "setup", from, to) /\ Follows(from, to)
      BY <2>2 DEF PrepareSourceInstance, DropPgAuditExtension, PrepareTargetInstance,
         AddTargetOutgoingIps
    <3>2. holder' = holder /\ stale' = stale
      BY <2>2 DEF DropAudit, AllowTarget, Configure, credentialVars
    <3> QED
      BY <1>3, <3>1, <3>2
  <2>3. CASE PrepareSourceDatabase(p) /\ pc[p] = "pglogical" /\ InstallExtension(p)
    <3>1. pc'[p] \in {"dropPgAudit", "targetInstance"} /\ phase'[p] = "setup"
      BY <1>1, <2>3, AdvanceStays DEF PrepareSourceDatabase
    <3>2. holder'[Src] = p
      BY <1>1, <2>3 DEF InstallExtension, details, credentialVars
    <3> QED
      BY <1>1, <1>2, <3>1, <3>2 DEF PastAt
  <2>7. CASE PrepareSourceDatabase(p) /\ pc[p] = "sourcePassword" /\ SetPassword(p, view[p])
    <3>1. pc'[p] = "sourceCert" /\ phase'[p] = "setup"
      BY <1>1, <2>7, AdvanceStays DEF PrepareSourceDatabase
    <3> QED
      BY <1>1, <1>2, <3>1 DEF PastAt
  <2>4. CASE PrepareTargetDatabase(p, "setup", "deleteJob") /\ pc[p] = "targetPassword" /\ SetPassword(p, Tgt)
    <3>1. Step(p, "setup", "targetPassword", "targetCert")
      BY <1>1, <2>4, AdvanceStays DEF PrepareTargetDatabase
    <3>2. /\ holder'[Src] = holder[Src]
          /\ "sourceProfile" \in stale' => "sourceProfile" \in stale
      BY <1>1, <2>4, InstancesDiffer DEF SetPassword, NewPassword, ProfileOf, Inst, details,
         credentialVars
    <3> QED
      BY <1>3, <3>1, <3>2
  <2>5. ASSUME NEW profile \in Profiles, DeleteOldProfile(p, profile), DropProfile
        PROVE  PastAt(p)' /\ phase'[p] = "setup"
    <3>1. holder' = holder /\ stale' = stale \cap left' /\ left' = left \ {profile}
      BY <2>5 DEF DeleteOldProfile, DeleteConnectionProfile, DropProfile, CleanupConnectionProfile
    <3>2. CASE profile = "sourceProfile"
      <4>1. "sourceProfile" \notin stale'
        BY <3>1, <3>2
      <4>2. \E from, to : Step(p, "setup", from, to) /\ (to \in PasswordSteps => from \in PasswordSteps)
        BY <2>5, <3>2, OtherProfile DEF DeleteOldProfile, DeleteConnectionProfile, Profiles, CleanupConnectionProfile
      <4>3. /\ pc'[p] \in PasswordSteps => pc[p] \in PasswordSteps
            /\ phase'[p] = "setup"
        BY <1>1, <4>2, AdvanceStays
      <4> QED
        BY <1>1, <1>2, <3>1, <4>1, <4>3 DEF PastAt
    <3>3. CASE profile = "targetProfile"
      <4>1. \E from, to : Step(p, "setup", from, to) /\ Follows(from, to)
        BY <2>5, <3>3, OtherProfile DEF DeleteOldProfile, DeleteConnectionProfile, Profiles, CleanupConnectionProfile
      <4> QED
        BY <1>3, <3>1, <4>1
    <3> QED
      BY <3>2, <3>3 DEF Profiles
  <2>6. ASSUME NEW profile \in Profiles, CreateConnectionProfile(p, profile), FillProfile(p, profile)
        PROVE  PastAt(p)' /\ phase'[p] = "setup"
    <3>1. \E from, to :
              from \in NewProfileSteps /\ Step(p, "setup", from, to) /\ Follows(from, to)
      BY <2>6, OtherProfile DEF CreateConnectionProfile, Profiles, ToCreate
    <3>2. holder[Src] = p
      BY <1>1, <3>1, AdvanceStays DEF PastAt
    <3>3. holder' = holder /\ ("sourceProfile" \in stale' => "sourceProfile" \in stale)
      BY <2>6, <3>2 DEF FillProfile, InstanceOf
    <3> QED
      BY <1>3, <3>1, <3>3
  <2> QED
    BY <1>4, <2>1, <2>2, <2>3, <2>4, <2>5, <2>6, <2>7 DEF DetailSetup
<1>5. CASE ~Touched(p) /\ Run(p) /\ IF phase'[p] = "none" THEN Forget(p) ELSE UNCHANGED details
  <2>1. pc[p] \notin {"sourcePassword", "pglogical", "dropPgAudit", "sourceInstance",
                     "targetInstance", "targetPassword", "deleteProfiles", "sourceProfile", "targetProfile",
                     "createProfiles", "createSource", "createTarget", "allow", "resolve",
                     "helper", "helperRollout", "dropResource", "dropDatabase"}
    BY <1>1, <1>5 DEF Touched, PastDrop, SetupData, PromoteData, RollbackData, FinalizeData
  <2>2. \/ BackUpSource(p) \/ DisableCascadingDelete(p) \/ CreateNetworkPolicy(p)
        \/ DeleteMigrationJob(p, "setup", "deleteJob", "deleteProfiles")
        \/ CreateMigrationJob(p) \/ DemoteTargetInstance(p) \/ ResolveTargetAgain(p)
        \/ Step(p, "setup", "sourceCert", "pglogical")
        \/ Step(p, "setup", "targetCert", "deleteJob")
    <3>1. ~ \E profile \in Profiles : DeleteOldProfile(p, profile) \/ CreateConnectionProfile(p, profile)
      BY <2>1, OtherProfile DEF DeleteOldProfile, DeleteConnectionProfile,
         CreateConnectionProfile, Profiles, ToCreate, Step, Advance, At, CleanupConnectionProfile
    <3>2. ~ (\/ ResolveSource(p) \/ CreateHelper(p) \/ AwaitHelper(p)
             \/ DeleteHelperDatabaseResource(p) \/ DropHelperDatabase(p)
             \/ PrepareSourceInstance(p) \/ DropPgAuditExtension(p)
             \/ PrepareTargetInstance(p) \/ AddTargetOutgoingIps(p))
      BY <2>1 DEF ResolveSource, CreateHelper, AwaitHelper, DeleteHelperDatabaseResource,
         DropHelperDatabase, PrepareSourceInstance, DropPgAuditExtension,
         PrepareTargetInstance, AddTargetOutgoingIps, Step, Advance, At
    <3>3. PrepareSourceDatabase(p) => Step(p, "setup", "sourceCert", "pglogical")
      BY <2>1 DEF PrepareSourceDatabase, Step, Advance, At
    <3>4. PrepareTargetDatabase(p, "setup", "deleteJob") => Step(p, "setup", "targetCert", "deleteJob")
      BY <2>1 DEF PrepareTargetDatabase, Step, Advance, At
    <3> QED
      BY <3>1, <3>2, <3>3, <3>4 DEF SetupNext
  <2>3. \E from, to : Step(p, "setup", from, to) /\ Follows(from, to)
    BY <2>2 DEF BackUpSource, DisableCascadingDelete, CreateNetworkPolicy, DeleteMigrationJob,
       CreateMigrationJob, DemoteTargetInstance, ResolveTargetAgain
  <2>4. phase'[p] = "setup"
    BY <1>1, <2>3, AdvanceStays
  <2>5. holder' = holder /\ stale' = stale
    BY <1>5, <2>4 DEF details, credentialVars
  <2> QED
    BY <1>3, <2>3, <2>5
<1>6. CASE DetailPromote(p)
  BY <1>1, <1>6, PromoteStepStays DEF DetailPromote, PromoteNext
<1>7. CASE DetailCleanup(p)
  BY <1>1, <1>7, RollbackStepStays, FinalizeStepStays DEF DetailCleanup, RollbackNext, FinalizeNext,
     DetailRollback, DetailFinalize
<1> QED
  BY <1>4, <1>5, <1>6, <1>7 DEF DetailRun, DetailCleanup


LEMMA SetupKeepsCredential ==
    ASSUME OneDrops, TypeOK, IInv, DetailTypes, "exclusive" \in Rules => OneRun, CredentialInv,
           NEW p \in Procs, DetailRun(p), SetupNext(p)
    PROVE  CredentialInv'
<1>1. phase[p] = "setup" /\ OthersStay(p)
  BY SetupStepStays
<1>2. CASE PastDrop(p)
  <2>1. \A q \in Procs \ {p} : ~PastDrop(q)'
    BY <1>1, <1>2 DEF CredentialInv, PastDrop, OthersStay
  <2>2. CASE StartMigrationJob(p)
    <3>1. pc[p] = "start" /\ phase'[p] = "none" /\ sql'[Tgt] = "replica"
      BY <2>2 DEF StartMigrationJob, Finish, Leave, At, TypeOK, RunTypeOK, sqlVars
    <3>2. stale' = stale
      <4>1. CASE DetailSetup(p)
        BY <2>2, <3>1, <4>1, AdvanceStays DEF DetailSetup, Forget, ResolveSource, CreateHelper, PrepareSourceInstance,
           PrepareSourceDatabase, DropPgAuditExtension, PrepareTargetInstance,
           PrepareTargetDatabase, DeleteOldProfile, DeleteConnectionProfile,
           CreateConnectionProfile,
           AddTargetOutgoingIps, dmsVars, ReadFlags, DescribeHelper, Configure, DropAudit,
           AllowTarget, credentialVars, Step, Advance, At, Profiles, ToCreate, CleanupConnectionProfile
      <4>2. CASE ~Touched(p)
        BY <1>1, <3>1, <4>2 DEF Touched, SetupData, PromoteData, RollbackData, FinalizeData
      <4>3. CASE DetailPromote(p)
        BY <1>1, <4>3, PromoteStepStays DEF DetailPromote, PromoteNext
      <4>4. CASE DetailCleanup(p)
        BY <1>1, <4>4, RollbackStepStays, FinalizeStepStays DEF DetailCleanup, RollbackNext, FinalizeNext,
           DetailRollback, DetailFinalize
      <4> QED
        BY <4>1, <4>2, <4>3, <4>4 DEF DetailRun, DetailCleanup
    <3>3. "sourceProfile" \notin stale'
      BY <1>2, <3>1, <3>2 DEF CredentialInv, NewProfileSteps
    <3>4. \A q \in Procs : ~PastDrop(q)'
      BY <2>1, <3>1 DEF PastDrop
    <3> QED
      BY <3>1, <3>3, <3>4 DEF CredentialInv, CredentialsCurrent
  <2>3. CASE ~StartMigrationJob(p)
    <3>1. PastAt(p)'
      BY <1>2, <2>3, PastDropAdvances
    <3>2. job' \notin {"dump", "cdc"}
      BY <3>1 DEF PastAt
    <3> QED
      BY <2>1, <3>1, <3>2 DEF CredentialInv, PastAt, CredentialsCurrent
  <2> QED
    BY <2>2, <2>3
<1>3. CASE DropHelperDatabase(p)
  <2>1. pc[p] = "dropDatabase" /\ pc'[p] = "backup" /\ UNCHANGED <<job, sql>>
    BY <1>3, AdvanceStays DEF DropHelperDatabase, dmsVars
  <2>2. /\ \A q \in Procs : ~PastDrop(q)
        /\ job \notin {"dump", "cdc"} /\ ("opFails" \notin Faults => Tgt \notin hasDb')
    BY <1>3, DropIsFirst
  <2>3. PastAt(p)'
    BY <2>1, <2>2 DEF PastAt, PasswordSteps, NewProfileSteps
  <2>4. \A q \in Procs \ {p} : ~PastDrop(q)'
    BY <1>1, <2>2 DEF PastDrop, OthersStay
  <2> QED
    BY <2>1, <2>2, <2>3, <2>4 DEF CredentialInv, PastAt, CredentialsCurrent
<1>4. CASE ~PastDrop(p) /\ ~DropHelperDatabase(p)
  <2>1. pc[p] \in {"resolve", "helper", "helperRollout", "dropResource", "dropDatabase"}
    BY <1>1, <1>4 DEF PastDrop, AfterDrop, AfterHelper, TypeOK, RunTypeOK, StepsOf
  <2>2. \/ ResolveSource(p) \/ CreateHelper(p) \/ AwaitHelper(p) \/ DeleteHelperDatabaseResource(p)
    <3>1. ~ \E profile \in Profiles : DeleteOldProfile(p, profile) \/ CreateConnectionProfile(p, profile)
      BY <2>1, OtherProfile DEF DeleteOldProfile, DeleteConnectionProfile,
         CreateConnectionProfile, Profiles, ToCreate, Step, Advance, At, CleanupConnectionProfile
    <3>2. ~ (\/ BackUpSource(p) \/ DisableCascadingDelete(p) \/ CreateNetworkPolicy(p)
             \/ PrepareSourceInstance(p) \/ PrepareSourceDatabase(p) \/ DropPgAuditExtension(p)
             \/ PrepareTargetInstance(p) \/ AddTargetOutgoingIps(p)
             \/ PrepareTargetDatabase(p, "setup", "deleteJob")
             \/ DeleteMigrationJob(p, "setup", "deleteJob", "deleteProfiles")
             \/ CreateMigrationJob(p) \/ DemoteTargetInstance(p) \/ ResolveTargetAgain(p))
      BY <2>1 DEF BackUpSource, DisableCascadingDelete, CreateNetworkPolicy,
         PrepareSourceInstance, PrepareSourceDatabase, DropPgAuditExtension,
         PrepareTargetInstance, AddTargetOutgoingIps, PrepareTargetDatabase, DeleteMigrationJob,
         CreateMigrationJob, DemoteTargetInstance, ResolveTargetAgain, Step, Advance, At
    <3>3. ~StartMigrationJob(p)
      BY <2>1 DEF StartMigrationJob, Finish, At
    <3> QED
      BY <1>4, <3>1, <3>2, <3>3 DEF SetupNext
  <2>3. /\ UNCHANGED <<job, hasDb, sql>>
        /\ pc'[p] \in {"helper", "helperRollout", "dropResource", "dropDatabase"} /\ phase' = phase
    <3>1. UNCHANGED <<job, hasDb, sql>>
      BY <2>2 DEF ResolveSource, CreateHelper, AwaitHelper, DeleteHelperDatabaseResource,
         sqlVars, dmsVars
    <3>2. CASE ResolveSource(p)
      BY <3>1, <3>2 DEF ResolveSource, Advance, TypeOK, RunTypeOK
    <3>3. CASE \/ CreateHelper(p) \/ AwaitHelper(p) \/ DeleteHelperDatabaseResource(p)
      BY <3>1, <3>3, AdvanceStays DEF CreateHelper, AwaitHelper, DeleteHelperDatabaseResource
    <3> QED
      BY <2>2, <3>2, <3>3
  <2>4. UNCHANGED <<holder, stale>>
    <3>1. CASE DetailSetup(p)
      <4>1. ~(\/ PrepareSourceDatabase(p) \/ StartMigrationJob(p)
              \/ PrepareTargetDatabase(p, "setup", "deleteJob")
              \/ \E profile \in Profiles : DeleteOldProfile(p, profile) \/ CreateConnectionProfile(p, profile))
        BY <2>1, OtherProfile DEF DeleteOldProfile, DeleteConnectionProfile,
           CreateConnectionProfile, Profiles, ToCreate, Step, Advance, At, PrepareSourceDatabase,
           PrepareTargetDatabase, StartMigrationJob, Finish, CleanupConnectionProfile
      <4> QED
        BY <3>1, <4>1 DEF DetailSetup, ReadFlags, DescribeHelper, Configure, DropAudit, AllowTarget,
           credentialVars
    <3>2. CASE ~Touched(p) /\ Run(p) /\ IF phase'[p] = "none" THEN Forget(p) ELSE UNCHANGED details
      BY <1>1, <2>3, <3>2 DEF details, credentialVars
    <3>3. CASE DetailPromote(p)
      BY <1>1, <3>3, PromoteStepStays DEF DetailPromote, PromoteNext
    <3>4. CASE DetailCleanup(p)
      BY <1>1, <3>4, RollbackStepStays, FinalizeStepStays DEF DetailCleanup, RollbackNext, FinalizeNext,
         DetailRollback, DetailFinalize
    <3> QED
      BY <3>1, <3>2, <3>3, <3>4 DEF DetailRun, DetailCleanup
  <2>5. KeepsPassword
    BY <2>3, <2>4 DEF KeepsPassword
  <2>6. ~PastDrop(p)'
    BY <2>3 DEF PastDrop, AfterDrop, AfterHelper
  <2>7. \A q \in Procs : PastDrop(q)' =>
               /\ PastDrop(q) /\ (Tgt \in hasDb' => Tgt \in hasDb)
               /\ pc'[q] = pc[q] \/ PastAt(q)'
               /\ holder[Src] = q => holder'[Src] = q
    BY <1>1, <2>3, <2>4, <2>6 DEF PastDrop, OthersStay
  <2> QED
    BY <2>5, <2>7, IdleKeepsCredential
<1> QED
  BY <1>2, <1>3, <1>4

LEMMA RunKeepsCredential ==
    ASSUME OneDrops, TypeOK, IInv, DetailTypes, "exclusive" \in Rules => OneRun, CredentialInv,
           NEW p \in Procs, DetailRun(p)
    PROVE  CredentialInv'
<1>1. CASE SetupNext(p)
  BY <1>1, SetupKeepsCredential
<1>2. CASE PromoteNext(p) \/ RollbackNext(p) \/ FinalizeNext(p)
  <2>1. /\ phase[p] \in {"promote", "rollback", "finalize"} /\ phase'[p] # "setup" /\ OthersStay(p)
    BY <1>2, PromoteStepStays, RollbackStepStays, FinalizeStepStays
  <2>2. \A q \in Procs : ~PastDrop(q)'
    BY <2>1 DEF IInv, Stages, OneProgram, PastDrop, OthersStay
  <2>3. job' \in {"dump", "cdc"} => job' = job /\ sql'[Tgt] = sql[Tgt]
    <3>1. CASE PromoteNext(p)
      BY <3>1 DEF PromoteNext, ResolveAppInstance, GetHelper, ResolveTarget,
         CheckReadyForPromotion, ScaleApplication, InspectJob, StartPromotion, AwaitPromotion,
         UpdateTargetInstanceAfterPromotion, PrepareTargetDatabase, TakeOverTarget,
         ChangeOwnership, DeleteHelperApplication, DeleteTargetDatabaseResource,
         AwaitCnrmHandover, UpdateApplicationInstance, AwaitRollout, UpdateApplicationUser,
         BackUpTarget, sqlVars, dmsVars
    <3>2. CASE RollbackNext(p)
      <4>1. CASE DeleteInstance(Tgt, p, "rollback", "target", "master")
        <5>1. phase[p] = "rollback" /\ pc[p] = "target" /\ job' = job
          BY <4>1, AdvanceStays DEF DeleteInstance, dmsVars
        <5>2. job = "absent"
          BY <5>1 DEF IInv, Stages, RollbackStage, JoblessSteps, RollbackSteps, NearCopy
        <5> QED
          BY <5>1, <5>2
      <4>2. CASE ~DeleteInstance(Tgt, p, "rollback", "target", "master")
        BY <3>2, <4>2 DEF RollbackNext, ScaleIfSwitched, DeleteHelperApplication,
           DeleteMigrationJob, DeleteConnectionProfile, DeleteMasterInstance,
           DeleteTargetDatabaseResource, DeleteSourceCert, AwaitDatabaseResourceGone,
           UpdateApplicationInstance, AwaitRollout, UpdateApplicationUser, DeleteSslCerts,
           DeleteNetworkPolicies, sqlVars, dmsVars, CleanupConnectionProfile
      <4> QED
        BY <4>1, <4>2
    <3>3. CASE FinalizeNext(p)
      BY <3>3, InstancesDiffer DEF FinalizeNext, ResolveAppInstance, DeleteFinishedJob, DeleteMigrationJob,
         DeleteConnectionProfile, DeleteMasterInstance, DeleteInstance, InstanceGone,
         CleanupAuthNetworks, DeleteSslCerts, DeleteNetworkPolicies, sqlVars, dmsVars,
         TypeOK, DataTypeOK, Inst, CleanupConnectionProfile
    <3> QED
      BY <1>2, <3>1, <3>2, <3>3
  <2>4. "sourceProfile" \in stale' => "sourceProfile" \in stale
    <3>1. CASE DetailSetup(p)
      BY <2>1, <3>1, SetupStepStays DEF DetailSetup, SetupNext
    <3>2. CASE DetailPromote(p)
      BY <3>2, InstancesDiffer DEF DetailPromote, RestoreProtection, Configure, SetPassword, NewPassword,
         ProfileOf, Connected, Redefine, details, credentialVars
    <3>3. CASE DetailCleanup(p)
      BY <3>3 DEF DetailCleanup, DropProfile, Redefine, Configure, credentialVars,
         DetailRollback, DetailFinalize
    <3>4. CASE ~Touched(p) /\ Run(p) /\ IF phase'[p] = "none" THEN Forget(p) ELSE UNCHANGED details
      BY <3>4 DEF Forget, details, credentialVars
    <3> QED
      BY <3>1, <3>2, <3>3, <3>4 DEF DetailRun, DetailCleanup
  <2>5. KeepsPassword
    BY <2>3, <2>4 DEF KeepsPassword
  <2> QED
    BY <2>2, <2>5, IdleKeepsCredential
<1> QED
  BY <1>1, <1>2, DetailRunIsRun DEF Run

LEMMA EnvironmentKeepsCredential ==
    ASSUME OneDrops, TypeOK, IInv, HelperOwns, DetailTypes, CredentialInv, DetailEnvironment
    PROVE  CredentialInv'
<1>1. Environment
  BY DEF DetailEnvironment, HelperApplied, Environment
<1>2. UNCHANGED <<phase, pc, holder, stale>>
  <2>1. UNCHANGED <<holder, stale>>
    BY DEF DetailEnvironment, HelperApplied, ApplyTo, Configure, details, credentialVars
  <2> QED
    BY <1>1, <2>1, EnvironmentKeepsRuns DEF runVars
<1>3. job' \in {"dump", "cdc"} => job \in {"dump", "cdc"}
  BY DEF DetailEnvironment, HelperApplied, HelperReconcile, AppReconcile, HelperCollected,
     DatabaseCollected, PodsStop, Write, DumpDone, CatchUp, SampleLag, PromotionDone, dmsVars
<1>4. ASSUME NEW q \in Procs, PastDrop(q) PROVE Tgt \in hasDb' => Tgt \in hasDb
  <2>1. started = {"setup"} /\ owner[Tgt] = "helper" /\ job # "dump"
    BY <1>4 DEF PastDrop, AfterDrop, HelperOwns, IInv, Stages, OneProgram, CredentialInv, OneDrops
  <2>2. spec = Src
    BY <2>1 DEF IInv, Stages, SpecAndDeployment
  <2> QED
    BY <2>1, <2>2, InstancesDiffer DEF DetailEnvironment, HelperApplied, HelperReconcile,
       AppReconcile, HelperCollected, PodsStop, Write, DumpDone, CatchUp, SampleLag, PromotionDone,
       sqlVars, DatabaseCollected
<1>5. KeepsPassword
  BY <1>2, <1>3 DEF KeepsPassword
<1>6. \A q \in Procs : PastDrop(q)' =>
               /\ PastDrop(q) /\ (Tgt \in hasDb' => Tgt \in hasDb)
               /\ pc'[q] = pc[q] \/ PastAt(q)'
               /\ holder[Src] = q => holder'[Src] = q
  BY <1>2, <1>4 DEF PastDrop
<1> QED
  BY <1>5, <1>6, IdleKeepsCredential

LEMMA NextCredential ==
    ASSUME OneDrops, TypeOK, IInv, HelperOwns, DetailTypes, "exclusive" \in Rules => OneRun,
           CredentialInv, [DetailNext]_detailedVars
    PROVE  CredentialInv'
<1>1. ASSUME NEW p \in Procs, Exit(p), Forget(p) PROVE CredentialInv'
  <2>1. OthersStay(p) /\ phase'[p] = "none" /\ UNCHANGED <<job, sql, hasDb, stale>>
    BY <1>1, ExitStays DEF Exit, sqlVars, dmsVars, Forget
  <2>2. \A q \in Procs \ {p} : holder[Src] = q => holder'[Src] = q
    BY <1>1 DEF Forget, Inst
  <2>3. \A q \in Procs : PastDrop(q)' =>
               /\ PastDrop(q) /\ (Tgt \in hasDb' => Tgt \in hasDb)
               /\ pc'[q] = pc[q] \/ PastAt(q)'
               /\ holder[Src] = q => holder'[Src] = q
    BY <2>1, <2>2 DEF PastDrop, OthersStay
  <2>4. KeepsPassword
    BY <2>1 DEF KeepsPassword
  <2> QED
    BY <2>3, <2>4, IdleKeepsCredential
<1>2. ASSUME NEW p \in Procs, NEW ph \in Phases, Start(p, ph), UNCHANGED details PROVE CredentialInv'
  <2>1. OthersStay(p) /\ pc'[p] = FirstStep(ph) /\ UNCHANGED <<job, sql, hasDb, stale, holder>>
    BY <1>2, StartStays DEF sqlVars, dmsVars, details, credentialVars
  <2>2. ~PastDrop(p)'
    BY <2>1 DEF PastDrop, AfterDrop, AfterHelper, SetupSteps, FirstStep
  <2>3. \A q \in Procs : PastDrop(q)' =>
               /\ PastDrop(q) /\ (Tgt \in hasDb' => Tgt \in hasDb)
               /\ pc'[q] = pc[q] \/ PastAt(q)'
               /\ holder[Src] = q => holder'[Src] = q
    BY <2>1, <2>2 DEF PastDrop, OthersStay
  <2>4. KeepsPassword
    BY <2>1 DEF KeepsPassword
  <2> QED
    BY <2>3, <2>4, IdleKeepsCredential
<1>3. CASE EnableAudit \/ UNCHANGED detailedVars
  <2>1. UNCHANGED <<job, sql, hasDb, stale, holder, phase, pc>>
    BY <1>3 DEF EnableAudit, detailedVars, details, credentialVars, vars, sqlVars, dmsVars, runVars
  <2> QED
    BY <2>1, IdleKeepsCredential DEF KeepsPassword, PastDrop
<1> QED
  BY <1>1, <1>2, <1>3, RunKeepsCredential, EnvironmentKeepsCredential DEF DetailNext

\* However often setup is interrupted and run again, each run with its own password: the
\* job that replicates connects with the one in force, if runs do not overlap, or if no
\* operation fails unseen.
THEOREM PasswordCurrent == ASSUME OneDrops PROVE DetailSpec => []CredentialsCurrent
<1>1. Disciplined
  BY DEF OneDrops
<1>2. DetailSpec => []TypeOK /\ []IInv /\ []HelperOwns /\ []DetailTypes
  BY <1>1, ImplementsMigrator, TypeCorrect, Inductive, HelperOwnsAlways, DetailTypesAlways, PTL
<1>3. DetailSpec => []("exclusive" \in Rules => OneRun)
  <2>1. CASE "exclusive" \in Rules
    <3>1. Spec => []OneRun
      BY <2>1, OneRunAlways
    <3>2. OneRun => ("exclusive" \in Rules => OneRun)
      OBVIOUS
    <3> QED
      BY <3>1, <3>2, ImplementsMigrator, PTL
  <2>2. CASE "exclusive" \notin Rules
    <3>1. "exclusive" \in Rules => OneRun
      BY <2>2
    <3> QED
      BY <3>1, PTL
  <2> QED
    BY <2>1, <2>2
<1>4. DetailInit => CredentialInv
  BY DEF DetailInit, Init, CredentialInv, CredentialsCurrent, PastDrop
<1>5. TypeOK /\ IInv /\ HelperOwns /\ DetailTypes /\ ("exclusive" \in Rules => OneRun)
      /\ CredentialInv /\ [DetailNext]_detailedVars => CredentialInv'
  BY NextCredential
<1>6. CredentialInv => CredentialsCurrent
  BY DEF CredentialInv
<1> QED
  BY <1>2, <1>3, <1>4, <1>5, <1>6, PTL DEF DetailSpec
=============================================================================
