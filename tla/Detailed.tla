------------------------------ MODULE Detailed ------------------------------
(***************************************************************************)
(* Migrator with the data its steps compute: the settings of the           *)
(* application and of the two instances, the passwords of the postgres     *)
(* users and what the connection profiles hold of them, and the audit      *)
(* extension.  Every step is one of Migrator's, with its effect on these.  *)
(***************************************************************************)
EXTENDS MigratorInv, InstanceSpec

CONSTANTS
    Entries,       \* what applications may ask for at first
    TargetVersion, \* TARGET_INSTANCE_TYPE and _TIER, or Unset
    SourceVersion, \* SOURCE_INSTANCE_TYPE and _TIER of rollback, or Unset
    Outgoing       \* the outgoing addresses of the target, in the order of its status

\* An entry is a record, with flags that are on or off.
IsEntry(e) ==
    /\ e = [field \in {"version", "ha", "pitr", "flags"} |-> e[field]]
    /\ e.flags \in [DOMAIN e.flags -> {"on", "off"}]

ASSUME EntriesGiven == \A e \in Entries : IsEntry(e)

\* Setup waits for an outgoing address; none of them is where the migrator runs.
ASSUME OutgoingGiven ==
    /\ Outgoing \in Seq(STRING) /\ Outgoing # <<>>
    /\ \A idx \in DOMAIN Outgoing : Outgoing[idx] # "own"

VARIABLES
    entry,     \* the entry of spec.gcp.sqlInstances
    manifest,  \* the one in the team's manifest
    wanted,    \* the entry of the helper application
    res,       \* the spec of each SQLInstance, and so the settings of its instance
    audited,   \* the source's databases have the pgaudit extension
    read,      \* the runs of setup that read an application with pgaudit flags
    holder,    \* the run that knows the password of postgres on an instance, or "none"
    stale      \* the connection profiles with another password than the instance's

settingVars    == <<entry, manifest, wanted, res>>
auditVars      == <<audited, read>>
credentialVars == <<holder, stale>>
details        == <<settingVars, auditVars, credentialVars>>
detailedVars   == <<vars, details>>

\* The network the migrator allows for itself, and those of the target's addresses.
OwnNetwork == [name |-> "migrator:user@host", value |-> "own"]
TargetNetwork(idx) == [name |-> "target", value |-> ResolveOutgoingIps(Outgoing)[idx]]

\* Flags are on or off, only a profile that exists can be out of date, and what
\* Migrator knows of an instance is so in its settings.
DetailTypeOK ==
    /\ \A i \in Inst :
        /\ DOMAIN res[i] = DOMAIN Created(entry)
        /\ \A settings \in {entry, manifest, wanted, res[i]} :
            settings.flags \in [DOMAIN settings.flags -> {"on", "off"}]
    /\ audited \in BOOLEAN /\ read \subseteq Procs
    /\ holder \in [Inst -> Procs \cup {"none"}]
    /\ stale \subseteq Profiles \cap left
    /\ sql[Tgt] # "absent" => reduced = ~res[Tgt].backup
    /\ "sourceNet" \in left => OwnNetwork \in res[Src].nets
    /\ "targetNet" \in left => OwnNetwork \in res[Tgt].nets

DetailInit ==
    /\ Init
    /\ entry \in Entries /\ manifest = entry /\ wanted = entry
    /\ res = [i \in Inst |-> Created(entry)]
    /\ audited = HasPgAuditFlags(entry.flags) /\ read = {}
    /\ holder = [i \in Inst |-> "none"] /\ stale = {}

ProfileOf(i)        == IF i = Src THEN "sourceProfile" ELSE "targetProfile"
InstanceOf(profile) == IF profile = "sourceProfile" THEN Src ELSE Tgt

-----------------------------------------------------------------------------
(* Settings *)

DescribeHelper ==
    /\ wanted' = IF helper = "absent" THEN HelperInstance(TargetVersion, entry) ELSE wanted
    /\ UNCHANGED <<entry, manifest, res, auditVars, credentialVars>>

Configure(i, settings) ==
    /\ res' = [res EXCEPT ![i] = settings]
    /\ UNCHANGED <<entry, manifest, wanted, auditVars, credentialVars>>

\* All the target's addresses that are known.
AllowTarget(i) ==
    LET new == {TargetNetwork(idx) : idx \in DOMAIN ResolveOutgoingIps(Outgoing)}
        add == {net \in new : AppendAuthNetIfNotExists(res[i].nets, net) # res[i].nets}
    IN  Configure(i, [res[i] EXCEPT !.nets = @ \cup add])

\* Mutant: the target stays as it was prepared.
LeaveReduced(i) == Configure(Tgt, res[Tgt])

RestoreProtection(i) == Configure(Tgt, ProtectedAs(res[i], res[Tgt]))

\* Mutant: what the helper application cannot have is not put back.
RedefineAsHelper(version) ==
    /\ entry' = HelperInstance(version, entry)
    /\ UNCHANGED <<manifest, wanted, res, auditVars, credentialVars>>

Redefine(version) ==
    /\ entry' = DefineInstance(version, entry)
    /\ UNCHANGED <<manifest, wanted, res, auditVars, credentialVars>>

\* An instance that exists keeps what is not asked for, also under a new resource.
ApplyTo(i, settings) ==
    Configure(i, IF sql[i] = "absent" THEN Created(settings) ELSE Applied(settings, res[i]))

-----------------------------------------------------------------------------
(* The audit extension *)

ReadFlags(p) ==
    /\ read' = IF HasPgAuditFlags(entry.flags) THEN read \cup {p} ELSE read \ {p}
    /\ UNCHANGED <<settingVars, audited, credentialVars>>

DropAudit(p) ==
    /\ holder[view[p]] = p
    /\ audited' = FALSE
    /\ UNCHANGED <<settingVars, read, credentialVars>>

-----------------------------------------------------------------------------
(* Credentials *)

\* A new password makes the one in a profile stale.
NewPassword(p, i) ==
    /\ holder' = [holder EXCEPT ![i] = p]
    /\ stale' = stale \cup ({ProfileOf(i)} \cap left)
    /\ UNCHANGED <<settingVars, auditVars>>

\* An error in the finished operation is not looked at.
SetPassword(p, i) == NewPassword(p, i) \/ ("minorFails" \in Faults /\ UNCHANGED details)

\* The run connects to the source as postgres; the flags it goes by are those it read at
\* step 2.
InstallExtension(p) ==
    /\ holder[view[p]] = p
    /\ pc'[p] = IF p \in read THEN "dropPgAudit" ELSE "targetInstance"
    /\ UNCHANGED details

\* What a deletion leaves of the profiles.
DropProfile == stale' = stale \cap left' /\ UNCHANGED <<settingVars, auditVars, holder>>

\* A new profile has the password the run set, or thinks it has set.
FillProfile(p, profile) ==
    /\ stale' = IF profile \in left \/ holder[InstanceOf(profile)] = p
                THEN stale ELSE stale \cup {profile}
    /\ UNCHANGED <<settingVars, auditVars, holder>>

\* What a run knows ends with it.
Forget(p) ==
    /\ holder' = [i \in Inst |-> IF holder[i] = p THEN "none" ELSE holder[i]]
    /\ read' = read \ {p}
    /\ UNCHANGED <<settingVars, audited, stale>>

-----------------------------------------------------------------------------
(* The steps *)

\* The steps of each program that have to do with the data.
SetupData ==
    {"resolve", "helper", "sourceInstance", "sourcePassword", "pglogical", "dropPgAudit",
     "targetInstance", "targetPassword", "deleteProfiles", "sourceProfile",
     "targetProfile", "createProfiles", "createSource", "createTarget", "allow", "start"}
PromoteData  == {"restore", "targetPassword", "ownPostgres", "ownApp", "update"}
RollbackData == {"sourceProfile", "targetProfile", "update"}
FinalizeData == {"sourceProfile", "targetProfile", "networks"}

Touched(p) ==
    \/ phase[p] = "setup"    /\ pc[p] \in SetupData
    \/ phase[p] = "promote"  /\ pc[p] \in PromoteData
    \/ phase[p] = "rollback" /\ pc[p] \in RollbackData
    \/ phase[p] = "finalize" /\ pc[p] \in FinalizeData

DetailSetup(p) ==
    \/ ResolveSource(p) /\ ReadFlags(p)
    \/ CreateHelper(p) /\ DescribeHelper
    \/ PrepareSourceInstance(p) /\ Configure(view[p], SourcePrepared(res[view[p]], OwnNetwork))
    \/ PrepareSourceDatabase(p) /\ pc[p] = "sourcePassword" /\ SetPassword(p, view[p])
    \/ PrepareSourceDatabase(p) /\ pc[p] = "pglogical" /\ InstallExtension(p)
    \/ DropPgAuditExtension(p) /\ DropAudit(p)
    \/ PrepareTargetInstance(p) /\ Configure(Tgt, TargetPrepared(res[Tgt], OwnNetwork))
    \/ /\ PrepareTargetDatabase(p, "setup", "deleteJob") /\ pc[p] = "targetPassword"
       /\ SetPassword(p, Tgt)
    \/ \E profile \in Profiles : DeleteOldProfile(p, profile) /\ DropProfile
    \/ \E profile \in Profiles : CreateConnectionProfile(p, profile) /\ FillProfile(p, profile)
    \/ AddTargetOutgoingIps(p) /\ AllowTarget(view[p])
    \/ /\ StartMigrationJob(p)
       /\ \A flag \in ReplicationFlags : res[Src].flags[flag] = "on"
       /\ Forget(p)

\* Ownership is changed as postgres.
Connected(p) == holder[Tgt] = p /\ UNCHANGED details

DetailPromote(p) ==
    \/ UpdateTargetInstanceAfterPromotion(p) /\ RestoreProtection(view[p])
    \/ /\ PrepareTargetDatabase(p, "promote", "ownPostgres") /\ pc[p] = "targetPassword"
       /\ SetPassword(p, Tgt)
    \/ TakeOverTarget(p) /\ pc[p] # "deleteHelper" /\ Connected(p)
    \/ /\ UpdateApplicationInstance(Tgt, p, "promote", "update", "rollout")
       /\ Redefine(TargetVersion)

DetailRollback(p) ==
    \/ RollbackNext(p) /\ pc[p] \in Profiles /\ DropProfile
    \/ /\ UpdateApplicationInstance(Src, p, "rollback", "update", "rollout")
       /\ Redefine(SourceVersion)

DetailFinalize(p) ==
    \/ FinalizeNext(p) /\ pc[p] \in Profiles /\ DropProfile
    \/ /\ CleanupAuthNetworks(p)
       /\ Configure(view[p], [res[view[p]] EXCEPT !.nets = RemoveMigrationAuthNetwork(@)])

DetailRun(p) ==
    \/ DetailSetup(p) \/ DetailPromote(p) \/ DetailRollback(p) \/ DetailFinalize(p)
    \/ ~Touched(p) /\ Run(p) /\ IF phase'[p] = "none" THEN Forget(p) ELSE UNCHANGED details

HelperApplied == HelperReconcile /\ ApplyTo(Tgt, wanted)

\* The team turns auditing on (nais postgres enable-audit) for an application that runs,
\* whatever program is under way.
EnableAudit ==
    LET on(flags) == [f \in DOMAIN flags \cup AuditFlags |-> IF f \in AuditFlags THEN "on" ELSE flags[f]]
    IN  /\ pods = "up" /\ synced /\ ~HasPgAuditFlags(entry.flags)
        /\ entry' = [entry EXCEPT !.flags = on(@)]
        /\ manifest' = [manifest EXCEPT !.flags = on(@)]
        /\ res' = [res EXCEPT ![live].flags = on(@)]
        /\ audited' = (audited \/ live = Src)
        /\ UNCHANGED <<wanted, read, credentialVars, vars>>

\* Without the faults of Platform: no old manifest, and no instance created anew.
DetailEnvironment ==
    \/ HelperApplied
    \/ AppReconcile /\ ApplyTo(spec, entry)
    \/ /\ \/ HelperCollected \/ DatabaseCollected \/ PodsStop \/ Write
          \/ DumpDone \/ CatchUp \/ SampleLag \/ PromotionDone
       /\ UNCHANGED details

DetailNext ==
    \/ \E p \in Procs : DetailRun(p)
    \/ \E p \in Procs : Exit(p) /\ Forget(p)
    \/ \E p \in Procs, ph \in Phases : Start(p, ph) /\ UNCHANGED details
    \/ DetailEnvironment
    \/ EnableAudit

DetailSpec == DetailInit /\ [][DetailNext]_detailedVars

-----------------------------------------------------------------------------
(* Fairness *)

\* Every retry loop has a maximum duration and every program a deadline: a run
\* whose next step stays impossible ends.
Timeout(p) == Exit(p) /\ Forget(p) /\ ~ENABLED DetailRun(p)

\* A run that could go on is stopped: an API error, a deadline, a killed pod.
Interrupt(p) == Exit(p) /\ Forget(p) /\ ENABLED DetailRun(p)

\* A failed job can only be rolled back.
Resume(p) ==
    /\ Start(p, "rollback") \/ (job # "failed" /\ Start(p, "promote"))
    /\ UNCHANGED details

\* Programs and platform go on, and the operator does not leave a promote or a
\* rollback unfinished.  Nothing is assumed of Write and EnableAudit.
Fairness ==
    /\ \A p \in Procs : WF_detailedVars(DetailRun(p)) /\ WF_detailedVars(Timeout(p))
    /\ WF_detailedVars(\E p \in Procs : Resume(p))
    /\ WF_detailedVars(AppReconcile /\ ApplyTo(spec, entry))
    /\ WF_detailedVars(HelperApplied \/ (HelperCollected /\ UNCHANGED details))
    /\ WF_detailedVars(DatabaseCollected /\ UNCHANGED details)
    /\ WF_detailedVars(PodsStop /\ UNCHANGED details)
    /\ WF_detailedVars((DumpDone \/ PromotionDone) /\ UNCHANGED details)
    /\ WF_detailedVars(CatchUp /\ UNCHANGED details)
    /\ WF_detailedVars(SampleLag /\ UNCHANGED details)

FairDetailSpec == DetailSpec /\ Fairness

\* Downtime ends: unless runs are interrupted for ever, an application that was
\* scaled down runs again.
UpAgain ==
    <>[][\A p \in Procs : ~Interrupt(p)]_detailedVars => (pods = "down" ~> pods = "up")

-----------------------------------------------------------------------------
(* Properties *)

\* However often setup is interrupted and run again, each run with its own password, the
\* job that replicates connects to the source with the one that is in force.
CredentialsCurrent == job \in {"dump", "cdc"} => "sourceProfile" \notin stale

\* The replica DMS copies to is free of what it cannot handle, whichever run created the
\* helper; and a setup that read an application with auditing on, however often it was
\* interrupted before, has the extension gone from the source when it starts the job.
ReplicaSuitsDms ==
    /\ job \in {"dump", "cdc", "promoting"} =>
        ~res[Tgt].ha /\ ~res[Tgt].pitr /\ ~HasPgAuditFlags(res[Tgt].flags)
    /\ \A p \in read : At(p, "setup", "start") => ~audited

\* A promote that skips its first half finds a target as well protected as the
\* application asks for: with availability, backups and point-in-time recovery.
ProtectionRestored ==
    PromoteStarted /\ helper # "present" => Protection(res[Tgt]) = Protection(Created(entry))

\* What was taken away for the migration is back with the switch: the target has the
\* protection and the flags of the team's manifest, those of the audit too.
TargetAsAskedFor ==
    "promote" \in completed /\ "rollback" \notin started =>
        /\ Protection(res[Tgt]) = Protection(Created(manifest))
        /\ \A f \in DOMAIN manifest.flags :
            f \in DOMAIN res[Tgt].flags /\ res[Tgt].flags[f] = manifest.flags[f]
        /\ TargetVersion # Unset => res[Tgt].version = TargetVersion

-----------------------------------------------------------------------------
(* What is said of the programs and the code does not ensure *)

\* database.go:46-50: the extension is dropped "so that the DMS dump does not contain any
\* pgaudit references".  The flags of step 2 decide: auditing turned on after they were
\* read goes unseen.
AuditDropNotMissed ==
    [][\A p \in Procs :
        At(p, "setup", "pglogical") /\ pc'[p] = "targetInstance" => ~audited]_detailedVars
=============================================================================
