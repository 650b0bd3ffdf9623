----------------------------- MODULE DetailInv ------------------------------
(***************************************************************************)
(* The inductive invariants behind what Detailed says of the data: the     *)
(* types, what the target is protected by and asked for, what DMS can      *)
(* replicate, and the password in the source's connection profile.         *)
(***************************************************************************)
EXTENDS Detailed, OutcomeInv

\* Two setups never get past the drop of the helper's database: a second one finds
\* none, unless the first drop failed unseen and runs overlap.
OneDrops == Disciplined /\ ("exclusive" \in Rules \/ "opFails" \notin Faults)

-----------------------------------------------------------------------------
(* Types *)

IsSettings(r) ==
    /\ r = [field \in {"version", "ha", "pitr", "backup", "flags", "nets"} |-> r[field]]
    /\ r.backup \in BOOLEAN
    /\ r.flags \in [DOMAIN r.flags -> {"on", "off"}]
    /\ \A net \in r.nets : net.value = OwnNetwork.value => net = OwnNetwork

Shapes ==
    /\ IsEntry(entry) /\ IsEntry(manifest) /\ IsEntry(wanted)
    /\ res = [i \in Inst |-> res[i]] /\ \A i \in Inst : IsSettings(res[i])

\* Of the settings, and of what Migrator knows of them.
SettingTypes ==
    /\ Shapes /\ res[Src].backup
    /\ sql[Src] = "absent" => "sourceNet" \notin left
    /\ sql[Tgt] = "absent" => "targetNet" \notin left
    /\ sql[Tgt] # "absent" => reduced = ~res[Tgt].backup
    /\ "sourceNet" \in left => OwnNetwork \in res[Src].nets
    /\ "targetNet" \in left => OwnNetwork \in res[Tgt].nets

KnowledgeTypes ==
    /\ audited \in BOOLEAN /\ read \subseteq Procs
    /\ holder \in [Inst -> Procs \cup {"none"}]
    /\ stale \subseteq Profiles \cap left

\* Setup has the source in view, and promote does from where it finds the job.
SourceInView ==
    \A p \in Procs :
        /\ phase[p] = "setup" /\ pc[p] # "resolve" => view[p] = Src
        /\ phase[p] = "promote" /\ pc[p] \in
            {"scale", "promote", "lag", "wait", "restore"} => view[p] = Src

DetailTypes == SettingTypes /\ KnowledgeTypes /\ SourceInView

-----------------------------------------------------------------------------
(* What the target is protected by and asked for *)

Protected(i) == Protection(res[i]) = Protection(Created(entry))

\* The target has what the application's entry asks for.
Carries ==
    /\ res[Tgt].version = entry.version
    /\ \A f \in DOMAIN entry.flags : f \in DOMAIN res[Tgt].flags /\ res[Tgt].flags[f] = entry.flags[f]

\* The helper application keeps the target it was waited for.
HelperOwns ==
    /\ started = {"setup"} => owner[Tgt] # "app"
    /\ \A p \in Procs : phase[p] = "setup" /\ pc[p] \in AfterHelper \ {"helperRollout"} =>
        owner[Tgt] = "helper"
    /\ PromoteStarted \/ ("setup" \in completed /\ "rollback" \notin started) =>
        (helper = "present" => owner[Tgt] # "none")

\* Steps of promote that a run takes with the helper application deleted.
SecondHalf == {"dbResource", "cnrm", "update"} \cup SwitchedSteps
FirstHalfDone == {"targetPassword", "targetCert", "ownPostgres", "ownApp", "deleteHelper"}

AskedInv ==
    /\ entry.ha = manifest.ha /\ entry.pitr = manifest.pitr /\ entry.flags = manifest.flags
    /\ spec = Tgt /\ TargetVersion # Unset => entry.version = TargetVersion
    /\ Protected(Src)
    /\ synced /\ spec = Tgt => Carries
    /\ PromoteStarted =>
        /\ helper # "present" => Protected(Tgt)
        /\ "promote" \in completed => helper # "present" /\ Carries
        /\ \A p \in Procs : phase[p] = "promote" =>
            /\ pc[p] \in FirstHalfDone => Protected(Tgt)
            /\ pc[p] \in SecondHalf => helper # "present"
            /\ pc[p] \in {"user", "backup"} => Carries

-----------------------------------------------------------------------------
(* What DMS can replicate *)

Running == {"dump", "cdc", "promoting"}

Suits(r) == ~r.ha /\ ~r.pitr /\ ~HasPgAuditFlags(r.flags)

JobInv ==
    /\ spec = Tgt => job \notin Running
    /\ PromoteStarted =>
        /\ helper # "present" => job \notin Running
        /\ \A p \in Procs : phase[p] = "promote" =>
            /\ pc[p] = "wait" => job \in {"promoting", "completed", "failed"}
            /\ pc[p] \in {"restore"} \cup FirstHalfDone \cup SecondHalf => job \notin Running

\* The steps of setup from where the extension is dropped, and the target prepared.
UnauditedSteps ==
    AfterCascade \ {"netpol", "sourceInstance", "sourcePassword", "sourceCert", "pglogical",
                    "dropPgAudit"}
PreparedSteps  == UnauditedSteps \ {"targetInstance"}

SuitInv ==
    /\ audited => HasPgAuditFlags(entry.flags)
    /\ helper = "present" => Suits(wanted)
    /\ job \in Running => Suits(res[Tgt])
    /\ \A p \in Procs : phase[p] = "setup" =>
        /\ pc[p] # "resolve" => (p \in read => HasPgAuditFlags(entry.flags))
        /\ pc[p] \in UnauditedSteps /\ p \in read => ~audited
        /\ pc[p] \in PreparedSteps => Suits(res[Tgt])

-----------------------------------------------------------------------------
(* The password of the source *)

AfterDrop == AfterHelper \ {"helperRollout", "dropResource", "dropDatabase"}

PastDrop(p) == phase[p] = "setup" /\ pc[p] \in AfterDrop

\* The steps from the first at which the source's profile is gone.
NewProfileSteps ==
    {"targetProfile", "createProfiles", "createSource", "createTarget", "createJob",
     "demote", "reresolve", "allow", "start"}
PasswordSteps ==
    NewProfileSteps \cup {"dropPgAudit", "targetInstance", "targetPassword", "targetCert",
                          "deleteJob", "deleteProfiles", "sourceProfile"}

CredentialInv ==
    /\ \A p, q \in Procs : PastDrop(p) /\ PastDrop(q) => p = q
    /\ \A p \in Procs : PastDrop(p) =>
        /\ job \notin {"dump", "cdc"}
        /\ "opFails" \notin Faults => Tgt \notin hasDb
        /\ pc[p] \in PasswordSteps => holder[Src] = p
        /\ pc[p] \in NewProfileSteps => "sourceProfile" \notin stale
    /\ CredentialsCurrent
=============================================================================
