------------------------------- MODULE Setup --------------------------------
(***************************************************************************)
(* cmd/setup: create the target through a helper application, prepare both *)
(* sides, and start the migration job.  The source is the instance the     *)
(* application uses.                                                       *)
(***************************************************************************)
EXTENDS Operations

\* The target cannot be the source (exit 6), and GCP has to know the source.
ResolveSource(p) ==
    /\ Resolvable(spec) /\ spec # Tgt
    /\ view' = [view EXCEPT ![p] = spec]
    /\ Advance(p, "setup", "resolve", "helper")
    /\ UNCHANGED <<appVars, cnrmVars, sqlVars, dmsVars, left>>

\* An existing helper application is used as it is, also one being deleted.
CreateHelper(p) ==
    /\ helper' = IF helper = "absent" THEN "present" ELSE helper
    /\ Step(p, "setup", "helper", "helperRollout")
    /\ UNCHANGED <<owner, policy, dbRes, appVars, sqlVars, dmsVars, left>>

AwaitHelper(p) ==
    /\ helper # "absent" /\ owner[Tgt] = "helper" /\ sql[Tgt] # "absent"
    /\ Step(p, "setup", "helperRollout", "dropResource")
    /\ UNCHANGED <<appVars, cnrmVars, sqlVars, dmsVars, left>>

\* Nothing waits for it to be gone: CNRM does no more with it than let go of it.
DeleteHelperDatabaseResource(p) ==
    /\ dbRes' = dbRes \ {"helper"}
    /\ Step(p, "setup", "dropResource", "dropDatabase")
    /\ UNCHANGED <<helper, owner, policy, appVars, sqlVars, dmsVars, left>>

\* Mutant: the database of the source is dropped.
DropSourceDatabase(p) ==
    /\ sql[Src] = "standalone" /\ Src \in hasDb
    /\ hasDb' = hasDb \ {Src} /\ fresh' = fresh \ {Src} /\ near' = near \ {Src}
    /\ Step(p, "setup", "dropDatabase", "backup")
    /\ UNCHANGED <<sql, master, reduced, reassigned, login, backups>>
    /\ UNCHANGED <<appVars, cnrmVars, dmsVars, left>>

\* Every error is retried until the deadline, also that the database is gone:
\* a setup that got past this step cannot be run again.  An error in the finished
\* operation is not looked at.
DropHelperDatabase(p) ==
    /\ sql[Tgt] = "standalone" /\ Tgt \in hasDb
    /\ \/ hasDb' = hasDb \ {Tgt} /\ fresh' = fresh \ {Tgt} /\ near' = near \ {Tgt}
       \/ "opFails" \in Faults /\ UNCHANGED <<hasDb, fresh, near>>
    /\ Step(p, "setup", "dropDatabase", "backup")
    /\ UNCHANGED <<sql, master, reduced, reassigned, login, backups>>
    /\ UNCHANGED <<appVars, cnrmVars, dmsVars, left>>

\* Mutant: the backup is made of the target.
BackUpWrongInstance(p) ==
    /\ sql[Tgt] # "absent"
    /\ backups' \in BackedUp(Tgt)
    /\ Step(p, "setup", "backup", "cascade")
    /\ UNCHANGED <<sql, master, hasDb, fresh, near, reduced, reassigned, login>>
    /\ UNCHANGED <<appVars, cnrmVars, dmsVars, left>>

BackUpSource(p) ==
    /\ sql[view[p]] # "absent"
    /\ backups' \in BackedUp(view[p])
    /\ Step(p, "setup", "backup", "cascade")
    /\ UNCHANGED <<sql, master, hasDb, fresh, near, reduced, reassigned, login>>
    /\ UNCHANGED <<appVars, cnrmVars, dmsVars, left>>

\* Mutant: the step is left out.
KeepCascadingDelete(p) ==
    /\ Step(p, "setup", "cascade", "netpol")
    /\ UNCHANGED <<appVars, cnrmVars, sqlVars, dmsVars, left>>

\* The update is not waited for, and without a change there is nothing to sync.
DisableCascadingDelete(p) ==
    /\ cascade' = FALSE
    /\ synced' = (synced /\ ~cascade)
    /\ Step(p, "setup", "cascade", "netpol")
    /\ UNCHANGED <<spec, named, asked, live, pods, cnrmVars, sqlVars, dmsVars, left>>

\* Outside Kubernetes there is no network policy to create.
CreateNetworkPolicy(p) ==
    /\ left' \in {left \cup {"netpol"}} \cup (IF "outside" \in Faults THEN {left} ELSE {})
    /\ Step(p, "setup", "netpol", "sourceInstance")
    /\ UNCHANGED <<appVars, cnrmVars, sqlVars, dmsVars>>

PrepareSourceInstance(p) ==
    /\ Resolvable(view[p])
    /\ left' = left \cup {"sourceNet"}
    /\ Step(p, "setup", "sourceInstance", "sourcePassword")
    /\ UNCHANGED <<appVars, cnrmVars, sqlVars, dmsVars>>

\* A password for the postgres user, a certificate to connect with, and the extension
\* pglogical in both databases.  Step 12b follows when the application, as read at step
\* 2, has pgaudit flags.
PrepareSourceDatabase(p) ==
    /\ sql[view[p]] = "standalone"
    /\ \/ Step(p, "setup", "sourcePassword", "sourceCert") /\ UNCHANGED left
       \/ Step(p, "setup", "sourceCert", "pglogical") /\ left' = left \cup {"sourceCert"}
       \/ /\ view[p] \in hasDb
          /\ left' = left \cup {"pglogical"}
          /\ \E to \in {"dropPgAudit", "targetInstance"} : Step(p, "setup", "pglogical", to)
    /\ UNCHANGED <<appVars, cnrmVars, sqlVars, dmsVars>>

\* One connection to each database, and no retry.
DropPgAuditExtension(p) ==
    /\ sql[view[p]] = "standalone" /\ view[p] \in hasDb
    /\ Step(p, "setup", "dropPgAudit", "targetInstance")
    /\ UNCHANGED <<appVars, cnrmVars, sqlVars, dmsVars, left>>

\* HA, backups and point-in-time recovery go off while the target is a replica.
PrepareTargetInstance(p) ==
    /\ Resolvable(Tgt)
    /\ reduced' = TRUE
    /\ left' = left \cup {"targetNet"}
    /\ Step(p, "setup", "targetInstance", "targetPassword")
    /\ UNCHANGED <<sql, master, hasDb, fresh, near, reassigned, login, backups>>
    /\ UNCHANGED <<appVars, cnrmVars, dmsVars>>

-----------------------------------------------------------------------------
(* PrepareMigrationJob *)

Other(profile) == CHOOSE other \in Profiles \ {profile} : TRUE

\* Both profiles, in the order of a map: the step after the first deletion is
\* named after the profile still to be deleted.
DeleteOldProfile(p, profile) ==
    \/ DeleteConnectionProfile(profile, p, "setup", "deleteProfiles", Other(profile))
    \/ DeleteConnectionProfile(profile, p, "setup", profile, "createProfiles")

ToCreate(profile) == IF profile = "sourceProfile" THEN "createSource" ELSE "createTarget"

\* A profile that exists already is left as it is.
CreateConnectionProfile(p, profile) ==
    /\ left' = left \cup {profile}
    /\ \/ Step(p, "setup", "createProfiles", ToCreate(Other(profile)))
       \/ Step(p, "setup", ToCreate(profile), "createJob")
    /\ UNCHANGED <<appVars, cnrmVars, sqlVars, dmsVars>>

\* A job that exists already is taken as it is.
CreateMigrationJob(p) ==
    /\ job = "absent" => Profiles \subseteq left
    /\ job' = IF job = "absent" THEN "created" ELSE job
    /\ Step(p, "setup", "createJob", "demote")
    /\ UNCHANGED <<zeros, appVars, cnrmVars, sqlVars, left>>

\* The target becomes a replica of "<target>-master"; an error in the finished
\* operation is not looked at.
DemoteTargetInstance(p) ==
    /\ job = "created" /\ sql[Tgt] # "absent"
    /\ \/ /\ sql' = [sql EXCEPT ![Tgt] = "replica"]
          /\ master' = TRUE
          /\ hasDb' = hasDb \ {Tgt} /\ fresh' = fresh \ {Tgt} /\ near' = near \ {Tgt}
          /\ reassigned' = {}
       \/ "opFails" \in Faults /\ UNCHANGED <<sql, master, hasDb, fresh, near, reassigned>>
    /\ Step(p, "setup", "demote", "reresolve")
    /\ UNCHANGED <<reduced, login, backups, appVars, cnrmVars, dmsVars, left>>

-----------------------------------------------------------------------------

ResolveTargetAgain(p) ==
    /\ helper # "absent" /\ Resolvable(Tgt)
    /\ Step(p, "setup", "reresolve", "allow")
    /\ UNCHANGED <<appVars, cnrmVars, sqlVars, dmsVars, left>>

AddTargetOutgoingIps(p) ==
    /\ Resolvable(view[p])
    /\ left' = left \cup {"sourceIps"}
    /\ Step(p, "setup", "allow", "start")
    /\ UNCHANGED <<appVars, cnrmVars, sqlVars, dmsVars>>

\* DMS starts a job only once, on a demoted and empty target that can reach the
\* prepared source.  When only the wait for the start fails, the retry is a second
\* start: it is refused, and setup ends with an error and a job that runs.
StartMigrationJob(p) ==
    /\ job = "created"
    /\ sql[Tgt] = "replica" /\ Tgt \notin hasDb
    /\ {"sourceIps", "pglogical"} \subseteq left
    /\ job' = "dump" /\ zeros' = 0
    /\ \/ Finish(p, "setup", "start")
       \/ At(p, "setup", "start") /\ Leave(p) /\ UNCHANGED <<started, completed>>
    /\ UNCHANGED <<appVars, cnrmVars, sqlVars, left>>

SetupNext(p) ==
    \/ ResolveSource(p)
    \/ CreateHelper(p) \/ AwaitHelper(p)
    \/ DeleteHelperDatabaseResource(p) \/ DropHelperDatabase(p)
    \/ BackUpSource(p)
    \/ DisableCascadingDelete(p)
    \/ CreateNetworkPolicy(p)
    \/ PrepareSourceInstance(p) \/ PrepareSourceDatabase(p) \/ DropPgAuditExtension(p)
    \/ PrepareTargetInstance(p)
    \/ PrepareTargetDatabase(p, "setup", "deleteJob")
    \/ DeleteMigrationJob(p, "setup", "deleteJob", "deleteProfiles")
    \/ \E profile \in Profiles : DeleteOldProfile(p, profile)
    \/ \E profile \in Profiles : CreateConnectionProfile(p, profile)
    \/ CreateMigrationJob(p) \/ DemoteTargetInstance(p)
    \/ ResolveTargetAgain(p)
    \/ AddTargetOutgoingIps(p)
    \/ StartMigrationJob(p)
=============================================================================
