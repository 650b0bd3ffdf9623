----------------------------- MODULE Operations -----------------------------
(***************************************************************************)
(* The operations of internal/pkg that more than one program calls, as     *)
(* steps of a run: p makes the step "from" of phase ph and goes to "to".   *)
(* A call that waits is enabled when what it waits for has happened; when  *)
(* it never does, the deadline of the retry loop ends the run (Exit).      *)
(***************************************************************************)
EXTENDS Platform

(* internal/pkg/resolved *)

\* The SQLInstance exists in Kubernetes and CNRM reports it up to date; where an update
\* failed on the private network of an existing instance, the loop first takes the
\* reference to that network out, which is none of the settings modelled.  The secret
\* has to carry the correlation ID of the application that was read: naiserator writes
\* both at once, and a deploy in between means that the wait is in vain (Exit).
Resolvable(i) == owner[i] # "none" /\ sql[i] # "absent"

\* The instance the application's spec names now; the run keeps that name.
ResolveAppInstance(p, ph, from, to) ==
    /\ Resolvable(spec)
    /\ view' = [view EXCEPT ![p] = spec]
    /\ Advance(p, ph, from, to)
    /\ UNCHANGED <<appVars, cnrmVars, sqlVars, dmsVars, left>>

-----------------------------------------------------------------------------
(* internal/pkg/application *)

\* Replicas are set to 0; nothing waits for the pods to be gone.
ScaledDown == IF pods = "up" THEN "stopping" ELSE pods

\* Mutant: the update of the scale is lost.
KeepScale(p, ph, from, to) ==
    /\ Step(p, ph, from, to)
    /\ UNCHANGED <<appVars, cnrmVars, sqlVars, dmsVars, left>>

ScaleApplication(p, ph, from, to) ==
    /\ pods' = ScaledDown
    /\ Step(p, ph, from, to)
    /\ UNCHANGED <<spec, named, cascade, asked, synced, live, cnrmVars, sqlVars, dmsVars, left>>

\* Mutant: the synchronisation hash is kept, so that nothing is synchronised.
UpdateWithoutResync(i, p, ph, from, to) ==
    /\ spec' = i /\ named' = TRUE /\ cascade' = FALSE /\ asked' = p
    /\ Step(p, ph, from, to)
    /\ UNCHANGED <<synced, live, pods, cnrmVars, sqlVars, dmsVars, left>>

\* The spec gets the new instance, without cascading delete, and a new
\* correlation ID, so that naiserator has to synchronise it.
UpdateApplicationInstance(i, p, ph, from, to) ==
    /\ spec' = i /\ named' = TRUE /\ cascade' = FALSE /\ asked' = p /\ synced' = FALSE
    /\ Step(p, ph, from, to)
    /\ UNCHANGED <<live, pods, cnrmVars, sqlVars, dmsVars, left>>

\* The end of UpdateApplicationInstance: the correlation ID comes back with a
\* completed rollout (never, once another run has set its own), and the instance
\* resolves.
AwaitRollout(i, p, ph, from, to) ==
    /\ synced /\ asked = p
    /\ Resolvable(i)
    /\ asked' = "none"
    /\ Step(p, ph, from, to)
    /\ UNCHANGED <<spec, named, cascade, synced, live, pods, cnrmVars, sqlVars, dmsVars, left>>

\* An error in the finished operation is not looked at.
UpdateApplicationUser(i, p, ph, from, to) ==
    /\ owner[i] = "app" /\ sql[i] # "absent"
    /\ login' \in {login \cup {i}} \cup (IF "minorFails" \in Faults THEN {login} ELSE {})
    /\ Step(p, ph, from, to)
    /\ UNCHANGED <<sql, master, hasDb, fresh, near, reduced, reassigned, backups>>
    /\ UNCHANGED <<appVars, cnrmVars, dmsVars, left>>

\* Foreground deletion is asked for and not waited for.
DeleteHelperApplication(p, ph, from, to) ==
    /\ helper' = IF helper = "present" THEN "deleting" ELSE helper
    /\ Step(p, ph, from, to)
    /\ UNCHANGED <<owner, policy, dbRes, appVars, sqlVars, dmsVars, left>>

-----------------------------------------------------------------------------
(* internal/pkg/backup *)

\* The loop ends when the operation is DONE, whatever its outcome.
BackedUp(i) == {backups \cup {i}} \cup (IF "minorFails" \in Faults THEN {backups} ELSE {})

-----------------------------------------------------------------------------
(* internal/pkg/migration and the connection profiles *)

\* DMS deletes no job in the middle of its promotion; a missing job is fine.
DeleteMigrationJob(p, ph, from, to) ==
    /\ job # "promoting"
    /\ job' = "absent" /\ zeros' = 0
    /\ Step(p, ph, from, to)
    /\ UNCHANGED <<appVars, cnrmVars, sqlVars, left>>

\* A profile an active job uses cannot be deleted.
ProfilesFree == job \in {"absent", "completed", "failed"}

DeleteConnectionProfile(profile, p, ph, from, to) ==
    /\ profile \in left => ProfilesFree
    /\ left' = left \ {profile}
    /\ Step(p, ph, from, to)
    /\ UNCHANGED <<appVars, cnrmVars, sqlVars, dmsVars>>

\* Rollback and finalize do not wait for the operation, so that its error goes unseen.
CleanupConnectionProfile(profile, p, ph, from, to) ==
    \/ DeleteConnectionProfile(profile, p, ph, from, to)
    \/ /\ "opFails" \in Faults /\ ProfilesFree
       /\ Step(p, ph, from, to)
       /\ UNCHANGED <<appVars, cnrmVars, sqlVars, dmsVars, left>>

-----------------------------------------------------------------------------
(* internal/pkg/instance *)

\* What is gone with an instance of Cloud SQL.
InstanceGone(i) ==
    /\ sql' = [sql EXCEPT ![i] = "absent"]
    /\ hasDb' = hasDb \ {i} /\ fresh' = fresh \ {i} /\ near' = near \ {i}
    /\ login' = login \ {i} /\ backups' = backups \ {i}
    /\ reassigned' = IF i = Tgt THEN {} ELSE reassigned
    /\ reduced' = (reduced /\ i # Tgt)
    /\ left' = left \ ArtefactsOn(i)

\* Straight in Cloud SQL: whoever uses it, and whether or not a CNRM resource
\* still stands for it.  A missing instance is fine, and the operation is not waited
\* for, so that its error goes unseen.
DeleteInstance(i, p, ph, from, to) ==
    /\ \/ InstanceGone(i)
       \/ "opFails" \in Faults /\ UNCHANGED <<sql, hasDb, fresh, near, reduced, reassigned, login, backups, left>>
    /\ Step(p, ph, from, to)
    /\ UNCHANGED <<master, appVars, cnrmVars, dmsVars>>

\* "<target>-master", the stand-in DMS made for the source.
DeleteMasterInstance(exists, p, ph, from, to) ==
    /\ \/ master' = (master /\ ~exists)
       \/ "opFails" \in Faults /\ UNCHANGED master
    /\ Step(p, ph, from, to)
    /\ UNCHANGED <<sql, hasDb, fresh, near, reduced, reassigned, login, backups>>
    /\ UNCHANGED <<appVars, cnrmVars, dmsVars, left>>

\* SQLSSLCert and NetworkPolicy resources carry the label of the migration.
DeleteSslCerts(p, ph, from, to) ==
    /\ left' = left \ Certs
    /\ Step(p, ph, from, to)
    /\ UNCHANGED <<appVars, cnrmVars, sqlVars, dmsVars>>

\* The programs that clean up end with the network policies.
DeleteNetworkPolicies(p, ph, from) ==
    /\ left' = left \ {"netpol"}
    /\ Finish(p, ph, from)
    /\ UNCHANGED <<appVars, cnrmVars, sqlVars, dmsVars>>

-----------------------------------------------------------------------------
(* internal/pkg/database *)

\* Mutant: the label of the helper application selects the resources.
DeleteOfHelperLabel(p, ph, from, to) ==
    /\ dbRes' = dbRes \ {"helper"}
    /\ Step(p, ph, from, to)
    /\ UNCHANGED <<helper, owner, policy, appVars, sqlVars, dmsVars, left>>

\* Deletion of the SQLDatabase resources labelled with the application is asked for:
\* they go in their own time (DatabaseCollected), which only rollback waits for.
DeleteTargetDatabaseResource(p, ph, from, to) ==
    /\ dbRes' = IF "app" \in dbRes THEN (dbRes \ {"app"}) \cup {"going"} ELSE dbRes
    /\ Step(p, ph, from, to)
    /\ UNCHANGED <<helper, owner, policy, appVars, sqlVars, dmsVars, left>>

\* A password for the postgres user, and a certificate to connect with.
PrepareTargetDatabase(p, ph, to) ==
    /\ sql[Tgt] # "absent"
    /\ \/ Step(p, ph, "targetPassword", "targetCert") /\ UNCHANGED left
       \/ Step(p, ph, "targetCert", to) /\ left' = left \cup {"targetCert"}
    /\ UNCHANGED <<appVars, cnrmVars, sqlVars, dmsVars>>
=============================================================================
