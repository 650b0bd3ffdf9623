------------------------------ MODULE Finalize ------------------------------
(***************************************************************************)
(* cmd/finalize: delete what is not needed after a migration, the source   *)
(* instance included.  The target is the instance the application uses;    *)
(* the source is the one the operator names.                               *)
(***************************************************************************)
EXTENDS Operations

\* Mutant: the job is named after the source only, and so never found.
LookForOtherJob(p) ==
    /\ Step(p, "finalize", "deleteJob", "sourceProfile")
    /\ UNCHANGED <<appVars, cnrmVars, sqlVars, dmsVars, left>>

\* The job is named after source and target: with the source as target there is
\* no such job, and a job that is not there is fine.
DeleteFinishedJob(p) ==
    IF view[p] = Tgt
    THEN DeleteMigrationJob(p, "finalize", "deleteJob", "sourceProfile")
    ELSE /\ Step(p, "finalize", "deleteJob", "sourceProfile")
         /\ UNCHANGED <<appVars, cnrmVars, sqlVars, dmsVars, left>>

\* removeMigrationAuthNetwork asks whether the prefix "migrator:" starts with the
\* name of a network: it removes none of the networks the migrator added.
CleanupAuthNetworks(p) ==
    /\ Resolvable(view[p])
    /\ Step(p, "finalize", "networks", "certs")
    /\ UNCHANGED <<appVars, cnrmVars, sqlVars, dmsVars, left>>

FinalizeNext(p) ==
    \/ ResolveAppInstance(p, "finalize", "resolve", "deleteJob")
    \/ DeleteFinishedJob(p)
    \/ CleanupConnectionProfile("sourceProfile", p, "finalize", "sourceProfile", "targetProfile")
    \/ CleanupConnectionProfile("targetProfile", p, "finalize", "targetProfile", "master")
    \/ DeleteMasterInstance(view[p] = Tgt, p, "finalize", "master", "source")
    \/ DeleteInstance(Src, p, "finalize", "source", "networks")
    \/ CleanupAuthNetworks(p)
    \/ DeleteSslCerts(p, "finalize", "certs", "netpol")
    \/ DeleteNetworkPolicies(p, "finalize", "netpol")
=============================================================================
