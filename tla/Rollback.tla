------------------------------ MODULE Rollback ------------------------------
(***************************************************************************)
(* cmd/rollback: remove everything a migration made, the target included,  *)
(* and have the application use the source again.                          *)
(***************************************************************************)
EXTENDS Operations

\* Mutant: the comparison is the wrong way round.
ScaleUnlessSwitched(p) ==
    /\ pods' = IF spec = Src THEN ScaledDown ELSE pods
    /\ Step(p, "rollback", "scale", "deleteHelper")
    /\ UNCHANGED <<spec, named, cascade, asked, synced, live, cnrmVars, sqlVars, dmsVars, left>>

\* Only an application whose spec does not name the source is scaled down; also
\* one that uses the source and leaves it unnamed.
ScaleIfSwitched(p) ==
    /\ pods' = IF spec # Src \/ ~named THEN ScaledDown ELSE pods
    /\ Step(p, "rollback", "scale", "deleteHelper")
    /\ UNCHANGED <<spec, named, cascade, asked, synced, live, cnrmVars, sqlVars, dmsVars, left>>

\* Certificates cannot be listed on an instance that is gone.
DeleteSourceCert(p) ==
    /\ sql[Src] # "absent"
    /\ Step(p, "rollback", "cert", "waitDatabase")
    /\ UNCHANGED <<appVars, cnrmVars, sqlVars, dmsVars, left>>

\* Also a resource that is being deleted is still listed.
AwaitDatabaseResourceGone(p) ==
    /\ dbRes \cap {"app", "going"} = {}
    /\ Step(p, "rollback", "waitDatabase", "update")
    /\ UNCHANGED <<appVars, cnrmVars, sqlVars, dmsVars, left>>

RollbackNext(p) ==
    \/ ScaleIfSwitched(p)
    \/ DeleteHelperApplication(p, "rollback", "deleteHelper", "deleteJob")
    \/ DeleteMigrationJob(p, "rollback", "deleteJob", "sourceProfile")
    \/ CleanupConnectionProfile("sourceProfile", p, "rollback", "sourceProfile", "targetProfile")
    \/ CleanupConnectionProfile("targetProfile", p, "rollback", "targetProfile", "target")
    \/ DeleteInstance(Tgt, p, "rollback", "target", "master")
    \/ DeleteMasterInstance(TRUE, p, "rollback", "master", "dbResource")
    \/ DeleteTargetDatabaseResource(p, "rollback", "dbResource", "cert")
    \/ DeleteSourceCert(p)
    \/ AwaitDatabaseResourceGone(p)
    \/ UpdateApplicationInstance(Src, p, "rollback", "update", "rollout")
    \/ AwaitRollout(Src, p, "rollback", "rollout", "user")
    \/ UpdateApplicationUser(Src, p, "rollback", "user", "certs")
    \/ DeleteSslCerts(p, "rollback", "certs", "netpol")
    \/ DeleteNetworkPolicies(p, "rollback", "netpol")
=============================================================================
