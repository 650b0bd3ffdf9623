------------------------------ MODULE Promote -------------------------------
(***************************************************************************)
(* cmd/promote: scale the application down, promote the replica once its   *)
(* lag is zero, delete the helper application, and switch the application  *)
(* to the target.  A run that finds no helper application takes an earlier *)
(* run to have done everything up to its deletion.                         *)
(***************************************************************************)
EXTENDS Operations

\* The helper application decides which half of the program is left to do.
GetHelper(p) ==
    /\ Step(p, "promote", "helper", IF helper = "absent" THEN "dbResource" ELSE "target")
    /\ UNCHANGED <<appVars, cnrmVars, sqlVars, dmsVars, left>>

ResolveTarget(p) ==
    /\ Resolvable(Tgt)
    /\ Step(p, "promote", "target", "ready")
    /\ UNCHANGED <<appVars, cnrmVars, sqlVars, dmsVars, left>>

\* The job is looked up by the names of source and target; a running one has to
\* have an acceptable lag, which comes and goes.
CheckReadyForPromotion(p) ==
    /\ view[p] = Src
    /\ job \in {"cdc", "promoting", "completed"}
    /\ Step(p, "promote", "ready", "scale")
    /\ UNCHANGED <<appVars, cnrmVars, sqlVars, dmsVars, left>>

-----------------------------------------------------------------------------
(* Promote *)

\* Mutant: the lag of the first check is enough.
LagAcceptablyLow == TRUE

\* Three zero points in a row, whatever their age, and whether or not the pods that
\* were told to stop have stopped.
LagReachedZero == zeros = ZeroPoints

\* The job's state is read once, before the wait for the lag: a promotion that is
\* under way or done is continued.
InspectJob(p) ==
    /\ view[p] = Src /\ job # "absent"
    /\ Step(p, "promote", "promote",
            IF job \in {"promoting", "completed"} THEN "wait" ELSE "lag")
    /\ UNCHANGED <<appVars, cnrmVars, sqlVars, dmsVars, left>>

\* DMS promotes only a job that replicates.
StartPromotion(p) ==
    /\ job = "cdc" /\ LagReachedZero
    /\ job' = "promoting"
    /\ Step(p, "promote", "lag", "wait")
    /\ UNCHANGED <<zeros, appVars, cnrmVars, sqlVars, left>>

\* The operation is done; an error in it is not looked at.
AwaitPromotion(p) ==
    /\ job # "promoting"
    /\ Step(p, "promote", "wait", "restore")
    /\ UNCHANGED <<appVars, cnrmVars, sqlVars, dmsVars, left>>

\* HA and point-in-time recovery as the source has them.
UpdateTargetInstanceAfterPromotion(p) ==
    /\ Resolvable(view[p]) /\ Resolvable(Tgt)
    /\ reduced' = FALSE
    /\ Step(p, "promote", "restore", "targetPassword")
    /\ UNCHANGED <<sql, master, hasDb, fresh, near, reassigned, login, backups>>
    /\ UNCHANGED <<appVars, cnrmVars, dmsVars, left>>

-----------------------------------------------------------------------------

\* Ownership cannot be reassigned in the read-only databases of a replica.
ChangeOwnership(database, p, from, to) ==
    /\ sql[Tgt] = "standalone" /\ Tgt \in hasDb
    /\ reassigned' = reassigned \cup {database}
    /\ Step(p, "promote", from, to)
    /\ UNCHANGED <<sql, master, hasDb, fresh, near, reduced, login, backups>>
    /\ UNCHANGED <<appVars, cnrmVars, dmsVars, left>>

\* Mutant: the helper application is deleted with one database still to do.
DeleteHelperEarly(p) ==
    \/ ChangeOwnership("postgres", p, "ownPostgres", "deleteHelper")
    \/ DeleteHelperApplication(p, "promote", "deleteHelper", "ownApp")
    \/ ChangeOwnership("app", p, "ownApp", "dbResource")

\* With the helper application the sign is gone that this half is still to do.
TakeOverTarget(p) ==
    \/ ChangeOwnership("postgres", p, "ownPostgres", "ownApp")
    \/ ChangeOwnership("app", p, "ownApp", "deleteHelper")
    \/ DeleteHelperApplication(p, "promote", "deleteHelper", "dbResource")

\* The target's CNRM resources are gone, or the application's already.
AwaitCnrmHandover(p) ==
    /\ owner[Tgt] # "helper"
    /\ Step(p, "promote", "cnrm", "update")
    /\ UNCHANGED <<appVars, cnrmVars, sqlVars, dmsVars, left>>

BackUpTarget(p) ==
    /\ sql[Tgt] # "absent"
    /\ backups' \in BackedUp(Tgt)
    /\ Finish(p, "promote", "backup")
    /\ UNCHANGED <<sql, master, hasDb, fresh, near, reduced, reassigned, login>>
    /\ UNCHANGED <<appVars, cnrmVars, dmsVars, left>>

PromoteNext(p) ==
    \/ ResolveAppInstance(p, "promote", "resolve", "helper")
    \/ GetHelper(p) \/ ResolveTarget(p) \/ CheckReadyForPromotion(p)
    \/ ScaleApplication(p, "promote", "scale", "promote")
    \/ InspectJob(p) \/ StartPromotion(p) \/ AwaitPromotion(p)
    \/ UpdateTargetInstanceAfterPromotion(p)
    \/ PrepareTargetDatabase(p, "promote", "ownPostgres")
    \/ TakeOverTarget(p)
    \/ DeleteTargetDatabaseResource(p, "promote", "dbResource", "cnrm")
    \/ AwaitCnrmHandover(p)
    \/ UpdateApplicationInstance(Tgt, p, "promote", "update", "rollout")
    \/ AwaitRollout(Tgt, p, "promote", "rollout", "user")
    \/ UpdateApplicationUser(Tgt, p, "promote", "user", "backup")
    \/ BackUpTarget(p)
=============================================================================
