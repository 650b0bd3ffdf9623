------------------------------ MODULE Platform ------------------------------
(***************************************************************************)
(* The world the migrator works on: one application, its SQL instance, the *)
(* instance it is migrated to, and what Kubernetes, Cloud SQL and the      *)
(* Database Migration Service keep about them.  Every actor other than the *)
(* four command line programs is here: naiserator (which turns Application *)
(* resources into Deployments and CNRM resources), CNRM (which turns CNRM  *)
(* resources into Cloud SQL instances), the garbage collector, DMS, and    *)
(* the application with its users.  Those are modelled from how src/ uses  *)
(* them and waits for them.                                                *)
(***************************************************************************)
EXTENDS Naturals, FiniteSets

CONSTANTS
    Src,     \* the instance the application uses before the migration
    Tgt,     \* cfg.TargetInstance.Name
    Procs,   \* slots for runs of the programs: at most one run each at a time
    Rules,   \* the rules the operator follows when starting a run
    Faults   \* what the environment may do beyond the good case

Phases == {"setup", "promote", "rollback", "finalize"}

(***************************************************************************)
(* "exclusive": no two runs overlap.  "sameProgram": only runs of the same *)
(* program overlap, as when a pod that seemed lost is replaced.            *)
(* "settled": a program is begun, not repeated, only when naiserator has   *)
(* applied the last change, and setup only when no helper application is   *)
(* being deleted.  "cascadeOff": rollback is run only when cascading       *)
(* delete is off.  No document asks for these two; Migrator says what each *)
(* is for.  The other rules are the documented order of the phases.        *)
(***************************************************************************)
AllRules == Phases \cup {"exclusive", "sameProgram", "settled", "cascadeOff"}

(***************************************************************************)
(* "opFails": the operation of a promotion, a demotion or a deletion may   *)
(* end with an error in it; "minorFails": that of a backup or a password.  *)
(* "reconcile": CNRM recreates an instance that was deleted behind its     *)
(* back.  "redeploy": the team deploys the old manifest, which asks for no *)
(* cascading delete; "redeployCascade": which asks for it.  "outside": a   *)
(* program may run outside Kubernetes.                                     *)
(***************************************************************************)
AllFaults == {"opFails", "minorFails", "reconcile", "redeploy", "redeployCascade", "outside"}

ASSUME InstancesDiffer == Src # Tgt /\ "none" \notin {Src, Tgt}
ASSUME RulesKnown == Rules \subseteq AllRules
ASSUME FaultsKnown == Faults \subseteq AllFaults

Inst == {Src, Tgt}

VARIABLES
    \* the Application resource and its Deployment
    spec,        \* the instance spec.gcp.sqlInstances[0] stands for
    named,       \* it has a name; without one it is named after the application
    cascade,     \* spec.gcp.sqlInstances[0].cascadingDelete
    asked,       \* the run whose correlation ID the spec carries, if it still waits
    synced,      \* naiserator has applied the current spec
    live,        \* the instance the deployment was last configured with
    pods,        \* "up", "stopping" (scaled to 0, pods still running) or "down"
    \* Kubernetes resources
    helper,      \* the helper Application: "absent", "present" or "deleting"
    owner,       \* who owns the CNRM SQLInstance of an instance
    policy,      \* TRUE: deleting the CNRM resources deletes what they stand for
    dbRes,       \* the CNRM SQLDatabases: "app" (it names live), "helper", and "going"
                 \* for the application's while it is being deleted
    \* Cloud SQL
    sql,         \* "absent", "standalone" or "replica"
    master,      \* the external-server stand-in "<target>-master" exists
    hasDb,       \* the instances that have the application's database
    fresh,       \* the instances with every row committed on the source
    near,        \* those that lack none but the latest: see Write and SampleLag
    reduced,     \* the target runs as prepared: without backups, HA, recovery
    reassigned,  \* the target's databases whose ownership was changed
    login,       \* the instances with the password the application uses
    backups,     \* the instances with a backup taken by the migrator
    \* Database Migration Service
    job, zeros,  \* the migration job; its latest lag samples that were zero
    left,        \* the artefacts of the migration that exist
    \* the runs of the programs, and what the operator knows of earlier runs
    phase, pc, view, started, completed

appVars  == <<spec, named, cascade, asked, synced, live, pods>>
cnrmVars == <<helper, owner, policy, dbRes>>
sqlVars  == <<sql, master, hasDb, fresh, near, reduced, reassigned, login, backups>>
dmsVars  == <<job, zeros>>
runVars  == <<phase, pc, view, started, completed>>
vars == <<appVars, cnrmVars, sqlVars, dmsVars, left, runVars>>

Profiles  == {"sourceProfile", "targetProfile"}
Certs     == {"sourceCert", "targetCert"}
Artefacts == Profiles \cup Certs \cup
             {"netpol", "sourceNet", "sourceIps", "pglogical", "targetNet"}
Databases == {"postgres", "app"}

\* The artefacts that are part of an instance.
ArtefactsOn(i) ==
    IF i = Src THEN {"sourceNet", "sourceIps", "pglogical"} ELSE {"targetNet"}

\* numberOfZeroPointsForLagToBeConsideredZero
ZeroPoints == 3

SetupSteps ==
    {"resolve", "helper", "helperRollout", "dropResource", "dropDatabase", "backup",
     "cascade", "netpol", "sourceInstance", "sourcePassword", "sourceCert", "pglogical",
     "dropPgAudit", "targetInstance", "targetPassword", "targetCert", "deleteJob",
     "deleteProfiles", "sourceProfile", "targetProfile", "createProfiles", "createSource", "createTarget", "createJob",
     "demote", "reresolve", "allow", "start"}
PromoteSteps ==
    {"resolve", "helper", "target", "ready", "scale", "promote", "lag", "wait", "restore",
     "targetPassword", "targetCert", "ownPostgres", "ownApp", "deleteHelper", "dbResource", "cnrm",
     "update", "rollout", "user", "backup"}
RollbackSteps ==
    {"scale", "deleteHelper", "deleteJob", "sourceProfile", "targetProfile", "target",
     "master", "dbResource", "cert", "waitDatabase", "update", "rollout", "user",
     "certs", "netpol"}
FinalizeSteps ==
    {"resolve", "deleteJob", "sourceProfile", "targetProfile", "master", "source",
     "networks", "certs", "netpol"}

StepsOf(ph) ==
    CASE ph = "setup"    -> SetupSteps
      [] ph = "promote"  -> PromoteSteps
      [] ph = "rollback" -> RollbackSteps
      [] ph = "finalize" -> FinalizeSteps
      [] OTHER           -> {"idle"}

DataTypeOK ==
    /\ spec \in Inst /\ live \in Inst
    /\ named \in BOOLEAN /\ cascade \in BOOLEAN /\ synced \in BOOLEAN
    /\ asked \in Procs \cup {"none"}
    /\ pods \in {"up", "stopping", "down"}
    /\ helper \in {"absent", "present", "deleting"}
    /\ owner \in [Inst -> {"none", "helper", "app"}]
    /\ policy \in [Inst -> BOOLEAN]
    /\ dbRes \subseteq {"app", "helper", "going"}
    /\ sql \in [Inst -> {"absent", "standalone", "replica"}]
    /\ master \in BOOLEAN /\ reduced \in BOOLEAN
    /\ hasDb \subseteq Inst /\ fresh \subseteq Inst /\ near \subseteq Inst
    /\ login \subseteq Inst /\ backups \subseteq Inst
    /\ reassigned \subseteq Databases
    /\ job \in {"absent", "created", "dump", "cdc", "promoting", "completed", "failed"}
    /\ zeros \in 0..ZeroPoints
    /\ left \subseteq Artefacts

RunTypeOK ==
    /\ phase \in [Procs -> Phases \cup {"none"}]
    /\ DOMAIN pc = Procs /\ \A p \in Procs : pc[p] \in StepsOf(phase[p])
    /\ view \in [Procs -> Inst]
    /\ started \subseteq Phases /\ completed \subseteq Phases

\* Every variable has its type, and a run is at a step of its own program.
TypeOK == DataTypeOK /\ RunTypeOK

\* An application deployed by naiserator on Src; its manifest may leave the
\* instance unnamed and may ask for cascading delete.
Init ==
    /\ spec = Src /\ live = Src /\ synced = TRUE /\ asked = "none" /\ pods = "up"
    /\ named \in BOOLEAN /\ cascade \in BOOLEAN
    /\ helper = "absent"
    /\ owner  = [i \in Inst |-> IF i = Src THEN "app" ELSE "none"]
    /\ policy = [i \in Inst |-> i = Src /\ cascade]
    /\ dbRes = {"app"}
    /\ sql = [i \in Inst |-> IF i = Src THEN "standalone" ELSE "absent"]
    /\ master = FALSE /\ reduced = FALSE
    /\ hasDb = {Src} /\ fresh = {Src} /\ near = {Src} /\ login = {Src}
    /\ reassigned = {} /\ backups = {}
    /\ job = "absent" /\ zeros = 0
    /\ left = {}
    /\ phase = [p \in Procs |-> "none"]
    /\ pc = [p \in Procs |-> "idle"]
    /\ view = [p \in Procs |-> Src]
    /\ started = {} /\ completed = {}

-----------------------------------------------------------------------------
(* Control of a run *)

At(p, ph, s) == phase[p] = ph /\ pc[p] = s

\* A program goes from one numbered step of its main function to the next.
Advance(p, ph, from, to) ==
    /\ At(p, ph, from)
    /\ pc' = [pc EXCEPT ![p] = to]
    /\ UNCHANGED <<phase, started, completed>>

Step(p, ph, from, to) == Advance(p, ph, from, to) /\ UNCHANGED view

Begin(p, ph, first) ==
    /\ phase[p] = "none"
    /\ phase' = [phase EXCEPT ![p] = ph]
    /\ pc' = [pc EXCEPT ![p] = first]
    /\ started' = started \cup {ph}
    /\ completed' = completed \ {ph, "rollback"}
    /\ UNCHANGED <<view, appVars, cnrmVars, sqlVars, dmsVars, left>>

Leave(p) ==
    /\ phase' = [phase EXCEPT ![p] = "none"]
    /\ pc' = [pc EXCEPT ![p] = "idle"]
    /\ view' = [view EXCEPT ![p] = Src]

\* The last step of a program; a complete rollback makes a new migration possible.
Finish(p, ph, from) ==
    /\ At(p, ph, from)
    /\ Leave(p)
    /\ started' = IF ph = "rollback" THEN {} ELSE started
    /\ completed' = IF ph = "rollback" THEN {ph} ELSE completed \cup {ph}

\* os.Exit on an error or at the deadline of the context, or the pod is killed:
\* nothing done so far is undone.
Exit(p) ==
    /\ phase[p] # "none"
    /\ Leave(p)
    /\ asked' = IF asked = p THEN "none" ELSE asked
    /\ UNCHANGED <<started, completed, spec, named, cascade, synced, live, pods>>
    /\ UNCHANGED <<cnrmVars, sqlVars, dmsVars, left>>

-----------------------------------------------------------------------------
(* Naiserator, CNRM and the garbage collector *)

\* The helper application makes naiserator create the target's CNRM resources and
\* CNRM the instance with its database, with backups on; DefineInstance asks for no
\* cascading delete.
HelperReconcile ==
    /\ helper = "present" /\ owner[Tgt] = "none"
    /\ owner' = [owner EXCEPT ![Tgt] = "helper"]
    /\ policy' = [policy EXCEPT ![Tgt] = FALSE]
    /\ dbRes' = dbRes \cup {"helper"}
    /\ sql' = [sql EXCEPT ![Tgt] = IF @ = "absent" THEN "standalone" ELSE @]
    /\ hasDb' = hasDb \cup {Tgt}
    /\ reduced' = FALSE
    /\ UNCHANGED <<helper, master, fresh, near, reassigned, login, backups>>
    /\ UNCHANGED <<appVars, dmsVars, left, runVars>>

\* The application's SQLDatabase is gone.  CNRM drops the database behind a resource it
\* was not told to abandon.
DatabaseCollected ==
    LET lost == {i \in {live} : policy[i]}
    IN  /\ "going" \in dbRes
        /\ dbRes' = dbRes \ {"going"}
        /\ hasDb' = hasDb \ lost /\ fresh' = fresh \ lost /\ near' = near \ lost
        /\ UNCHANGED <<helper, owner, policy, sql, master, reduced, reassigned>>
        /\ UNCHANGED <<login, backups, appVars, dmsVars, left, runVars>>

\* Foreground deletion removes what the helper application owns, then itself.
HelperCollected ==
    /\ helper = "deleting"
    /\ helper' = "absent"
    /\ owner' = [owner EXCEPT ![Tgt] = IF @ = "helper" THEN "none" ELSE @]
    /\ dbRes' = dbRes \ {"helper"}
    /\ UNCHANGED <<policy, appVars, sqlVars, dmsVars, left, runVars>>

(***************************************************************************)
(* Naiserator applies the application's spec: it adopts or creates the     *)
(* resources of the instance it names, deletes those of an instance it no  *)
(* longer names, and applies the Deployment, which starts the pods again.  *)
(* It cannot adopt a resource another application owns, nor make an        *)
(* SQLDatabase name another instance, nor replace one that is still going. *)
(***************************************************************************)
AppReconcile ==
    LET dropped == {i \in Inst \ {spec} : owner[i] = "app" /\ policy[i]}
    IN  /\ ~synced
        /\ owner[spec] # "helper"
        /\ dbRes \cap {"app", "going"} # {} => live = spec
        /\ synced' = TRUE /\ live' = spec /\ pods' = "up"
        /\ owner' = [i \in Inst |-> IF i = spec THEN "app"
                                    ELSE IF owner[i] = "app" THEN "none" ELSE owner[i]]
        /\ policy' = [policy EXCEPT ![spec] = cascade]
        /\ dbRes' = IF "going" \in dbRes THEN dbRes ELSE dbRes \cup {"app"}
        /\ sql' = [i \in Inst |-> IF i \in dropped THEN "absent"
                                  ELSE IF i = spec /\ sql[i] = "absent" THEN "standalone"
                                  ELSE sql[i]]
        /\ hasDb' = (hasDb \ dropped) \cup {spec}
        /\ fresh' = fresh \ dropped /\ near' = near \ dropped
        /\ login' = (login \ dropped) \ (IF spec = live THEN {} ELSE {spec})
        /\ backups' = backups \ dropped
        /\ reduced' = (reduced /\ spec # Tgt)
        /\ reassigned' = IF Tgt \in dropped THEN {} ELSE reassigned
        /\ left' = left \ UNION {ArtefactsOn(i) : i \in dropped}
        /\ UNCHANGED <<spec, named, cascade, asked, helper, master, dmsVars, runVars>>

\* CNRM recreates, empty, an instance whose CNRM resource still exists.
InstanceReconcile(i) ==
    /\ "reconcile" \in Faults
    /\ owner[i] # "none" /\ sql[i] = "absent"
    /\ sql' = [sql EXCEPT ![i] = "standalone"]
    /\ UNCHANGED <<master, hasDb, fresh, near, reduced, reassigned, login, backups>>
    /\ UNCHANGED <<appVars, cnrmVars, dmsVars, left, runVars>>

\* The team deploys its manifest, which still stands for the old instance and may
\* turn cascading delete on again.
Redeploy ==
    /\ cascade' \in {on \in BOOLEAN : (IF on THEN "redeployCascade" ELSE "redeploy") \in Faults}
    /\ spec' = Src /\ named' \in BOOLEAN /\ asked' = "none" /\ synced' = FALSE
    /\ UNCHANGED <<live, pods, cnrmVars, sqlVars, dmsVars, left, runVars>>

-----------------------------------------------------------------------------
(* The application *)

PodsStop ==
    /\ pods = "stopping"
    /\ pods' = "down"
    /\ UNCHANGED <<spec, named, cascade, asked, synced, live, cnrmVars, sqlVars, dmsVars, left, runVars>>

\* A row is committed on the source: no other instance has every row any more.  While
\* the job replicates, or by pods that are being stopped, it is one of the latest rows:
\* the target may have been complete just before, and no lag point shows it yet.
Write ==
    /\ pods # "down" /\ live = Src
    /\ sql[Src] = "standalone" /\ Src \in hasDb
    /\ fresh' = fresh \cap {Src}
    /\ near' = IF job = "cdc" \/ pods = "stopping" THEN near ELSE near \cap {Src}
    /\ UNCHANGED <<sql, master, hasDb, reduced, reassigned, login, backups>>
    /\ UNCHANGED <<appVars, cnrmVars, dmsVars, left, runVars>>

-----------------------------------------------------------------------------
(* The Database Migration Service *)

DumpDone ==
    /\ job = "dump"
    /\ sql[Src] = "standalone" /\ Src \in hasDb /\ sql[Tgt] = "replica"
    /\ job' = "cdc"
    /\ hasDb' = hasDb \cup {Tgt}
    /\ UNCHANGED <<sql, master, fresh, near, reduced, reassigned, login, backups>>
    /\ UNCHANGED <<zeros, appVars, cnrmVars, left, runVars>>

CatchUp ==
    /\ job = "cdc"
    /\ Src \in fresh /\ sql[Src] = "standalone"
    /\ sql[Tgt] = "replica" /\ Tgt \in hasDb
    /\ fresh' = fresh \cup {Tgt} /\ near' = near \cup {Tgt}
    /\ UNCHANGED <<sql, master, hasDb, reduced, reassigned, login, backups>>
    /\ UNCHANGED <<appVars, cnrmVars, dmsVars, left, runVars>>

\* Cloud Monitoring shows one point of max_replica_byte_lag per minute, measured some
\* time ago: a point is zero if the target was complete then, whatever was committed
\* since.  The first that is not zero shows that the rows missing are not the latest.
SampleLag ==
    /\ job = "cdc"
    /\ \/ /\ Tgt \in near
          /\ zeros' = IF zeros < ZeroPoints THEN zeros + 1 ELSE zeros
          /\ UNCHANGED near
       \/ /\ Tgt \notin fresh
          /\ zeros' = 0 /\ near' = near \ {Tgt}
    /\ UNCHANGED <<sql, master, hasDb, fresh, reduced, reassigned, login, backups>>
    /\ UNCHANGED <<job, appVars, cnrmVars, left, runVars>>

\* The promote operation is done, or done with an error in it.
PromotionDone ==
    /\ job = "promoting"
    /\ \/ job' = "completed" /\ sql' = [sql EXCEPT ![Tgt] = IF @ = "replica" THEN "standalone" ELSE @]
       \/ "opFails" \in Faults /\ job' = "failed" /\ UNCHANGED sql
    /\ UNCHANGED <<master, hasDb, fresh, near, reduced, reassigned, login, backups>>
    /\ UNCHANGED <<zeros, appVars, cnrmVars, left, runVars>>

Environment ==
    \/ HelperReconcile \/ HelperCollected \/ AppReconcile \/ DatabaseCollected \/ Redeploy
    \/ \E i \in Inst : InstanceReconcile(i)
    \/ PodsStop \/ Write
    \/ DumpDone \/ CatchUp \/ SampleLag \/ PromotionDone
=============================================================================
