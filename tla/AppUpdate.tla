----------------------------- MODULE AppUpdate ------------------------------
(***************************************************************************)
(* How the programs change the Application resource: through the generic   *)
(* client, under the optimistic concurrency of Kubernetes.  Setup switches *)
(* cascading delete off with one update, promote and rollback switch the   *)
(* instance with an update of the spec, one of the status, and a wait for  *)
(* the rollout, while naiserator and the team write to the same resource.  *)
(* Migrator takes each change for one step; here it is the calls it makes. *)
(***************************************************************************)
EXTENDS Naturals

CONSTANTS
    Source, Target, \* instances; the run switches to Target
    MaxDeploys,     \* bound: deploys of the team
    MaxRuns,        \* bound: runs of the programs, which come one after the other
    Resync          \* a synchronisation hash that is the hash of nothing

ASSUME InstancesDiffer == Source # Target
ASSUME BoundsAreNumbers == MaxDeploys \in Nat /\ MaxRuns \in Nat
ASSUME ResyncIsNoHash == Resync \notin {Source, Target} \X BOOLEAN \X (0..MaxDeploys)

VARIABLES
    app,      \* the spec, and the correlation ID in the annotations
    status,   \* the synchronisation hash and state, and the correlation ID they are of
    applied,  \* the spec naiserator applied last
    current,  \* the clients whose copy has the resource's version
    copy,     \* the copy of each client
    task, pc, \* what the run is to do, and the call it makes next
    sync,     \* what naiserator does: "idle", "apply", or reports how that went
    runs,     \* the number of runs, and the correlation ID of the latest
    deploys,  \* the number of deploys, and the image of the latest
    before    \* those there were when the run began

Clients == {"run", "naiserator"}
Tasks   == {"switch", "cascadeOff"}
Calls   == {"get", "update", "updateStatus", "poll"}
States  == {"synchronized", "failed"}
vars    == <<app, status, applied, current, copy, task, pc, sync, runs, deploys, before>>

\* Correlation ID 0 stands for those of deploys.
Apps == [inst : {Source, Target}, cascade : BOOLEAN, image : 0..MaxDeploys, cor : 0..MaxRuns]

\* What naiserator synchronises for; annotations are no part of it.
Hash(a) == <<a.inst, a.cascade, a.image>>
Hashes  == {Source, Target} \X BOOLEAN \X (0..MaxDeploys)

\* Only a switch writes the status and waits.
TypeOK ==
    /\ app \in Apps /\ applied \in Apps /\ copy \in [Clients -> Apps]
    /\ status \in [hash : Hashes \cup {Resync}, cor : 0..MaxRuns, state : States]
    /\ current \subseteq Clients
    /\ task \in Tasks /\ pc \in Calls \cup {"done", "failed"}
    /\ pc \in {"updateStatus", "poll"} => task = "switch"
    /\ sync \in {"idle", "apply"} \cup States
    /\ runs \in 0..MaxRuns /\ deploys \in 0..MaxDeploys /\ before \in 0..MaxDeploys

\* An application deployed on either instance, as after an earlier migration too.
Init ==
    /\ app \in {a \in Apps : a.image = 0 /\ a.cor = 0}
    /\ status = [hash |-> Hash(app), cor |-> 0, state |-> "synchronized"] /\ applied = app
    /\ current = {} /\ copy = [c \in Clients |-> app]
    /\ task \in Tasks /\ pc = "done" /\ sync = "idle"
    /\ runs = 0 /\ deploys = 0 /\ before = 0

-----------------------------------------------------------------------------
(* The generic client *)

\* The resource as it is now.
Get(c) ==
    /\ copy' = [copy EXCEPT ![c] = app]
    /\ current' = current \cup {c}
    /\ UNCHANGED <<app, status>>

Conflict(c) == c \notin current

\* Mutant: an update without the version of the copy.
ForceUpdate(c, new) ==
    /\ app' = new /\ copy' = [copy EXCEPT ![c] = new]
    /\ current' = {c}
    /\ UNCHANGED status

\* The server takes an update of the current version only; the client gets the new
\* one back.  An update that changes nothing makes no new version.
Update(c, new) ==
    /\ ~Conflict(c)
    /\ app' = new /\ copy' = [copy EXCEPT ![c] = new]
    /\ current' = IF new = app THEN current ELSE {c}
    /\ UNCHANGED status

UpdateStatus(c, new) ==
    /\ ~Conflict(c)
    /\ status' = new
    /\ current' = IF new = status THEN current ELSE {c}
    /\ UNCHANGED <<app, copy>>

-----------------------------------------------------------------------------
(* DisableCascadingDelete and UpdateApplicationInstance *)

goal == <<task, runs, before>>
platformVars == <<applied, sync, deploys>>

StartRun ==
    /\ pc \in {"done", "failed"} /\ runs < MaxRuns
    /\ runs' = runs + 1 /\ task' \in Tasks /\ pc' = "get" /\ before' = deploys
    /\ UNCHANGED <<app, status, current, copy, platformVars>>

GetApp ==
    /\ pc = "get" /\ pc' = "update"
    /\ Get("run")
    /\ UNCHANGED <<goal, platformVars>>

Changed(a) ==
    IF task = "switch" THEN [a EXCEPT !.inst = Target, !.cascade = FALSE, !.cor = runs]
                       ELSE [a EXCEPT !.cascade = FALSE]

\* Mutant: also the one change of setup is followed by the resync.
UpdateAndResync ==
    /\ pc = "update" /\ pc' = "updateStatus"
    /\ Update("run", Changed(copy["run"]))
    /\ UNCHANGED <<goal, platformVars>>

UpdateApp ==
    /\ pc = "update" /\ pc' = IF task = "switch" THEN "updateStatus" ELSE "done"
    /\ Update("run", Changed(copy["run"]))
    /\ UNCHANGED <<goal, platformVars>>

\* Mutant: the status is left to naiserator.
LeaveStatus ==
    /\ pc = "updateStatus" /\ pc' = "poll"
    /\ UNCHANGED <<app, status, current, copy, goal, platformVars>>

ForceResync ==
    /\ pc = "updateStatus" /\ pc' = "poll"
    /\ UpdateStatus("run", [status EXCEPT !.hash = Resync])
    /\ UNCHANGED <<goal, platformVars>>

\* A conflict on either update repeats both, with a new copy.
Retry ==
    /\ pc \in {"update", "updateStatus"} /\ task = "switch"
    /\ Conflict("run")
    /\ pc' = "get"
    /\ UNCHANGED <<app, status, current, copy, goal, platformVars>>

\* Mutant: the synchronisation state is not looked at.
AwaitAnyState ==
    /\ pc = "poll" /\ status.cor = runs
    /\ pc' = "done"
    /\ UNCHANGED <<app, status, current, copy, goal, platformVars>>

AwaitRollout ==
    /\ pc = "poll" /\ status.cor = runs /\ status.state = "synchronized"
    /\ pc' = "done"
    /\ UNCHANGED <<app, status, current, copy, goal, platformVars>>

\* An error or a deadline ends the run, an unexpected conflict too.
Fail ==
    /\ pc \in Calls /\ pc' = "failed"
    /\ UNCHANGED <<app, status, current, copy, goal, platformVars>>

\* The update that failed was made all the same: its answer was lost.
LoseAnswer ==
    /\ pc = "update" /\ pc' = "failed"
    /\ Update("run", Changed(copy["run"]))
    /\ UNCHANGED <<goal, platformVars>>

-----------------------------------------------------------------------------
(* Naiserator and the team *)

runVars == <<pc, goal>>

Reconcile ==
    /\ sync = "idle" /\ status.hash # Hash(app)
    /\ sync' = "apply"
    /\ Get("naiserator")
    /\ UNCHANGED <<applied, deploys, runVars>>

Apply ==
    /\ sync = "apply" /\ sync' = "synchronized"
    /\ applied' = copy["naiserator"]
    /\ UNCHANGED <<app, status, current, copy, deploys, runVars>>

\* Nothing of it reaches the cluster.
FailToApply ==
    /\ sync = "apply" /\ sync' = "failed"
    /\ UNCHANGED <<app, status, applied, current, copy, deploys, runVars>>

\* After a conflict it begins anew, and after a failure too: the hash is left as it was.
Report ==
    /\ sync \in States /\ sync' = "idle"
    /\ IF Conflict("naiserator")
       THEN UNCHANGED <<app, status, current, copy>>
       ELSE UpdateStatus("naiserator",
                [hash  |-> IF sync = "failed" THEN status.hash ELSE Hash(copy["naiserator"]),
                 cor   |-> copy["naiserator"].cor,
                 state |-> sync])
    /\ UNCHANGED <<applied, deploys, runVars>>

\* A new image, with a manifest that names either instance.
Deploy ==
    /\ deploys < MaxDeploys
    /\ deploys' = deploys + 1
    /\ \E inst \in {Source, Target}, cascade \in BOOLEAN :
        app' = [inst |-> inst, cascade |-> cascade, image |-> deploys + 1, cor |-> 0]
    /\ current' = {}
    /\ UNCHANGED <<status, copy, applied, sync, runVars>>

Next ==
    \/ StartRun \/ GetApp \/ UpdateApp \/ ForceResync \/ Retry \/ AwaitRollout
    \/ Fail \/ LoseAnswer
    \/ Reconcile \/ Apply \/ FailToApply \/ Report
    \/ Deploy

Spec == Init /\ [][Next]_vars

\* The run and naiserator go on, and what naiserator tries again and again succeeds.
Fairness ==
    /\ WF_vars(GetApp \/ UpdateApp \/ ForceResync \/ Retry \/ AwaitRollout)
    /\ WF_vars(Reconcile) /\ SF_vars(Apply) /\ WF_vars(Report)

FairSpec == Spec /\ Fairness

-----------------------------------------------------------------------------
(* Properties *)

\* Whatever the program changes, it never takes a deploy of the team back, although
\* it writes whole resources and repeats its updates.
NoLostDeploy == app.image = deploys

\* A run that ends well has seen the target applied: a spec it wrote, and not one that
\* was deployed before it began, nor one naiserator failed to apply.
AwaitsOwnRollout ==
    [][pc = "poll" /\ pc' = "done" => applied.inst = Target \/ deploys > before]_vars

\* Also when the spec named the target before, the wait for the rollout ends, unless
\* the team deploys over it.
RolloutEnds == pc = "poll" ~> pc # "poll" \/ app.cor # runs

\* application.go: the wait is there to "make sure naiserator and sqeletor has reacted
\* before returning, so downstream resources have been updated".
SwitchRolledOut ==
    [][pc = "poll" /\ pc' = "done" => applied.inst = Target \/ app.cor # runs]_vars
=============================================================================
