# A verification of cloudsql-migrator

`cloudsql-migrator` moves a NAIS application from one Cloud SQL instance (the
*source*) to another (the *target*) with the Database Migration Service (DMS).
It is four command line programs, `setup`, `promote`, `rollback` and
`finalize`, which an operator runs one after the other. Each is a list of
numbered steps with retries inside and `os.Exit` at the first failure. Nothing
is persisted by the programs themselves: what a run finds out about earlier runs
it reads from Kubernetes, Cloud SQL and DMS. The interesting questions are what
happens when a program stops half way, is repeated, overlaps with another run,
or meets a platform that is slower than it expects, and whether the data and the
application survive that.

This directory holds a TLA+ model of all four programs with their platform, two
closer looks at what one step of it does (the gate on the replication lag, and the
update of the Application), TLC runs, and proofs for any number of runs. Paths below
are relative to `src/`.

## 1. The system

### Components

| Component | Source | State it reads and writes | Operations |
|---|---|---|---|
| setup | `cmd/setup/main.go` | everything below | 14 numbered steps |
| promote | `cmd/promote/main.go` | everything below | two halves, chosen by the helper application's presence |
| rollback | `cmd/rollback/main.go` | everything below | 17 numbered steps |
| finalize | `cmd/finalize/main.go` | everything below | 10 numbered steps |
| application | `internal/pkg/application` | Application resource, Deployment scale, SQLUser | scale, switch the instance and await the rollout, update the user, delete the helper, turn cascading delete off |
| promotion gate | `internal/pkg/promote` | migration job, lag metric | ready check, wait for lag, promote |
| backup | `internal/pkg/backup` | backup runs | create |
| migration job | `internal/pkg/migration` | DMS migration job | prepare (delete, create, demote), start, delete, get |
| instances | `internal/pkg/instance/instance.go` | helper Application, SQLInstance, Cloud SQL instance | create, define, prepare, allow networks, wait, restore, delete |
| profiles | `internal/pkg/instance/profile.go` | DMS connection profiles | delete and create both |
| certificates | `internal/pkg/instance/certificate.go` | SQLSSLCert, Cloud SQL certificates | create, delete |
| databases | `internal/pkg/database` | SQLDatabase, databases, users | delete the helper's database, install pglogical, set passwords, change ownership |
| resolved | `internal/pkg/resolved` | SQLInstance (the reference to its private network), secrets | resolve names, addresses, secrets; take out a private network that an update failed on |
| network policy | `internal/pkg/netpol` | NetworkPolicy | create |
| client, config, manager | `internal/pkg/{k8s,config,common_main}` | none | build clients, read the environment |

### How they interact

The programs call no other program. They share the Kubernetes API, the Cloud SQL
Admin API and DMS with naiserator (which turns an Application into a Deployment
and CNRM resources), CNRM (which turns those into Cloud SQL instances,
databases and users), the garbage collector, DMS, the pods of the application,
and other runs of the programs.

* Setup creates a *helper application* so that naiserator and CNRM create the
  target. Promote deletes it so that the application can take its resources over;
  its absence tells a later promote that this has happened.
* Promote and rollback change the instance in the Application resource and wait
  until naiserator reports their own correlation ID. Applying the Application also
  resets the scale of the Deployment, which ends the downtime.
* Finalize and rollback delete instances straight in Cloud SQL, behind CNRM's back.
* Certificates, profiles and policies are found again by name or by label.

### What is hard

* A run may end after any step (error, deadline, killed pod); nothing is undone.
* Calls that are not waited for: scaling down, turning cascading delete off, foreground
  deletion of the helper and of the `SQLDatabase`, deletion of an instance or, in rollback
  and finalize, of a profile.
* Operations that end with an error in them, which no loop reads.
* Lag samples that are older than the last write.
* Two runs of one program, and programs run out of order.
* Deploys by the team in the middle of a migration, and writes to the same resources
  by naiserator.
* Updates that are repeated after a conflict, and whose answer may be lost.
* What one step takes away from an instance for the migration and a later step, maybe
  of a later run, has to put back.

### What makes it correct

1. The application runs only on an instance that lacks no committed row but the latest, those
   younger than the lag points that opened the gate; the source has every row until finalize.
2. Until finalize there is a way back; no instance is deleted under the pods.
3. From the start of the promotion on, the source has no pods but those being stopped.
4. A program that completes has delivered all it is for, however many runs it took.
5. Downtime ends.
6. The job connects with the password in force, to a replica that has nothing DMS
   cannot handle; after the switch the target has what the application asks for.
   (The first of these is proved and not run, see section 4.)
7. No update takes back a deploy of the team.

## 2. The modules

| Module | Models | Lines of |
|---|---|---|
| `Platform` | the state of Kubernetes, Cloud SQL, DMS and the application; naiserator, CNRM, the garbage collector, DMS and the pods; how a run begins, steps, finishes and stops | how `src/` uses them; `main` |
| `Operations` | operations several programs share, as steps of a run | `internal/pkg/*` |
| `Setup`, `Promote`, `Rollback`, `Finalize` | one program each | `cmd/*` and what only it calls |
| `Migrator` | the four programs together, the operator, the properties | `cmd/*` |
| `Switchover` | the abstract specification: what a migration promises of the data | none (a promise) |
| `MigratorInv` | the inductive invariant `IInv` and its assumption `Disciplined` | none |
| `OutcomeInv` | the inductive invariants behind what a completed program has delivered | none |
| `InstanceSpec` | the functions on settings, flags, networks and addresses | `internal/pkg/instance/instance.go`, `resolved.go` |
| `Detailed` | `Migrator` with the settings, passwords, profiles and the audit extension its steps compute; fairness | `instance.go`, `profile.go`, `database.go`, `application.go` |
| `DetailInv` | the inductive invariants behind what `Detailed` says of settings and passwords | none |
| `LagGate` | the gate of a promotion in minutes | `internal/pkg/promote/promote.go` |
| `AppUpdate` | the calls of one change of the Application under optimistic concurrency | `application.go`, `internal/pkg/k8s/generic_client.go` |
| `MCMigrator`, `MCDetailed`, `MCLagGate`, `MCAppUpdate` | the instances TLC checks | none |
| `MigratorProofs`, `InvariantProofs`, `RefinementProofs`, `SafetyProofs`, `OutcomeProofs`, `DetailProofs`, `LagGateProofs`, `AppUpdateProofs` | the theorems | none |

`Platform <- Operations <- {Setup, Promote, Rollback, Finalize} <- Migrator <-
MigratorInv`, on which `MCMigrator` and, with `InstanceSpec`, `Detailed` build, and `OutcomeInv`; `DetailInv`
extends `Detailed` and `OutcomeInv`. The modules of proofs go along: `MigratorProofs <- InvariantProofs <-
{RefinementProofs, SafetyProofs}`, `SafetyProofs <- OutcomeProofs`, and `DetailProofs` on top of both branches.
`Migrator` instantiates `Switchover`. `LagGate` and `AppUpdate` stand alone: each opens
up what is one step, or one abstraction, of `Migrator`.

### State of Migrator

* **Application.** `spec`, `named`, `cascade` stand for `spec.gcp.sqlInstances[0]`;
  `named` is false for an instance that takes the application's name. `synced` is
  whether naiserator has applied the spec; `asked` is the run whose correlation ID
  the spec carries; `live` and `pods` are the Deployment: the instance it was last
  configured with, and whether pods run, are being stopped, or are gone.
* **Kubernetes.** `helper`, the owner of each `SQLInstance` (`owner`), whether its
  deletion deletes what it stands for (`policy`), and the `SQLDatabase` resources
  (`dbRes`); "going" in it is the application's while it is being deleted.
* **Cloud SQL.** `sql` (absent, standalone, replica), the `<target>-master` stand-in,
  which instances have the application's database (`hasDb`), the password the
  application uses (`login`), a backup (`backups`); whether the target runs as prepared, without
  backups, HA and point-in-time recovery (`reduced`; naiserator turns backups on when it applies an entry); databases with reassigned ownership.
  Two sets are the heart of the model. `fresh` has the instances with *every* row committed
  on the source: a write takes all others out of it, `CatchUp` puts the target in. `near` has
  those that lack none but the latest rows: a write while the job replicates, or by pods that
  are being stopped, leaves the target in it until a lag point is sampled that is not zero; any
  other write takes it out. The code can see neither: it reads `zeros`, and a zero point can be
  sampled as long as the target is in `near`, however many rows have been committed since the
  point was measured. So a gate that opens while pods still write, or on points that are all
  older than their last write, is an ordinary step of every run.
* **DMS.** The `job`, and how many of the latest lag points in a row were zero.
* **Artefacts** (`left`): profiles, certificates, policy, authorized networks, pglogical.
* **Runs.** Each slot in `Procs` has a program, a step, and the instance it resolved at
  its beginning and goes on using (`view`). `started` and `completed` are what the
  operator remembers: the programs begun and completed in this migration.

### Actions

One action per numbered step, or per call of it that changes state; steps are
strings in the order of `main`. A guard is what the code checks before or what it
waits for; a wait that is never satisfied ends in `Exit`, as the deadline of the
retry loop does. `Exit` is possible at every step. Retries on conflicts are inside
an action (`AppUpdate` takes them apart). `PROJECT.json` has the source lines of each
definition.

Points where the model follows the code rather than its documents:

* Promote reads the job's state once, before it waits for the lag (`InspectJob`).
* The gate asks for three zero points in a row and for nothing else (`LagReachedZero`): neither
  their age nor whether the pods have stopped.
* Preparing the source's database is three calls (`PrepareSourceDatabase`: password,
  certificate, pglogical), any of which may be the last of a run.
* The deletion of the application's `SQLDatabase` is asked for in one step and happens in another
  (`DatabaseCollected`); rollback waits for it, promote goes on, and naiserator cannot
  synchronise a switch before it has happened.
* The database name of a helper that is already gone cannot be deleted again
  (`DropHelperDatabase`): setup can be repeated only up to there.
* Step 12b, the audit extension, is decided by the application as read at step 2.
* A start of the job whose outcome was an error is tried again, refused, and ends setup
  with the job running: `StartMigrationJob` need not complete the program.
* Finalize takes the target from the application and the source from the
  environment. With no promote before it both are the same instance.
* `removeMigrationAuthNetwork` removes nothing the migrator added.
* No loop reads the error of a finished operation, and rollback and finalize do not wait at all
  for the deletion of a profile (`CleanupConnectionProfile`). With the fault `opFails` those of
  promotion, demotion and deletions may fail unseen, with `minorFails` those of a backup and of
  a password.
* `ARCHITECTURE.md:240` says the helper is deleted by finalize too; the code does not.

### Detailed

Every step is a step of `Migrator` conjoined with its effect on the data: `entry` (the
application's entry of `spec.gcp.sqlInstances`), `manifest` (the team's), `wanted` (the
helper's), `res` (the spec of each `SQLInstance`: version, availability, backups, recovery,
flags, networks), `audited`, `read`, `holder` (which run knows the password of `postgres`)
and `stale` (profiles with another password). `Touched` names the steps that have such an
effect, in one set for each program (`SetupData` and so on). Three guards are added, where the code needs the data: ownership and the audit
extension are changed as `postgres`, and DMS refuses a source without the replication flags.
`DetailNext` adds one action, `EnableAudit`: the team turns auditing on for an application that
runs, at any point of any program. What a setup read at step 2 (`read`) may then be out of date
when it uses it. `ImplementsMigrator` proves that `Detailed` is a refinement of `Migrator`, so that
what is proved of `Migrator` holds of it too.

### LagGate

Times are ages in minutes. `samples` are the points of the window a request asks for
(`makeMetricsRequest`, five minutes), of which a request sees those older than some delay,
and any may be missing. `behind` and `oldest` are the rows the target lacks and the age of
the oldest. The program polls at least once a minute (`polled`); `waited` is compared with
the deadline of the retry loop. Pods go on writing until their grace period is over.

### AppUpdate

One resource with its status, and two clients with a copy each: the run and naiserator.
`current` are the clients whose copy has the resource's version; an update by anyone else is
a conflict. Runs come one after the other and switch the instance or turn cascading delete
off. `pc` is the next call. `Fail` is any error, `LoseAnswer` an update that was made although
its caller saw an error. The status has a correlation ID and a synchronisation state:
naiserator may report a failed synchronisation (`FailToApply`), after which it tries again, and the
run waits for its own ID with a state that is not a failure (`AwaitRollout`). The correlation ID is the number of the run: the same for every
attempt, as it is made outside the retry.

### Rules and faults

`Rules` are the rules the operator follows; leaving one out shows what it is for. `setup`,
`promote`, `rollback`, `finalize` are the documented order. `exclusive` and `sameProgram`
restrict overlap. Two rules are asked for by no document of the repository. `settled`: a program
is begun, not repeated, only when naiserator has applied what earlier runs asked for, and setup
only when no helper is being deleted. `cascadeOff`: rollback is run only when cascading delete is off.
Without them a rollback of a setup that was stopped early drops the database of an application
that runs on the source all the while: `MCEarlyRollback` shows it. Whatever is said below under these
rules is said of operators who know this.

`Faults` are what the environment may do beyond the good case: `opFails` and `minorFails`
(above), `reconcile` (CNRM recreates an instance that was deleted behind its back), `redeploy`
and `redeployCascade` (the team deploys the old manifest, without or with cascading
delete), `outside` (a program runs outside Kubernetes, where setup makes no network policy).
No fault is about the lag gate: that points may be old is always so.

## 3. What TLC checks

| Run | Operator and faults | Result | Distinct states |
|---|---|---|---|
| `MCDocumented` | all rules but the one on setup; no faults | 9 invariants hold | 277,909 |
| `MCSilentFailures` | all rules; `opFails`, `reconcile` | `Switchover` refined, `NeverDeletesServing`, `WayBack` hold | 1,304,591 |
| `MCOverlap` | two symmetric slots; all rules but `exclusive` | `IInv` and three properties hold | 154,485 |
| `MCDisturbed` | all rules; `minorFails`, `reconcile`, `redeploy`, `outside` | `WayBack` holds | 621,704 |
| `MCDetailed` | all rules, auditing turned on by the team at any time; `CautiousSpec` | 4 invariants and `UpAgain` hold | 73,461 |
| `MCLagGate` | points missed or delayed; `FairSpec` | `TypeOK`, 2 action properties, `Promoted` hold | 269,662 |
| `MCAppUpdate` | 2 runs, 2 deploys, lost answers, failed synchronisations; `FairSpec` | `TypeOK`, `NoLostDeploy`, `AwaitsOwnRollout`, `RolloutEnds` hold | 785,661 |

**Bounds.** The runs of `Migrator` and `Detailed` have one application, one source and one
target, which is all the code ever handles, and one run at a time, or two where overlap is the
question. `zeros` stops at the three points the code looks at, and everything else is finite.
Any number of repetitions of the programs is covered, since the state does not count them, and
so is every point at which a run may stop. Initial states vary in `named` and `cascade`.
`MCDetailed` has only applications that name their instance and have no cascading delete at
first (the others are in `MCDocumented`), with one entry, as protected as it can be and with a flag
of its own (auditing comes by `EnableAudit`), a target version that differs, and two outgoing addresses, so that it
matters which is kept. `MCLagGate` has up to 2 rows of lag of which 1 is acceptable, a delay of up
to 2 minutes (the assumption `TimeBounds` allows no more: with a greater one the gate could stay
shut for ever) and a grace period of 1: the least for which the acceptable and the zero lag
differ and pods outlive a point. `MCAppUpdate` has two runs and two deploys, so that one can come
between the two updates of a run and another after a failed one. Deadlock is not checked where the
system does stop, after finalize or at the last run and deploy of a bound; in `LagGate` it is.

The properties, in words, are at their definitions. What each is for:

* `ServesCommittedRows`, `SourceRowsSurvive`, `SwitchoverSpec`: no row lost but the latest. The
  gate on the lag, the scale-down before it and the policies of the CNRM resources all have
  to work together for them. How many minutes "the latest" can be is the question of `LagGate`.
* `SourceQuietAfterPromotion`: no pods on the source from the start of the promotion on but those
  that are being stopped (the code does not wait for them), across runs that are stopped and
  repeated; also for two runs at once.
* `ServesStandalone`, `NeverDeletesServing`, `WayBack`: deletions against what is in use. Pods that
  are being stopped do not count as use: rollback deletes the target without waiting for them.
* `PromoteDelivers`, `RollbackRestores`, `FinalizeCleans`: what a completed program means.
  Above all that the half of promote that a later run skips was completed by an earlier one.
* `BackupBeforeChange`: the order in setup, for every repetition.
* `ReplicaSuitsDms`: a helper that exists is taken as it is, by whatever setup; still the replica
  has nothing DMS cannot handle, and a setup that read an application with auditing on has the
  extension gone from the source when it starts the job. Of auditing turned on after that reading
  it says nothing: `MCLateAudit` shows what happens then.
* `ProtectionRestored`, `TargetAsAskedFor`: what was taken from the target in two places comes back
  in two others, on each side of the line at which a repeated promote skips its first half.
* `MissingIsRecent`, `GivesUpForCause`, `Promoted`: how much a promotion can lose, that the gate does
  not stay shut without a reason, and that repeated promotes get through it.
* `NoLostDeploy`, `AwaitsOwnRollout`, `RolloutEnds`: whole resources are written back from copies;
  the resync has to force a rollout also where the spec does not change.
* `UpAgain`: the two ways a migration can hang with the application down, a correlation ID
  overwritten and an `SQLDatabase` naiserator cannot adopt, are left by repeating the
  program.

**Fairness.** `FairDetailSpec`, and `CautiousSpec` with it: runs take their next step if it stays possible (they are
sequential programs), and end if it stays impossible (retry loops have a maximum
duration, and a job has a deadline). Naiserator, CNRM, the garbage collector, DMS and
the kubelet are controllers: weak fairness. The operator repeats promote or rollback if
nothing else goes on. That is an assumption about people, without which downtime need not
end. `UpAgain` further supposes that runs are not interrupted for ever. Nothing is assumed
of writes and audits. `LagGate`: the program, time, stopping pods and
replication go on, and a promote that gave up is repeated; `Promoted` supposes that points are
not missed for ever. `AppUpdate`: the run and naiserator go on, and a synchronisation
that is tried again and again succeeds in the end (strong fairness of `Apply`); nothing is assumed of
deploys, errors and lost answers.

### Divergences

Each of these runs has one property, taken from a document or a comment, and TLC finds it
violated. The quotations are in `PROJECT.json`.

| Run | What it shows |
|---|---|
| `MCFailedPromotion` | A failed promotion is taken for a complete one (`internal/pkg/promote/promote.go:111`). |
| `MCStaleLag` | Three zero points may all be older than the last write (`internal/pkg/promote/promote.go:201`). By `MissingIsRecent` what is missing is then at most two minutes old. |
| `MCEarlyRollback` | Rollback says that it scales down only if it changes the instance in use (`cmd/rollback/main.go:50`); yet when setup was stopped before its step 9 had taken effect, it drops the database of the application that runs on the source (`cmd/rollback/main.go:109`). |
| `MCLateAudit` | The extension is to be dropped so that the dump has no references to it (`internal/pkg/database/database.go:46`); auditing turned on after step 2 has read the flags is missed (`cmd/setup/main.go:132`). |
| `MCStaleRollout` | The correlation ID is the same for every attempt: after a conflict and a deploy in between, the rollout of the first attempt is taken for that of the second (`internal/pkg/application/application.go:47`). |

Others were seen while modelling and have no run of their own:

* promote without setup finds no helper, skips every check and switches to an empty instance
  (`cmd/promote/main.go:135`; without the rule `promote`, `ServesCommittedRows` is violated);
* finalize before a completed promote deletes the instance in use (`cmd/finalize/main.go:90`; without
  the rule `finalize`, `NeverDeletesServing` is violated);
* the arguments of `strings.HasPrefix` are swapped: the migrator's networks stay on the target
  (`internal/pkg/instance/instance.go:689`);
* a replication flag that is listed as off is not turned on, the change being made to a copy; DMS then
  refuses to start (`internal/pkg/instance/instance.go:722`);
* a deploy that turns cascading delete on between setup and promote makes the switch delete the source
  (`internal/pkg/application/application.go:69`; with the fault `redeployCascade`);
* of two overlapping promotes one may scale down after the other has switched: the application stays down
  (`cmd/promote/main.go:95`);
* setup goes on after a backup whose operation failed (`internal/pkg/backup/backup.go:55`; with `minorFails`,
  `BackupBeforeChange` is violated), and the profile of the target may have a password that was never set
  (`internal/pkg/database/database.go:226`);
* of several outgoing addresses of the target only the last is admitted on the source
  (`internal/pkg/resolved/resolved.go:271`);
* a rollback keeps the version and tier of the target in the application's spec unless
  `SOURCE_INSTANCE_*` says otherwise (`internal/pkg/instance/instance.go:129`);
* rollback scales down an application that uses the source under the application's own name
  (`cmd/rollback/main.go:49`), and deletes the certificate of pods that were not scaled down
  (`cmd/rollback/main.go:116`);
* after one failed Get the retry of `CreateSslCert` asks for a certificate without a name until its deadline
  (`internal/pkg/instance/certificate.go:76`).

Those about cascading delete, `MCEarlyRollback` among them, depend on CNRM deleting what a resource stands for when its policy is not to
abandon it, which is what `DisableCascadingDelete` is there to prevent.

## 4. What is proved

For every `Procs`, hence any number of overlapping runs, and every choice of instances, settings and
bounds the named assumptions allow:

| Theorem | Statement | Assumes |
|---|---|---|
| `TypeCorrect` | `Spec => []TypeOK` | nothing |
| `Inductive` | `Spec => []IInv` | `Disciplined` |
| `CommittedRowsServed` | `Spec => []ServesCommittedRows` | `Disciplined` |
| `RowsSurvive` | `Spec => []SourceRowsSurvive` | `Disciplined` |
| `Refines` | `Spec => SwitchoverSpec` | `Disciplined` |
| `NoServingDeleted` | `Spec => NeverDeletesServing` | `Disciplined` |
| `WayBackKept` | `Spec => []WayBack` | `Disciplined` |
| `SourceQuiet` | `Spec => []SourceQuietAfterPromotion` | `Disciplined` |
| `StandaloneServed` | `Spec => []ServesStandalone` | `Disciplined` |
| `BackupFirst` | `Spec => []BackupBeforeChange` | `Reliable` |
| `FinalizedClean` | `Spec => []FinalizeCleans` | `Reliable` |
| `RolledBack` | `Spec => []RollbackRestores` | `Faultless` |
| `Delivered` | `Spec => []PromoteDelivers` | `Orderly` |
| `ImplementsMigrator` | `DetailSpec => Spec` | nothing |
| `DetailedRefines` | `DetailSpec => SwitchoverSpec` | `Disciplined` |
| `DetailTypeCorrect` | `DetailSpec => []DetailTypeOK` | the constants' shapes |
| `ProtectionBack` | `DetailSpec => []ProtectionRestored` | `Disciplined` |
| `AskedForDelivered` | `DetailSpec => []TargetAsAskedFor` | `Disciplined` |
| `SuitedReplica` | `DetailSpec => []ReplicaSuitsDms` | `Disciplined` |
| `PasswordCurrent` | `DetailSpec => []CredentialsCurrent` | `OneDrops` |
| `GateTypes` | `Spec => []TypeOK` (`LagGate`) | `LagBounds`, `TimeBounds` |
| `ZeroPointsTell` | `Spec => []ZeroMeansComplete` (`LagGate`) | `LagBounds`, `TimeBounds` |
| `OnlyRecentRowsMissing` | `Spec => MissingIsRecent` | `LagBounds`, `TimeBounds` |
| `GivesUpOnlyForCause` | `Spec => GivesUpForCause` | `LagBounds`, `TimeBounds` |
| `TypesHold` | `Spec => []TypeOK` (`AppUpdate`) | the bounds are numbers |
| `DeploysKept` | `Spec => []NoLostDeploy` | the bounds are numbers |
| `OwnRolloutAwaited` | `Spec => AwaitsOwnRollout` | the bounds are numbers |

`Disciplined` says that the operator follows every rule but `exclusive`, the two undocumented ones
included, and that the only faults are operations that fail unseen, instances CNRM recreates, and
programs run outside Kubernetes. Nothing is assumed of the lag, its points or the pods. These assumptions
are needed:
leaving out any one rule but `setup`, or adding any one of the other faults, makes TLC find
`ServesCommittedRows` or `SourceRowsSurvive` violated. (For `sameProgram` this takes two runs at
once; `redeploy` is the deploy README.md:18 warns of, after a promote.) The others ask for more, and need it:

* `Reliable` is `Disciplined` without `opFails` and `minorFails`. A backup whose operation failed lets setup
  go on, and an instance whose deletion failed outlives finalize: TLC finds both.
* `Faultless` has no fault at all. CNRM may recreate the target after the step of rollback that deletes it.
* `Orderly` is `Reliable` with `exclusive`. Of two promotes one may scale down after the other has switched.
* `OneDrops` is `Disciplined` with `exclusive` or without `opFails`. With two overlapping setups, the first of
  which dropped the helper's database in an operation that failed unseen, the second gets past that step as
  well and sets a password after the first has filled in the profile: the job the first then starts has the
  older one. TLC finds this after 36 steps. If either runs do not overlap or the drop takes effect, one run at
  most is ever past it, which is what the proof rests on.

`Detailed` assumes of its constants that entries are records whose flags are on or off (`EntriesGiven`), and that
the target has an outgoing address and none is that of the migrator (`OutgoingGiven`): setup waits until it has
one (`internal/pkg/resolved/resolved.go`), and both networks would otherwise be one.

`CommittedRowsServed`, `RowsSurvive`, `Refines` and `DetailedRefines` speak of all rows but the latest, as
the code's gate allows no more. What the latest rows are is the subject of `OnlyRecentRowsMissing`: what a
promotion leaves behind is at most two minutes old. Together they say what a migration can lose, and
that no stop, repetition or overlap of runs, and no operation that fails unseen, adds to it.

**The invariant.** `ServesCommittedRows` is not inductive: naiserator may start the pods at any
time a spec is not synchronised, so one has to know what an unsynchronised spec can be. `IInv`
says this by stage, which `started` and `completed` tell.

* `OneProgram`: overlapping runs are of one program, and a stage is never re-entered from a
  later one.
* `CascadeOff`: from a completed setup on, no deletion in Kubernetes takes data with it.
* `SpecAndDeployment`: a synchronised spec is what the pods use.
* `HelperKept`: between setup and promote the helper is there, so that promote does not take
  its first half as done. This is why a promote without setup is dangerous.
* `PromoteStage`: after the scale-down no pods are up, or the target is already a safe copy;
  from the promotion on it is one (`SafeCopy`: none but the latest rows are missing, no lag point
  says anything else any more, and nothing but stopping pods writes to the source).
* `RollbackStage`: pods do not run on the target while it is deleted, and no job is left that
  could change it.
* `FinalizeStage`: the source is deleted only when target, spec and pods agree; before that it
  has every row.
* `LagPoints`: with a zero point seen, the target lacks none but the latest rows. This is all that
  `StartPromotion` can know, and `SafeCopy` is what it becomes.

**What else is kept.** `SafetyProofs` needs little beyond `IInv`. For `WayBack`: no step but finalize's
takes the source or its database away (`SourceStays`), since by `CascadeOff` no resource's deletion does.
For `SourceQuietAfterPromotion`: once a rollback is under way, a job that is still there means that
naiserator has nothing to apply (`RollbackAfterJob`), so that pods are not started on the source. For
`ServesStandalone`: the target is a replica only before the application can be on it (`NoReplica`).

**What a program has delivered.** The property of a completed program is inductive only with what each run knows
by its step: `SetupAt`, `FinalizeAt`, `RollbackAt` and `PromoteAt` in `OutcomeInv` say what holds for a run
once it is behind a step, by whichever run that step was made true. The proofs then ask of every other step
that it undoes nothing of this. `SourceUntouched`, `Cleaning`, `Restoring` and `Delivering` name such steps, and
each has a lemma that it keeps the invariant, so that the proof goes through an action only where it is not one
of them. `Adopted` (with a synchronised spec, the application owns its `SQLInstance` and no other) is what
tells that the rollout a program has waited for took the right resources over. For promote the heart is
`FirstHalf`: while a promotion is under way, a helper that is gone means that the job was completed, the
protection given back and every ownership changed.

**The data of Detailed.** Four invariants, one on the other. `DetailTypes`: the shapes, and that `reduced`, the
networks and the profiles of `Migrator` are what the settings say. `AskedInv`: when a synchronised spec is the
target, the target carries the entry (`Carries`), and it is protected in a promotion whose helper is gone.
`JobInv`, `SuitInv`: of a setup that read auditing on, the source is not audited from the step at which the extension is
dropped; from that at which the target is prepared it suits DMS, and a job that replicates means that nothing has changed either; a promote
gives the protection back only when no job runs. `CredentialInv`: at most one run is past the drop of the
helper's database (`PastDrop`); from its password on that run is the `holder`, and from the deletion of the
profile on no stale one is left. Here too a predicate on steps
(`SameAsked`, `KeepsAsked`, `KeepsSuited`, `KeepsPassword`) disposes of those that do not touch what an invariant
is about.

**What a proof attempt showed.** `DetailTypes` could not be proved of an earlier form of the model, in which
`HelperReconcile` left `reduced` alone. When a rollback's deletion of the target failed unseen and setup was run
again, naiserator applied the helper's entry to a target that existed, turning its backups on, and `Migrator`
still called it reduced. `HelperReconcile` now says that it is not, as the settings do.

**LagGate.** A zero point measured `age` minutes ago says that rows still missing are no older
(`ZeroMeansComplete`, an invariant that ages with the points). Three points in a window of five minutes
include one of age at most two, hence `MissingIsRecent`. Conversely, with a delay of at most `MaxDelay`,
three zero points in the last `MaxDelay + 3` minutes would have been seen, hence `GivesUpForCause`. The
steps about three of five points are about concrete sets of ages.

**AppUpdate.** A copy whose version is current is the resource (`Copies`), so that an update takes back
nothing; a correlation ID that naiserator reported belongs to a spec that was applied with it
(`Owners`, `Reported`).

**Only proved.** `CredentialsCurrent`, the password of the job. A setup gets to a second password of the source
only when the drop of the helper's database failed unseen, and with `opFails` `Detailed` is too large for TLC;
a run without that fault would say nothing.

**Layout.** `MigratorProofs` proves `TypeOK` one program at a time, in a part for the data and
one for the control. `InvariantProofs` shows first that most steps leave alone what `IInv` is
about (`QuietStep`) and then goes through the others, one step per action and under it the
conjuncts it can disturb. `RefinementProofs` classifies the steps as harmless or as one of
`Switchover`'s, using `IInv`. `OutcomeProofs` has one part per
program. `DetailProofs` maps each step of `Detailed` to the one it contains, and then has one part per invariant of
`DetailInv`, in their order. Proofs of the latter use those of `Migrator` through `ImplementsMigrator`.

**Only model-checked.** The liveness properties `UpAgain`, `Promoted` and `RolloutEnds`, since liveness under
fairness is beyond the prover, and the five divergences, which are counterexamples. Every invariant and action
property of a passing run is stated by a theorem. TLC checks them where the theorems do not reach too:
`WayBack` with `redeploy` (`MCDisturbed`), and the invariants of setup, promote, rollback and
finalize with setup run again at any time, without the rule on it (`MCDocumented`).

## 5. Abstractions, and what is not modelled

* Rows are two bits per instance (`fresh` and `near`; a count in `LagGate`), certificates one element each.
* Of the settings, type and tier are one version; disk size and autoresize are left out. Naiserator is
  taken to keep, in an instance that exists, flags and networks the entry does not mention, and to report
  status under optimistic concurrency.
* In `Migrator` one update of a resource is one step; `AppUpdate` shows for the Application what the
  calls inside may do. Updates of SQLInstances have the same form (get, change, update, retry on conflict)
  with one call that changes state.
* Deletion of an instance or a profile takes effect at once or, with `opFails`, never, where the code does
  not wait for it.
* The deletion by common name of the application's own certificate on the source changes
  nothing in the model.
* In `Migrator` lag is whether the target has every row, or every row but the latest; points are counted up
  to three and have no age. `LagGate` says how far off they are.
* `Detailed` has no old manifest deployed in mid-migration and no instance that CNRM creates anew; those
  are in `Migrator`, and deploys in `AppUpdate` too.
* `EnableAudit` needs an application that runs and is synchronised, as the extension is created by it.
* A pod that is being stopped counts as not running in `NeverDeletesServing`, `Switchover` and `UpAgain`; it may
  still commit, which `Write` models.

Not modelled: the contents of certificates, their temporary files and the retry of `CreateSslCert`; database
roles and the text of SQL statements; `ValidateSourceInstance`, which only reads and is part of the guard of
nothing that changes state; the error group of `WaitForCnrmResourcesToGoAway` (one wait in the model, whose
order does not matter); `MigrationName`, `HelperName`, clients, configuration, logging, the workflows and
scripts, which have no state of the migration.

Hazards without a property, each with its line and the reason, are in `PROJECT.json`: programs run out of the
documented order, a deploy with cascading delete in mid-migration, two overlapping promotes, the loop that waits
for a correlation ID another run has overwritten, a failed backup or deletion of a profile, the retries of the
drop of a database, the start of a job and a certificate, the password of a profile, several outgoing addresses,
settings copied on a rollback, the certificate deleted under the application, the condition of the SQLUser, and
the two flaws of `instance.go` named above.

## 6. Plan

Done: `Platform`, `Operations`, the four programs, `Migrator`, `Switchover`, the invariant and the
refinement with their proofs; then `InstanceSpec` and `Detailed`, `LagGate`, `AppUpdate`, and the proofs
about them and of `WayBack`, `SourceQuietAfterPromotion` and `ServesStandalone`; then the proofs of what completed
programs have delivered and of the invariants of `Detailed`.

Left, in order of importance:

1. That `AppUpdate` implements the atomic update of `Operations`, with the divergence of
   `MCStaleRollout` as the exception.
2. `WayBack` with the faults of `MCDisturbed`, and the invariants of `Migrator` without the rule on setup, for
   every number of runs: TLC finds no counterexample, but `IInv` needs `Disciplined`.
3. The retry of `CreateSslCert` and the reconciliation of a SQLUser.
