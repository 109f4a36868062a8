# Bebop in TLA+

TLA+ models of [Bebop](../src/README.md), checked with TLC, and theorems about
them, proved with TLAPS. Bebop is an agent-less control plane for home servers:
a Go program on a controller inspects a target over SSH, plans the difference
to a declared state, and applies it with scripts it runs there. No daemon, no
database and no transaction stands behind it; what keeps a target consistent is
the order of the steps, one advisory lock on the target, digests and
preconditions. That is what the models are about.

## The system

| Part | Source (`src/internal`) | State | Operations | Correct when |
|---|---|---|---|---|
| services module | `modules/compose.go`, `services/source.go` | none; reads sources and facts | Plan, Apply, Verify | blocks what is not its own, deploys what was reviewed |
| apply engine | `apply/apply.go`, `cli/cli.go` | applied and verified lists | apply, apply --plan, Execute | success means applied, verified, converged |
| planner, plan | `planner`, `plan`, `bebop` | none | Build, Finalize, SortChanges | deterministic order that respects dependencies |
| saved plans | `savedplan`, `artifact` | a file | plan --out, apply --plan | a stale, edited or misdirected plan is refused |
| transports, lock | `transport` | SSH processes, flock on the target | Run, RunStream, AcquireApplyLock, Release | one mutating controller at a time, no lock left behind |
| inspection | `inspect`, `facts` | none | Inspect | reports what is there |
| deployments on the target | scripts in `modules/compose.go` | `releases/<digest>`, `current`, containers | deploy, start, stop, remove | `current` is old or new, never a foreign path replaced |
| backup, repository | `backup/create.go`, `backup/repository.go` | snapshots, stages | Create, Begin, WriteArchive, Complete, Abort, Delete, Verify | a listed snapshot is complete; services run again |
| retention, restore | `backup/retention.go`, `backup/restore.go` | restore plan | PlanRetention, ApplyRetention, BuildRestorePlan, ApplyRestore | never the last good snapshot; never over existing data |
| maintenance | `maintenance/model.go`, `executor.go`, `history.go`, `lock.go`, `lease` | lease file, history records | RunDetailed, Execute, Append, prune | one run of a job at a time, each recorded |
| schedulers | `maintenance/scheduler.go`, `systemd.go`, `launchd.go` | unit files, enabled units, what the manager has read | Install, Status, Uninstall | policy, files and manager agree; units of others are left alone |
| notifications | `notification` | alerts, deliveries | Derive, Process, deliver | told once per cooldown, and of recovery |
| fleet | `fleet/fleet.go` | worker pool | Map | a result for every host, bounded concurrency |
| recipes | `recipes` | service source, provenance | Initialize, CheckDrift, Upgrade | local edits survive |
| inventory, target, resolve | `inventory`, `target`, `resolve` | inventory file | add, remove, resolve | no update lost |
| host modules | `modules/{base,docker,ssh,storage,tailscale,updates,...}.go` | none; scripts change the host | Plan, Apply, Verify on ten distributions | probe, plan, precondition, script and verification agree; an interrupted script is not taken for a finished one |
| storage policy, preflight | `storage`, `preflight` | none | Assess, Doctor | pure |
| configuration, platform tables, reports | `config`, `facts`, `cli`, `errs` | none | parse, validate, render | pure |

How they interact: a command of `cli` calls `bebop.Service.Plan`, which resolves
the sources, inspects the target through a transport and asks each module for
its changes. After review, `apply.Execute` takes the lock on the target through
the same transport and calls Apply and Verify of the module of each change, then
plans again. Backup and restore take the same lock and reuse the services
module's Compose commands. Maintenance jobs, started by a timer of the
controller, call backup, doctor and update checks, and their history is what
notifications are derived from.

What is hard to test: plans that are stale when they run, sessions and scripts
that die or survive separately, crashes between two commands of a script, and
sequences of runs of several people. `PROJECT.json` lists each of these at its
line under `hazards`, with the properties that cover it.

## Modules

| Module | Models |
|---|---|
| `ComposePlan` | the pure part of the services module: observation, changes, blocking, order |
| `Apply` | any number of controllers that run `bebop apply` against one target |
| `ExclusiveLease` | what the apply lock promises, without sessions or scripts |
| `MCApply` | instances of `Apply` for TLC |
| `ApplyProofs` | theorems about `Apply`: types, lock, success, the lease it implements, and the deployments its controllers put on the target |
| `Backup` | `backup create` and scheduled backups of one target, the repository they write, and retention |
| `SnapshotStore` | what the repository promises of its snapshots, without files or stages |
| `MCBackup` | instances of `Backup` for TLC |
| `BackupProofs` | theorems about `Backup`: types, the store it implements |
| `CaptureProofs` | theorems about `Backup`: what is listed and captured, and how services are left |
| `Restore` | `backup restore` into the empty data resources of one target |
| `MCRestore` | instances of `Restore` for TLC |
| `RestoreProofs` | theorems about `Restore` |
| `Notification` | the pure part of notifications: events of an outcome, routes, remembered issues |
| `Maintenance` | `maintenance run`: leases, history and the alerts of each run |
| `MCMaintenance` | instances of `Maintenance` for TLC |
| `MaintenanceProofs` | theorems about `Maintenance`: types, history and alerts |
| `HostModules` | the modules that prepare a host, on each supported distribution: probes, plans, preconditions, scripts, verifications |
| `MCHost` | the instance of `HostModules` for TLC |
| `HostProofs` | theorems about `HostModules` |
| `Timers` | `maintenance install`, `status` and `uninstall` over systemd and launchd |
| `LeastNumber` | a lemma: a set of naturals has a least element (taken by the order of services, resources, snapshots and changes) |
| `MCTimers` | the instance of `Timers` for TLC |
| `TimersProofs` | theorems about `Timers` |

### ComposePlan

A *release* is all that `internal/services` resolves of one service's source:
`digest` (names its directory on the target), `secret` (keyed marker of the
secret file) and `placement` (fingerprint of where its data lives). An
*observation* is what `facts.Service` says of one service: what `current` leads
to and the aggregated container state. `ServicePlan` is `Compose.Plan` for one
service, with one set of changes per kind; a change carries what it pins
(`was`, the digest of the deploy's precondition) and whether it is blocked.
`Precedes` and `First` are the order `plan.SortChanges` gives these changes.
Left out: SELinux and storage-policy blocks, dependencies on other modules
(Docker, the data root), risk and wording.

### Apply

One value of `pc` per label of the code:

| `pc` | in the code | leaves it by |
|---|---|---|
| `idle` | no process | `StartApply` |
| `inspect` | `Service.Plan` before review, no lock | `Probe` per service, `Review` |
| `review` | the prompt | `Confirm`, `Decline` |
| `lock` | `AcquireApplyLock` | `LockAcknowledged`, `FlockBusy`, `LockLost` |
| `apply` | top of Execute's loop; source check and preconditions | `CheckChange` |
| `launch` | the action of `Compose.Apply` | `Launch` |
| `wait` | a script of this controller is running | `ScriptReturned`, `ConnectionLost` |
| `verify` | `Compose.Verify` | `Verify` |
| `replan` | the reinspection under the lock | `Probe`, `Converge` |
| `release` | Execute returned, deferred `Release` | `Release` |

The lock is a process on the target: `session` is the SSH session of the lock
script (open, or cut while the script has yet to notice) and `holder` owns the
flock. The flock is freed when that script ends, by `Release` or, after
the connection is gone, by `LockScriptEnds`. The action scripts are separate
processes: `script` holds each with its phase, and when the caller is killed,
times out or loses its connection the script goes on (`OrphanEnds` collects it).
`DeployClears`, `DeployPlaces` and `DeployActivates` are the three commands of
the deploy script a crash can come between; `RemoveDowns` and `RemoveUnlinks`
those of removal.

The target is `current` and `tree` (the link and the release directories),
`runtime` and `ran` (containers, and the release they were created from; `ran`
is observed by properties only). Initially there is no deployment: nothing or a
foreign path at `current`, and possibly containers of the project left over.

Inspection is what the code does and not what it means: probes are unprivileged,
so a controller outside `RootSessions` sees no deployment below the root-owned
data root (`VisibleDisk`); a service declared absent has no Compose file to look
for, so its active release reads as unsafe (`Reported`); with the fault "probe"
a failing probe reads as empty, or, for containers that are there, as
"unknown" (`Misread`). A script that fails in `compose up`, `stop` or `down`
leaves some, all or none of the containers (`Halfway`).

Abstractions: a controller slot is reused only when its earlier scripts are gone
(the guard of `StartApply`, which the code does not have: overlapping runs are
runs of different controllers, so what one controller does beside an orphaned
script of its own is seen in the instances with two). The runtime probe of a
service follows its deployment probe in one step. Verification reads a
service at one moment; `waitForRunning` is the wait until the containers have
settled or a deadline fires. `Release` is one step, as the code waits for the
lock session to end. The context's deadline may fire at any time.

### ExclusiveLease

An owner, the writers with a write in progress, and the deployments it protects:
granted when free, surrendered when nothing is being written, and written by the
owner only. `Apply` implements it under the mapping owner = `holder`,
writers = controllers with a script, deployments = `<<current, tree>>`.

### Backup

Each backup runs once, as one process of the controller; a scheduled one goes on
to retention.

| `pc` | in the code | leaves it by |
|---|---|---|
| `idle` | no process | `StartBackup` (a scheduled one takes the lease of its job) |
| `inspect` | the inspection before the prompt | `Inspect`, `NotStarted` |
| `lock` | `AcquireApplyLock` in `backup.Create` | `LockGranted`, `NotStarted` |
| `begin` | `ensureHelper`, `repository.Begin` | `Begin` |
| `next` | top of the loop over services, and after its last round `stage.Complete` | `NextService`, `Seal` |
| `stopping` | waiting for `compose stop` | `StopReturned`, `WaitExpires`, `ConnectionLost` |
| `capture` | archiving the resources of one service | `CaptureBegins`, `CaptureEnds`, `CaptureFails` |
| `restart`, `restarting` | `restartAndVerify` | `Restart`, `RestartReturned`, `WaitExpires`, `ConnectionLost` |
| `publish`, `protect` | verification and rename of the stage; making it read-only or moving it back | `Publish`, `Protect` |
| `abort` | the deferred `stage.Abort` of a failing `Create` | `Abort` |
| `release` | `Create` returned, deferred `Release` | `Release` |
| `retain` | `PlanRetention` | `PlanRetention` |
| `prune`, `delete`, `deleting` | `ApplyRetention` and `repository.Delete` | `PruneNext`, `DeleteBegins`, `DeleteEnds` |

The repository is three functions over snapshots: `place` (no directory, in
`.staging`, in `snapshots`), `manifest` (services its `manifest.json` lists) and
`archive` (what each archive contains). `Listed` is what `List` shows, `Intact`
what `Verify` accepts. Between `DeleteBegins` and `DeleteEnds` a snapshot has
lost its manifest or its archives, because `os.RemoveAll` may be interrupted.

On the target, `runtime` says which services run and `version` counts what an
application wrote to its data. An archive holds the version it was read at, or
`Torn` when the application wrote in between. `script` is the Compose command a
backup started; it runs on when its caller is gone.

Abstractions:

* A command of another owner of the lock is one step (`OtherCommand`), possible
  while the lock is free. The lock is the `ExclusiveLease` of `Apply`; `Timeout`
  and `Crash` free it at once, the delay in which the target notices is in
  `Apply`. `LockLost` is the lock session that ends under a `Create` that does
  not look at it; the properties of the target are about backups that kept it.
* `facts` and `atLock` cover the services a backup may have to stop
  (`Watched`), as `Create` asks for no other; whether a live service runs, and
  what it writes, is not told apart.
* Backups are numbered in the order retention sorts them, so a backup that
  started later may have the smaller number: clocks are not trusted.
* The lease of the job is one step to take and goes with its process. Since it
  serialises the scheduled runs, a retention plan is computed in one step.
* Retention is configured (`KeepLast` at least 1). Nobody reads an abandoned
  stage, so its content is not told apart. Digests, archive sanitising and path
  checks are abstracted to complete or not.

### SnapshotStore

The set of snapshots that verify. A snapshot is published whole; one that
retention manages is pruned only while `KeepLast` newer managed ones are in the
set. `Backup` implements it with the set of snapshots that are `Intact` and that
their backup can no longer take back.

### Restore

Each restore runs once, as one process of a controller.

| `pc` | in the code | leaves it by |
|---|---|---|
| `review` | the plan of `BuildRestorePlan` is shown, or was saved with `--plan` | `Rebuild`, `NotStarted` |
| `lock` | verification of the snapshot and `AcquireApplyLock` in `ApplyRestore` | `LockGranted`, `NotStarted` |
| `next` | top of the loop over services | `NextService`, `HelperMissing`, `AllRestored` |
| `stopping` | waiting for `compose stop` | `StopReturned`, `WaitExpires`, `ConnectionLost` |
| `check` | `destinationState` of the next resource | `CheckDestination` |
| `create` | making a missing destination | `CreateDestination` |
| `extracting` | the archive is streamed to the helper container | `ExtractReturned`, `WaitExpires`, `ConnectionLost` |
| `after`, `restarting` | `restartAndVerify` of a service it stopped | `AfterResources`, `RestartReturned`, `WaitExpires`, `ConnectionLost` |
| `release` | `ApplyRestore` returned, deferred `Release` | `Release` |

`data` says what is in each destination: nothing, data of the application or a
user (`own`), an extraction under way or complete (`part`, `whole`), or an
extraction that met other data (`mixed`). `script` is the set of commands of a
restore that are not over on the target: the one it waits for (`Awaited`), and
those it was cut off from, which go on. An extraction that lost its controller
ends when its input does.

Abstractions:

* The second planning must have the fingerprint of the reviewed plan, so the
  model records facts once, at `Rebuild`. Declining, a stale plan, a snapshot
  that does not verify, a failing inspection and a busy lock are all
  `NotStarted`: nothing was changed.
* Writers that are not the application of a running service need the lock
  (`OtherCommand`). The code looks and then extracts; `restore.go` calls this
  "narrowing review-to-extraction races without claiming a distributed
  transaction", and `EmptyOnly` holds for services whose facts were still true
  at the lock (`known`) and for restores that own it, until a failed restore
  starts the service again: `ApplyRestore` does not wait for the end of an
  extraction whose connection it lost, so the recovery restart may run over it.
* A snapshot that retention deletes meanwhile is an `OpenArchive` that fails.
  The plan and apply that follow a restore are ordinary ones (`Apply`).
* Capacity, digests and path checks are abstracted to acceptable or not.

For a `sudo -n` user the deployment is never found, for the reason `apply_sudo`
shows. `ApplyRestore` stops a service it saw running, whether or not its
deployment was found, and restarts only if it was. `LeftAsFound` therefore
speaks of root sessions.

### Notification

`Outcomes(job)` is what an executor can return and `Derive` the events it gives.
An event is about an *issue*, the triple of job, domain and category that its
fingerprint stands for. A doctor check has a domain and the code of a passing
and of a failing finding, which may differ. A route has the events and
severities it selects, whether it wants recoveries, and whether it has a
cooldown. The memory (`state.json`) says for each issue the severity it was last
observed with, and for each route whether the issue was delivered and whether
the cooldown since then has elapsed (`recent`, `due`). `Recipients` and
`Remembered` are the two halves of `processEvent`.

### Maintenance

A run is one process of `maintenance run JOB`, started by a timer or a user.

| `pc` | in the code | leaves it by |
|---|---|---|
| `idle` | no process | `StartRun`, in the order of `StartedAt` |
| `admit` | enabled? inside its window? then `Locks.Acquire` | `AcquireLease`, `Skip`, `LeaseFails` |
| `execute` | `Executor.Execute` | `Execute` |
| `record` | `History.Append`, waiting for `.history.lock` | `WriteRecord` |
| `prune` | `pruneLocked` | `Prune` |
| `notify` | `Derive`, `Process` up to the state's lock | `LoadState`, `NothingToNotify` |
| `events` | the loop over events; after the last, `save` | `ProcessEvent`, `Save` |
| `deliver` | the loop over routes | `Deliver` |
| `release` | finished, deferred `Release` of the lease | `Release` |

A run that is skipped, or cannot open its lease file, goes through `record` and
`notify` like any other, without the lease. `Crash` frees what the process owns.
With the fault "disk" any file operation may fail: the run ends there
(`AppendFails`, `ProcessFails`), and what it had delivered is forgotten.

Observed by properties only: `appended`, the runs whose record was ever written;
`last`, the outcome the alerts of a job were last derived from; `lost`, the jobs
with a run that ended before it saved its alerts; `heard`, what each receiver
knows of each issue.

Abstractions:

* Why a run is skipped is not told apart, and a window may be open or closed
  whenever a run starts. The order of events with different fingerprints, which
  is that of a hash, is any order.
* Operations of `Execute` are one step with any of their outcomes; the backup
  executor is modelled in `Backup`. A delivery fails or succeeds in one step:
  webhook retries are in it, and so is a context that expired with the operation.
  A webhook whose answer was lost counts as failed.
* Cooldowns elapse at any time at which the job has no finished operation whose
  alerts are unsaved: the code compares with the end of the operation. The clock
  is monotonic. Disabled notifications, `notification test` and the pruning of
  delivery records are left out.

Two things the code does that no property rules out: `processEvent` raises the
remembered severity before it tries to deliver (`service.go:135`), so an
escalation whose delivery fails is suppressed at the next run; and `Process`
gets the context of the operation (`model.go:173`), so the webhooks of a run that
timed out fail at once.

### HostModules

What can go wrong in the host modules is that five pieces of shell text, each
written per distribution, disagree. Each is an operator of its own:

| Operator | Is, in the code |
|---|---|
| `Seen` and the operators `...Facts`, `Effective`, `DropInSupported` | what the probes of `inspect.go` report of the host |
| `Plan...` | what the modules make of it: changes, dependencies, preconditions, blocks |
| `Accepted` | the kinds the `Apply` of a module knows |
| `Holds` | the precondition scripts |
| `Script`, `Able`, `Do` | the action scripts, one durable step at a time |
| `Confirmed` | what the verifications accept |

`host` is one part of a host as it really is (a package set with its service, an
SSH server, a disk, the data root), for the one feature the configuration asks
for; `machine` is what does not change. An apply is `Start` (inspect and plan),
then `Check`, `Step` and `Verify` per change, then `Replan`. `Interrupt` ends it
between two steps of a script, whatever the reason; `Edit` is somebody else at
the host.

`stale`, `excuse` and `own` only say when a property speaks: what an edit has
made out of date, whether something outside Bebop explains a failure, and
whether all there is to see is Bebop's doing.

Abstractions: the features are planned apart, so that dependencies between
modules (Tailscale or services on Docker, Docker on the data root) are in the
order of `Following` only. A package set has a main package, the rest, a service
definition, an enablement and a state. The file a module writes is absent, "managed" (as Bebop
wrote it), or "unmanaged"; or it is what a probe and a check see differently:
"edited" (below Bebop's marker, where a check asks for the marker or some lines
only: Fedora's and Devuan's Tailscale, the updates of Fedora, Tumbleweed and
enterprise systems) or "beside" (another file defines the repository, and is not
the last the check's loop looks at, so that `! grep` under `sh -e` does not stop
it: enterprise systems). Comparisons that can never be equal are modelled as
such (`Unrecognized`: Alpine's files and Devuan's `52-bebop-auto-upgrades`, which
is written indented and looked for unindented). The capacity part of a mount is
in "wrong". A field that the code of a distribution never reads keeps a harmless
value.

Two operators name what the code is known to get wrong, so that the properties
say everything else: `Unfinishable` (accepted plans that cannot finish) and
`Tripwire` (traces of an interrupted script that block the next plan). Both are
spelled out under "Disagreements found".

### Timers

There are three copies of a schedule: the policy in the configuration, the files
with the links that enable them, and what the user's manager has read. A command
reads the policy and the directory once (`Begin`) and thereby fixes its list of
steps, `todo`; each step is a file operation or one call of `systemctl` or
`launchctl`, done in the order of `Position`: an installation goes phase by
phase, a removal unit by unit. Over launchd the units of a phase come in the order
of the change first: new ones, removed ones, changed ones (`Updated`).

| Action | In the code |
|---|---|
| `Install`, `Uninstall` | reading the policy and planning the changes of either adapter |
| `RefuseInstall` | the planning meets a file it cannot compare |
| `Write`, `Remove` | `writeUnitAtomic`, removal of a unit or plist |
| `Unlink`, `Stop` | the two effects of `disable --now` |
| `Reload` | `daemon-reload` |
| `Link`, `Start` | the two effects of `enable --now` |
| `Bootout`, `Bootstrap` | the calls of the same names |
| `Check` | the status that ends an installation over launchd |
| `Finish`, `Fail` | the command ends; a step fails, times out or the command is killed |
| `Edit`, `Login`, `ByHand` | the user: policy, session, timers and files |

A content is the version of the policy it was rendered from. M7 of Bebop wrote
units without the project in their name; "old" are those of this project,
"other" those of another project with a job of that name, "foreign" files
without Bebop's marks, "special" what is no regular file or cannot be read: a
desired one makes every installation fail at once, any other is left alone.
`State` is what `status` reports of a job, `Fires` and
`WillFire` what happens now and after the next login.

Abstractions: `enable` also lets systemd read unit files again, which the code
does not rely on and neither does the model. A login ends the command that was
at work, so it happens between commands, and so do edits of the policy, which a
command reads once, and those by hand. A project that moves, the capability
check and dry runs are not modelled; a temporary file that a killed command
leaves is ignored by every scan.

`strays` are timers and agents whose file was deleted while they ran; `Forgotten`
and `Unreconcilable` name what the code does not handle (see below).

## Runs

The instances of `Apply` have one service; several services only interleave probes and
order changes. `RelA`/`RelB` differ in content; `DataHere`, `DataRotated` and
`DataElsewhere` share their content and differ in secret and placement.

| Run | Instance | Checks | Shows |
|---|---|---|---|
| `apply_contention` | 2 root controllers, symmetric; declarations running A, stopped B, absent; faults script, edit; 1.6 million states | `TypeOK`, `SuccessIsVerified`, `AppliedIsReviewed`, `ConvergedAtSuccess`, `DeployReplacesObserved`, `ForeignKept`, refinement `ImplementsLease` | the lock is an exclusive lease over the deployments; stale plans do not overwrite content they never saw; what success reports is so, at that moment |
| `apply_faults` | 1 root and 1 sudo controller, one release; sessions, timeouts, crashes, probes and containers fail, scripts hang; fair; 113,000 states | `LeaseHeld`, `LockIsFreed`, `ApplyEnds` | exclusion under every fault while the session lives; no lock is permanent; every confirmed apply ends |
| `apply_recovery` | 1 controller, 9 declarations, three releases that share a digest; sessions, timeouts, crashes, scripts, probes and containers fail; 56,000 states | `InterruptedDeployResumes`, `PlacementGuarded` | whatever a run left, once its script has ended the next one is not refused by its own precondition unless it overlooked what is deployed, and never moves a live deployment to another placement |
| `apply_rerun` | 1 controller, scripts fail | `NoChangesMeansCurrent` violated | see below |
| `apply_sudo` | 1 sudo controller, no fault | `ConvergenceIsReported` violated | see below |
| `backup_faults` | 2 earlier snapshots (one of the job, possibly corrupt), 2 scheduled backups; a "stop" service with two resources and a "live" one; every fault; fair; 262,000 states | `TypeOK`, `ListedIsComplete`, `StopIsConsistent`, `LeftAsFound`, refinement `ImplementsStore`, `BackupEnds` | what `backup list` shows is whole, a "stop" archive is at rest, services are left as found or the error says so, retention never takes the last good snapshots, and a backup ends |
| `backup_stopped` | 1 backup of one service, no fault | `StoppedStaysStopped` violated | see below |
| `restore_faults` | 2 restores of one service with one resource, the first as root and with every fault, the second with sudo, whose commands fail and which may die; fair; 398,000 states | `TypeOK`, `EmptyOnly`, `RestoredIsWhole`, `LeftAsFound`, `RestoreEnds` | nothing is extracted over other data, what is reported restored is whole, a service is left as found or the error says so, and a restore ends |
| `maintenance_alerts` | 3 overlapping invocations, two of a backup or a doctor job and a manual backup, two routes; run 1 meets every fault, run 2 failing sinks; fair; 134,000 states | `TypeOK`, `HistoryKeepsNewest`, `AlertIsCurrent`, `ToldOnce`, `RecoveryWasTold`, `RunEnds` | records, remembered issues and what receivers know agree with what runs did, in whatever order they overlap and wherever one dies; every run ends |
| `hosts_apply` | ten distributions, seven features, every host; at most 3 applies, 2 interruptions, 2 edits; 610,000 states | `HostTypeOK`, `PlannedIsAppliable`, `SuccessIsReady`, `OwnTraceNeverBlocks`, `DependenciesVerified`, `NothingForeignIsHarmed` | a plan made of what the probes report can be carried out and passes its verification; success means configured, whatever was interrupted before; what others put there is respected |
| `timers_install` | both adapters, two jobs, two versions, legacy, foreign and special units; commands fail anywhere, the user interferes; 1 million states | `TimersTypeOK`, `SuccessIsScheduled`, `CurrentIsScheduled`, `UntroubledSucceeds`, `ForeignTimersKept` | after a success each job fires as the policy says, now and after a login, whatever failed before; nothing a failure leaves makes a later command fail |
| `maintenance_healthy` | 2 runs of a doctor job that looks at Docker or of an update check, no fault | `HealthyClears` violated | see below |

Bounds: nothing in `Apply` counts, so the instances are finite without a cap and
are explored completely. Two controllers are enough for every pairwise race of
lock, script and plan, and each may run any number of times. Two contents (or
three releases of one digest) are enough for "the same", "another" and "back
again". Deadlock is checked in all its runs. `apply_faults` reaches
every fault of a lost, late or dead controller with a live one beside it; the
content races, which need more releases, and scripts that fail are in
`apply_contention`, and scripts that fail beside the other faults in
`apply_recovery`.

`Backup` counts one thing, the writes of an application, and `MaxVersion` = 1
bounds them: one write is what tells a torn archive, or two archives of
different moments, from one at rest. Two resources are the least for the
latter. Two scheduled backups and `KeepLast` = 1 make a retention plan with
something to keep, something to prune and something corrupt to skip; the second
run starts from whatever the first left. Deadlock is not checked, as a backup
runs once and the behaviour ends with it.

`Restore` counts nothing. The instance is about two restores that meet in one
destination, the second of which may come in when the first has lost its lock
and runs on. It has one resource: that one fails after another is done, or one
service after another, is left to the theorems, which state `EmptyOnly`,
`RestoredIsWhole` and `LeftAsFound` for any set of services and resources (with
two resources and no fault of the second restore the run passes as well, on 1.5
million states and in minutes). The
faults are given per restore: two restores that both lose the lock and run on
beside each other multiply the states and are outside every property's premise.
Deadlock is not checked, for the same reason.

In `Maintenance` each run happens once. Two runs of a job are enough for a
failure and a recovery, and may be of different jobs; a third run makes, with
`HistoryMax` = 2, a record that is pruned, and as it is manual it meets the filter
of origins. What follows an escalation or a cooldown in a third scheduled run is
left to the theorems. Deadlock is not checked, as all
runs end.

`HostModules` starts from every host its fields allow. A second apply meets what
an interrupted first one left, a third what two left (`MaxRuns` = 3,
`MaxFaults` = 2); with `MaxEdits` = 2 the host may change after the plan and
again after the last check. Deadlock is not checked, as `MaxRuns` ends the
behaviour.

`Timers` counts nothing: commands, failures, logins and edits may follow each
other for ever, and deadlock is checked. The first job of the instance may change
its version and may have legacy, foreign or special units; the second may be disabled or
gone, so that phases and units interleave. Two versions tell the old
schedule from the new. Legacy units of a job that is disabled or gone are in the
theorems only.

Fairness (`FairSpec`): a controller process is scheduled while it lives, its
context, which always has a deadline (`applyTimeout`), expires in the end, and
the target's kernel ends a lock script whose input closed. Nothing
is assumed of users, of the action scripts (a `docker compose up` may hang for
ever) or of any other fault, and not of the flock: a controller that never gets
it is sent away by `flock -n`.

`Backup` has the same fairness, for the controller process and its deadline
(`applyTimeout`, or `--timeout` of a maintenance run). `BackupEnds` therefore
holds although a remote command may hang for ever. `Restore` has it too, and
`RestoreEnds` is about restores whose deadline may fire.

`Maintenance` assumes that a process is scheduled while it lives, that an
operation ends (its context has a deadline, `--timeout`) and that a delivery
does (the webhook client's timeout). Nothing is assumed of the two blocking
locks: that their holders always move on is what `RunEnds` shows.

### Disagreements found

* **`apply_rerun`.** A start is planned only with a deploy or when the
  containers are not running. When a deploy was activated and `compose up`
  failed, the old containers run on, the next plan is empty, and apply prints
  "No changes. Target already matches the desired state."
  (`cli/cli.go:513`). `docs/SERVICES.md:94` promises deploy, `up -d` and
  readiness for `running`.
* **`apply_sudo`.** Probes run without privilege below a data root with mode
  0750 root:root, so a `sudo -n` user, which `docs/SAFETY.md:5` supports,
  never sees its deployments and every such apply ends in "target remains
  divergent".
* **`backup_stopped`.** `Create` decides from facts inspected before the prompt
  and the lock. When another command stopped the service in between, `compose
  stop` succeeds on what is stopped already and the restart after the capture
  starts it. `docs/BACKUPS.md:62` says "an already stopped service stays
  stopped". `LeftAsFound` holds where the facts are still true at the lock.
* **`maintenance_healthy`.** The fingerprint of a doctor issue contains the code
  of its finding, and most checks pass under another code than they fail under
  (`docker.healthy`, `docker.unhealthy`). A passing check then removes no issue,
  and the next failure is suppressed as already active. The `maintenance.failed`
  issue of an update check has no recovery at all.
  `docs/NOTIFICATIONS.md:112` promises "healthy observation -> remove active
  issue". `AlertIsCurrent` is checked for the checks that keep their code
  (services, storage) and for backups.

Others were met while translating and are part of what the models do, without a
run of their own:

* Restore. When the SSH connection of an extraction dies, `restoreErr` is set and
  `restartAndVerify` follows at once (`restore.go:470`). If `tar` is still
  writing on the target, the application starts over a half-filled destination
  and both write to it. The error names the failed extraction.
* Services. The probe of a service declared absent looks for a Compose file with
  an empty name, so its active deployment reads as unsafe and removal is always
  blocked; `docs/SERVICES.md:96` promises `compose down`. (Removal still happens
  when `current` is gone and containers are left over, which is what the passing
  runs exercise.) If another controller deploys such a service between the
  review and the lock, the replan passes over its blocked removal
  (`apply.go:72`) and apply reports success with the service deployed.
* Host modules, plans that cannot finish (`Unfinishable`). Alpine: the change
  `docker.enable-cgroups` is planned (`docker.go:203`) and refused by
  `Docker.Apply` (`docker.go:630`); the repository checks compare with a text
  that ends in a literal `\n`, so Docker and Tailscale never pass and the file
  Bebop wrote is "unmanaged" from then on; updates are planned again for ever,
  as on Devuan. Devuan: the query of two packages prints their states on one
  line, so the check fails when both are installed and passes when one is, and
  Docker without Compose counts as complete. RPM: Tailscale installed without
  its repository file plans an installation whose precondition is that it is
  absent.
* Host modules, traces that block (`Tripwire`). An SSH script killed before its
  `mv` leaves a candidate drop-in that wins over the real one; Devuan's vendor
  repository without its index and an Artix or Void package without its service
  are planned as blocked. A kill between `mv` and the reload of sshd is never
  made up for: the next plan is empty, as sshd is asked what its files say and
  not what it runs with (`docs/SAFETY.md:62`).
* Host modules, checks without effect. A daemon that hangs is not replaced by
  enabling and starting it. Negated commands under `sh -e` do not fail a script,
  so on Leap and enterprise systems an enabled competing timer passes the
  verification; and a test that is not the last of its loop or script decides
  nothing: on enterprise systems a definition of the vendor's repository passes
  the check in every file but the last (`docker.go:529`, `tailscale.go:431`,
  `tailscale.go:527`), and under Void a hold that came after the inspection
  does, a repolock not (`docker.go:247`). Fedora's Tailscale and the updates of
  three distributions look for Bebop's marker only before they overwrite a file
  (`tailscale.go:489`, `updates.go:70`), so what was edited below it since the
  inspection is lost. Devuan's updates write origins indented and look for them
  unindented: Bebop never recognizes its own file. On openSUSE another file that
  names Tailscale's server makes the precondition fail though nothing reports
  it. Void's Compose change depends on a service change that may not be planned, which is
  an error.
* Timers, systemd. When an installation fails between writing and
  `daemon-reload`, `status` says "current" while the manager runs the old
  schedule; hence the premise of `CurrentIsScheduled`. A legacy service is
  removed before its timer, and one without the other is not recognized any
  more; legacy units of a job that left the configuration are never removed
  (`Forgotten`). When both files of a running timer were deleted by hand,
  removal finds nothing and the timer runs on (`strays`).
* Timers, launchd. When the plist of a loaded agent was deleted by hand,
  installation writes it again but does not boot out the old agent, and `status`
  says "current"; a disabled job in that state makes every installation fail. A
  disabled job with a foreign plist in its place does so for ever
  (`Unreconcilable`). `docs/MAINTENANCE.md:149` says that installing an unchanged
  policy does nothing; over systemd it writes, reloads and enables everything.

## Proofs

### Apply

`ApplyProofs` is about `Apply` with any set of controllers, services numbered by
naturals, any releases, declarations and faults, under the assumptions named in
the modules: `Nobody` and `NoScript` are not controllers and scripts,
`NoRelease` and `Foreign` are not releases or digests, declarations are typed.

| Theorem | Says | By |
|---|---|---|
| `TypeCorrect` | `[]TypeOK` | inductive as it stands; `PlanType` shows that plans of typed observations are typed |
| `LeaseIsHeld` | `[]LeaseHeld`, under all faults | inductive with `TypeOK` |
| `MutualExclusion` | two live windows are one controller's | from `LeaseHeld` |
| `SuccessMeansVerified` | `[]SuccessIsVerified`, under all faults | `RunInv` |
| `LeaseImplemented` | `ImplementsLease`, if sessions, timeouts and crashes are not among the faults | `QuietInv`, `LeaseSimulation` |

`SuccessIsVerified` speaks only of a run's last state. `RunInv` says at each
label how far the applied and verified lists are apart: equal between changes,
one change apart at `verify`, equal to the plan at `replan`.

`ImplementsLease` needs that a script exists only while its controller waits for
it and that this controller then owns the flock; `QuietInv` says so, together
with the span of a lock session. The assumption `Quiet` is needed: with a lost
session the script of the old owner writes while a new owner holds the flock.
`docs/SAFETY.md:50` grants that the lock goes with its session.

The second half of the module is about the paths of the deployments:

| Theorem | Says | Assumes | By |
|---|---|---|---|
| `ForeignPathsAreKept` | `ForeignKept` | `Sighted` | `OwnInv` |
| `AppliedWasReviewed` | `[]AppliedIsReviewed` | `Quiet` | `ReviewInv` |
| `DeployReplacesWhatWasSeen` | `DeployReplacesObserved` | `Quiet` | `FitsInv` |
| `SuccessIsConverged` | `[]ConvergedAtSuccess` | `Quiet`, `Sighted`, `Steady` | `SettleInv` |
| `InterruptedDeploysResume` | `[]InterruptedDeployResumes` | `Alone` | `AloneInv` |
| `PlacementIsGuarded` | `PlacementGuarded` | `Alone` | `AloneInv` |

`Sighted` says that probes see what is there: they run as root (without
privilege, the data root of a hardened host reads as empty) and do not fail (a
probe that fails reads as "nothing there"). It is needed because removals, starts
and stops carry no precondition. All other faults may happen: `OwnInv` says that
a path that was once seen to be Bebop's or empty does not become foreign
afterwards, so that a plan or a script that outlives everything else is still
about Bebop's own paths.

`ReviewInv` says at each label which of the plan's changes the run is at, and
that a plan deploys a service at most once; `SoleWriter` that while a script
runs no other controller has one or has applied anything. Sources may be edited
and other controllers may wait with plans of their own. `FitsInv` carries the
precondition of a deployment from its check (`LaunchFits`) to the rename that
ends the script (`ScriptFits`).

`Execute` reports success from facts it read a moment ago, under the lock.
`SettleInv` says that these facts, from the first probe of the replan to the
release, are what the target is like: nobody else writes, and of the containers
only those that were starting may have changed (`SeesTheTarget`; `Steady` says
that containers do not exit by themselves, which no inspection could exclude).
`OnlyHiddenRemovals` then compares the plan of the facts with the plan of the
target, change by change. They differ in one thing: a service that is declared
absent and that another controller deployed between the review and the lock
reads as unsafe, its removal as blocked, and `Execute` passes over blocked
changes. The proof brought this to light; it takes two services, and the
instance of `apply_contention` has one. `ConvergedAtSuccess` names it as its
exception, and `RemovedStays` shows that it never is a service whose removal the
run itself carried out.

The last two theorems are about a controller that works alone (`Alone`) and may
die, be cut off, or time out anywhere, with scripts that go on without it. A
script may outlive its run, but not up to the next inspection (`NoLeftover`), so
that what the inspection saw of a service is still there when the run comes to
its deployment (`PlanMeets`, with `PlannedOnce`). An inspection that saw nothing
of what is there, as its probe failed or had no privilege, plans a deployment
over nothing: the target refuses it, and `InterruptedDeployResumes` excepts it
(`Overlooked`), while that refusal is what keeps `PlacementGuarded` true.
`OnlyLaunchStarts` ties the action property to `Launch`. With other controllers both fail to hold, as the
code pins the digest only.

### Backup

`BackupProofs` is about any backups numbered by naturals, any services, data,
requests and faults, under `BackupsAssumption`, `ServicesAssumption`,
`FaultsAssumption` and `ScriptAssumption`.

| Theorem | Says | By |
|---|---|---|
| `TypeCorrect` | `[]TypeOK` | inductive with `AtService`: while a service is handled, one is left to handle (or `Current` would be no service) |
| `StoreImplemented` | `ImplementsStore`, under all faults | `StoreInv`, `StoreStep` |
| `ListedSnapshotsAreComplete` | `[]ListedIsComplete`, under all faults | `ListInv`, with `AtService` and `StoreInv` (`CaptureProofs`) |
| `StoppedIsConsistent` | `[]StopIsConsistent`, under all faults | `SelfInv`, `HeldInv` (`CaptureProofs`) |
| `ServicesAreLeftAsFound` | `[]LeftAsFound`, under all faults | `SelfInv`, `HeldInv` (`CaptureProofs`) |

That retention keeps `KeepLast` snapshots is a fact about a plan that was
computed earlier and is carried out in many steps, beside a manual backup that
publishes and a job that may have died. `StoreInv` has three parts for each
backup: `JobOK` (whoever prunes owns the lease of the job, so no other scheduled
backup runs), `PlaceOK` (where the stage is at each label, so that only
`Publish` and `Protect` add to the store), and `PruneOK` (each planned victim
that still verifies has `KeepLast` newer snapshots in the store; victims go
oldest first, so none of these is lost to an earlier deletion).
`StoreStep` maps each step to a publication, a prune or a stutter. `LeastNumberExists`
(`LeastNumber`) shows that `LeastOf` has a value on any non-empty set of
naturals, through the well-foundedness of finite subsets, because the library's
induction on naturals cannot be instantiated here.

`ListInv` says what a stage has gathered: never more than was asked for, and all
of it once the manifest is sealed. Any other step but the publication leaves a
snapshot as it is, unlists it, or empties its archives (`Withers`).

`StopIsConsistent` and `LeftAsFound` speak of the last state of a backup that
owns the lock. `SelfInv` is what a backup knows of itself, whoever owns the lock:
where it is in its loop (`ProgressOK`: only a service that ran is stopped and
started, what is left to capture has no archive) and that its command on the
target is the one it waits for or one it was cut off from (`CommandOK`).
`HeldInv` adds what the lock is worth: of the services whose facts held when the
lock was granted, no other backup has a command there or is about to start one
(`Apart`), those it is not at run or rest as they did and those behind it are
archived at rest (`ServiceOK`), and the one it is at is down from the end of
`compose stop` to the restart, so that its data cannot change from the first
archive to the last (`StoppedOK`). A service whose facts were stale is outside:
it is not stopped, or is started though it was stopped (`backup_stopped`).

### Restore

`RestoreProofs` is about any restores, services, data, requests and faults, under
`RestoresAssumption`, `ServicesAssumption` and `FaultsAssumption`.

| Theorem | Says | By |
|---|---|---|
| `TypeCorrect` | `[]TypeOK` | inductive with `SelfInv` |
| `Restored` | `[]RestoredIsWhole`, under all faults | `HeldInv` |
| `Found` | `[]LeftAsFound`, under all faults | `HeldInv` |
| `Empty` | `EmptyOnly`, under all faults | `HeldInv`, step by step |

All three properties say something about a restore that owns the lock and a
service whose facts were true when it got it, while anything may have happened
to other services and restores. The invariant has two layers. `SelfInv` is what
a restore knows of itself, whoever owns the lock: inside a service one is left
to handle (`LoopOK`), and of the commands it has on the target the awaited one
is about the service and the destination at hand (`ScriptOK`). `HeldInv` relates
the holder to the target: services it has not come to are untouched and as
inspected, those behind it are whole and as found, and of the one at hand it
says at each label whether it runs, which destinations are whole, and whose
extraction, if any, writes the next (`FillOK`). It has to speak of lost
extractions of every restore: none other writes to a service of the holder,
because the facts of a service with a command left over do not count as known.
`Elsewhere` and `HeldElsewhere` reduce the other restores' steps to one argument;
`HeldOwn` goes through the holder's own.

### Maintenance

`MaintenanceProofs` is about any runs numbered by naturals, any jobs, checks,
routes, policies and faults, under `RunsAssumption`, `PolicyAssumption`,
`FaultsAssumption`, `JobsAssumption`, `ChecksAssumption` and `RoutesAssumption`.

| Theorem | Says | Assumes | By |
|---|---|---|---|
| `TypeCorrect` | `[]TypeOK` | | inductive with `RunInv` |
| `NewestAreKept` | `[]HistoryKeepsNewest`, under all faults | | `HistoryInv` |
| `RecoveriesWereTold` | `[]RecoveryWasTold`, under all faults | | `EventsInv`, `ToldInv` |
| `IssuesAreToldOnce` | `[]ToldOnce`, under all faults | `CodesApart` | `OnceInv` |
| `AlertsAreCurrent` | `[]AlertIsCurrent`, under all faults | `CodesApart` | `CurrentInv` |

`RunInv` says at each label which lease and which lock a run owns; in particular
whoever processes alerts owns `.state.lock`, so nobody else does
(`ProcessesAlone`). `Steps` reduces the next-state relation to a run that
advances, a run that is over, however it ended, or a cooldown.

* `HistoryInv` is the property with the finiteness of the set of records.
  Pruning is right only because records may be pruned by a run that is not the
  newest, while others that started later have already written theirs, or died
  before.
* A recovery goes to whoever is remembered, in the memory of a run, as told.
  `ToldInv` says that what is remembered was delivered, in `state.json`, in the
  memory of the run that processes alerts, and for the recipients it has left;
  and that this memory differs from the file in issues of its own job only.
* `ToldOnce` permits a repetition by severity and cooldown alone (`MayRepeat`), not
  by what `Recipients` decides, so it also says that the suppression of
  `processEvent` is no weaker. `OnceInv` says the converse of `ToldInv`, for
  jobs that lost no alerts: who knows of an
  issue is remembered, or the issue is being taken back by the run at work. Its
  hypothesis `lost` is the window of the code: an alert is delivered before
  `state.json` is written, so a run that dies between the two is forgotten.
* `CurrentInv` follows the outcome of the last execution from the end of the
  operation to the file: the run that owns the lease of the job will save it
  (`UnsavedOK`), and has in its memory whatever events it has taken (`TakenOK`).
  Skipped runs of the same job and runs of other jobs write the file meanwhile.

`CodesApart` says that findings of different checks have different codes.
Otherwise one run may derive an alarm and a recovery of the same issue. It holds
of `preflight.go`, where every check has codes of its own, except for a storage
resource that is itself named "unconfigured" (its code, `preflight.go:84`, is
that of unconfigured devices, `preflight.go:266`). Several unconfigured devices
give equal events, which the model takes as one. TLC checks the assumption of
each instance (`CodesAreApart` in `MCMaintenance`).

### Timers

`TimersProofs` is about `Timers` with any jobs numbered by naturals, any
versions, offers and faults, on either adapter, under `TimersAssumption`: a
version is none of the other words for a content.

| Theorem | Says | By |
|---|---|---|
| `TimersTypeCorrect` | `[]TimersTypeOK` | `Kept` |
| `ForeignTimersAreKept` | `ForeignTimersKept`, under all faults | `Kept` |
| `SuccessSchedules` | `[]SuccessIsScheduled`, under all faults | `Schedules` |
| `CurrentSchedules` | `[]CurrentIsScheduled`, under all faults | `Schedules` |
| `NothingLeftFails` | `UntroubledSucceeds`, under all faults | `Schedules` |

Whose a unit is gets decided when a command begins, from marks in the files, and
the steps are done later, beside whatever was interrupted before. `Kept` says
that the steps still to do are about the command's own (`Targets`), that the
timers of another project come with their services (`Pairs`, or the timer of a
foreign service could be taken for one of ours), and that the manager runs what
their files say (`Strangers`, or a reload would change them). `NextMove` reduces
every action to a `Move`: files become versions or go, foreign and special ones
stay; the
invariant is then shown for moves only.

That a success schedules what the policy says is a fact about many steps, each
of which does a part and takes the rest from those before it or from whatever an
earlier command left. `Schedules` adds four things to `Kept`. `Marks` and
`Couples` say which contents may be where, `ManagerRuns` which of them the
manager may be running (`strays` are what it runs without a file). `Work` says,
for each thing the command is to bring about, that it is so or that the step for
it is still left: that files are as declared (`FilesOK`), that timers are linked
and as the manager read them (`SystemdOK`, and `ReadLast` for what was changed
after the last reload), that agents are as their files (`LaunchdOK`), with the
order of the steps (`PlanOK`), because a step may rely on those before it only
as far as none of them is left. `BeginWork` shows of all four plans that they
leave exactly the steps for what is not yet so: this is where a wrong
comparison in the planning of an adapter would show. When no step is left,
`Work` says that all is done (`Settled`). That survives logins and lasts until
somebody interferes; that what runs is what the files say (`InSync`) survives
edits by hand as well, which is what `CurrentIsScheduled` needs. For
`UntroubledSucceeds` the step in hand is shown to find what it needs
(`RefusedIsExcused`).

### Host modules

`HostProofs` is about `HostModules` on any of the platforms, with any features,
and any number of applies, interruptions and edits (`HostModulesAssumption`).

| Theorem | Says | By |
|---|---|---|
| `HostTypeCorrect` | `[]HostTypeOK` | `TypeInv` |
| `DependenciesAreVerified` | `[]DependenciesVerified` | `TypeInv` |
| `ForeignIsUnharmed` | `NothingForeignIsHarmed` | `HarmInv` |
| `SuccessIsReadyAlways` | `[]SuccessIsReady` | `ReadyInv` |
| `OwnTraceNeverBlocksAlways` | `[]OwnTraceNeverBlocks` | `OwnInv` |
| `PlannedIsAppliableAlways` | `[]PlannedIsAppliable` | `FitInv`, with `ReadyInv` |

The prover has to read every plan of every platform; what it gathers from them
comes first. `PlanPlanned` says that a change that is not blocked is one its
module knows, with the kind of its ID, on a higher level than what it waits for,
and with the preconditions that its script relies on (`Prudent`). Levels make
the order of changes well-founded: among any changes there is a first one
(`FollowingIsUnlocked`), and it waits for none of the others, so that `TodoOK`
(what a change waits for is to be done or verified) gives
`DependenciesVerified`. `ScriptIs` says which script belongs to which change.

* That foreign things stay is a matter of time and of who looks. Three look at a
  file: the inspection, the precondition, and now and then the script itself
  before it overwrites. They do not look for the same (`Ownership`,
  `RepositorySafe`, `Rechecked`, `Replaceable`), and `NothingForeignIsHarmed` is
  graded accordingly: what the inspection saw is never overwritten, nor installed
  beside or over; what came after it is not, where the precondition sees as much
  as the probe (not a file edited below the marker, a definition that is not the
  last, a hold); what came after the precondition may be, but for the link of a
  service. `HarmInv` says that for each harmful step left in the script either
  nothing is there to be harmed, or the script looks once more before it
  (`Before`). `CheckedScript` shows that a script starts in that state. An edit
  takes away what it made out of date until the next plan.
* `SuccessIsReady` is about what plans pass over. `ReadyInv` says that what the
  configuration asks is so or is one of the changes to be done (`Covered`), and
  what the running script will have brought about (`Doing`). `PlanCovers` shows
  it of each plan: what the probes take for done is done. `ConfirmedCovers`
  shows that what a verification accepts is no longer missing.
* `OwnInv` names the host's origin: if nobody else was at work it comes from a
  host for which a plan found nothing in the way, by what Bebop's steps can do
  (`Traced`, `Grown`). `DockerBlocks` and its like turn each plan into the
  condition under which none of its changes is blocked, and
  `GrowthBlocksNothing` shows that growing does not break that condition, but
  for the listed traces (`Tripwire`). Packages are where this is not obvious: a
  package that another source already provides, or a second package without the
  first, would block the next plan, which is why `OwnInv` follows the order of
  the steps.
* `PlannedIsAppliable` is about four readers of one host: probes, preconditions,
  scripts and verifications, that must agree on each platform. `FitInv` follows
  an apply that has no excuse for failing. The host stays healthy (`Fit`), what a
  plan would not have passed over is not there (`Passable`), an installed package
  has its service (`Defined`; under Artix not between its two packages), and the
  steps of the running script are done or still to come in a possible order
  (`Underway`, `Made`). `PlanFits` shows it of every accepted plan of a `Sound`
  host, `CheckHolds` that the preconditions then hold, `AbleFit` that no step
  fails, `VerifyAccepts` that the verification is content, and `NothingLeft`
  that the second planning finds nothing to do. Changes meet one another in two
  places: a precondition such as "absent" must still hold when its turn comes, so
  only changes that the others wait for may have one (`Shape`, `BasesDone`); and
  a service needs the package of an earlier change, or one found at the
  beginning, which `Covered` of `ReadyInv` remembers (`BaseIsThere`). The
  combinations excepted by `Unfinishable` are where the readers disagree.

### Only model-checked

Liveness (`LockIsFreed`, `ApplyEnds`, `BackupEnds`, `RestoreEnds`, `RunEnds`),
which is beyond the prover.

## Plan

Done: `ComposePlan`, `Apply`, `ExclusiveLease`, `Backup` with the repository and
retention, `SnapshotStore`, `Restore`, `Notification`, `Maintenance`,
`HostModules`, `Timers`. Left, in this order:

1. `SavedPlan`: an artifact between review and apply: config, input, identity
   and state fingerprints; a stale one never reaches the lock.
2. `Fleet`: the worker pool of `Map` under cancellation, as an implementation of
   a map that fills every slot once.
3. `Recipes`, `Inventory`: updates of files of the project directory with
   crashes, by several commands at once.

## Not modelled

Parsing and validation of configuration, Compose files and `/etc/os-release`,
platform tables, and rendering of reports: sequential text work without state,
where a unit test says more. Of the shell text of the host modules, what it
tests and changes is modelled and how it is written is not. File permissions
matter once (the data root) and are modelled there. The components of the plan
above that have no module yet are marked so in `PROJECT.json`.
