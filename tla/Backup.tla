------------------------------- MODULE Backup -------------------------------
(***************************************************************************)
(* `bebop backup create` and scheduled backup jobs: backup.Create captures  *)
(* the declared data of the services of one target under the apply lock     *)
(* (internal/backup/create.go) into a repository of snapshots on the        *)
(* controller (repository.go), and a scheduled one then prunes the older    *)
(* snapshots of its job (retention.go, maintenance/executor.go).            *)
(*                                                                         *)
(* The lock is the ExclusiveLease that Apply implements; a command of        *)
(* another of its owners is one step.  Remote scripts outlive their callers. *)
(***************************************************************************)
EXTENDS Naturals, FiniteSets

CONSTANTS
  Backups,       \* backups, each run once; a backup's number is its snapshot's
                 \* place in (created at, id) order, whatever the clocks said
  Earlier,       \* those that are over before a behaviour begins
  Scheduled,     \* those of one maintenance job; the others are manual
  KeepLast,      \* the job's retention.keep_last
  Services,      \* services that declare data, numbered in name order
  Data,          \* per service: its data resources, numbered in name order
  Request,       \* per backup: the services it is asked for, one or all
  StopServices,  \* services with consistency = "stop"; the others are "live"
  Nobody,        \* the lock is free
  NoScript,      \* no remote script of this backup
  Nothing,       \* no archive, and no capture running
  Torn,          \* an archive read while the application was writing
  MaxVersion,    \* bound: writes of an application to its data
  Faults         \* which faults a behaviour may contain

ASSUME BackupsAssumption ==
  /\ Backups \subseteq Nat /\ IsFiniteSet(Backups)
  /\ Earlier \subseteq Backups /\ Scheduled \subseteq Backups
  /\ KeepLast \in Nat \ {0}
  /\ Nobody \notin Backups

ASSUME ServicesAssumption ==
  /\ Services \subseteq Nat /\ Services # {}
  /\ Data \in [Services -> (SUBSET Nat) \ {{}}]
  /\ Request \in [Backups -> (SUBSET Services) \ {{}}]
  /\ StopServices \subseteq Services
  /\ MaxVersion \in Nat
  /\ Nothing \notin Nat /\ Torn \notin Nat \cup {Nothing}

\* "capture": archiving a resource fails     "disk":    the repository's disk fails
\* "script":  a remote command fails         "session": an SSH connection is lost
\* "timeout": the command's context expires  "crash":   the controller process dies
ASSUME FaultsAssumption ==
  Faults \subseteq {"capture", "disk", "script", "session", "timeout", "crash"}

VARIABLES
  pc,        \* where each backup stands in backup.Create and after it
  result,    \* what Create returned
  facts,     \* runtime per service, inspected before the lock was asked for
  atLock,    \* observed by properties: runtime per service when the lock was got
  handled,   \* services of the stage's manifest
  stopped,   \* this backup stopped the service it is capturing
  failed,    \* backupErr
  reading,   \* version of the data when the running capture began
  live,      \* the context has not expired
  prune,     \* RetentionPlan.Remove
  holder,    \* who owns the apply lock
  job,       \* who owns the lease of the maintenance job
  script,    \* the Compose command a backup started on the target
  runtime,   \* per "stop" service: are its containers running
  version,   \* per "stop" service: version of its data
  place,     \* per snapshot: nowhere, in .staging or in snapshots
  manifest,  \* per snapshot: services its manifest.json lists
  archive    \* per snapshot: what each archive contains

createVars == <<result, facts, atLock, handled, stopped, failed, reading>>
lockVars == <<holder, job, script, live>>
targetVars == <<runtime, version>>
repositoryVars == <<place, manifest, archive>>
vars == <<pc, createVars, prune, lockVars, targetVars, repositoryVars>>

NoManifest == {}     \* a manifest lists at least one service
Resources == UNION {Data[s] : s \in Services}
Versions == 0 .. MaxVersion
Runtimes == {"running", "stopped"}

Create == {"begin", "next", "stopping", "capture", "restart", "restarting",
           "publish", "protect", "abort", "release"}
Retain == {"retain", "prune", "delete", "deleting"}
PCs == {"idle", "inspect", "lock", "done"} \cup Create \cup Retain

Script == [kind : {"stop", "up"}, service : Services, phase : {"run", "ok", "failed"}]

ASSUME ScriptAssumption == NoScript \notin Script

CreateTypeOK ==
  /\ pc \in [Backups -> PCs]
  /\ result \in [Backups -> {"none", "ok", "failed", "stop failed", "restart failed"}]
  /\ facts \in [Backups -> [Services -> Runtimes]]
  /\ atLock \in [Backups -> [Services -> Runtimes \cup {"unsettled"}]]
  /\ handled \in [Backups -> SUBSET Services]
  /\ stopped \in [Backups -> BOOLEAN]
  /\ failed \in [Backups -> BOOLEAN]
  /\ reading \in [Backups -> Versions \cup {Nothing}]
  /\ prune \in [Backups -> SUBSET Backups]

LockTypeOK ==
  /\ holder \in Backups \cup {Nobody}
  /\ job \in Backups \cup {Nobody}
  /\ script \in [Backups -> Script \cup {NoScript}]
  /\ live \in [Backups -> BOOLEAN]

StoreTypeOK ==
  /\ runtime \in [Services -> Runtimes]
  /\ version \in [Services -> Versions]
  /\ place \in [Backups -> {"nowhere", "staging", "snapshots"}]
  /\ manifest \in [Backups -> SUBSET Services]
  /\ archive \in [Backups -> [Services -> [Resources -> Versions \cup {Torn, Nothing}]]]

TypeOK == CreateTypeOK /\ LockTypeOK /\ StoreTypeOK

AllStopped == [s \in Services |-> "stopped"]
NoArchives == [s \in Services |-> [r \in Resources |-> Nothing]]

\* Archives of a snapshot; nothing depends on their content any more.
SomeArchives(b) ==
  [s \in Services |-> [r \in Resources |-> IF s \in Request[b] THEN 0 ELSE Nothing]]

\* The snapshots of earlier backups, of which some lost their archives to a
\* deletion that was interrupted.
Init ==
  /\ pc = [b \in Backups |-> IF b \in Earlier THEN "done" ELSE "idle"]
  /\ result = [b \in Backups |-> "none"]
  /\ facts = [b \in Backups |-> AllStopped]
  /\ atLock = [b \in Backups |-> AllStopped]
  /\ handled = [b \in Backups |-> {}]
  /\ stopped = [b \in Backups |-> FALSE]
  /\ failed = [b \in Backups |-> FALSE]
  /\ reading = [b \in Backups |-> Nothing]
  /\ prune = [b \in Backups |-> {}]
  /\ holder = Nobody
  /\ job = Nobody
  /\ script = [b \in Backups |-> NoScript]
  /\ live = [b \in Backups |-> TRUE]
  /\ runtime \in {rt \in [Services -> Runtimes] : \A s \in Services \ StopServices : rt[s] = "stopped"}
  /\ version = [s \in Services |-> 0]
  /\ place = [b \in Backups |-> IF b \in Earlier THEN "snapshots" ELSE "nowhere"]
  /\ manifest = [b \in Backups |-> IF b \in Earlier THEN Request[b] ELSE NoManifest]
  /\ \E corrupt \in SUBSET (Earlier \cap Scheduled) :
       archive = [b \in Backups |-> IF b \in Earlier \ corrupt THEN SomeArchives(b) ELSE NoArchives]

-----------------------------------------------------------------------------
(* Before the lock. *)

Goto(b, label) == pc' = [pc EXCEPT ![b] = label]
Set(f, b, value) == [f EXCEPT ![b] = value]
LeastOf(set) == CHOOSE x \in set : \A y \in set : x <= y

\* What Create held in memory is gone.
Forget(b) ==
  /\ result' = Set(result, b, "none")
  /\ facts' = Set(facts, b, AllStopped) /\ atLock' = Set(atLock, b, AllStopped)
  /\ handled' = Set(handled, b, {}) /\ stopped' = Set(stopped, b, FALSE)
  /\ failed' = Set(failed, b, FALSE) /\ reading' = Set(reading, b, Nothing)

\* The process is over and no longer owns what it owned.  Nobody reads a
\* stage it left behind, so what is in it is not told apart.
End(b) ==
  /\ Goto(b, "done")
  /\ Forget(b)
  /\ live' = Set(live, b, TRUE)
  /\ prune' = Set(prune, b, {})
  /\ holder' = IF holder = b THEN Nobody ELSE holder
  /\ job' = IF job = b THEN Nobody ELSE job
  /\ IF place[b] = "staging"
     THEN manifest' = Set(manifest, b, NoManifest) /\ archive' = Set(archive, b, NoArchives)
     ELSE UNCHANGED <<manifest, archive>>
  /\ UNCHANGED <<script, targetVars, place>>

\* Two runs of one job exclude each other.
StartBackup(b) ==
  /\ pc[b] = "idle"
  /\ b \in Scheduled => job = Nobody
  /\ job' = IF b \in Scheduled THEN b ELSE job
  /\ Goto(b, "inspect")
  /\ UNCHANGED <<result, facts, atLock, handled, stopped, failed, reading, prune,
                 holder, script, live, targetVars, repositoryVars>>

\* The services whose state Create asks for: only those it may have to stop.
Watched(b) == Request[b] \cap StopServices

\* The facts Create works with are from before the prompt and the lock.
Inspect(b) ==
  /\ pc[b] = "inspect"
  /\ facts' = Set(facts, b, [s \in Services |-> IF s \in Watched(b) THEN runtime[s] ELSE "stopped"])
  /\ Goto(b, "lock")
  /\ UNCHANGED <<result, atLock, handled, stopped, failed, reading, prune,
                 lockVars, targetVars, repositoryVars>>

\* The user says no, inspection fails, or flock -n finds the lock taken.
NotStarted(b) ==
  /\ \/ pc[b] = "lock" /\ (b \notin Scheduled \/ holder # Nobody)
     \/ pc[b] \in {"inspect", "lock"} /\ (~live[b] \/ "script" \in Faults)
  /\ End(b)

\* A script on its way may still change the service it is for, and so may a
\* backup that lost the lock and does not know.
Unsettled(s) ==
  \E c \in Backups : \/ script[c] # NoScript /\ script[c].service = s
                     \/ pc[c] \in Create /\ s \in Watched(c)

LockGranted(b) ==
  /\ pc[b] = "lock" /\ live[b] /\ holder = Nobody
  /\ holder' = b
  /\ atLock' = Set(atLock, b,
       [s \in Services |-> IF s \notin Watched(b) \/ Unsettled(s) THEN "unsettled" ELSE runtime[s]])
  /\ Goto(b, "begin")
  /\ UNCHANGED <<result, facts, handled, stopped, failed, reading, prune,
                 job, script, live, targetVars, repositoryVars>>

-----------------------------------------------------------------------------
(* backup.Create under the lock. *)

\* Create returns an error: the deferred Abort removes the stage first.
Fail(b, outcome) ==
  /\ Goto(b, "abort")
  /\ result' = Set(result, b, outcome)

\* ensureHelper, then repository.Begin.
Begin(b) ==
  /\ pc[b] = "begin"
  /\ \/ /\ live[b]
        /\ place' = Set(place, b, "staging")
        /\ Goto(b, "next")
        /\ UNCHANGED result
     \/ /\ ~live[b] \/ Faults \cap {"script", "disk"} # {}
        /\ Goto(b, "release")
        /\ result' = Set(result, b, "failed")
        /\ UNCHANGED place
  /\ UNCHANGED <<facts, atLock, handled, stopped, failed, reading, prune,
                 lockVars, targetVars, manifest, archive>>

Rest(b) == Request[b] \ handled[b]
Current(b) == LeastOf(Rest(b))

\* Mutant: the two consistency policies are swapped.
MutNeedsStop(b) == Current(b) \notin StopServices /\ facts[b][Current(b)] = "running"

NeedsStop(b) == Current(b) \in StopServices /\ facts[b][Current(b)] = "running"

Launch(b, kind) ==
  script' = Set(script, b, [kind |-> kind, service |-> Current(b), phase |-> "run"])

\* The top of the loop over the selected services.  One that is declared
\* absent or whose data is not where it should be ends the backup.
NextService(b) ==
  /\ pc[b] = "next" /\ Rest(b) # {}
  /\ \/ /\ live[b]
        /\ IF NeedsStop(b) THEN Goto(b, "stopping") /\ Launch(b, "stop")
                           ELSE Goto(b, "capture") /\ UNCHANGED script
        /\ UNCHANGED result
     \/ Fail(b, "failed") /\ UNCHANGED script
  /\ UNCHANGED <<facts, atLock, handled, stopped, failed, reading, prune,
                 holder, job, live, targetVars, repositoryVars>>

StopReturned(b) ==
  /\ pc[b] = "stopping" /\ script[b] # NoScript
  /\ \/ /\ script[b].phase = "ok"
        /\ stopped' = Set(stopped, b, TRUE)
        /\ Goto(b, "capture")
        /\ UNCHANGED result
     \/ /\ script[b].phase = "failed"
        /\ Fail(b, "stop failed")
        /\ UNCHANGED stopped
  /\ script' = Set(script, b, NoScript)
  /\ UNCHANGED <<facts, atLock, handled, failed, reading, prune,
                 holder, job, live, targetVars, repositoryVars>>

\* Nobody waits for the command any more, but it runs on.
StopWaiting(b) ==
  /\ pc[b] \in {"stopping", "restarting"}
  /\ Fail(b, IF pc[b] = "stopping" THEN "stop failed" ELSE "restart failed")
  /\ UNCHANGED <<facts, atLock, handled, stopped, failed, reading, prune,
                 lockVars, targetVars, repositoryVars>>

\* Mutant: the recovery restart is waited for without the context.
MutWaitExpires(b) == pc[b] # "restarting" /\ ~live[b] /\ StopWaiting(b)

WaitExpires(b) == ~live[b] /\ StopWaiting(b)

Missing(b) == {r \in Data[Current(b)] : archive[b][Current(b)][r] = Nothing}

\* capture: a helper container reads one resource while the archive is
\* being written.
CaptureBegins(b) ==
  /\ pc[b] = "capture" /\ reading[b] = Nothing /\ live[b]
  /\ reading' = Set(reading, b, version[Current(b)])
  /\ UNCHANGED <<pc, result, facts, atLock, handled, stopped, failed, prune,
                 lockVars, targetVars, repositoryVars>>

\* What follows a service's capture: stopped services are started again.
AfterCapture(b) == IF stopped[b] THEN "restart" ELSE "next"

CaptureEnds(b) ==
  /\ pc[b] = "capture" /\ reading[b] # Nothing /\ live[b]
  /\ LET s == Current(b)  r == LeastOf(Missing(b)) IN
       /\ archive' = [archive EXCEPT ![b][s][r] =
                        IF version[s] = reading[b] THEN version[s] ELSE Torn]
       /\ IF Missing(b) = {r}
          THEN /\ Goto(b, AfterCapture(b))
               /\ handled' = Set(handled, b, IF stopped[b] THEN handled[b] ELSE handled[b] \cup {s})
          ELSE UNCHANGED <<pc, handled>>
  /\ reading' = Set(reading, b, Nothing)
  /\ UNCHANGED <<result, facts, atLock, stopped, failed, prune,
                 lockVars, targetVars, place, manifest>>

\* Mutant: a failed capture returns at once.
MutCaptureFails(b) ==
  /\ pc[b] = "capture"
  /\ ~live[b] \/ "capture" \in Faults
  /\ reading' = Set(reading, b, Nothing)
  /\ Fail(b, "failed")
  /\ UNCHANGED <<facts, atLock, handled, stopped, failed, prune, lockVars, targetVars, repositoryVars>>

CaptureFails(b) ==
  /\ pc[b] = "capture"
  /\ ~live[b] \/ "capture" \in Faults
  /\ reading' = Set(reading, b, Nothing)
  /\ IF stopped[b]
     THEN Goto(b, "restart") /\ failed' = Set(failed, b, TRUE) /\ UNCHANGED result
     ELSE Fail(b, "failed") /\ UNCHANGED failed
  /\ UNCHANGED <<facts, atLock, handled, stopped, prune, lockVars, targetVars, repositoryVars>>

\* restartAndVerify runs in the same context as the capture that failed.
Restart(b) ==
  /\ pc[b] = "restart"
  /\ IF live[b]
     THEN /\ Launch(b, "up")
          /\ Goto(b, "restarting")
          /\ UNCHANGED result
     ELSE Fail(b, "restart failed") /\ UNCHANGED script
  /\ UNCHANGED <<facts, atLock, handled, stopped, failed, reading, prune,
                 holder, job, live, targetVars, repositoryVars>>

\* `compose up` and Compose.Verify: the service has to run.
RestartReturned(b) ==
  /\ pc[b] = "restarting" /\ script[b] # NoScript
  /\ LET s == Current(b) IN
     \/ /\ script[b].phase = "ok" /\ runtime[s] = "running"
        /\ IF failed[b]
           THEN Fail(b, "failed") /\ UNCHANGED handled
           ELSE /\ Goto(b, "next")
                /\ handled' = Set(handled, b, handled[b] \cup {s})
                /\ UNCHANGED result
        /\ stopped' = Set(stopped, b, FALSE)
     \/ /\ \/ script[b].phase = "failed"
           \/ script[b].phase = "ok" /\ (runtime[s] # "running" \/ "script" \in Faults)
        /\ Fail(b, "restart failed")
        /\ UNCHANGED <<handled, stopped>>
  /\ script' = Set(script, b, NoScript)
  /\ UNCHANGED <<facts, atLock, failed, reading, prune,
                 holder, job, live, targetVars, repositoryVars>>

DiskFails(b) == "disk" \in Faults /\ Fail(b, "failed")

\* Mutant: what has been captured so far may be sealed.
MutSeal(b) ==
  /\ pc[b] = "next" /\ handled[b] # {}
  /\ Goto(b, "publish")
  /\ manifest' = Set(manifest, b, handled[b])
  /\ UNCHANGED <<createVars, prune, lockVars, targetVars, place, archive>>

\* stage.Complete: seal and write the manifest, ...
Seal(b) ==
  /\ pc[b] = "next" /\ Rest(b) = {}
  /\ \/ Goto(b, "publish") /\ manifest' = Set(manifest, b, handled[b]) /\ UNCHANGED result
     \/ DiskFails(b) /\ UNCHANGED manifest
  /\ UNCHANGED <<facts, atLock, handled, stopped, failed, reading, prune,
                 lockVars, targetVars, place, archive>>

\* repositoryVerifyPath: every archive the manifest lists is there.
Verifies(b) ==
  /\ manifest[b] # NoManifest
  /\ \A s \in manifest[b] : \A r \in Data[s] : archive[b][s][r] # Nothing

\* ... verify, and rename the stage into snapshots, ...
Publish(b) ==
  /\ pc[b] = "publish"
  /\ \/ /\ Verifies(b)
        /\ place' = Set(place, b, "snapshots")
        /\ Goto(b, "protect")
        /\ UNCHANGED result
     \/ /\ DiskFails(b) \/ (~Verifies(b) /\ Fail(b, "failed"))
        /\ UNCHANGED place
  /\ UNCHANGED <<facts, atLock, handled, stopped, failed, reading, prune,
                 lockVars, targetVars, manifest, archive>>

\* Mutant: what is moved back gets a name of its own.
MutProtect(b) ==
  /\ pc[b] = "protect"
  /\ place' = Set(place, b, "quarantine")
  /\ Fail(b, "failed")
  /\ UNCHANGED <<facts, atLock, handled, stopped, failed, reading, prune,
                 lockVars, targetVars, manifest, archive>>

\* ... and make it read-only or else move it back, as well as that goes.
Protect(b) ==
  /\ pc[b] = "protect"
  /\ \/ /\ Goto(b, "release")
        /\ result' = Set(result, b, "ok")
        /\ UNCHANGED place
     \/ /\ DiskFails(b)
        /\ \E where \in {"staging", "snapshots"} : place' = Set(place, b, where)
  /\ UNCHANGED <<facts, atLock, handled, stopped, failed, reading, prune,
                 lockVars, targetVars, manifest, archive>>

\* stage.Abort removes the stage, as well as that goes, and nothing else.
Abort(b) ==
  /\ pc[b] = "abort"
  /\ \/ /\ place[b] = "staging"
        /\ place' = Set(place, b, "nowhere")
        /\ manifest' = Set(manifest, b, NoManifest)
        /\ archive' = Set(archive, b, NoArchives)
     \/ /\ place[b] # "staging" \/ "disk" \in Faults
        /\ UNCHANGED repositoryVars
  /\ Goto(b, "release")
  /\ UNCHANGED <<createVars, prune, lockVars, targetVars>>

\* Create has returned; a scheduled backup that succeeded goes on to prune.
Release(b) ==
  /\ pc[b] = "release"
  /\ IF b \in Scheduled /\ result[b] = "ok"
     THEN /\ Goto(b, "retain")
          /\ Forget(b)
          /\ holder' = IF holder = b THEN Nobody ELSE holder
          /\ UNCHANGED <<prune, job, script, live, targetVars, repositoryVars>>
     ELSE End(b)

-----------------------------------------------------------------------------
(* Retention, without the lock, under the lease of the job. *)

\* List shows a snapshot whose manifest can be read, Verify wants the rest.
Listed(x) == place[x] = "snapshots" /\ manifest[x] # NoManifest
Intact(x) == Listed(x) /\ Verifies(x)

Candidates == {x \in Scheduled : Intact(x)}
NewerIn(set, x) == {y \in set : y > x}

\* Mutant: keeps one snapshot less.
MutExcess == {x \in Candidates : Cardinality(NewerIn(Candidates, x)) + 1 >= KeepLast}

\* PlanRetention: oldest first, all but the last KeepLast verified snapshots
\* of the scope; a corrupt one is skipped.
Excess == {x \in Candidates : Cardinality(NewerIn(Candidates, x)) >= KeepLast}

PlanRetention(b) ==
  /\ pc[b] = "retain"
  /\ \/ /\ prune' = Set(prune, b, Excess)
        /\ Goto(b, "prune")
        /\ UNCHANGED <<createVars, lockVars, targetVars, repositoryVars>>
     \/ "disk" \in Faults /\ End(b)

Deletable(b) == prune[b] # {} /\ Intact(LeastOf(prune[b]))

\* ApplyRetention: Delete the next one, or stop at the first that fails.
PruneNext(b) ==
  /\ pc[b] = "prune"
  /\ \/ /\ Deletable(b)
        /\ Goto(b, "delete")
        /\ UNCHANGED <<createVars, prune, lockVars, targetVars, repositoryVars>>
     \/ /\ ~Deletable(b) \/ "disk" \in Faults
        /\ End(b)

\* os.RemoveAll unlinks the files of a snapshot one after another.
DeleteBegins(b) ==
  /\ pc[b] = "delete"
  /\ \/ /\ manifest' = Set(manifest, LeastOf(prune[b]), NoManifest)
        /\ UNCHANGED archive
     \/ /\ archive' = Set(archive, LeastOf(prune[b]), NoArchives)
        /\ UNCHANGED manifest
  /\ Goto(b, "deleting")
  /\ UNCHANGED <<createVars, prune, lockVars, targetVars, place>>

DeleteEnds(b) ==
  /\ pc[b] = "deleting"
  /\ \/ /\ LET x == LeastOf(prune[b]) IN
             /\ place' = Set(place, x, "nowhere")
             /\ manifest' = Set(manifest, x, NoManifest)
             /\ archive' = Set(archive, x, NoArchives)
             /\ prune' = Set(prune, b, prune[b] \ {x})
        /\ Goto(b, "prune")
        /\ UNCHANGED <<createVars, lockVars, targetVars>>
     \/ "disk" \in Faults /\ End(b)

-----------------------------------------------------------------------------
(* The target, and what others do to it. *)

\* Docker brings the service to what was asked, or leaves it down.
ScriptRuns(b) ==
  /\ script[b] # NoScript /\ script[b].phase = "run"
  /\ \E rt \in Runtimes, phase \in {"ok"} \cup (IF "script" \in Faults THEN {"failed"} ELSE {}) :
       /\ script[b].kind = "stop" /\ phase = "ok" => rt = "stopped"
       /\ runtime' = [runtime EXCEPT ![script[b].service] = rt]
       /\ script' = Set(script, b,
            [kind |-> script[b].kind, service |-> script[b].service, phase |-> phase])
  /\ UNCHANGED <<pc, createVars, prune, holder, job, live, version, repositoryVars>>

OrphanEnds(b) ==
  /\ script[b] # NoScript /\ script[b].phase # "run"
  /\ pc[b] \notin {"stopping", "restarting"}
  /\ script' = Set(script, b, NoScript)
  /\ UNCHANGED <<pc, createVars, prune, holder, job, live, targetVars, repositoryVars>>

\* Live services and what they write are not told apart.
ApplicationWrites(s) ==
  /\ s \in StopServices /\ runtime[s] = "running" /\ version[s] < MaxVersion
  /\ version' = [version EXCEPT ![s] = @ + 1]
  /\ UNCHANGED <<pc, createVars, prune, lockVars, runtime, repositoryVars>>

\* A command of another controller, which needs the lock from its first
\* change to its last; what it does in between looks like one command more.
OtherCommand(s) ==
  /\ holder = Nobody
  /\ \E rt \in Runtimes : runtime' = [runtime EXCEPT ![s] = rt]
  /\ UNCHANGED <<pc, createVars, prune, lockVars, version, repositoryVars>>

-----------------------------------------------------------------------------
(* Faults. *)

Ended == {"idle", "done"}

\* The context expires: its SSH clients are killed, the lock's among them.
Timeout(b) ==
  /\ "timeout" \in Faults
  /\ live[b] /\ pc[b] \notin Ended \cup Retain
  /\ live' = Set(live, b, FALSE)
  /\ holder' = IF holder = b THEN Nobody ELSE holder
  /\ UNCHANGED <<pc, createVars, prune, job, script, targetVars, repositoryVars>>

ConnectionLost(b) == "session" \in Faults /\ StopWaiting(b)

\* Create does not notice that its lock session is gone.
LockLost(b) ==
  /\ "session" \in Faults
  /\ holder = b
  /\ holder' = Nobody
  /\ UNCHANGED <<pc, createVars, prune, job, script, live, targetVars, repositoryVars>>

Crash(b) ==
  /\ "crash" \in Faults
  /\ pc[b] \notin Ended
  /\ End(b)

-----------------------------------------------------------------------------
Controller(b) ==
  \/ Inspect(b) \/ NotStarted(b) \/ LockGranted(b)
  \/ Begin(b) \/ NextService(b) \/ StopReturned(b) \/ WaitExpires(b)
  \/ CaptureBegins(b) \/ CaptureEnds(b) \/ CaptureFails(b)
  \/ Restart(b) \/ RestartReturned(b)
  \/ Seal(b) \/ Publish(b) \/ Protect(b) \/ Abort(b) \/ Release(b)
  \/ PlanRetention(b) \/ PruneNext(b) \/ DeleteBegins(b) \/ DeleteEnds(b)

Environment == \E s \in StopServices : OtherCommand(s) \/ ApplicationWrites(s)

Next ==
  \/ \E b \in Backups :
       \/ StartBackup(b) \/ Controller(b)
       \/ ScriptRuns(b) \/ OrphanEnds(b) \/ Timeout(b)
       \/ ConnectionLost(b) \/ LockLost(b) \/ Crash(b)
  \/ Environment

Spec == Init /\ [][Next]_vars

\* A process is scheduled while it lives, and its context has a deadline
\* (applyTimeout, --timeout).  A remote command may hang for ever.
Fairness == \A b \in Backups : WF_vars(Controller(b)) /\ WF_vars(Timeout(b))

FairSpec == Spec /\ Fairness

-----------------------------------------------------------------------------
(* Properties. *)

\* A snapshot `backup list` shows has all that was asked for, and all of its
\* archives, until a deletion has begun: then it may have lost them.
ListedIsComplete ==
  \A b \in Backups : Listed(b) =>
    /\ manifest[b] = Request[b]
    /\ Verifies(b) \/ archive[b] = NoArchives

\* The services whose runtime a backup knew when it got the lock.
Known(b) == {s \in Watched(b) : facts[b][s] = atLock[b][s]}

\* At rest: every archive was read whole and at the same version.
AtRest(b, s) == \E v \in Versions : \A r \in Data[s] : archive[b][s][r] = v

\* A manifest that says "stop" tells the truth, if the lock was kept.
StopIsConsistent ==
  \A b \in Backups : pc[b] = "release" /\ holder = b /\ result[b] = "ok" =>
    \A s \in Known(b) : AtRest(b, s)

\* Whatever fails, a backup that still owns the lock leaves each service as
\* it was, or its error says that a stop or the recovery restart failed.
LeftAsFound ==
  \A b \in Backups :
    pc[b] = "release" /\ holder = b /\ result[b] \notin {"stop failed", "restart failed"} =>
      \A s \in Known(b) : runtime[s] = atLock[b][s]

\* "An already stopped service stays stopped."
StoppedStaysStopped ==
  \A b \in Backups :
    pc[b] = "release" /\ holder = b =>
      \A s \in Services : atLock[b][s] = "stopped" => runtime[s] = "stopped"

\* The repository: snapshots that verify and that their backup can no longer
\* take back.  Retention keeps KeepLast of them, whatever crashes.
Store == INSTANCE SnapshotStore
           WITH Snapshots <- Backups, Managed <- Scheduled,
                store <- {b \in Backups : Intact(b) /\ pc[b] # "protect"}

ImplementsStore == Store!StoreSpec

\* A backup that asked for the lock ends, although remote commands may hang.
BackupEnds == \A b \in Backups \ Earlier : pc[b] = "lock" ~> pc[b] = "done"
=============================================================================
