-------------------------------- MODULE Apply --------------------------------
(***************************************************************************)
(* `bebop apply` of several controllers against one target: inspect, plan, *)
(* confirm (internal/cli/cli.go), then apply.Execute (internal/apply) under *)
(* the target-side flock (internal/transport), with the scripts of the     *)
(* services module (internal/modules/compose.go) running on the target.    *)
(*                                                                         *)
(* A controller only waits for a script it started over SSH: when its      *)
(* context expires, its connection drops or it dies, the remote script     *)
(* goes on by itself.  The lock is one more SSH session, whose remote shell *)
(* holds the flock until its standard input closes.                        *)
(***************************************************************************)
EXTENDS ComposePlan

CONSTANTS
  Controllers,     \* processes running `bebop apply` against the target
  RootSessions,    \* the controllers whose SSH user is root; others use sudo -n
  Configs,         \* [goal, source] pairs a user may declare
  Nobody,          \* the flock is free
  NoScript,        \* no remote script of this controller
  Faults           \* which faults a behaviour may contain

ASSUME ControllersAssumption ==
  /\ RootSessions \subseteq Controllers
  /\ Nobody \notin Controllers

ASSUME ConfigsAssumption ==
  /\ Configs # {}
  /\ \A cfg \in Configs : /\ cfg.goal \in [Services -> Goals]
                          /\ cfg.source \in [Services -> Releases]

\* "session":   an SSH connection is lost
\* "timeout":   the command's context expires
\* "crash":     the controller process dies
\* "script":    a remote command fails
\* "probe":     an inspection probe fails and reads as empty output
\* "edit":      the user edits a service source while apply runs
\* "container": a container exits by itself
ASSUME FaultsAssumption ==
  Faults \subseteq {"session", "timeout", "crash", "script", "probe", "edit", "container"}

VARIABLES
  pc,          \* where each controller stands in cli.apply / apply.Execute
  goal,        \* desired state per service, loaded with the configuration
  source,      \* what each service's source directory resolves to now
  facts,       \* what the running inspection has read so far
  plan,        \* the reviewed changes
  applied,     \* Result.Applied
  verified,    \* Result.Verified
  result,      \* outcome of Execute while the deferred Release runs
  session,     \* the SSH session of the lock script
  holder,      \* whose lock script owns the flock
  script,      \* the mutating script a controller started on the target
  current,     \* per service: the release directory `current` links to
  tree,        \* per service: content of each releases/<digest> directory
  runtime,     \* per service: aggregated container state
  ran          \* per service: the release its containers were created from

controllerVars == <<pc, goal, source, facts, plan, applied, verified, result>>
targetVars == <<current, tree, runtime, ran>>
vars == <<controllerVars, session, holder, script, targetVars>>

Unread == [disk |-> NoRelease, runtime |-> "unread"]

PCs == {"idle", "inspect", "review", "lock", "apply", "launch", "wait",
        "verify", "replan", "release"}

\* Where Execute is between acquiring the lock and releasing it.
Window == {"apply", "launch", "wait", "verify", "replan", "release"}

Script == [change : Change, phase : {"run", "cleared", "placed", "ok", "failed"}]

ASSUME ScriptAssumption == NoScript \notin Script

ControllerTypeOK ==
  /\ pc \in [Controllers -> PCs]
  /\ goal \in [Controllers -> [Services -> Goals]]
  /\ source \in [Controllers -> [Services -> Releases]]
  /\ facts \in [Controllers -> [Services ->
       [disk : Releases \cup {NoRelease, Foreign}, runtime : Runtimes \cup {"unread"}]]]
  /\ plan \in [Controllers -> SUBSET Change]
  /\ applied \in [Controllers -> SUBSET Change]
  /\ verified \in [Controllers -> SUBSET Change]
  /\ result \in [Controllers -> {"none", "ok", "failed", "divergent"}]

LockTypeOK ==
  /\ session \in [Controllers -> {"none", "open", "cut"}]
  /\ holder \in Controllers \cup {Nobody}
  /\ script \in [Controllers -> Script \cup {NoScript}]

TargetTypeOK ==
  /\ current \in [Services -> Digests \cup {NoRelease, Foreign}]
  /\ tree \in [Services -> [Digests -> Releases \cup {NoRelease}]]
  /\ runtime \in [Services -> Runtimes]
  /\ ran \in [Services -> Releases \cup {NoRelease}]

TypeOK == ControllerTypeOK /\ LockTypeOK /\ TargetTypeOK

\* A target without deployments; in the place of one there may be a path the
\* administrator made, and containers of the project may have been left over.
Init ==
  /\ pc = [c \in Controllers |-> "idle"]
  /\ \E cfg \in Configs : /\ goal = [c \in Controllers |-> cfg.goal]
                          /\ source = [c \in Controllers |-> cfg.source]
  /\ facts = [c \in Controllers |-> [s \in Services |-> Unread]]
  /\ plan = [c \in Controllers |-> {}]
  /\ applied = [c \in Controllers |-> {}]
  /\ verified = [c \in Controllers |-> {}]
  /\ result = [c \in Controllers |-> "none"]
  /\ session = [c \in Controllers |-> "none"]
  /\ holder = Nobody
  /\ script = [c \in Controllers |-> NoScript]
  /\ current \in [Services -> {NoRelease, Foreign}]
  /\ tree = [s \in Services |-> [d \in Digests |-> NoRelease]]
  /\ runtime \in [Services -> {"missing", "running"}]
  /\ ran = [s \in Services |-> NoRelease]

-----------------------------------------------------------------------------
(* The controller. *)

Goto(c, label) == pc' = [pc EXCEPT ![c] = label]

\* The process exits: everything it held in memory is gone.
Exit(c) ==
  /\ Goto(c, "idle")
  /\ facts' = [facts EXCEPT ![c] = [s \in Services |-> Unread]]
  /\ plan' = [plan EXCEPT ![c] = {}]
  /\ applied' = [applied EXCEPT ![c] = {}]
  /\ verified' = [verified EXCEPT ![c] = {}]
  /\ result' = [result EXCEPT ![c] = "none"]
  /\ UNCHANGED <<goal, source>>

\* Execute returns: the deferred Release runs next.
Return(c, outcome) ==
  /\ Goto(c, "release")
  /\ result' = [result EXCEPT ![c] = outcome]

\* A controller identity is used again once its remote scripts are gone; a
\* run that overlaps them is a run of another controller.
Slot(c) == session[c] = "none" /\ script[c] = NoScript

StartApply(c) ==
  /\ pc[c] = "idle" /\ Slot(c)
  /\ Goto(c, "inspect")
  /\ \E cfg \in Configs : /\ goal' = [goal EXCEPT ![c] = cfg.goal]
                          /\ source' = [source EXCEPT ![c] = cfg.source]
  /\ UNCHANGED <<facts, plan, applied, verified, result, session, holder, script, targetVars>>

\* What deploymentProbeScript finds; a dangling `current` counts as absent.
DiskOf(s) ==
  IF current[s] \in Digests THEN tree[s][current[s]] ELSE current[s]

\* The probe looks for the Compose file the declaration resolves to, and an
\* absent service resolves to none: its active release is reported unsafe.
Reported(c, s) ==
  IF goal[c][s] = "absent" /\ DiskOf(s) \in Releases THEN Foreign ELSE DiskOf(s)

\* The data root is mode 0750 owned by root and probes run unprivileged.
VisibleDisk(c, s) == IF c \in RootSessions THEN Reported(c, s) ELSE NoRelease

ProbeTurn(c, s) ==
  /\ pc[c] \in {"inspect", "replan"}
  /\ \A other \in Services : other < s => facts[c][other].runtime # "unread"
  /\ facts[c][s].runtime = "unread"

\* A `docker ps` that fails finds no containers, a failing `docker inspect`
\* leaves those it found unknown.
Misread(s) == {"missing"} \cup (IF runtime[s] = "missing" THEN {} ELSE {"unknown"})

\* inspectServices reads deployment and runtime of one service after another.
\* Here the runtime probe of a service follows its deployment probe at once.
Probe(c, s) ==
  /\ ProbeTurn(c, s)
  /\ \E disk \in {VisibleDisk(c, s)} \cup (IF "probe" \in Faults THEN {NoRelease} ELSE {}),
        rt \in {runtime[s]} \cup (IF "probe" \in Faults THEN Misread(s) ELSE {})
                          \cup (IF c \notin RootSessions THEN {"missing"} ELSE {}) :
       facts' = [facts EXCEPT ![c][s] = [disk |-> disk, runtime |-> rt]]
  /\ UNCHANGED <<pc, goal, source, plan, applied, verified, result,
                 session, holder, script, targetVars>>

Inspected(c) == \A s \in Services : facts[c][s].runtime # "unread"

FreshPlan(c) == Plan(goal[c], source[c], facts[c])

\* cli.apply: a blocked plan is refused and an empty one needs no lock.
Review(c) ==
  /\ pc[c] = "inspect" /\ Inspected(c)
  /\ IF FreshPlan(c) = {} \/ \E ch \in FreshPlan(c) : ch.blocked
     THEN Exit(c)
     ELSE /\ Goto(c, "review")
          /\ plan' = [plan EXCEPT ![c] = FreshPlan(c)]
          /\ facts' = [facts EXCEPT ![c] = [s \in Services |-> Unread]]
          /\ UNCHANGED <<goal, source, applied, verified, result>>
  /\ UNCHANGED <<session, holder, script, targetVars>>

Decline(c) ==
  /\ pc[c] = "review"
  /\ Exit(c)
  /\ UNCHANGED <<session, holder, script, targetVars>>

\* Execute begins with the lock; the plan is not computed again under it.
Confirm(c) ==
  /\ pc[c] = "review"
  /\ Goto(c, "lock")
  /\ session' = [session EXCEPT ![c] = "open"]
  /\ UNCHANGED <<goal, source, facts, plan, applied, verified, result, holder, script, targetVars>>

LockAcknowledged(c) ==
  /\ pc[c] = "lock" /\ holder = c /\ session[c] = "open"
  /\ Goto(c, "apply")
  /\ UNCHANGED <<goal, source, facts, plan, applied, verified, result,
                 session, holder, script, targetVars>>

\* The lock script is gone before the controller read its acknowledgement.
LockLost(c) ==
  /\ pc[c] = "lock" /\ session[c] # "open"
  /\ Exit(c)
  /\ UNCHANGED <<session, holder, script, targetVars>>

Pending(c) == First(plan[c] \ applied[c])

\* Mutant: the deploy action carries no precondition.
MutPreconditionHolds(ch) == TRUE

\* Mutant: `test ! -L` instead of `test ! -e`.
MutResumablePrecondition(ch) ==
  IF ch.was = NoRelease
  THEN current[ch.service] = NoRelease
  ELSE DiskOf(ch.service) \in Releases /\ DiskOf(ch.service).digest = ch.was

\* `test ! -e current`, or the digest of the release `current` links to.
PreconditionHolds(ch) ==
  IF ch.was = NoRelease
  THEN DiskOf(ch.service) = NoRelease
  ELSE DiskOf(ch.service) \in Releases /\ DiskOf(ch.service).digest = ch.was

\* Compose.Apply up to its action: the source is resolved again and must be
\* the reviewed one, then the preconditions run as scripts of their own.
CheckChange(c) ==
  /\ pc[c] = "apply"
  /\ \E ch \in Pending(c) :
       \/ /\ ch.kind # "remove" => source[c][ch.service] = ch.release
          /\ ch.kind = "deploy" => PreconditionHolds(ch)
          /\ Goto(c, "launch")
          /\ UNCHANGED result
       \/ /\ \/ ch.kind # "remove" /\ source[c][ch.service] # ch.release
             \/ ch.kind = "deploy" /\ ~PreconditionHolds(ch)
             \/ ch.kind = "deploy" /\ "script" \in Faults
          /\ Return(c, "failed")
  /\ UNCHANGED <<goal, source, facts, plan, applied, verified, session, holder, script, targetVars>>

\* Mutant: the payload is resolved again after the check.
MutLaunch(c) ==
  /\ pc[c] = "launch"
  /\ Goto(c, "wait")
  /\ \E ch \in Pending(c) :
       script' = [script EXCEPT ![c] =
         [change |-> [ch EXCEPT !.release = source[c][ch.service]], phase |-> "run"]]
  /\ UNCHANGED <<goal, source, facts, plan, applied, verified, result, session, holder, targetVars>>

Launch(c) ==
  /\ pc[c] = "launch"
  /\ Goto(c, "wait")
  /\ \E ch \in Pending(c) :
       script' = [script EXCEPT ![c] = [change |-> ch, phase |-> "run"]]
  /\ UNCHANGED <<goal, source, facts, plan, applied, verified, result, session, holder, targetVars>>

Awaiting(c) == pc[c] = "wait" /\ script[c] # NoScript

ScriptReturned(c) ==
  /\ Awaiting(c)
  /\ \/ /\ script[c].phase = "ok"
        /\ Goto(c, "verify")
        /\ applied' = [applied EXCEPT ![c] = @ \cup {script[c].change}]
        /\ UNCHANGED result
     \/ /\ script[c].phase = "failed"
        /\ Return(c, "failed")
        /\ UNCHANGED applied
  /\ script' = [script EXCEPT ![c] = NoScript]
  /\ UNCHANGED <<goal, source, facts, plan, verified, session, holder, targetVars>>

\* The states in which Compose.Verify of a change may succeed and may fail;
\* waitForRunning polls on while the containers are neither.
VerifyAccepts(c, ch) ==
  LET s == ch.service  disk == DiskOf(ch.service) IN
  /\ ch.kind = "deploy" => /\ disk \in Releases
                           /\ disk.digest = source[c][s].digest
                           /\ \/ source[c][s].secret = NoSecret
                              \/ disk.secret = source[c][s].secret
                           /\ disk.placement = source[c][s].placement
  /\ ch.kind = "start"  => runtime[s] = "running"
  /\ ch.kind = "stop"   => runtime[s] \notin {"running", "unknown"}
  /\ ch.kind = "remove" => disk = NoRelease /\ runtime[s] = "missing"

\* A start is refused at once or when its deadline passes; containers that
\* are neither running nor stopped may count as running for `docker ps`.
VerifyRefuses(c, ch) ==
  \/ ch.kind = "stop" /\ runtime[ch.service] \notin {"stopped", "missing"}
  \/ ~VerifyAccepts(c, ch)

\* Mutant: replans after the first verified change.
MutVerify(c) ==
  /\ pc[c] = "verify"
  /\ \E ch \in applied[c] \ verified[c] :
       /\ VerifyAccepts(c, ch)
       /\ verified' = [verified EXCEPT ![c] = @ \cup {ch}]
  /\ Goto(c, "replan")
  /\ UNCHANGED <<goal, source, facts, plan, applied, result, session, holder, script, targetVars>>

Verify(c) ==
  /\ pc[c] = "verify"
  /\ \E ch \in applied[c] \ verified[c] :
       \/ /\ VerifyAccepts(c, ch)
          /\ verified' = [verified EXCEPT ![c] = @ \cup {ch}]
          /\ Goto(c, IF applied[c] = plan[c] THEN "replan" ELSE "apply")
          /\ UNCHANGED result
       \/ /\ VerifyRefuses(c, ch) \/ "script" \in Faults
          /\ Return(c, "failed")
          /\ UNCHANGED verified
  /\ UNCHANGED <<goal, source, facts, plan, applied, session, holder, script, targetVars>>

\* Mutant: having verified every change counts as having converged.
MutConverge(c) ==
  /\ pc[c] = "replan" /\ Inspected(c)
  /\ Return(c, "ok")
  /\ UNCHANGED <<goal, source, facts, plan, applied, verified, session, holder, script, targetVars>>

\* The plan of the reinspection decides between converged and divergent.
Converge(c) ==
  /\ pc[c] = "replan" /\ Inspected(c)
  /\ Return(c, IF Executable(FreshPlan(c)) = {} THEN "ok" ELSE "divergent")
  /\ UNCHANGED <<goal, source, facts, plan, applied, verified, session, holder, script, targetVars>>

\* Mutant: Release unlocks by path instead of by closing its own session.
MutRelease(c) ==
  /\ pc[c] = "release"
  /\ Exit(c)
  /\ session' = [session EXCEPT ![c] = IF @ = "open" THEN "none" ELSE @]
  /\ holder' = Nobody
  /\ UNCHANGED <<script, targetVars>>

\* processLock.Release closes the session's input and waits for it to end.
Release(c) ==
  /\ pc[c] = "release"
  /\ Exit(c)
  /\ session' = [session EXCEPT ![c] = IF @ = "open" THEN "none" ELSE @]
  /\ holder' = IF holder = c /\ session[c] = "open" THEN Nobody ELSE holder
  /\ UNCHANGED <<script, targetVars>>

-----------------------------------------------------------------------------
(* The target: the lock script, the action scripts, the containers. *)

\* Mutant: a shared instead of an exclusive lock.
MutFlockGranted(c) ==
  /\ session[c] # "none" /\ pc[c] \in {"lock", "idle"}
  /\ holder' = c
  /\ UNCHANGED <<controllerVars, session, script, targetVars>>

\* flock -n 9
FlockGranted(c) ==
  /\ session[c] # "none" /\ pc[c] \in {"lock", "idle"} /\ holder = Nobody
  /\ holder' = c
  /\ UNCHANGED <<controllerVars, session, script, targetVars>>

\* || exit 75
FlockBusy(c) ==
  /\ session[c] = "open" /\ pc[c] = "lock" /\ holder \notin {c, Nobody}
  /\ session' = [session EXCEPT ![c] = "none"]
  /\ Exit(c)
  /\ UNCHANGED <<holder, script, targetVars>>

\* Mutant: the lock is a file that only Release removes.
MutLockScriptEnds(c) ==
  /\ session[c] = "cut"
  /\ session' = [session EXCEPT ![c] = "none"]
  /\ UNCHANGED <<controllerVars, holder, script, targetVars>>

\* A lock script whose connection is gone reads end of file and exits.
LockScriptEnds(c) ==
  /\ session[c] = "cut"
  /\ session' = [session EXCEPT ![c] = "none"]
  /\ holder' = IF holder = c THEN Nobody ELSE holder
  /\ UNCHANGED <<controllerVars, script, targetVars>>

Phase(c, phase) ==
  script' = [script EXCEPT ![c] = [change |-> script[c].change, phase |-> phase]]

Running(c, kind, phase) ==
  script[c] # NoScript /\ script[c].change.kind = kind /\ script[c].phase = phase

\* deployScript: stage and validate, clear the release directory of the
\* same digest, move the staged tree there, then swap `current`.
DeployClears(c) ==
  /\ Running(c, "deploy", "run")
  /\ tree' = [tree EXCEPT ![script[c].change.service][script[c].change.release.digest] = NoRelease]
  /\ Phase(c, "cleared")
  /\ UNCHANGED <<controllerVars, session, holder, current, runtime, ran>>

DeployPlaces(c) ==
  /\ Running(c, "deploy", "cleared")
  /\ tree' = [tree EXCEPT ![script[c].change.service][script[c].change.release.digest] =
                script[c].change.release]
  /\ Phase(c, "placed")
  /\ UNCHANGED <<controllerVars, session, holder, current, runtime, ran>>

DeployActivates(c) ==
  /\ Running(c, "deploy", "placed")
  /\ current' = [current EXCEPT ![script[c].change.service] = script[c].change.release.digest]
  /\ Phase(c, "ok")
  /\ UNCHANGED <<controllerVars, session, holder, tree, runtime, ran>>

\* ComposeCommand "up -d --remove-orphans" recreates changed containers.
StartUp(c) ==
  /\ Running(c, "start", "run")
  /\ LET s == script[c].change.service IN
       IF DiskOf(s) \in Releases
       THEN /\ \E rt \in {"starting", "running"} : runtime' = [runtime EXCEPT ![s] = rt]
            /\ ran' = [ran EXCEPT ![s] = DiskOf(s)]
            /\ Phase(c, "ok")
       ELSE Phase(c, "failed") /\ UNCHANGED <<runtime, ran>>
  /\ UNCHANGED <<controllerVars, session, holder, current, tree>>

\* Mutant: Docker's container status instead of the aggregated state.
MutStopDown(c) ==
  /\ Running(c, "stop", "run")
  /\ runtime' = [runtime EXCEPT ![script[c].change.service] = "exited"]
  /\ Phase(c, "ok")
  /\ UNCHANGED <<controllerVars, session, holder, current, tree, ran>>

StopDown(c) ==
  /\ Running(c, "stop", "run")
  /\ LET s == script[c].change.service IN
       IF DiskOf(s) \in Releases
       THEN /\ runtime' = [runtime EXCEPT ![s] = IF @ = "missing" THEN @ ELSE "stopped"]
            /\ Phase(c, "ok")
       ELSE Phase(c, "failed") /\ UNCHANGED runtime
  /\ UNCHANGED <<controllerVars, session, holder, current, tree, ran>>

\* removeScript: `compose down` or `docker rm -f`, then drop the symlink.
RemoveDowns(c) ==
  /\ Running(c, "remove", "run")
  /\ runtime' = [runtime EXCEPT ![script[c].change.service] = "missing"]
  /\ ran' = [ran EXCEPT ![script[c].change.service] = NoRelease]
  /\ Phase(c, "cleared")
  /\ UNCHANGED <<controllerVars, session, holder, current, tree>>

RemoveUnlinks(c) ==
  /\ Running(c, "remove", "cleared")
  /\ current' = [current EXCEPT ![script[c].change.service] = NoRelease]
  /\ Phase(c, "ok")
  /\ UNCHANGED <<controllerVars, session, holder, tree, runtime, ran>>

\* Nobody reads the exit status of a script whose controller stopped waiting.
OrphanEnds(c) ==
  /\ script[c] # NoScript /\ pc[c] # "wait" /\ script[c].phase \in {"ok", "failed"}
  /\ script' = [script EXCEPT ![c] = NoScript]
  /\ UNCHANGED <<controllerVars, session, holder, targetVars>>

ContainerSettles(s) ==
  /\ runtime[s] = "starting"
  /\ \E rt \in {"running", "unhealthy"} : runtime' = [runtime EXCEPT ![s] = rt]
  /\ UNCHANGED <<controllerVars, session, holder, script, current, tree, ran>>

-----------------------------------------------------------------------------
(* Faults. *)

\* What a failing `compose up`, `stop`, `down` or `docker rm` leaves of the
\* containers: all, none or some of them are up, and of `down` some or all are gone.
Halfway(ch, phase) ==
  LET rt == runtime[ch.service] IN
  {rt} \cup
  (IF ch.kind = "start" \/ (ch.kind \in {"stop", "remove"} /\ phase = "run" /\ rt # "missing")
   THEN {"stopped", "unknown"} \cup (IF ch.kind = "remove" THEN {"missing"} ELSE {})
   ELSE {})

\* A command of the script fails under `set -e`.
ScriptFails(c) ==
  /\ "script" \in Faults
  /\ script[c] # NoScript /\ script[c].phase \notin {"ok", "failed"}
  /\ \E rt \in Halfway(script[c].change, script[c].phase) :
       runtime' = [runtime EXCEPT ![script[c].change.service] = rt]
  /\ Phase(c, "failed")
  /\ UNCHANGED <<controllerVars, session, holder, current, tree, ran>>

\* The SSH connection of the running action drops; its script does not.
ConnectionLost(c) ==
  /\ "session" \in Faults
  /\ Awaiting(c)
  /\ Return(c, "failed")
  /\ UNCHANGED <<goal, source, facts, plan, applied, verified, session, holder, script, targetVars>>

\* The lock session dies and the controller is not told.
SessionLost(c) ==
  /\ "session" \in Faults
  /\ session[c] = "open"
  /\ session' = [session EXCEPT ![c] = "cut"]
  /\ UNCHANGED <<controllerVars, holder, script, targetVars>>

\* Reading /etc/os-release fails: no facts at all.
InspectFails(c) ==
  /\ "probe" \in Faults
  /\ \/ pc[c] = "inspect" /\ Exit(c)
     \/ /\ pc[c] = "replan" /\ Return(c, "failed")
        /\ UNCHANGED <<goal, source, facts, plan, applied, verified>>
  /\ UNCHANGED <<session, holder, script, targetVars>>

\* Mutant: remote commands are run without the command's context.
MutTimeout(c) ==
  /\ "timeout" \in Faults
  /\ pc[c] \notin {"idle", "wait"}
  /\ IF pc[c] \in Window \ {"release"}
     THEN Return(c, "failed") /\ UNCHANGED <<goal, source, facts, plan, applied, verified>>
     ELSE Exit(c)
  /\ session' = [session EXCEPT ![c] = IF @ = "open" THEN "cut" ELSE @]
  /\ UNCHANGED <<holder, script, targetVars>>

\* The context expires: CommandContext kills the local SSH clients of the
\* action and of the lock.
Timeout(c) ==
  /\ "timeout" \in Faults
  /\ pc[c] # "idle"
  /\ IF pc[c] \in Window \ {"release"}
     THEN Return(c, "failed") /\ UNCHANGED <<goal, source, facts, plan, applied, verified>>
     ELSE Exit(c)
  /\ session' = [session EXCEPT ![c] = IF @ = "open" THEN "cut" ELSE @]
  /\ UNCHANGED <<holder, script, targetVars>>

Crash(c) ==
  /\ "crash" \in Faults
  /\ pc[c] # "idle"
  /\ Exit(c)
  /\ session' = [session EXCEPT ![c] = IF @ = "open" THEN "cut" ELSE @]
  /\ UNCHANGED <<holder, script, targetVars>>

EditSource(c) ==
  /\ "edit" \in Faults
  /\ pc[c] \in PCs \ {"idle", "release"}
  /\ \E s \in Services, r \in Releases : source' = [source EXCEPT ![c][s] = r]
  /\ UNCHANGED <<pc, goal, facts, plan, applied, verified, result, session, holder, script, targetVars>>

ContainerExits(s) ==
  /\ "container" \in Faults
  /\ runtime[s] = "running"
  /\ runtime' = [runtime EXCEPT ![s] = "stopped"]
  /\ UNCHANGED <<controllerVars, session, holder, script, current, tree, ran>>

-----------------------------------------------------------------------------
\* What a controller does by itself once its user has confirmed the plan.
Controller(c) ==
  \/ \E s \in Services : Probe(c, s)
  \/ Review(c) \/ LockAcknowledged(c) \/ LockLost(c)
  \/ CheckChange(c) \/ Launch(c) \/ ScriptReturned(c) \/ Verify(c)
  \/ Converge(c) \/ Release(c)

User(c) == StartApply(c) \/ Decline(c) \/ Confirm(c)

Remote(c) ==
  \/ FlockGranted(c) \/ FlockBusy(c) \/ LockScriptEnds(c)
  \/ DeployClears(c) \/ DeployPlaces(c) \/ DeployActivates(c)
  \/ StartUp(c) \/ StopDown(c) \/ RemoveDowns(c) \/ RemoveUnlinks(c)
  \/ OrphanEnds(c)

Fault(c) ==
  \/ ScriptFails(c) \/ ConnectionLost(c) \/ SessionLost(c)
  \/ Timeout(c) \/ Crash(c) \/ EditSource(c) \/ InspectFails(c)

Next ==
  \/ \E c \in Controllers : Controller(c) \/ User(c) \/ Remote(c) \/ Fault(c)
  \/ \E s \in Services : ContainerSettles(s) \/ ContainerExits(s)

Spec == Init /\ [][Next]_vars

\* Fairness.  A controller process is scheduled while it lives, its context
\* expires in the end, and the kernel of the target runs the lock script.
\* Nothing is assumed of users, of action scripts or of any other fault: a
\* `docker compose up` may hang for ever.
Fairness ==
  \A c \in Controllers :
    /\ WF_vars(Controller(c))
    /\ WF_vars(Timeout(c))
    /\ WF_vars(LockScriptEnds(c))

FairSpec == Spec /\ Fairness

-----------------------------------------------------------------------------
(* Properties. *)

HoldsLease(c) == pc[c] \in Window /\ session[c] = "open"

\* Every controller between AcquireApplyLock and Release whose lock session
\* lives owns the flock, whatever else failed: two of them never overlap.
LeaseHeld == \A c \in Controllers : HoldsLease(c) => holder = c

\* Execute returns success only for a plan each change of which was applied
\* and verified, with the lock still its to release.
SuccessIsVerified ==
  \A c \in Controllers :
    pc[c] = "release" /\ result[c] = "ok" => applied[c] = plan[c] /\ verified[c] = plan[c]

\* What the review displayed is what is on disk once a deploy was applied,
\* and it stays there while the run lasts, although sources may be edited
\* and other controllers are waiting.
AppliedIsReviewed ==
  \A c \in Controllers : \A ch \in applied[c] :
    ch.kind = "deploy" => DiskOf(ch.service) = ch.release

ActualFacts == [s \in Services |-> [disk |-> DiskOf(s), runtime |-> runtime[s]]]

\* "Convergence verified": when Execute reports success nothing executable
\* separates the target, as it is at that moment, from the declared state.
\* Excepted is a service declared absent that somebody deployed after the
\* review: the replan sees its removal blocked, and a blocked change is passed over.
ConvergedAtSuccess ==
  \A c \in Controllers :
    pc[c] = "release" /\ result[c] = "ok" =>
      \A ch \in Executable(Plan(goal[c], source[c], ActualFacts)) :
        /\ ch.kind = "remove" /\ DiskOf(ch.service) \in Releases
        /\ \A own \in plan[c] : own.kind = "remove" => own.service # ch.service

\* "No changes. Target already matches the desired state." is printed only
\* when the containers of a running service were created from its release.
NoChangesMeansCurrent ==
  [][\A c \in Controllers : \A s \in Services :
       /\ pc[c] = "inspect" /\ pc'[c] = "idle"
       /\ Inspected(c) /\ FreshPlan(c) = {} /\ goal[c][s] = "running"
       => ran[s] = DiskOf(s)]_vars

\* An apply that left the target in the declared state says so: inspection
\* sees what the privileged scripts of the same user deployed.
ConvergenceIsReported ==
  \A c \in Controllers :
    /\ pc[c] = "release"
    /\ Executable(Plan(goal[c], source[c], ActualFacts)) = {}
    => result[c] # "divergent"

Activates(c, s) ==
  /\ Running(c, "deploy", "placed") /\ script[c].change.service = s
  /\ Running(c, "deploy", "ok")'

\* A deploy swaps `current` away from the release its reviewed plan saw, or
\* from nothing, however many controllers planned before it took the lock.
DeployReplacesObserved ==
  [][\A c \in Controllers, s \in Services :
       Activates(c, s) =>
         LET ch == script[c].change IN
         IF ch.was # NoRelease THEN current[s] = ch.was
         ELSE \/ current[s] \in {NoRelease, ch.release.digest}
              \/ current[s] \in Digests /\ DiskOf(s) = NoRelease]_vars

\* A `current` path that is not a Bebop release symlink is never replaced.
ForeignKept ==
  [][\A s \in Services : current[s] = Foreign => current'[s] = Foreign]_vars

\* "A subsequent storage-backed placement change is blocked before deployment":
\* no deploy starts over an active release that keeps its data elsewhere.
PlacementGuarded ==
  [][\A c \in Controllers :
       LET ch == script'[c].change  active == DiskOf(ch.service) IN
       /\ script[c] = NoScript /\ script'[c] # NoScript
       /\ ch.kind = "deploy" /\ ch.release.placement # NoPlacement
       /\ active \in Releases
       => active.placement = ch.release.placement]_vars

\* A failed probe, or one without privileges, saw nothing of what is there.
Overlooked(c, ch) ==
  /\ "probe" \in Faults \/ c \notin RootSessions
  /\ ch.was = NoRelease /\ DiskOf(ch.service) # NoRelease

\* Of a controller that works alone: wherever its earlier runs were interrupted,
\* once their scripts have ended the target does not refuse the deploy that a
\* fresh plan asks for, unless the inspection overlooked what is deployed.
InterruptedDeployResumes ==
  \A c \in Controllers : \A ch \in Pending(c) :
    pc[c] = "apply" /\ ch.kind = "deploy" => PreconditionHolds(ch) \/ Overlooked(c, ch)

\* The target-side lock implements the abstract exclusive lease over the
\* deployment trees, as long as no connection or controller is lost.
Lease == INSTANCE ExclusiveLease
           WITH Owners <- Controllers,
                owner <- holder,
                writers <- {c \in Controllers : script[c] # NoScript},
                deployments <- <<current, tree>>

ImplementsLease == Lease!LeaseSpec

\* A lock is never permanent: a hung script, a lost session or a dead
\* controller does not keep the next apply out.
LockIsFreed == \A c \in Controllers : holder = c ~> holder # c

\* A confirmed apply ends, successful or not.
ApplyEnds == \A c \in Controllers : pc[c] = "lock" ~> pc[c] = "idle"
=============================================================================
