-------------------------------- MODULE Timers --------------------------------
(***************************************************************************)
(* The scheduler of maintenance jobs on the controller: the commands       *)
(* `maintenance install`, `status` and `uninstall`, over a systemd user    *)
(* manager or over launchd.  A command reads the policy and the directory  *)
(* of unit files once, and what it then does is a list of steps, each a    *)
(* file operation or a call of systemctl or launchctl that may fail or be  *)
(* the last one before the command dies.  Beside it, the user logs in and  *)
(* out, stops timers and deletes files, and edits the policy.              *)
(*                                                                         *)
(* There are three copies of a schedule, and this is about how they        *)
(* disagree: the policy, the files (and the links that enable them), and   *)
(* what the manager has read of them.                                      *)
(***************************************************************************)
EXTENDS Naturals

CONSTANTS
  Backends,   \* the scheduler adapters of the instance
  Jobs,       \* maintenance jobs, numbered in the order of their names
  OldJobs,    \* those that may have units at first: of an M7 release of Bebop, or the user's own
  Versions,   \* what a job's schedule and command may be
  Offers,     \* for each job, what the configuration may say of it
  Faults      \* what may go wrong: "command", "hand"

NotVersions == {"none", "gone", "off", "old", "other", "foreign", "special"}

ASSUME TimersAssumption ==
  /\ Backends \subseteq {"systemd-user", "launchd"}
  /\ Jobs \subseteq Nat
  /\ OldJobs \subseteq Jobs
  /\ Versions \cap NotVersions = {}
  /\ Offers \in [Jobs -> SUBSET (Versions \cup {"off", "gone"})]

VARIABLES
  backend,    \* the adapter of this controller
  policy,     \* each job in the configuration: its version, "off" when disabled, "gone" when not there
  file,       \* the unit files and plists
  links,      \* the timers that are enabled, and so started at login
  loaded,     \* what the manager has read of each unit of a timer it runs
  pc,         \* whether a command is at work
  command,    \* the last command
  declared,   \* the policy it read
  todo,       \* its steps not done yet
  outcome,    \* how it ended
  troubled,   \* whether a fault hit it or the user interfered since it began
  strays      \* timers and agents whose file was deleted by hand while they ran, and which still run

vars == <<backend, policy, file, links, loaded, pc, command, declared, todo, outcome, troubled, strays>>
disk == <<file, links>>
run == <<pc, command, declared, outcome>>

Parts == {"service", "timer", "plist"}
Units == [job : Jobs, part : Parts, legacy : BOOLEAN]
All == [job |-> 0, part |-> "all", legacy |-> FALSE]
Unit(j, part) == [job |-> j, part |-> part, legacy |-> FALSE]
Legacy(j, part) == [job |-> j, part |-> part, legacy |-> TRUE]

\* "old" is written by M7 for this project, "other" by M7 for another project that has a job of this name;
\* "foreign" has none of Bebop's marks; "special" is a link, a directory or a file that cannot be read.
Contents == Versions \cup {"none", "old", "other", "foreign", "special"}
Policies == {p \in [Jobs -> Versions \cup {"off", "gone"}] : \A j \in Jobs : p[j] \in Offers[j]}
NoPolicy == [j \in Jobs |-> "gone"]

Systemd == backend = "systemd-user"
Artifacts == IF Systemd THEN {"service", "timer"} ELSE {"plist"}

\* What the manager runs a job by.
Trigger(j) == Unit(j, IF Systemd THEN "timer" ELSE "plist")
TimerOf(u) == [job |-> u.job, part |-> "timer", legacy |-> u.legacy]

-----------------------------------------------------------------------------
(* What a command makes of the policy and the files.                       *)

Enabled(p, j) == p[j] \in Versions

\* Disabled jobs have no file.
Desired(p) == {u \in Units : ~u.legacy /\ u.part \in Artifacts /\ Enabled(p, u.job)}

\* Project-scoped names and Bebop's header; launchd looks for the label and the configuration path too.
OwnedUnits == {u \in Units : ~u.legacy /\ u.part \in Artifacts /\ file[u] \in Versions}

\* Mutant: the header is enough to own a legacy service.
MutLegacyOwnedForJob(j) == file[Legacy(j, "service")] \in {"old", "other"}

\* A legacy service says which project it belongs to.
LegacyOwnedForJob(j) == file[Legacy(j, "service")] = "old"

\* A legacy timer has the header only: it is taken together with its service.
LegacyOwnedUnits(p) ==
  {u \in Units : /\ u.legacy /\ p[u.job] # "gone" /\ LegacyOwnedForJob(u.job)
                 /\ u.part \in {"service", "timer"} /\ file[u] \in {"old", "other"}}

Missing(p) == {u \in Desired(p) : file[u] = "none"}
Differing(p) == {u \in Desired(p) : file[u] # "none" /\ file[u] # p[u.job]}

Obsolete(p) == (OwnedUnits \cup LegacyOwnedUnits(p)) \ Desired(p)

\* What cannot be compared with the policy is not replaced.
Unreadable(p) == \E u \in Desired(p) : file[u] = "special"

Timers(units) == {u \in units : u.part = "timer"}

\* The state of a job that `status` reports.
SystemdState(p, j) ==
  LET present == {part \in {"service", "timer"} : file[Unit(j, part)] # "none"}
  IN IF ~Enabled(p, j) THEN IF present # {} THEN "stale" ELSE "disabled"
     ELSE IF present # {"service", "timer"} THEN IF LegacyOwnedForJob(j) THEN "stale" ELSE "missing"
     ELSE IF \E part \in present : file[Unit(j, part)] = "special" THEN "error"
     ELSE IF \E part \in present : file[Unit(j, part)] # p[j] THEN "stale"
     ELSE IF Trigger(j) \notin links \/ loaded[Trigger(j)] = "none" THEN "disabled"
     ELSE "current"

\* Whether an agent is loaded, not what was loaded.
LaunchdState(p, j) ==
  LET content == file[Trigger(j)]
      running == loaded[Trigger(j)] # "none"
  IN IF ~Enabled(p, j) THEN IF content \notin {"none", "special"} \/ running THEN "stale"
                            ELSE IF content = "none" THEN "disabled" ELSE "error"
     ELSE IF content = "none" THEN IF running THEN "stale" ELSE "missing"
     ELSE IF content = "special" THEN "error"
     ELSE IF content # p[j] THEN "stale"
     ELSE IF ~running THEN "disabled"
     ELSE "current"

\* Mutant: a job whose files are as they should be is current.
MutState(p, j) ==
  IF Enabled(p, j) /\ \A part \in Artifacts : file[Unit(j, part)] = p[j] THEN "current"
  ELSE IF Systemd THEN SystemdState(p, j) ELSE LaunchdState(p, j)

State(p, j) == IF Systemd THEN SystemdState(p, j) ELSE LaunchdState(p, j)

-----------------------------------------------------------------------------
(* The steps of a command and their order.                                 *)

Acts == {"write", "unlink", "stop", "remove", "reload", "link", "start", "bootout", "bootstrap", "verify"}
Step == [act : Acts, unit : Units \cup {All}]

Do(act, units) == {[act |-> act, unit |-> u] : u \in units}

\* Mutant: the manager is not told to read the files again.
MutSystemdInstall(p) ==
  Do("write", Desired(p))
    \cup Do("unlink", Timers(Obsolete(p))) \cup Do("stop", Timers(Obsolete(p)))
    \cup Do("remove", Obsolete(p))
    \cup Do("link", Timers(Desired(p))) \cup Do("start", Timers(Desired(p)))

\* Every desired file is written, changed or not.  disable --now unlinks and stops, enable --now links and starts.
SystemdInstall(p) ==
  Do("write", Desired(p))
    \cup Do("unlink", Timers(Obsolete(p))) \cup Do("stop", Timers(Obsolete(p)))
    \cup Do("remove", Obsolete(p))
    \cup Do("reload", {All})
    \cup Do("link", Timers(Desired(p))) \cup Do("start", Timers(Desired(p)))

\* Only what changes is written; an agent that is loaded already is not bootstrapped.
LaunchdInstall(p) ==
  Do("bootout", Differing(p) \cup Obsolete(p))
    \cup Do("remove", Obsolete(p))
    \cup Do("write", Missing(p) \cup Differing(p))
    \cup Do("bootstrap", Desired(p))
    \cup Do("verify", {All})

\* The manager reads the files again only if one was removed.
SystemdUninstall(p) ==
  LET owned == OwnedUnits \cup LegacyOwnedUnits(p)
  IN Do("unlink", Timers(owned)) \cup Do("stop", Timers(owned))
       \cup Do("remove", owned)
       \cup Do("reload", IF owned = {} THEN {} ELSE {All})

\* The policy plays no part.
LaunchdUninstall == Do("bootout", OwnedUnits) \cup Do("remove", OwnedUnits)

InstallSteps(p) == IF Systemd THEN SystemdInstall(p) ELSE LaunchdInstall(p)
UninstallSteps(p) == IF Systemd THEN SystemdUninstall(p) ELSE LaunchdUninstall

\* launchd's adapter sorts what it changes by the change: installations, removals, updates.
Updated(s) == ~Systemd /\ s.act \in {"bootout", "write"} /\ s.unit \in Desired(declared) /\ file[s.unit] # "none"

\* An installation goes phase by phase through all units, in this order.
Phase ==
  [act \in Acts |->
     IF act = "write" THEN IF Systemd THEN 1 ELSE 4
     ELSE IF act \in {"unlink", "stop", "bootout"} THEN 2
     ELSE IF act = "remove" THEN 3
     ELSE IF act \in {"reload", "bootstrap"} THEN 5
     ELSE IF act \in {"link", "start"} THEN 6
     ELSE 7]

\* What is done to one unit within a phase, or by an uninstallation.
Turn ==
  [act \in Acts |-> IF act \in {"unlink", "link", "bootout"} THEN 1 ELSE IF act \in {"stop", "start"} THEN 2 ELSE 3]

\* By name a service comes before its timer.
Place(u) == 4 * u.job + (IF u.legacy THEN 2 ELSE 0) + (IF u.part = "timer" THEN 1 ELSE 0)

\* An uninstallation goes unit by unit, and reloads at the end.
Position(s) ==
  IF s.unit = All THEN <<Phase[s.act], 0, 0, 0>>
  ELSE IF command = "install" THEN <<Phase[s.act], IF Updated(s) THEN 1 ELSE 0, Place(s.unit), Turn[s.act]>>
  ELSE <<0, 0, Place(s.unit), Turn[s.act]>>

Before(s, r) ==
  LET a == Position(s)
      b == Position(r)
  IN \E i \in 1 .. 4 : a[i] < b[i] /\ \A k \in 1 .. (i - 1) : a[k] = b[k]

\* The step of the given kind is next.
IsNext(s, act) == pc = "working" /\ s.act = act /\ \A r \in todo : ~Before(r, s)

-----------------------------------------------------------------------------
\* The files before the first command: the user's own, and what M7 left of the jobs it knew.
OldFile(foreign, special, service, timer) ==
  [u \in Units |->
     IF u \in foreign THEN IF u \in special THEN "special" ELSE "foreign"
     ELSE IF ~u.legacy \/ u.job \notin OldJobs \/ u.part = "plist" THEN "none"
     ELSE IF u.part = "service" THEN service[u.job] ELSE timer[u.job]]

Init ==
  /\ backend \in Backends
  /\ policy \in Policies
  /\ \E foreign \in SUBSET {u \in Units : ~u.legacy /\ u.part \in Artifacts /\ u.job \in OldJobs} :
       \E special \in SUBSET foreign,
          service, timer \in [OldJobs -> IF Systemd THEN {"none", "old", "other"} ELSE {"none"}] :
         /\ \A j \in OldJobs : timer[j] \in {"none", service[j]}
         /\ file = OldFile(foreign, special, service, timer)
  /\ links = IF Systemd THEN {u \in Units : u.part = "timer" /\ file[u] # "none"} ELSE {}
  /\ loaded = [u \in Units |-> IF ~Systemd \/ file[TimerOf(u)] # "none" THEN file[u] ELSE "none"]
  /\ pc = "idle" /\ command = "none" /\ declared = NoPolicy /\ todo = {} /\ outcome = "none"
  /\ troubled = FALSE /\ strays = {}

Begin(name, steps) ==
  /\ pc = "idle"
  /\ pc' = "working" /\ command' = name /\ declared' = policy
  /\ todo' = steps
  /\ outcome' = "none" /\ troubled' = FALSE
  /\ UNCHANGED <<backend, policy, disk, loaded, strays>>

Install == ~Unreadable(policy) /\ Begin("install", InstallSteps(policy))
Uninstall == Begin("uninstall", UninstallSteps(policy))

Finish ==
  /\ pc = "working" /\ todo = {}
  /\ pc' = "idle" /\ outcome' = "success"
  /\ UNCHANGED <<backend, policy, disk, loaded, command, declared, todo, troubled, strays>>

\* Mutant: a command that failed leaves its steps to the next.
MutGiveUp ==
  /\ pc' = "idle" /\ outcome' = "failed"
  /\ command' = "none" /\ declared' = NoPolicy
  /\ UNCHANGED <<backend, policy, todo>>

GiveUp ==
  /\ pc' = "idle" /\ outcome' = "failed"
  /\ command' = "none" /\ declared' = NoPolicy /\ todo' = {}
  /\ UNCHANGED <<backend, policy>>

\* An installation begins by comparing the files with the policy.
RefuseInstall ==
  /\ pc = "idle" /\ Unreadable(policy)
  /\ GiveUp
  /\ troubled' = FALSE
  /\ UNCHANGED <<disk, loaded, strays>>

\* The command stops at the step it cannot do.
Refused ==
  /\ GiveUp
  /\ UNCHANGED <<disk, loaded, troubled, strays>>

Done(s) ==
  /\ todo' = todo \ {s}
  /\ UNCHANGED <<backend, policy, run, troubled>>

\* Written beside it and renamed over it.
Write(s) ==
  /\ IsNext(s, "write")
  /\ file' = [file EXCEPT ![s.unit] = declared[s.unit.job]]
  /\ Done(s)
  /\ UNCHANGED <<links, loaded, strays>>

Remove(s) ==
  /\ IsNext(s, "remove")
  /\ file' = [file EXCEPT ![s.unit] = "none"]
  /\ Done(s)
  /\ UNCHANGED <<links, loaded, strays>>

\* systemctl does not know a timer without a file.
Unlink(s) ==
  /\ IsNext(s, "unlink")
  /\ IF file[s.unit] = "none" THEN Refused
     ELSE links' = links \ {s.unit} /\ Done(s) /\ UNCHANGED <<file, loaded, strays>>

Link(s) ==
  /\ IsNext(s, "link")
  /\ IF file[s.unit] = "none" THEN Refused
     ELSE links' = links \cup {s.unit} /\ Done(s) /\ UNCHANGED <<file, loaded, strays>>

\* A unit is forgotten when nothing runs that refers to it.
Stopped(t) == [u \in Units |-> IF TimerOf(u) = t THEN "none" ELSE loaded[u]]

Stop(s) ==
  /\ IsNext(s, "stop")
  /\ loaded' = Stopped(s.unit)
  /\ strays' = strays \ {s.unit}
  /\ Done(s)
  /\ UNCHANGED disk

\* Starting a timer that runs changes nothing; else the manager reads the timer and its service.
Started(t) == [u \in Units |-> IF TimerOf(u) = t THEN file[u] ELSE loaded[u]]

Start(s) ==
  /\ IsNext(s, "start")
  /\ IF file[s.unit] = "none" THEN Refused
     ELSE /\ loaded' = IF loaded[s.unit] = "none" THEN Started(s.unit) ELSE loaded
          /\ Done(s) /\ UNCHANGED <<disk, strays>>

\* The manager reads the units of the timers it runs again; one without a file has nothing left to wait for.
Reread(timers) ==
  [u \in Units |-> IF TimerOf(u) \in timers /\ file[TimerOf(u)] # "none" THEN file[u] ELSE "none"]

Reload(s) ==
  /\ IsNext(s, "reload")
  /\ loaded' = Reread({u \in Units : loaded[u] # "none"})
  /\ strays' = {}
  /\ Done(s)
  /\ UNCHANGED disk

\* Mutant: an agent that is not loaded cannot be booted out.
MutBootout(s) ==
  /\ IsNext(s, "bootout")
  /\ IF loaded[s.unit] = "none" THEN Refused
     ELSE /\ loaded' = [loaded EXCEPT ![s.unit] = "none"]
          /\ strays' = strays \ {s.unit}
          /\ Done(s)
          /\ UNCHANGED disk

\* An agent that is not loaded counts as booted out.
Bootout(s) ==
  /\ IsNext(s, "bootout")
  /\ loaded' = [loaded EXCEPT ![s.unit] = "none"]
  /\ strays' = strays \ {s.unit}
  /\ Done(s)
  /\ UNCHANGED disk

Bootstrap(s) ==
  /\ IsNext(s, "bootstrap")
  /\ IF loaded[s.unit] = "none" /\ file[s.unit] = "none" THEN Refused
     ELSE /\ loaded' = IF loaded[s.unit] = "none" THEN [loaded EXCEPT ![s.unit] = file[s.unit]] ELSE loaded
          /\ Done(s) /\ UNCHANGED <<disk, strays>>

\* launchd's installation ends with a look at the status of every job in the configuration.
Reconciled(p) == \A j \in Jobs : p[j] # "gone" => State(p, j) = IF Enabled(p, j) THEN "current" ELSE "disabled"

Check(s) ==
  /\ IsNext(s, "verify")
  /\ IF Reconciled(declared) THEN Done(s) /\ UNCHANGED <<disk, loaded, strays>> ELSE Refused

-----------------------------------------------------------------------------
(* What happens to a command, and beside it.                               *)

\* A file operation or a call fails or times out, the list-timers after a start included, or the command is killed; a
\* call that timed out may have done its work.  Before the first step it is the capability check that fails.
Fail ==
  /\ "command" \in Faults
  /\ pc = "working"
  /\ troubled' = TRUE
  /\ GiveUp
  /\ UNCHANGED <<disk, loaded, strays>>

\* Policies are edited between commands: a command has read its own.
Edit ==
  /\ pc = "idle"
  /\ \E j \in Jobs : \E to \in Offers[j] : policy' = [policy EXCEPT ![j] = to]
  /\ UNCHANGED <<backend, disk, loaded, run, todo, troubled, strays>>

\* The user's manager starts again: it runs the timers that are enabled, launchd every agent in the directory.  A
\* command that was at work ended with the session before.
Login ==
  /\ pc = "idle"
  /\ loaded' = IF Systemd THEN Reread(links) ELSE file
  /\ strays' = {}
  /\ UNCHANGED <<backend, policy, disk, run, todo, troubled>>

\* The user stops, disables or deletes what Bebop installed.
ByHand ==
  /\ "hand" \in Faults /\ pc = "idle"
  /\ \E u \in OwnedUnits :
       \/ /\ u = Trigger(u.job) /\ loaded[u] # "none"
          /\ loaded' = IF Systemd THEN Stopped(u) ELSE [loaded EXCEPT ![u] = "none"]
          /\ strays' = strays \ {u}
          /\ UNCHANGED disk
       \/ /\ u \in links
          /\ links' = links \ {u}
          /\ UNCHANGED <<file, loaded, strays>>
       \/ /\ file' = [file EXCEPT ![u] = "none"]
          /\ strays' = IF u = Trigger(u.job) /\ loaded[u] # "none" THEN strays \cup {u} ELSE strays
          /\ UNCHANGED <<links, loaded>>
  /\ troubled' = TRUE
  /\ UNCHANGED <<backend, policy, run, todo>>

DoStep ==
  \E s \in todo :
    \/ Write(s) \/ Remove(s)
    \/ Unlink(s) \/ Stop(s) \/ Reload(s) \/ Link(s) \/ Start(s)
    \/ Bootout(s) \/ Bootstrap(s) \/ Check(s)

Next == Install \/ RefuseInstall \/ Uninstall \/ DoStep \/ Finish \/ Fail \/ Edit \/ Login \/ ByHand

Spec == Init /\ [][Next]_vars

-----------------------------------------------------------------------------
(* What the scheduler promises.                                            *)

\* The variables hold what the code can put there, and an idle controller has no step to do.
TimersTypeOK ==
  /\ backend \in Backends
  /\ policy \in Policies /\ declared \in Policies \cup {NoPolicy}
  /\ file \in [Units -> Contents] /\ loaded \in [Units -> Contents]
  /\ links \subseteq Units
  /\ pc \in {"idle", "working"}
  /\ command \in {"none", "install", "uninstall"}
  /\ todo \subseteq Step
  /\ pc = "idle" => todo = {}
  /\ outcome \in {"none", "success", "failed"}
  /\ troubled \in BOOLEAN /\ strays \subseteq Units

\* The version that fires job j by itself, or "none".
Fires(j) ==
  IF loaded[Trigger(j)] \notin Versions THEN "none"
  ELSE IF \A part \in Artifacts : loaded[Unit(j, part)] = loaded[Trigger(j)] THEN loaded[Trigger(j)]
  ELSE "torn"

\* What would fire it after the next login.
WillFire(j) ==
  IF file[Trigger(j)] \notin Versions \/ (Systemd /\ Trigger(j) \notin links) THEN "none"
  ELSE IF \A part \in Artifacts : file[Unit(j, part)] = file[Trigger(j)] THEN file[Trigger(j)]
  ELSE "torn"

Goal(j) == IF command = "install" /\ Enabled(declared, j) THEN declared[j] ELSE "none"

\* A legacy timer the code no longer recognizes: its job left the configuration, or its service is gone.
Forgotten(j) == declared[j] = "gone" \/ file[Legacy(j, "service")] = "none"

\* A command that reports success has made everything so, whatever commands that failed or died before it left
\* half done: each job fires as the policy says, now and after the next login, and no other job of the project does.
\* Excepted are the timers whose file somebody deleted while they ran.
SuccessIsScheduled ==
  outcome = "success" /\ ~troubled =>
    \A j \in {j \in Jobs : Trigger(j) \notin strays} :
      /\ Fires(j) = Goal(j) /\ WillFire(j) = Goal(j)
      /\ loaded[Legacy(j, "timer")] = "old" => Forgotten(j)

\* A disabled job whose unit launchd cannot call its own: it is neither removed nor accepted.
Unreconcilable == ~Systemd /\ \E j \in Jobs : declared[j] = "off" /\ file[Trigger(j)] \in {"foreign", "special"}

\* Nothing an interrupted command leaves makes a later one fail.
UntroubledSucceeds ==
  [][pc = "working" /\ outcome' = "failed" => troubled' \/ strays # {} \/ Unreconcilable]_vars

\* A job reported as current fires as the policy says.  Under systemd this is so after a command that succeeded:
\* after one that did not, the files may be newer than what the manager has read of them, and nothing tells.
CurrentIsScheduled ==
  pc = "idle" /\ (Systemd => outcome = "success") =>
    \A j \in {j \in Jobs : Trigger(j) \notin strays} :
      State(policy, j) = "current" => Fires(j) = policy[j] /\ WillFire(j) = policy[j]

\* The units of another project with the same job names, and files without Bebop's marks, are left alone, except
\* that a regular file of the user in the place of one of an enabled job is replaced.
ForeignUntouched ==
  \A u \in Units :
    /\ file[u] = "other" => file'[u] = "other" /\ loaded'[u] = loaded[u] /\ (u \in links => u \in links')
    /\ file[u] = "foreign" => file'[u] = "foreign" \/ u \in Desired(declared)
    /\ file[u] = "special" => file'[u] = "special"
ForeignTimersKept == [][ForeignUntouched]_vars

=============================================================================
