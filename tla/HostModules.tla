------------------------------ MODULE HostModules ------------------------------
(***************************************************************************)
(* The modules of Bebop that prepare a host: data root, storage mount,     *)
(* Docker, Tailscale, automatic updates and SSH hardening, on each         *)
(* supported distribution.  A module plans from inspected facts; each      *)
(* change of the plan is then checked (its kind and its preconditions),    *)
(* run as a script, verified, and at the end everything is planned again.  *)
(* Each script advances one durable step at a time and may stop between.   *)
(*                                                                         *)
(* The probes, the planner, the scripts and the verifications are written  *)
(* four times per distribution in the code, as shell text.  What can go    *)
(* wrong is that they disagree, so each is modelled on its own: Facts is   *)
(* what the probes report of the host, Plan what the modules make of it,   *)
(* Holds what the preconditions test, Script, Able and Do what the scripts *)
(* do, and Confirmed what the verification accepts.                        *)
(***************************************************************************)
EXTENDS Naturals, Sequences, FiniteSets

CONSTANTS
  Platforms,   \* the distributions of the instance, a subset of AllPlatforms
  Features,    \* the parts of the host to manage, a subset of AllFeatures
  MaxEdits,    \* how often the operator changes the host meanwhile
  MaxFaults,   \* how many scripts are interrupted or fail half way
  MaxRuns      \* how many applies are started

AllPlatforms == {"debian", "devuan", "fedora", "enterprise", "leap", "tumbleweed",
                 "arch", "artix", "alpine", "void"}

\* "compose" is Docker with services configured.
AllFeatures == {"base", "storage", "docker", "compose", "tailscale", "updates", "ssh"}

ASSUME HostModulesAssumption ==
  /\ Platforms \subseteq AllPlatforms
  /\ Features \subseteq AllFeatures
  /\ MaxEdits \in Nat /\ MaxFaults \in Nat /\ MaxRuns \in Nat

VARIABLES
  machine,    \* the target and the configuration: platform, feature, sudo, root, managed
  host,       \* the part of the host the feature is about, as it really is
  pc,         \* where the apply is
  todo,       \* the changes of the reviewed plan that are not verified yet
  script,     \* the steps left of the running change's script
  verified,   \* the IDs verified by this apply
  outcome,    \* how the last apply ended
  stale,      \* what somebody's edit has made out of date: nothing, the plan, or the last check too
  excuse,     \* whether something outside Bebop explains a failure of this apply
  own,        \* whether a plan was once free of blocked changes and nobody else has touched the host since
  edits, faults, runs

vars == <<machine, host, pc, todo, script, verified, outcome, stale, excuse, own, edits, faults, runs>>

Dockers == {"docker", "compose"}
Zypper == {"leap", "tumbleweed"}
DNF == {"fedora", "enterprise"}
RPM == Zypper \cup DNF
Systemd == RPM \cup {"debian", "arch"}

\* Whose file the vendor's repository (or the configuration of the updates) is.  "edited" is Bebop's, but no longer
\* as a probe expects it though a check still accepts it; "beside" another file's that a check passes over: of the
\* other files it counts only the last.
Owned == {"absent", "managed", "edited", "beside", "unmanaged"}

-----------------------------------------------------------------------------
(* The host as it is.                                                      *)

\* A package set with its service: main is the package itself, rest the other packages (or, for Devuan's
\* Tailscale, the index of the vendor repository), plugin whether Compose answers once installed, repo the file
\* Bebop would own, or the provenance under Void, conflict a conflicting package, an enabled competing timer, another
\* file the check would stop at (openSUSE's Tailscale) or a repository it does not know (Alpine's updates), held a
\* package on hold or locked to a repository, link the enablement of the service.
Units == [main: BOOLEAN, rest: BOOLEAN, repo: Owned, avail: BOOLEAN, conflict: BOOLEAN, held: {"no", "held", "locked"},
          definition: BOOLEAN, link: {"absent", "correct", "conflict"}, run: {"down", "hung", "up"},
          cgroups: BOOLEAN, cgsvc: {"none", "off", "on"}, plugin: BOOLEAN]

Shells == [installed: BOOLEAN, dropin: {"absent", "ours", "other"}, wins: BOOLEAN, keys: BOOLEAN, valid: BOOLEAN,
           included: BOOLEAN, earlier: {"none", "foreign", "leftover"}, service: {"none", "down", "up"}, live: BOOLEAN]

Disks == [mounted: {"none", "right", "wrong"}, fstab: {"absent", "exact", "external", "conflict", "unknown"},
          dir: {"absent", "empty", "full"}, device: BOOLEAN]

Roots == [root: {"absent", "wrong", "right"}]

Only(relevant, set, default) == IF relevant THEN set ELSE {default}

\* A check that asks for less than the probe: for the marker, for some of the lines, or (Devuan) not for the key.
LenientCheck(p, f) ==
  \/ p = "enterprise" \/ <<p, f>> \in {"fedora", "devuan"} \X {"tailscale"}
  \/ <<p, f>> \in {"fedora", "tumbleweed"} \X {"updates"}

\* A check whose loop over the other files is decided by the last of them.
LastCounts(p, f) == p = "enterprise" /\ f # "updates"

\* Where the code looks for such a file, or for a provenance.
HasFile(p, f) == \/ p = "alpine" \/ p = "enterprise" \/ f = "updates" \/ (f \in Dockers /\ p = "void")
                 \/ (f = "tailscale" /\ p \in RPM \cup {"debian", "devuan", "void"})

ReposOf(p, f) ==
  Only(HasFile(p, f), {"absent", "managed", "unmanaged"}, "absent")
    \cup Only(LenientCheck(p, f), {"edited"}, "absent") \cup Only(LastCounts(p, f), {"beside"}, "absent")

\* The units worth starting from: a field the platform's code never reads keeps its harmless value.
UnitsOf(p, f) ==
  [main: BOOLEAN,
   rest: Only(f \in Dockers \/ <<p, f>> \in {<<"devuan", "tailscale">>, <<"devuan", "updates">>, <<"alpine", "tailscale">>}, BOOLEAN, TRUE),
   repo: ReposOf(p, f),
   avail: BOOLEAN,
   conflict: Only(\/ f \in Dockers /\ p \in RPM
                  \/ f = "updates" /\ p \in {"alpine", "enterprise"} \cup Zypper
                  \/ f = "tailscale" /\ p \in Zypper, BOOLEAN, FALSE),
   held: Only(p = "void" /\ f # "updates", {"no", "held", "locked"}, "no"),
   definition: Only(p \in {"void", "artix"} \/ (f = "updates" /\ p \in {"alpine", "devuan"}), BOOLEAN, TRUE),
   link: Only(p = "void" \/ <<p, f>> = <<"devuan", "tailscale">>, {"absent", "correct", "conflict"}, "absent")
           \cup Only(f # "updates", {"correct"}, "correct"),
   run: {"down", "up"} \cup Only(f \in Dockers, {"hung"}, "up"),
   cgroups: Only(f \in Dockers /\ p \in {"alpine", "void", "artix"}, BOOLEAN, TRUE),
   cgsvc: Only(f \in Dockers /\ p = "alpine", {"none", "off", "on"}, "none"),
   plugin: Only(f = "compose" /\ p = "void", BOOLEAN, TRUE)]

HostsOf(p, f) ==
  CASE f = "ssh" -> {h \in Shells : h.earlier # "leftover" /\ h.live}
    [] f = "storage" -> Disks
    [] f = "base" -> Roots
    [] OTHER -> UnitsOf(p, f)

P == machine.platform
F == machine.feature

-----------------------------------------------------------------------------
(* What the probes report of it.                                           *)

\* A probe wants Bebop's file as it was written, and no other that defines the repository.
Ownership(h) == IF h.repo \in {"edited", "beside"} THEN "unmanaged" ELSE h.repo

\* Mutant: an enabled service counts as ready though it does not run.
MutSeen(h) ==
  [installed |-> h.main, complete |-> h.main /\ h.rest, compose |-> h.main /\ h.rest /\ h.plugin, available |-> h.avail,
   conflict |-> h.conflict, held |-> h.held # "no", repo |-> Ownership(h), definition |-> h.definition, link |-> h.link,
   ready |-> h.link = "correct", cgroups |-> h.cgroups, cgsvc |-> h.cgsvc]

\* The plain reading: a package is there when the package manager knows it, a service is ready when it is
\* enabled, running and answering.
Seen(h) ==
  [installed |-> h.main, complete |-> h.main /\ h.rest, compose |-> h.main /\ h.rest /\ h.plugin, available |-> h.avail,
   conflict |-> h.conflict, held |-> h.held # "no", repo |-> Ownership(h), definition |-> h.definition, link |-> h.link,
   ready |-> h.link = "correct" /\ h.run = "up", cgroups |-> h.cgroups, cgsvc |-> h.cgsvc]

\* The whole set is "installed" when grep finds a line of just that word, but the query prints the status of both
\* packages on one line: two installed packages read "installedinstalled".
DevuanDockerFacts(h) == [Seen(h) EXCEPT !.complete = h.main # h.rest]

\* The probe compares the file with a text that ends in a backslash and an n: no file ever equals it.
AlpineRepository(h) == IF h.repo = "absent" THEN "absent" ELSE "unmanaged"

AlpineDockerFacts(h) == [Seen(h) EXCEPT !.repo = AlpineRepository(h)]

\* Under Void "repository" is where the installed packages came from.
VoidFacts(h) ==
  [Seen(h) EXCEPT !.repo = IF ~h.main /\ ~(F \in Dockers /\ h.rest) THEN "absent"
                           ELSE IF h.repo = "unmanaged" THEN "unmanaged" ELSE "managed"]

AlpineTailscaleFacts(h) == [Seen(h) EXCEPT !.installed = h.main /\ h.rest, !.repo = AlpineRepository(h)]

\* The vendor's package is known once its repository is there and its index was fetched.
DevuanTailscaleFacts(h) == [Seen(h) EXCEPT !.available = h.avail /\ h.repo \in {"managed", "edited"} /\ h.rest]

\* Leap has no package: the two units are what is installed.
LeapUpdatesFacts(h) == [Seen(h) EXCEPT !.installed = h.repo = "managed"]

AlpineUpdatesFacts(h) == [Seen(h) EXCEPT !.repo = AlpineRepository(h)]

\* The probe wants the origins as whole lines, and the script writes them indented: Bebop's own file is not one of
\* its own.  Two installed packages read "installedinstalled" here too.
DevuanUpdatesFacts(h) ==
  [Seen(h) EXCEPT !.installed = h.main # h.rest, !.repo = IF h.repo = "absent" THEN "absent" ELSE "unmanaged"]

UnitFacts(h) ==
  CASE <<P, F>> \in {"devuan"} \X Dockers -> DevuanDockerFacts(h)
    [] <<P, F>> \in {"alpine"} \X Dockers -> AlpineDockerFacts(h)
    [] P = "void" -> VoidFacts(h)
    [] <<P, F>> = <<"alpine", "tailscale">> -> AlpineTailscaleFacts(h)
    [] <<P, F>> = <<"devuan", "tailscale">> -> DevuanTailscaleFacts(h)
    [] <<P, F>> = <<"leap", "updates">> -> LeapUpdatesFacts(h)
    [] <<P, F>> = <<"alpine", "updates">> -> AlpineUpdatesFacts(h)
    [] <<P, F>> = <<"devuan", "updates">> -> DevuanUpdatesFacts(h)
    [] OTHER -> Seen(h)

\* What sshd -T says: the first value read wins, so a drop-in counts only where nothing precedes it.  It reads the
\* files; whether the running daemon has read them (live) is another matter.
Effective(h) == (h.dropin = "ours" \/ h.earlier = "leftover") /\ h.included /\ h.wins /\ h.earlier # "foreign"

\* Under SysVinit and dinit the probe looks for a backslash in the Include line, and never finds one.
DropInSupported(h) == h.included /\ P \notin {"devuan", "artix"}

-----------------------------------------------------------------------------
(* Planning.                                                               *)

When(wanted, change) == IF wanted THEN {change} ELSE {}
Dep(wanted, id) == IF wanted THEN {id} ELSE {}

\* A change needs root: without sudo it is blocked, whatever else holds.
Change(id, kind, deps, pre, reason) ==
  [id |-> id, kind |-> kind, deps |-> deps, pre |-> pre, blocked |-> reason \/ ~machine.sudo]

\* A change that only tells the operator what is in the way.
Blocked(id, kind) == Change(id, kind, {}, {}, TRUE)

Install(wanted, pre, reason) == When(wanted, Change("docker.engine", "docker.install-engine", {}, pre, reason))
Serve(f, deps, reason) ==
  When(~f.ready, Change("docker.service", "docker.enable-service", deps, {}, reason))
Compose(wanted, deps, reason) ==
  When(wanted /\ F = "compose", Change("docker.compose", "docker.install-compose", deps, {}, reason))

\* Mutant: Compose waits for nothing.
MutBehind(f, need) == {}

\* Where Compose is a change of its own it waits for what else is planned.
Behind(f, need) == Dep(need, "docker.engine") \cup Dep(~f.ready, "docker.service")

PlanDebianDocker(f) ==
  LET need == ~f.installed
  IN Install(need, {"absent"}, FALSE) \cup Serve(f, Dep(need, "docker.engine"), FALSE)
       \cup Compose(~f.compose, Behind(f, need), ~f.available)

PlanDevuanDocker(f) ==
  LET need == ~f.installed \/ ~f.complete
  IN Install(need, {"available"}, ~f.available)
       \cup Serve(f, Dep(need, "docker.engine"), need /\ ~f.available)

PlanArtixDocker(f) ==
  LET need == ~f.installed \/ ~f.complete
  IN IF ~f.cgroups THEN {Blocked("docker.cgroups", "docker.cgroups-blocked")}
     ELSE Install(need, {"available"}, ~f.available)
            \cup Serve(f, Dep(need, "docker.engine"), (f.installed /\ ~f.definition) \/ (need /\ ~f.available))

PlanAlpineDocker(f) ==
  LET need == ~f.installed \/ ~f.complete \/ f.repo # "managed"
      stuck == f.repo = "unmanaged" \/ ~f.available
  IN IF ~f.cgroups THEN {Blocked("docker.cgroups", "docker.cgroups-blocked")}
     ELSE When(f.cgsvc = "off", Change("docker.cgroups", "docker.enable-cgroups", {}, {}, FALSE))
            \cup Install(need, {"repository-safe", "available"}, stuck)
            \cup Serve(f, Dep(f.cgsvc = "off", "docker.cgroups") \cup Dep(need, "docker.engine"), need /\ stuck)

PlanVoidDocker(f) ==
  LET need == ~f.installed \/ ~f.complete
  IN IF f.repo = "unmanaged" \/ f.held THEN {Blocked("docker.engine", "docker.install-engine")}
     ELSE IF ~f.cgroups THEN {Blocked("docker.cgroups", "docker.cgroups-blocked")}
     ELSE Install(need, {"available", "provenance", "constraints"}, ~f.available)
            \cup Serve(f, Dep(need, "docker.engine"),
                       f.link = "conflict" \/ (~need /\ ~f.definition) \/ (need /\ ~f.available))
            \cup Compose(~f.compose /\ ~need, {"docker.service"}, ~f.available)

PlanArchDocker(f) ==
  LET need == ~f.installed \/ ~f.complete
  IN Install(need, {"available"}, ~f.available)
       \cup Serve(f, Dep(need, "docker.engine"), need /\ ~f.available)
       \cup Compose(~f.compose, Behind(f, need), ~f.available)

PlanOpenSUSEDocker(f) ==
  LET need == ~f.installed \/ ~f.complete
  IN IF f.conflict THEN {Blocked("docker.conflict", "docker.conflict")}
     ELSE Install(need, {"no-conflict"}, ~f.available)
            \cup Serve(f, Dep(need, "docker.engine"), need /\ ~f.available)
            \cup Compose(~f.compose, Behind(f, need), ~f.available)

PlanEnterpriseDocker(f) ==
  LET need == ~f.installed \/ ~f.complete \/ f.repo # "managed"
      stuck == f.repo = "managed" /\ ~f.available
  IN IF f.conflict THEN {Blocked("docker.conflict", "docker.conflict")}
     ELSE IF f.repo = "unmanaged" THEN {Blocked("docker.repository", "docker.repository-conflict")}
     ELSE Install(need, {"no-conflict", "repository-safe"}, stuck)
            \cup Serve(f, Dep(need, "docker.engine"), need /\ stuck)
            \cup Compose(~f.compose, Behind(f, need), stuck)

PlanFedoraDocker(f) ==
  LET need == ~f.installed \/ ~f.complete
  IN IF f.conflict THEN {Blocked("docker.conflict", "docker.conflict")}
     ELSE Install(need, {"no-conflict"}, ~f.available)
            \cup Serve(f, Dep(need, "docker.engine"), need /\ ~f.available)
            \cup Compose(~f.compose, Behind(f, need), ~f.available)

PlanDocker(f) ==
  CASE P = "debian" -> PlanDebianDocker(f)
    [] P = "devuan" -> PlanDevuanDocker(f)
    [] P = "artix" -> PlanArtixDocker(f)
    [] P = "alpine" -> PlanAlpineDocker(f)
    [] P = "void" -> PlanVoidDocker(f)
    [] P = "arch" -> PlanArchDocker(f)
    [] P \in Zypper -> PlanOpenSUSEDocker(f)
    [] P = "enterprise" -> PlanEnterpriseDocker(f)
    [] P = "fedora" -> PlanFedoraDocker(f)

Fetch(wanted, pre, reason) == When(wanted, Change("tailscale.package", "tailscale.install", {}, pre, reason))
Join(f, deps, reason) == When(~f.ready, Change("tailscale.service", "tailscale.enable-service", deps, {}, reason))
Unowned == {Blocked("tailscale.package", "tailscale.install")}

PlanDevuanTailscale(f) ==
  LET need == ~f.installed \/ f.repo # "managed"
      stuck == f.repo = "managed" /\ ~f.available
  IN IF f.repo = "unmanaged" THEN Unowned
     ELSE Fetch(need, {"repository-safe", "candidates"}, stuck)
            \cup Join(f, Dep(need, "tailscale.package"), f.link = "conflict" \/ (need /\ stuck))

PlanArtixTailscale(f) ==
  LET need == ~f.installed \/ ~f.definition
  IN Fetch(need, {"available"}, ~f.available)
       \cup Join(f, Dep(need, "tailscale.package"), (f.installed /\ ~f.definition) \/ (need /\ ~f.available))

PlanAlpineTailscale(f) ==
  LET need == ~f.installed \/ f.repo # "managed"
      stuck == f.repo = "unmanaged" \/ ~f.available
  IN Fetch(need, {"repository-safe", "available"}, stuck)
       \cup Join(f, Dep(need, "tailscale.package"), need /\ stuck)

\* Mutant: any service link is in the way, Bebop's own included.
MutPlanVoidTailscale(f) ==
  LET need == ~f.installed
      stuck == f.held \/ ~f.available
  IN IF f.repo = "unmanaged" THEN Unowned
     ELSE Fetch(need, {"available", "provenance", "constraints"}, stuck)
            \cup Join(f, Dep(need, "tailscale.package"),
                      f.link # "absent" \/ (f.installed /\ ~f.definition) \/ (need /\ stuck))

PlanVoidTailscale(f) ==
  LET need == ~f.installed
      stuck == f.held \/ ~f.available
  IN IF f.repo = "unmanaged" THEN Unowned
     ELSE Fetch(need, {"available", "provenance", "constraints"}, stuck)
            \cup Join(f, Dep(need, "tailscale.package"),
                      f.link = "conflict" \/ (f.installed /\ ~f.definition) \/ (need /\ stuck))

\* What the distributions with systemd and an apt, dnf, zypper or pacman share.
PlanTailscale(f) ==
  LET need == ~f.installed \/ (P \in RPM /\ f.repo # "managed")
      pre == {"absent"} \cup Dep(P \in RPM, "repository-safe") \cup Dep(P = "arch", "available")
      stuck == P = "arch" /\ ~f.available
  IN CASE P = "alpine" -> PlanAlpineTailscale(f)
       [] P = "void" -> PlanVoidTailscale(f)
       [] P = "devuan" -> PlanDevuanTailscale(f)
       [] P = "artix" -> PlanArtixTailscale(f)
       [] P \in RPM /\ f.repo = "unmanaged" -> {Blocked("tailscale.repository", "tailscale.repository-conflict")}
       [] OTHER -> Fetch(need, pre, stuck)
                     \cup Join(f, Dep(~f.installed, "tailscale.package"), ~f.installed /\ stuck)

Update(pre, reason) == {Change("updates.unattended", "updates.enable-unattended", {}, pre, reason)}

\* Alpine and Devuan plan the change whatever the probes found.
PlanAlpineUpdates(f) == Update({"repositories"}, f.repo = "unmanaged" \/ ~f.definition \/ ~f.available)

PlanDevuanUpdates(f) ==
  Update({"repository-safe", "candidates"}, f.repo = "unmanaged" \/ ~f.definition \/ ~f.available)

PlanFedoraUpdates(f) == Update({}, f.repo = "unmanaged")

PlanEnterpriseUpdates(f) == Update({}, f.repo = "unmanaged" \/ f.conflict)

PlanOpenSUSEUpdates(f) ==
  Update({}, f.repo = "unmanaged" \/ f.conflict \/ (P = "tumbleweed" /\ ~f.installed /\ ~f.available))

PlanUpdates(f) ==
  LET done == f.installed /\ f.ready /\ (P = "debian" \/ f.repo = "managed") /\ ~f.conflict
  IN CASE P \in {"arch", "artix", "void"} -> {Blocked("updates.unattended", "updates.automatic-unsupported")}
       [] P = "alpine" -> PlanAlpineUpdates(f)
       [] P = "devuan" -> PlanDevuanUpdates(f)
       [] P = "fedora" /\ ~done -> PlanFedoraUpdates(f)
       [] P = "enterprise" /\ ~done -> PlanEnterpriseUpdates(f)
       [] P \in Zypper /\ ~done -> PlanOpenSUSEUpdates(f)
       [] P = "debian" /\ ~done -> Update({}, FALSE)
       [] OTHER -> {}

\* Without systemd and OpenRC the service must be the package's own, enabled and running.
PlanSSH(h) ==
  LET in_the_way == \/ machine.root \/ ~h.keys \/ ~h.valid \/ ~DropInSupported(h) \/ h.earlier # "none"
                    \/ (P \in {"void", "devuan", "artix"} /\ h.service # "up")
  IN When(h.installed /\ ~(h.dropin = "ours" /\ Effective(h)),
          Change("ssh.hardening", "ssh.write-hardening", {}, {}, in_the_way))

PlanBase(h) ==
  When(h.root = "absent", Change("base.data-root", "base.create-data-root", {}, {"absent"}, FALSE))
    \cup When(h.root = "wrong", Change("base.data-root.permissions", "base.set-data-root-permissions", {}, {}, FALSE))

\* Ready, missing, or in a state Bebop leaves to the operator.
Assess(h) ==
  IF machine.managed /\ h.fstab \in {"conflict", "unknown"} THEN h.fstab
  ELSE CASE h.mounted = "right" -> "ready"
         [] h.mounted = "wrong" -> "wrong"
         [] OTHER -> "missing"

PlanStorage(h) ==
  CASE Assess(h) = "ready" -> {}
    [] Assess(h) = "missing" /\ machine.managed ->
         {Change("storage.mountpoint", "storage.prepare-mountpoint", {}, {"mountpoint"}, FALSE),
          Change("storage.mount-config", "storage.configure-mount", {"storage.mountpoint"}, {"fstab"}, FALSE),
          Change("storage.mount", "storage.mount", {"storage.mount-config"}, {"mountpoint", "configured"}, FALSE)}
    [] OTHER -> {Blocked("storage.blocked", "storage.blocked")}

Plan(h) ==
  CASE F \in Dockers -> PlanDocker(UnitFacts(h))
    [] F = "tailscale" -> PlanTailscale(UnitFacts(h))
    [] F = "updates" -> PlanUpdates(UnitFacts(h))
    [] F = "ssh" -> PlanSSH(h)
    [] F = "base" -> PlanBase(h)
    [] F = "storage" -> PlanStorage(h)

-----------------------------------------------------------------------------
(* Running a change.                                                       *)

\* The kinds each module's Apply accepts.  Docker's list lacks docker.enable-cgroups.
Accepted == {"docker.install-engine", "docker.enable-service", "docker.install-compose",
             "tailscale.install", "tailscale.enable-service", "updates.enable-unattended", "ssh.write-hardening",
             "base.create-data-root", "base.set-data-root-permissions",
             "storage.prepare-mountpoint", "storage.configure-mount", "storage.mount"}

\* Where no file Bebop writes passes for its own.
Unrecognized == P = "alpine" \/ <<P, F>> = <<"devuan", "updates">>

\* Mutant: the check looks who owns the file only where it never finds its own.
MutRepositorySafe(h) == Unrecognized => h.repo = "absent"

\* Alpine's check counts lines with a pattern that matches none, Devuan's looks for lines that are not indented: only
\* an absent file passes.  openSUSE's stops at another file that no probe looks at.
RepositorySafe(h) ==
  IF Unrecognized THEN h.repo = "absent" ELSE h.repo # "unmanaged" /\ (P \in Zypper /\ F = "tailscale" => ~h.conflict)

MountpointSafe(h) == h.dir # "full"

MountConfigured(h) == h.fstab \in {"exact", "external"}

StorageHolds(pre, h) ==
  CASE pre = "mountpoint" -> MountpointSafe(h)
    [] pre = "fstab" -> MountConfigured(h) \/ h.fstab = "absent"
    [] pre = "configured" -> MountConfigured(h)

\* Of Void's "constraints" only the last line counts: a pipeline negated by ! does not stop a script run with sh -e.
UnitHolds(pre, h) ==
  CASE pre = "absent" -> ~h.main
    [] pre = "available" -> h.avail
    [] pre = "repository-safe" -> RepositorySafe(h)
    [] pre = "repositories" -> ~h.conflict
    [] pre = "candidates" -> F = "updates" => h.avail
    [] pre = "no-conflict" -> ~h.conflict
    [] pre = "provenance" -> VoidFacts(h).repo # "unmanaged"
    [] pre = "constraints" -> h.held # "locked"

Holds(pre, h) ==
  CASE F = "storage" -> StorageHolds(pre, h)
    [] F = "base" -> h.root = "absent"
    [] OTHER -> UnitHolds(pre, h)

\* The durable steps of each script, in order.
DockerScript ==
  CASE P = "debian" -> <<"package">>
    [] P = "alpine" -> <<"recheck", "repo", "package", "rest">>
    [] P = "enterprise" -> <<"repo", "package", "rest">>
    [] OTHER -> <<"package", "rest">>

\* Devuan has no package with a service: the script brings one of its own.
DevuanTailscaleScript == <<"recheck", "repo", "index", "package">>

TailscaleScript ==
  CASE P = "devuan" -> DevuanTailscaleScript
    [] P \in {"void", "arch"} -> <<"package">>
    [] P = "artix" -> <<"package", "rest">>
    [] P = "alpine" -> <<"recheck", "repo", "package", "rest">>
    [] OTHER -> <<"repo", "package">>

UpdatesScript ==
  CASE P = "debian" -> <<"package", "repo">>
    [] P = "devuan" -> <<"recheck", "package", "rest", "repo", "enable", "start">>
    [] P = "alpine" -> <<"recheck", "repo", "package", "enable", "start">>
    [] P = "fedora" -> <<"recheck", "package", "repo", "enable", "start">>
    [] P = "leap" -> <<"recheck", "quiet", "repo", "enable", "start">>
    [] OTHER -> <<"recheck", "quiet", "package", "repo", "enable", "start">>

\* The drop-in is tried out under a name of its own first, in the directory sshd reads.
SSHScript == <<"candidate", "dropin", "reload">>

EnableScript == <<"enable", "start">>

ComposeScript == <<"compose">>
BaseScript == <<"root">>

StorageScript(kind) ==
  CASE kind = "storage.prepare-mountpoint" -> <<"mountpoint">>
    [] kind = "storage.configure-mount" -> <<"fstab">>
    [] kind = "storage.mount" -> <<"mount">>

Script(c) ==
  CASE c.kind = "docker.install-engine" -> DockerScript
    [] c.kind = "docker.install-compose" -> ComposeScript
    [] c.kind = "tailscale.install" -> TailscaleScript
    [] c.kind \in {"docker.enable-service", "tailscale.enable-service"} -> EnableScript
    [] c.kind = "updates.enable-unattended" -> UpdatesScript
    [] c.kind = "ssh.write-hardening" -> SSHScript
    [] c.kind \in {"base.create-data-root", "base.set-data-root-permissions"} -> BaseScript
    [] F = "storage" -> StorageScript(c.kind)

\* Whether the package manager finds what it is asked for; Debian's own docker.io is always there.
Offered(h) == h.avail \/ (P = "debian" /\ F \in Dockers)

\* What an updates script looks at once more before it begins; Alpine's reads every repository file.
Rechecked(h) == RepositorySafe(h) /\ (<<P, F>> = <<"alpine", "updates">> => ~h.conflict)

\* Only Devuan's Tailscale looks once more before it moves its file into place.
Replaceable(h) == <<P, F>> = <<"devuan", "tailscale">> => h.repo # "unmanaged"

Enableable(h) == (h.main \/ <<P, F>> = <<"leap", "updates">>) /\ h.definition /\ h.link # "conflict"

\* When a step succeeds.
UnitAble(step, h) ==
  CASE step = "recheck" -> Rechecked(h)
    [] step = "quiet" -> ~h.conflict
    [] step = "repo" -> Replaceable(h)
    [] step = "package" -> Offered(h)
    [] step = "compose" -> h.avail
    [] step = "enable" -> Enableable(h)
    [] OTHER -> TRUE

SSHAble(step, h) ==
  CASE step = "candidate" -> h.valid /\ h.included /\ h.wins /\ h.earlier # "foreign"
    [] step = "reload" -> h.service # "down"
    [] OTHER -> TRUE

StorageAble(step, h) ==
  CASE step = "fstab" -> MountConfigured(h) \/ h.fstab = "absent"
    [] step = "mount" -> h.device
    [] OTHER -> TRUE

Able(step, h) ==
  CASE F = "ssh" -> SSHAble(step, h)
    [] F = "storage" -> StorageAble(step, h)
    [] F = "base" -> TRUE
    [] OTHER -> UnitAble(step, h)

\* Debian's timers run as soon as they are configured; what another file defines stays defined.
FileWritten(h) ==
  IF <<P, F>> = <<"debian", "updates">> THEN [h EXCEPT !.repo = "managed", !.link = "correct", !.run = "up"]
  ELSE [h EXCEPT !.repo = IF @ = "beside" THEN "beside" ELSE "managed"]

\* A package brings its service definition (Artix: the second package does) and, under Void, its provenance.
PackageInstalled(h) ==
  [h EXCEPT !.main = TRUE, !.definition = @ \/ (~h.main /\ P # "artix" /\ F # "updates"),
            !.repo = IF P = "void" /\ VoidFacts(h).repo = "absent" THEN "managed" ELSE @]

\* What a step leaves behind.  A hung daemon counts as started, and starting it again changes nothing.
UnitDo(step, h) ==
  CASE step = "repo" -> FileWritten(h)
    [] step = "index" -> [h EXCEPT !.rest = TRUE]
    [] step = "package" -> PackageInstalled(h)
    [] step = "rest" -> [h EXCEPT !.rest = TRUE, !.definition = @ \/ P = "artix"]
    [] step = "compose" -> [h EXCEPT !.rest = TRUE]
    [] step = "enable" -> [h EXCEPT !.link = "correct"]
    [] step = "start" -> [h EXCEPT !.run = IF @ = "down" THEN "up" ELSE @]
    [] OTHER -> h

SSHDo(step, h) ==
  CASE step = "candidate" -> [h EXCEPT !.earlier = "leftover"]
    [] step = "dropin" -> [h EXCEPT !.earlier = "none", !.dropin = "ours", !.live = FALSE]
    [] step = "reload" -> [h EXCEPT !.live = TRUE]

StorageDo(step, h) ==
  CASE step = "mountpoint" -> [h EXCEPT !.dir = IF @ = "absent" THEN "empty" ELSE @]
    [] step = "fstab" -> [h EXCEPT !.fstab = IF @ = "absent" THEN "exact" ELSE @]
    [] step = "mount" -> [h EXCEPT !.mounted = "right"]

Do(step, h) ==
  CASE F = "ssh" -> SSHDo(step, h)
    [] F = "storage" -> StorageDo(step, h)
    [] F = "base" -> [h EXCEPT !.root = "right"]
    [] OTHER -> UnitDo(step, h)

\* A script that fails removes its temporary files; one that is killed does not.
Cleaned(h) == IF F = "ssh" /\ h.earlier = "leftover" THEN [h EXCEPT !.earlier = "none"] ELSE h

Ready(h) == h.link = "correct" /\ h.run = "up"

\* What the verifications accept.
DockerConfirmed(kind, h) ==
  CASE kind = "docker.install-engine" ->
         CASE P = "debian" -> h.main
           [] P = "devuan" -> h.main # h.rest /\ h.avail
           [] P = "alpine" -> h.main /\ h.rest /\ RepositorySafe(h)
           [] OTHER -> h.main /\ h.rest
    [] kind = "docker.install-compose" -> h.main /\ h.rest /\ h.plugin
    [] kind = "docker.enable-service" ->
         /\ Ready(h)
         /\ P \in {"void", "artix"} => h.definition
         /\ P \in {"void", "devuan", "artix", "alpine"} => h.main /\ h.rest /\ h.plugin

TailscaleConfirmed(kind, h) ==
  IF kind = "tailscale.enable-service" THEN Ready(h) /\ (P \in {"void", "artix"} => h.definition)
  ELSE CASE P = "alpine" -> h.main /\ h.rest /\ RepositorySafe(h)
         [] P = "devuan" -> h.main /\ DevuanTailscaleFacts(h).available
         [] P = "artix" -> h.main /\ h.definition
         [] OTHER -> h.main

\* A competing timer is looked for with negated commands, which do not stop a script run with sh -e: one that is
\* enabled but not running passes.
UpdatesConfirmed(h) ==
  /\ Ready(h)
  /\ P \notin {"leap", "devuan"} => h.main
  /\ P \notin {"debian", "alpine"} => h.repo = "managed" /\ ~Unrecognized
  /\ P = "devuan" => h.main # h.rest /\ h.definition
  /\ P = "alpine" => ~h.conflict

StorageConfirmed(kind, h) ==
  CASE kind = "storage.prepare-mountpoint" -> MountpointSafe(h)
    [] kind = "storage.configure-mount" -> MountConfigured(h)
    [] kind = "storage.mount" -> h.mounted = "right"

Confirmed(c, h) ==
  CASE F \in Dockers -> DockerConfirmed(c.kind, h)
    [] F = "tailscale" -> TailscaleConfirmed(c.kind, h)
    [] F = "updates" -> UpdatesConfirmed(h)
    [] F = "ssh" -> h.valid /\ Effective(h) /\ h.dropin = "ours"
    [] F = "base" -> h.root = "right"
    [] F = "storage" -> StorageConfirmed(c.kind, h)

-----------------------------------------------------------------------------
(* The apply.                                                              *)

\* A host on which every step Bebop may take can succeed.
Sound(h) ==
  CASE F = "ssh" -> h.wins /\ h.service # "down"
    [] F = "storage" -> h.device /\ h.dir # "full"
    [] F = "base" -> TRUE
    [] OTHER -> h.run # "hung" /\ h.avail /\ (h.main => h.definition) /\ h.plugin

Init ==
  /\ machine \in [platform: Platforms, feature: Features, sudo: BOOLEAN, root: BOOLEAN, managed: BOOLEAN]
  /\ machine.feature # "ssh" => ~machine.root
  /\ machine.feature # "storage" => machine.managed
  /\ host \in HostsOf(P, F)
  /\ pc = "idle" /\ todo = {} /\ script = <<>> /\ verified = {} /\ outcome = "none"
  /\ stale = "nothing" /\ excuse = FALSE /\ own = FALSE
  /\ edits = 0 /\ faults = 0 /\ runs = 0

\* IDs in the order of their bytes.
IDs == <<"base.data-root", "base.data-root.permissions", "docker.cgroups", "docker.compose", "docker.conflict",
         "docker.engine", "docker.repository", "docker.service", "ssh.hardening", "storage.blocked", "storage.mount",
         "storage.mount-config", "storage.mountpoint", "tailscale.package", "tailscale.repository",
         "tailscale.service", "updates.unattended">>
Rank(id) == CHOOSE i \in DOMAIN IDs : IDs[i] = id

IDsOf(changes) == {c.id : c \in changes}

\* A plan that depends on a change it does not hold is refused as an error.
Sortable(changes) == \A c \in changes : c.deps \subseteq IDsOf(changes)

\* Lexical topological order: the first ID among the changes that wait for no other.
Unlocked(changes) == {c \in changes : c.deps \cap IDsOf(changes) = {}}
Following(changes) == CHOOSE c \in Unlocked(changes) : \A d \in Unlocked(changes) : Rank(c.id) <= Rank(d.id)

\* Mutant: what was verified is carried into the next apply.
MutEnd(result) ==
  /\ pc' = "idle" /\ outcome' = result
  /\ todo' = {} /\ script' = <<>> /\ verified' = verified

End(result) ==
  /\ pc' = "idle" /\ outcome' = result
  /\ todo' = {} /\ script' = <<>> /\ verified' = {}

\* Inspect and plan under the lock.
Start ==
  LET changes == Plan(host) IN
  /\ pc = "idle" /\ runs < MaxRuns
  /\ runs' = runs + 1
  /\ stale' = "nothing" /\ excuse' = ~Sound(host)
  /\ IF ~Sortable(changes) THEN End("error") /\ own' = own
     ELSE IF \E c \in changes : c.blocked THEN End("blocked") /\ own' = own
     ELSE IF changes = {} THEN End("success") /\ own' = TRUE
     ELSE /\ pc' = "planned" /\ todo' = changes /\ own' = TRUE
          /\ outcome' = "none"
          /\ UNCHANGED <<script, verified>>
  /\ UNCHANGED <<machine, host, edits, faults>>

\* An unknown kind is refused before anything is tested; then each precondition is, as a script of its own.
Check ==
  LET c == Following(todo) IN
  /\ pc = "planned" /\ todo # {}
  /\ IF c.kind \in Accepted /\ \A pre \in c.pre : Holds(pre, host)
     THEN /\ pc' = "running" /\ script' = Script(c)
          /\ stale' = IF stale = "nothing" THEN "nothing" ELSE "plan"
          /\ UNCHANGED <<todo, verified, outcome>>
     ELSE End("failed") /\ UNCHANGED stale
  /\ UNCHANGED <<machine, host, excuse, own, edits, faults, runs>>

Step ==
  /\ pc = "running" /\ script # <<>>
  /\ IF Able(Head(script), host)
     THEN /\ host' = Do(Head(script), host)
          /\ script' = Tail(script)
          /\ UNCHANGED <<pc, todo, verified, outcome>>
     ELSE host' = Cleaned(host) /\ End("failed")
  /\ UNCHANGED <<machine, stale, excuse, own, edits, faults, runs>>

\* The connection is lost, the script killed, the controller interrupted.
Interrupt ==
  /\ pc = "running" /\ faults < MaxFaults
  /\ faults' = faults + 1
  /\ excuse' = TRUE
  /\ End("failed")
  /\ UNCHANGED <<machine, host, stale, own, edits, runs>>

\* Mutant: a failed verification does not end the apply.
MutVerify ==
  LET c == Following(todo) IN
  /\ pc = "running" /\ script = <<>>
  /\ pc' = "planned" /\ todo' = todo \ {c}
  /\ verified' = IF Confirmed(c, host) THEN verified \cup {c.id} ELSE verified
  /\ UNCHANGED <<machine, host, script, outcome, stale, excuse, own, edits, faults, runs>>

Verify ==
  LET c == Following(todo) IN
  /\ pc = "running" /\ script = <<>>
  /\ IF Confirmed(c, host)
     THEN /\ pc' = "planned" /\ todo' = todo \ {c} /\ verified' = verified \cup {c.id}
          /\ UNCHANGED <<script, outcome>>
     ELSE End("failed")
  /\ UNCHANGED <<machine, host, stale, excuse, own, edits, faults, runs>>

\* After the last change everything is planned again; what is still to do and not blocked fails the apply.
Replan ==
  LET changes == Plan(host) IN
  /\ pc = "planned" /\ todo = {}
  /\ IF ~Sortable(changes) THEN End("error")
     ELSE IF \E c \in changes : ~c.blocked THEN End("failed")
     ELSE End("success")
  /\ UNCHANGED <<machine, host, stale, excuse, own, edits, faults, runs>>

\* Somebody else, or another program, changes the host during an apply.
Edited(h) ==
  CASE F = "ssh" -> {[h EXCEPT !.keys = FALSE], [h EXCEPT !.service = IF @ = "up" THEN "down" ELSE @]}
    [] F = "storage" -> {[h EXCEPT !.dir = "full"], [h EXCEPT !.fstab = "conflict"]}
    [] F = "base" -> {[h EXCEPT !.root = "wrong"]}
    [] OTHER -> {[h EXCEPT !.repo = to] : to \in {"edited", "beside", "unmanaged"}}
                  \cup {[h EXCEPT !.held = to] : to \in {"held", "locked"}}
                  \cup {[h EXCEPT !.conflict = TRUE], [h EXCEPT !.link = "conflict"], [h EXCEPT !.main = TRUE],
                        [h EXCEPT !.avail = FALSE], [h EXCEPT !.run = "down"]}

Edit ==
  /\ pc # "idle" /\ edits < MaxEdits
  /\ \E h \in Edited(host) \cap HostsOf(P, F) : h # host /\ host' = h
  /\ edits' = edits + 1
  /\ stale' = "checks" /\ excuse' = TRUE /\ own' = FALSE
  /\ UNCHANGED <<machine, pc, todo, script, verified, outcome, faults, runs>>

Next == Start \/ Check \/ Step \/ Interrupt \/ Verify \/ Replan \/ Edit

Spec == Init /\ [][Next]_vars

-----------------------------------------------------------------------------
(* What the modules promise.                                               *)

\* The variables hold what the code can put there, and an idle apply remembers nothing.
HostTypeOK ==
  /\ host \in Units \cup Shells \cup Disks \cup Roots
  /\ pc \in {"idle", "planned", "running"}
  /\ outcome \in {"none", "success", "blocked", "error", "failed"}
  /\ stale \in {"nothing", "plan", "checks"}
  /\ pc = "idle" => todo = {} /\ script = <<>> /\ verified = {}
  /\ pc # "idle" => outcome = "none"
  /\ \A c \in todo : ~c.blocked
  /\ edits \in 0 .. MaxEdits /\ faults \in 0 .. MaxFaults /\ runs \in 0 .. MaxRuns

\* Where the code is known to disagree with itself: an accepted plan cannot finish whatever the host is like.
Unfinishable ==
  \/ P = "alpine" /\ F \in Dockers \cup {"tailscale", "updates"}
  \/ P = "devuan" /\ F \in Dockers \cup {"updates"}
  \/ P \in RPM /\ F = "tailscale" /\ (host.main \/ host.conflict)

\* On a host in good order that nobody else touches, every accepted plan can be carried out: no check, script,
\* verification or second planning of one part contradicts what another part took for granted.
PlannedIsAppliable == outcome = "failed" => excuse \/ Unfinishable

\* What the configuration asks of the host.
Desired(h) ==
  CASE F \in Dockers -> h.main /\ (h.rest \/ (P = "debian" /\ F = "docker")) /\ Ready(h)
    [] F = "tailscale" -> h.main /\ Ready(h) /\ (P \in RPM \cup {"devuan"} => h.repo = "managed")
    [] F = "updates" -> Ready(h) /\ (P # "leap" => h.main) /\ (P # "debian" => h.repo = "managed") /\ ~h.conflict
    [] F = "ssh" -> h.installed => h.dropin = "ours" /\ Effective(h)
    [] F = "base" -> h.root = "right"
    [] F = "storage" -> h.mounted = "right"

\* "No changes" and a finished apply mean that the host is as configured: whatever runs were interrupted before,
\* no half finished script is taken for a finished one.  Devuan's Docker without Compose is.
SuccessIsReady ==
  outcome = "success" /\ stale = "nothing" => Desired(host) \/ <<P, F>> \in {"devuan"} \X Dockers

\* What an interrupted script is known to leave in its own way: SSH's candidate file, the file no probe recognizes,
\* Devuan's vendor repository before its index is fetched, a package of Artix or Void without its service, and a new
\* repository that turns out not to offer the package.
Tripwire ==
  CASE F = "ssh" -> host.earlier = "leftover"
    [] F \in {"base", "storage"} -> FALSE
    [] OTHER -> \/ Unrecognized /\ host.repo = "managed"
                \/ <<P, F>> = <<"devuan", "tailscale">> /\ host.repo = "managed" /\ ~host.rest
                \/ P \in {"artix", "void"} /\ host.main /\ ~host.definition
                \/ host.repo = "managed" /\ ~host.avail

\* Bebop does not stumble over what it left behind itself: once it found nothing in the way, and nobody else touched
\* the host, it never refuses to plan, however its scripts were interrupted.
OwnTraceNeverBlocks == outcome = "blocked" => ~own \/ Tripwire

\* A change runs only after every change it builds on was verified in the same apply, whatever failed before it.
DependenciesVerified == pc = "running" => Following(todo).deps \subseteq verified

\* What somebody put in the way is respected.  What was there at the inspection always is: a file Bebop does not own
\* or no longer recognizes is not overwritten, nothing is installed beside another definition of the repository, beside
\* a conflicting package or over a hold, no service link is replaced, no data mounted over, no password disabled for
\* an account without a key.  What came between the plan and the change's check is, but where that check sees less
\* than the probes: a file edited below its marker, a definition that is not the last, a hold and a key that went away
\* are not noticed.  What came after the check is not, a link apart.  Debian's files are overwritten unread.
SSHTrespass == ~host.keys /\ host.dropin # "ours" /\ host'.dropin = "ours" /\ stale = "nothing"

StorageTrespass == host.mounted # "right" /\ host'.mounted = "right" /\ host.dir = "full" /\ stale # "checks"

Installs == ~host.main /\ host'.main

UnitTrespass ==
  \/ host.link = "conflict" /\ host'.link = "correct"
  \/ /\ stale # "checks"
     /\ \/ host.repo = "unmanaged" /\ host'.repo = "managed" /\ P \notin {"debian", "void"}
        \/ Installs /\ (host.conflict \/ host.held = "locked")
  \/ /\ stale = "nothing"
     /\ \/ host.repo = "edited" /\ host'.repo = "managed"
        \/ Installs /\ (host.repo = "beside" \/ host.held # "no")

Trespass ==
  CASE F = "ssh" -> SSHTrespass
    [] F = "storage" -> StorageTrespass
    [] F = "base" -> FALSE
    [] OTHER -> UnitTrespass
NothingForeignIsHarmed == [][edits' = edits => ~Trespass]_vars

=============================================================================
