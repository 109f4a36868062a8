------------------------------ MODULE HostProofs ------------------------------
(* Theorems about HostModules, for any platforms, interruptions, edits and runs. *)
EXTENDS HostModules, LeastNumber, TLAPS

-----------------------------------------------------------------------------
(* Types. *)

\* The features that are a package set with a service.
UnitFeatures == Dockers \cup {"tailscale", "updates"}

\* The changes a module may carry out, by the feature it manages.
Parts ==
  CASE F \in Dockers -> {"docker.cgroups", "docker.engine", "docker.service", "docker.compose"}
    [] F = "tailscale" -> {"tailscale.package", "tailscale.service"}
    [] F = "updates" -> {"updates.unattended"}
    [] F = "ssh" -> {"ssh.hardening"}
    [] F = "base" -> {"base.data-root", "base.data-root.permissions"}
    [] F = "storage" -> {"storage.mountpoint", "storage.mount-config", "storage.mount"}

KindOf(id) ==
  CASE id = "docker.cgroups" -> "docker.enable-cgroups"
    [] id = "docker.engine" -> "docker.install-engine"
    [] id = "docker.service" -> "docker.enable-service"
    [] id = "docker.compose" -> "docker.install-compose"
    [] id = "tailscale.package" -> "tailscale.install"
    [] id = "tailscale.service" -> "tailscale.enable-service"
    [] id = "updates.unattended" -> "updates.enable-unattended"
    [] id = "ssh.hardening" -> "ssh.write-hardening"
    [] id = "base.data-root" -> "base.create-data-root"
    [] id = "base.data-root.permissions" -> "base.set-data-root-permissions"
    [] id = "storage.mountpoint" -> "storage.prepare-mountpoint"
    [] id = "storage.mount-config" -> "storage.configure-mount"
    [] id = "storage.mount" -> "storage.mount"

\* How many changes one may have to wait for.
Level(id) ==
  CASE id \in {"docker.compose", "storage.mount"} -> 2
    [] id \in {"docker.service", "tailscale.service", "storage.mount-config"} -> 1
    [] OTHER -> 0

\* What the last check before a script has to look at.
Prudent(c) ==
  /\ c.kind = "docker.install-engine" =>
       /\ P \in {"alpine", "enterprise"} => "repository-safe" \in c.pre
       /\ P \in RPM => "no-conflict" \in c.pre
  /\ c.kind = "tailscale.install" /\ P \in RPM => "repository-safe" \in c.pre
  /\ c.kind \in {"docker.install-engine", "tailscale.install"} /\ P = "void" => "constraints" \in c.pre
  /\ c.kind = "updates.enable-unattended" /\ P = "alpine" => "repositories" \in c.pre
  /\ c.kind = "storage.mount" => "mountpoint" \in c.pre

ChangeOK(c) ==
  /\ c.id \in Parts /\ c.kind = KindOf(c.id)
  /\ \A d \in c.deps : Level(d) < Level(c.id)
  /\ Prudent(c)

\* A change of a plan: one that is blocked need not be any of them.
PlannedOK(c) == ~c.blocked => machine.sudo /\ ChangeOK(c)

MachineOK == machine \in [platform: Platforms, feature: Features, sudo: BOOLEAN, root: BOOLEAN, managed: BOOLEAN]

\* The hosts a feature may meet: a killed script leaves an SSH server no one starts from.
Possible == IF F = "ssh" THEN Shells ELSE HostsOf(P, F)

HostOK == host \in Possible

\* Where the modules have a file of their own.
OwnsFile == \/ P \in {"alpine", "enterprise"} \/ F = "updates"
            \/ (F = "tailscale" /\ P \in RPM \cup {"debian", "devuan"})

Steps ==
  CASE F = "ssh" -> {"candidate", "dropin", "reload"}
    [] F = "storage" -> {"mountpoint", "fstab", "mount"}
    [] F = "base" -> {"root"}
    [] OTHER -> {"recheck", "quiet", "package", "rest", "compose", "enable", "start"}
                  \cup {s \in {"repo"} : OwnsFile} \cup {s \in {"index"} : <<P, F>> = <<"devuan", "tailscale">>}

ApplyOK ==
  /\ pc \in {"idle", "planned", "running"}
  /\ outcome \in {"none", "success", "blocked", "error", "failed"}
  /\ stale \in {"nothing", "plan", "checks"}
  /\ edits \in 0 .. MaxEdits /\ faults \in 0 .. MaxFaults /\ runs \in 0 .. MaxRuns
  /\ own \in BOOLEAN /\ excuse \in BOOLEAN
  /\ pc = "idle" => todo = {} /\ verified = {}
  /\ pc # "idle" => outcome = "none"
  /\ pc # "running" => script = <<>>
  /\ pc = "running" => todo # {}
  /\ script \in Seq(Steps)

TodoOK ==
  /\ todo # {} => machine.sudo
  /\ \A c \in todo : ChangeOK(c) /\ ~c.blocked /\ c.deps \subseteq IDsOf(todo) \cup verified

TypeInv == MachineOK /\ HostOK /\ ApplyOK /\ TodoOK

-----------------------------------------------------------------------------
(* What is not Bebop's. *)

\* a is run before b is.
Before(a, b, s) == \A j \in 1 .. Len(s) : s[j] = b => \E i \in 1 .. (j - 1) : s[i] = a

Lacks(b, s) == \A j \in 1 .. Len(s) : s[j] # b

\* What a plan that can be carried out saw of the host's own files and holds.
Recognized(h) == h.repo \notin {"edited", "beside"} /\ (h.main \/ h.held = "no")

HarmInv ==
  /\ stale # "checks" =>
       /\ P = "debian" \/ Before("recheck", "repo", script) \/ host.repo # "unmanaged"
       /\ Before("quiet", "package", script) \/ ~host.conflict \/ host.main
       /\ P # "void" \/ Lacks("package", script) \/ host.held # "locked"
       /\ Lacks("mount", script) \/ host.dir # "full"
  /\ todo # {} /\ stale = "nothing" =>
       /\ F = "ssh" => host.keys
       /\ F \in UnitFeatures => Recognized(host)

-----------------------------------------------------------------------------
(* Success. *)

\* What is as the configuration asks, or one of the changes T.
Covered(h, T) ==
  CASE F \in Dockers ->
         \/ P = "devuan"
         \/ /\ h.main \/ "docker.engine" \in T
            /\ \/ h.rest
               \/ IF P = "debian" THEN F = "docker" \/ "docker.compose" \in T ELSE "docker.engine" \in T
            /\ Ready(h) \/ "docker.service" \in T
    [] F = "tailscale" ->
         /\ h.main \/ "tailscale.package" \in T
         /\ Ready(h) \/ "tailscale.service" \in T
         /\ P \in RPM \cup {"devuan"} => h.repo = "managed" \/ "tailscale.package" \in T
    [] F = "storage" -> h.mounted = "right" \/ "storage.mount" \in T
    [] OTHER -> Desired(h) \/ T # {}

\* What the script in hand has done or will do.
Doing ==
  LET c == Following(todo) IN
  /\ c.kind = "tailscale.install" /\ P \in RPM \cup {"devuan"} => host.repo = "managed" \/ ~Lacks("repo", script)
  /\ c.kind = "updates.enable-unattended" =>
       /\ host.repo = "managed" \/ ~Lacks("repo", script)
       /\ P # "leap" => host.main \/ ~Lacks("package", script)
       /\ ~host.conflict \/ ~Lacks("quiet", script)

ReadyInv ==
  /\ SuccessIsReady
  /\ stale = "nothing" /\ pc # "idle" => Covered(host, IDsOf(todo))
  /\ stale = "nothing" /\ pc = "running" => Doing

-----------------------------------------------------------------------------
(* Bebop's own traces. *)

NoneBlocked(changes) == \A c \in changes : ~c.blocked

\* What must be so for no change of a plan to be blocked, with root at hand.
DockerClear(f) ==
  LET need == ~f.installed \/ ~f.complete
      compose == F = "compose" /\ ~f.compose
  IN CASE P = "debian" -> compose => f.available
       [] P = "devuan" -> need => f.available
       [] P = "artix" -> f.cgroups /\ (need => f.available) /\ (~f.ready => ~f.installed \/ f.definition)
       [] P = "alpine" -> f.cgroups /\ (need \/ f.repo # "managed" => f.repo # "unmanaged" /\ f.available)
       [] P = "void" -> /\ f.repo # "unmanaged" /\ ~f.held /\ f.cgroups
                        /\ need => f.available
                        /\ ~f.ready => f.link # "conflict" /\ (~need => f.definition)
                        /\ compose /\ ~need => f.available
       [] P = "enterprise" -> /\ ~f.conflict /\ f.repo # "unmanaged"
                              /\ need \/ compose => f.repo # "managed" \/ f.available
       [] OTHER -> (P = "arch" \/ ~f.conflict) /\ (need \/ compose => f.available)

TailscaleClear(f) ==
  CASE P = "devuan" -> /\ f.repo # "unmanaged"
                       /\ f.repo = "managed" /\ ~f.installed => f.available
                       /\ ~f.ready => f.link # "conflict"
    [] P = "artix" -> /\ ~f.installed \/ ~f.definition => f.available
                      /\ ~f.ready => ~f.installed \/ f.definition
    [] P = "alpine" -> ~f.installed \/ f.repo # "managed" => f.repo # "unmanaged" /\ f.available
    [] P = "void" -> /\ f.repo # "unmanaged"
                     /\ ~f.installed => ~f.held /\ f.available
                     /\ ~f.ready => f.link # "conflict" /\ (~f.installed \/ f.definition)
    [] OTHER -> /\ P \in RPM => f.repo # "unmanaged"
                /\ P = "arch" /\ ~f.installed => f.available

UpdatesDone(f) == f.installed /\ f.ready /\ (P = "debian" \/ f.repo = "managed") /\ ~f.conflict

UpdatesClear(f) ==
  CASE P \in {"arch", "artix", "void"} -> FALSE
    [] P \in {"alpine", "devuan"} -> f.repo # "unmanaged" /\ f.definition /\ f.available
    [] P = "fedora" -> UpdatesDone(f) \/ f.repo # "unmanaged"
    [] P = "enterprise" -> UpdatesDone(f) \/ (f.repo # "unmanaged" /\ ~f.conflict)
    [] P \in Zypper -> \/ UpdatesDone(f)
                       \/ f.repo # "unmanaged" /\ ~f.conflict /\ (P = "leap" \/ f.installed \/ f.available)
    [] OTHER -> TRUE

\* What may have become of a package set g under Bebop's scripts alone.
GrownUnits(g, h) ==
  /\ h.avail = g.avail /\ h.conflict = g.conflict /\ h.held = g.held /\ h.cgroups = g.cgroups
  /\ h.cgsvc = g.cgsvc /\ h.plugin = g.plugin
  /\ (g.main => h.main) /\ (g.rest => h.rest) /\ (g.definition => h.definition)
  /\ h.repo \in {g.repo, "managed"}
  /\ h.link = g.link \/ (g.link = "absent" /\ h.link = "correct")
  /\ g.run = "up" => h.run = "up"
  /\ h.main # g.main \/ h.rest # g.rest =>
       /\ F \in Dockers => Offered(g)
       /\ P = "void" => h.main /\ (VoidFacts(g).repo = "absent" => h.repo = "managed")

\* What may have become of a host g under Bebop's scripts alone.
Grown(g, h) ==
  CASE F \in UnitFeatures -> GrownUnits(g, h)
    [] F = "ssh" -> /\ h.installed = g.installed /\ h.wins = g.wins /\ h.keys = g.keys /\ h.valid = g.valid
                    /\ h.included = g.included /\ h.service = g.service
                    /\ h.earlier \in {g.earlier, "none", "leftover"} /\ h.dropin \in {g.dropin, "ours"}
    [] F = "base" -> TRUE
    [] F = "storage" -> /\ h.mounted \in {g.mounted, "right"}
                        /\ h.fstab = g.fstab \/ (g.fstab = "absent" /\ h.fstab = "exact")

\* The host comes, by Bebop's scripts alone, from one that was planned with nothing in the way.
Traced == \E g \in Possible : NoneBlocked(Plan(g)) /\ (host = g \/ (machine.sudo /\ Grown(g, host)))

\* Where nobody else was at work, that is so, and what the script in hand adds it adds to a package that is there.
OwnInv ==
  /\ OwnTraceNeverBlocks
  /\ own => Traced
  /\ own /\ F \in UnitFeatures =>
       /\ Before("package", "rest", script) \/ (host.main /\ Offered(host))
       /\ P = "void" => /\ \A c \in todo : c.id = "docker.compose" => host.main
                        /\ Lacks("compose", script) \/ host.main

-----------------------------------------------------------------------------
(* What was planned can be carried out. *)

\* What makes a host healthy and no step changes.
Fit(h) ==
  CASE F = "ssh" -> h.wins /\ h.service # "down"
    [] F = "storage" -> h.device /\ h.dir # "full"
    [] F = "base" -> TRUE
    [] OTHER -> h.run # "hung" /\ h.avail /\ h.plugin

\* A package has its service, but for Artix between the two.
Defined(h, s) == F \in UnitFeatures /\ h.main => h.definition \/ (P = "artix" /\ s = <<"rest">>)

\* What a plan with the changes T would not have passed over.
Passable(h, T) ==
  CASE F = "ssh" -> h.valid /\ h.included /\ h.earlier # "foreign"
    [] F = "storage" -> /\ h.fstab \in {"absent", "exact", "external"}
                        /\ MountConfigured(h) \/ "storage.mount-config" \in IDsOf(T)
    [] F = "base" -> TRUE
    [] OTHER -> /\ ~h.conflict /\ h.link # "conflict"
                /\ Ownership(h) # "unmanaged" \/ P \in {"debian", "void"}
                /\ F = "updates" => P \notin {"arch", "artix", "void"}

\* The changes the others of their module wait for.
Bases == {"docker.engine", "tailscale.package"}

\* Only a change that the others wait for looks for anything on the host, but for storage.  Docker's cgroups, and
\* Compose under Artix, are never planned where the plan can be carried out.
Shape(T) ==
  /\ \A c, d \in T : c.id = d.id \/ F = "base" => c = d
  /\ \A c \in T :
       /\ c.id # "docker.cgroups" /\ (P = "artix" => c.id # "docker.compose")
       /\ \A x \in Bases : x \in IDsOf(T) /\ c.id # x => x \in c.deps
       /\ F \in UnitFeatures \cup {"ssh"} => c.pre = {} \/ c.id \in Bases
       /\ F = "storage" => /\ c.pre \subseteq {"mountpoint", "fstab", "configured"}
                           /\ "configured" \in c.pre => c.id = "storage.mount"
                           /\ c.id = "storage.mount" => "storage.mount-config" \in c.deps

Promising(h, T) ==
  /\ Fit(h)
  /\ P = "enterprise" /\ F \in Dockers => h.repo = "managed" \/ "docker.engine" \in IDsOf(T)
  /\ T # {} => Passable(h, T) /\ Shape(T)

\* What has to be there is there, until a change makes use of it.
FirstHolds(h, T) == F \in UnitFeatures \cup {"base"} => \A c \in T : \A pre \in c.pre : Holds(pre, h)

\* What a step brings about.
Made(step, h) ==
  CASE step = "repo" -> h.repo = "managed" /\ (<<P, F>> = <<"debian", "updates">> => Ready(h))
    [] step = "package" -> h.main
    [] step \in {"rest", "compose", "index"} -> h.rest
    [] step = "enable" -> h.link = "correct"
    [] step = "start" -> h.run = "up"
    [] step = "dropin" -> h.dropin = "ours"
    [] step = "root" -> h.root = "right"
    [] step = "fstab" -> MountConfigured(h)
    [] step = "mount" -> h.mounted = "right"
    [] OTHER -> TRUE

\* Every step of a change's script is done or among the steps s still to come, which are in a possible order.
Underway(h, c, s) ==
  /\ c.kind \in Accepted
  /\ \A i \in 1 .. Len(Script(c)) : Made(Script(c)[i], h) \/ ~Lacks(Script(c)[i], s)
  /\ F \in UnitFeatures =>
       /\ Before("package", "enable", s) \/ h.main \/ <<P, F>> = <<"leap", "updates">>
       /\ P \in {"debian", "void"} => Lacks("recheck", s)
       /\ P = "artix" => s \in {<<>>, <<"package", "rest">>, <<"rest">>, <<"enable", "start">>, <<"start">>}

FitInv ==
  /\ PlannedIsAppliable
  /\ pc # "idle" /\ ~excuse => stale = "nothing"
  /\ pc # "idle" /\ ~excuse /\ ~Unfinishable =>
       /\ Promising(host, todo) /\ Defined(host, script)
       /\ pc = "planned" => FirstHolds(host, todo)
       /\ pc = "running" => Underway(host, Following(todo), script)
-----------------------------------------------------------------------------
(* Plans. *)

\* Without root every change is blocked.
LEMMA ChangeNeedsRoot ==
  \A id, kind, deps, pre, reason : Change(id, kind, deps, pre, reason).blocked \/ machine.sudo
BY DEF Change

\* A change that only tells what is in the way is no change to carry out.
LEMMA BlockedPlanned ==
  ASSUME NEW id, NEW kind PROVE PlannedOK(Blocked(id, kind))
BY DEF Blocked, Change, PlannedOK

LEMMA InstallPlanned ==
  ASSUME F \in Dockers, NEW wanted, NEW pre, NEW reason,
         P \in {"alpine", "enterprise"} => "repository-safe" \in pre,
         P \in RPM => "no-conflict" \in pre, P = "void" => "constraints" \in pre
  PROVE  \A c \in Install(wanted, pre, reason) : PlannedOK(c)
<1>1. \A c \in Install(wanted, pre, reason) : c.blocked \/ machine.sudo BY ChangeNeedsRoot DEF Install, When
<1>2. QED BY <1>1 DEF Install, When, Change, PlannedOK, ChangeOK, Parts, KindOf, Level, Prudent, Dockers

LEMMA ServePlanned ==
  ASSUME F \in Dockers, NEW f, NEW reason, NEW deps \in SUBSET {"docker.engine", "docker.cgroups"}
  PROVE  \A c \in Serve(f, deps, reason) : PlannedOK(c)
<1>1. \A d \in deps : Level(d) = 0 BY DEF Level
<1>2. Level("docker.service") = 1 BY DEF Level
<1>3. \A c \in Serve(f, deps, reason) : c.blocked \/ machine.sudo BY ChangeNeedsRoot DEF Serve, When
<1>4. QED BY <1>1, <1>2, <1>3 DEF Serve, When, Change, PlannedOK, ChangeOK, Parts, KindOf, Prudent, Dockers

LEMMA ComposePlanned ==
  ASSUME F \in Dockers, NEW wanted, NEW reason, NEW deps \in SUBSET {"docker.engine", "docker.service"}
  PROVE  \A c \in Compose(wanted, deps, reason) : PlannedOK(c)
<1>1. \A d \in deps : Level(d) \in {0, 1} BY DEF Level
<1>2. Level("docker.compose") = 2 BY DEF Level
<1>3. \A c \in Compose(wanted, deps, reason) : c.blocked \/ machine.sudo BY ChangeNeedsRoot DEF Compose, When
<1>4. QED BY <1>1, <1>2, <1>3 DEF Compose, When, Change, PlannedOK, ChangeOK, Parts, KindOf, Prudent, Dockers

LEMMA CgroupsPlanned ==
  ASSUME F \in Dockers, NEW wanted, NEW reason
  PROVE  \A c \in When(wanted, Change("docker.cgroups", "docker.enable-cgroups", {}, {}, reason)) : PlannedOK(c)
<1>1. \A c \in When(wanted, Change("docker.cgroups", "docker.enable-cgroups", {}, {}, reason)) :
        c.blocked \/ machine.sudo
  BY ChangeNeedsRoot DEF When
<1>2. QED BY <1>1 DEF When, Change, PlannedOK, ChangeOK, Parts, KindOf, Prudent, Dockers

LEMMA BehindPlanned ==
  ASSUME NEW f, NEW need PROVE Behind(f, need) \in SUBSET {"docker.engine", "docker.service"}
BY DEF Behind, Dep

LEMMA DockerPlanned ==
  ASSUME MachineOK, F \in Dockers, NEW f, NEW c \in PlanDocker(f)
  PROVE  PlannedOK(c)
<1> USE InstallPlanned, ServePlanned, ComposePlanned, CgroupsPlanned, BehindPlanned, BlockedPlanned
<1>1. \A need : Dep(need, "docker.engine") \in SUBSET {"docker.engine", "docker.cgroups"}
  BY DEF Dep
<1>2. \A need, more : Dep(more, "docker.cgroups") \cup Dep(need, "docker.engine")
                         \in SUBSET {"docker.engine", "docker.cgroups"}
  BY DEF Dep
<1>3. {"docker.service"} \in SUBSET {"docker.engine", "docker.service"} OBVIOUS
<1>4. CASE P = "debian" BY <1>1, <1>4 DEF PlanDocker, PlanDebianDocker, RPM, DNF, Zypper
<1>5. CASE P = "devuan" BY <1>1, <1>5 DEF PlanDocker, PlanDevuanDocker, RPM, DNF, Zypper
<1>6. CASE P = "artix" BY <1>1, <1>6 DEF PlanDocker, PlanArtixDocker, RPM, DNF, Zypper
<1>7. CASE P = "alpine" BY <1>2, <1>7 DEF PlanDocker, PlanAlpineDocker, RPM, DNF, Zypper
<1>8. CASE P = "void" BY <1>1, <1>3, <1>8 DEF PlanDocker, PlanVoidDocker, RPM, DNF, Zypper
<1>9. CASE P = "arch" BY <1>1, <1>9 DEF PlanDocker, PlanArchDocker, RPM, DNF, Zypper
<1>10. CASE P \in Zypper BY <1>1, <1>10 DEF PlanDocker, PlanOpenSUSEDocker, RPM, DNF, Zypper
<1>11. CASE P = "enterprise" BY <1>1, <1>11 DEF PlanDocker, PlanEnterpriseDocker, RPM, DNF, Zypper
<1>12. CASE P = "fedora" BY <1>1, <1>12 DEF PlanDocker, PlanFedoraDocker, RPM, DNF, Zypper
<1>13. P \in AllPlatforms BY HostModulesAssumption DEF MachineOK, P
<1>14. QED
  BY <1>4, <1>5, <1>6, <1>7, <1>8, <1>9, <1>10, <1>11, <1>12, <1>13 DEF AllPlatforms, Zypper

LEMMA FetchPlanned ==
  ASSUME F = "tailscale", NEW wanted, NEW pre, NEW reason, P \in RPM => "repository-safe" \in pre,
         P = "void" => "constraints" \in pre
  PROVE  \A c \in Fetch(wanted, pre, reason) : PlannedOK(c)
<1>1. \A c \in Fetch(wanted, pre, reason) : c.blocked \/ machine.sudo BY ChangeNeedsRoot DEF Fetch, When
<1>2. QED BY <1>1 DEF Fetch, When, Change, PlannedOK, ChangeOK, Parts, KindOf, Prudent, Dockers

LEMMA JoinPlanned ==
  ASSUME F = "tailscale", NEW f, NEW need, NEW reason
  PROVE  \A c \in Join(f, Dep(need, "tailscale.package"), reason) : PlannedOK(c)
<1>1. \A d \in Dep(need, "tailscale.package") : Level(d) = 0 BY DEF Level, Dep
<1>2. Level("tailscale.service") = 1 BY DEF Level
<1>3. \A c \in Join(f, Dep(need, "tailscale.package"), reason) : c.blocked \/ machine.sudo
  BY ChangeNeedsRoot DEF Join, When
<1>4. QED BY <1>1, <1>2, <1>3 DEF Join, When, Change, PlannedOK, ChangeOK, Parts, KindOf, Prudent, Dockers

LEMMA TailscalePlanned ==
  ASSUME F = "tailscale", NEW f, NEW c \in PlanTailscale(f)
  PROVE  PlannedOK(c)
<1> USE FetchPlanned, JoinPlanned, BlockedPlanned DEF RPM, DNF, Zypper
<1>1. CASE P = "alpine" BY <1>1 DEF PlanTailscale, PlanAlpineTailscale
<1>2. CASE P = "void" BY <1>2 DEF PlanTailscale, PlanVoidTailscale, Unowned
<1>3. CASE P = "devuan" BY <1>3 DEF PlanTailscale, PlanDevuanTailscale, Unowned
<1>4. CASE P = "artix" BY <1>4 DEF PlanTailscale, PlanArtixTailscale
<1>5. CASE P \notin {"alpine", "void", "devuan", "artix"} BY <1>5 DEF PlanTailscale, Dep
<1>6. QED BY <1>1, <1>2, <1>3, <1>4, <1>5

LEMMA UpdatesPlanned ==
  ASSUME F = "updates", NEW f, NEW c \in PlanUpdates(f)
  PROVE  PlannedOK(c)
<1>0. \A pre, reason : \A d \in Update(pre, reason) : d.blocked \/ machine.sudo BY ChangeNeedsRoot DEF Update
<1>1. ASSUME NEW pre, NEW reason, P = "alpine" => "repositories" \in pre
      PROVE  \A d \in Update(pre, reason) : PlannedOK(d)
  BY <1>0, <1>1 DEF Update, Change, PlannedOK, ChangeOK, Parts, KindOf, Prudent, Dockers
<1>2. CASE P = "alpine"
  <2>1. c \in PlanAlpineUpdates(f) BY <1>2 DEF PlanUpdates, Zypper
  <2>2. QED BY <1>1, <2>1 DEF PlanAlpineUpdates
<1>3. CASE P # "alpine"
  BY <1>1, <1>3, BlockedPlanned DEF PlanUpdates, PlanDevuanUpdates, PlanFedoraUpdates,
     PlanEnterpriseUpdates, PlanOpenSUSEUpdates
<1>4. QED BY <1>2, <1>3

LEMMA StoragePlanned ==
  ASSUME F = "storage", NEW h, NEW c \in PlanStorage(h)
  PROVE  PlannedOK(c)
<1>1. Level("storage.mountpoint") < Level("storage.mount-config")
      /\ Level("storage.mount-config") < Level("storage.mount")
  BY DEF Level
<1>2. CASE c \in {Blocked("storage.blocked", "storage.blocked")} BY <1>2, BlockedPlanned
<1>3. CASE c \notin {Blocked("storage.blocked", "storage.blocked")}
  <2>1. c \in {Change("storage.mountpoint", "storage.prepare-mountpoint", {}, {"mountpoint"}, FALSE),
               Change("storage.mount-config", "storage.configure-mount", {"storage.mountpoint"}, {"fstab"}, FALSE),
               Change("storage.mount", "storage.mount", {"storage.mount-config"}, {"mountpoint", "configured"}, FALSE)}
    BY <1>3 DEF PlanStorage
  <2>2. c.blocked \/ machine.sudo BY <2>1, ChangeNeedsRoot
  <2>3. QED BY <1>1, <2>1, <2>2 DEF Change, PlannedOK, ChangeOK, Parts, KindOf, Prudent, Dockers
<1>4. QED BY <1>2, <1>3

\* Every plan is made of changes its module knows, each behind what it builds on.
LEMMA PlanPlanned ==
  ASSUME MachineOK, NEW h, NEW c \in Plan(h)
  PROVE  PlannedOK(c)
<1>1. CASE F \in Dockers BY <1>1, DockerPlanned DEF Plan, Dockers
<1>2. CASE F = "tailscale" BY <1>2, TailscalePlanned DEF Plan, Dockers
<1>3. CASE F = "updates" BY <1>3, UpdatesPlanned DEF Plan, Dockers
<1>4. CASE F = "ssh"
  <2>1. c.blocked \/ machine.sudo BY <1>4, ChangeNeedsRoot DEF Plan, Dockers, PlanSSH, When
  <2>2. QED
    BY <1>4, <2>1 DEF Plan, Dockers, PlanSSH, When, Change, PlannedOK, ChangeOK, Parts, KindOf, Prudent
<1>5. CASE F = "base"
  <2>1. c.blocked \/ machine.sudo BY <1>5, ChangeNeedsRoot DEF Plan, Dockers, PlanBase, When
  <2>2. QED BY <1>5, <2>1 DEF Plan, Dockers, PlanBase, When, Change, PlannedOK, ChangeOK, Parts, KindOf, Prudent
<1>6. CASE F = "storage" BY <1>6, StoragePlanned DEF Plan, Dockers
<1>7. F \in AllFeatures BY HostModulesAssumption DEF MachineOK, F
<1>8. QED BY <1>1, <1>2, <1>3, <1>4, <1>5, <1>6, <1>7 DEF AllFeatures, Dockers

-----------------------------------------------------------------------------
(* The change at hand. *)

\* Every ID has a rank.
LEMMA RankType ==
  ASSUME NEW id \in Parts, F \in AllFeatures
  PROVE  Rank(id) \in Nat
<1>1. \E i \in DOMAIN IDs : IDs[i] = id
  <2>1. DOMAIN IDs = 1 .. 17 BY DEF IDs
  <2>2. /\ IDs[1] = "base.data-root" /\ IDs[2] = "base.data-root.permissions" /\ IDs[3] = "docker.cgroups"
        /\ IDs[4] = "docker.compose" /\ IDs[6] = "docker.engine" /\ IDs[8] = "docker.service"
        /\ IDs[9] = "ssh.hardening" /\ IDs[11] = "storage.mount" /\ IDs[12] = "storage.mount-config"
        /\ IDs[13] = "storage.mountpoint" /\ IDs[14] = "tailscale.package" /\ IDs[16] = "tailscale.service"
        /\ IDs[17] = "updates.unattended"
    BY DEF IDs
  <2>3. id \in {"base.data-root", "base.data-root.permissions", "docker.cgroups", "docker.compose",
                "docker.engine", "docker.service", "ssh.hardening", "storage.mount", "storage.mount-config",
                "storage.mountpoint", "tailscale.package", "tailscale.service", "updates.unattended"}
    BY DEF Parts, AllFeatures, Dockers
  <2>4. {1, 2, 3, 4, 6, 8, 9, 11, 12, 13, 14, 16, 17} \subseteq DOMAIN IDs BY <2>1
  <2>5. QED BY <2>2, <2>3, <2>4
<1>2. Rank(id) \in DOMAIN IDs BY <1>1 DEF Rank
<1>3. DOMAIN IDs \subseteq Nat BY DEF IDs
<1>4. QED BY <1>2, <1>3

\* A set of changes, each on a higher level than what it builds on, has a first one.
LEMMA FollowingIsUnlocked ==
  ASSUME F \in AllFeatures, NEW changes, changes # {}, \A c \in changes : ChangeOK(c)
  PROVE  Following(changes) \in Unlocked(changes)
<1>1. Unlocked(changes) # {}
  <2> DEFINE Levels == {Level(c.id) : c \in changes}
  <2>1. Levels \in SUBSET Nat BY DEF Level
  <2>2. Levels # {} OBVIOUS
  <2> HIDE DEF Levels
  <2>3. PICK n \in Levels : \A m \in Levels : n <= m BY <2>1, <2>2, LeastNumberExists
  <2> USE DEF Levels
  <2>4. PICK c \in changes : Level(c.id) = n BY <2>3
  <2>5. ASSUME NEW d \in c.deps, NEW e \in changes, d = e.id PROVE FALSE
    <3>1. Level(e.id) < Level(c.id) BY <2>5 DEF ChangeOK
    <3>2. Level(c.id) <= Level(e.id) BY <2>3, <2>4
    <3>3. Level(c.id) \in Nat /\ Level(e.id) \in Nat BY DEF Level
    <3>4. QED BY <3>1, <3>2, <3>3
  <2>6. c \in Unlocked(changes) BY <2>5 DEF Unlocked, IDsOf
  <2>7. QED BY <2>6
<1>2. Unlocked(changes) \subseteq changes BY DEF Unlocked
<1> DEFINE Ranks == {Rank(c.id) : c \in Unlocked(changes)}
<1>3. Ranks \in SUBSET Nat BY <1>2, RankType DEF ChangeOK
<1>4. Ranks # {} BY <1>1
<1> HIDE DEF Ranks
<1>5. PICK n \in Ranks : \A m \in Ranks : n <= m BY <1>3, <1>4, LeastNumberExists
<1> USE DEF Ranks
<1>6. PICK c \in Unlocked(changes) : Rank(c.id) = n BY <1>5
<1>7. \A d \in Unlocked(changes) : Rank(c.id) <= Rank(d.id) BY <1>5, <1>6
<1>8. QED BY <1>7 DEF Following

\* The change at hand is one of the plan, and waits for nothing that is still to be done.
LEMMA AtHand ==
  ASSUME TypeInv, todo # {}
  PROVE  /\ Following(todo) \in todo
         /\ Following(todo).deps \cap IDsOf(todo) = {}
<1>1. F \in AllFeatures BY HostModulesAssumption DEF TypeInv, MachineOK, F
<1>2. Following(todo) \in Unlocked(todo) BY <1>1, FollowingIsUnlocked DEF TypeInv, TodoOK
<1>3. QED BY <1>2 DEF Unlocked

-----------------------------------------------------------------------------
(* Scripts. *)

\* Which script a change has.
LEMMA ScriptIs ==
  ASSUME MachineOK, NEW c, ChangeOK(c), c.kind \in Accepted
  PROVE  \/ F \in Dockers /\ c.kind = "docker.install-engine" /\ Script(c) = DockerScript
         \/ F = "tailscale" /\ c.kind = "tailscale.install" /\ Script(c) = TailscaleScript
         \/ F = "updates" /\ c.kind = "updates.enable-unattended" /\ Script(c) = UpdatesScript
         \/ F \in Dockers /\ c.kind = "docker.install-compose" /\ Script(c) = <<"compose">>
         \/ F \in Dockers /\ c.kind = "docker.enable-service" /\ Script(c) = EnableScript
         \/ F = "tailscale" /\ c.kind = "tailscale.enable-service" /\ Script(c) = EnableScript
         \/ F = "ssh" /\ c.kind = "ssh.write-hardening" /\ Script(c) = SSHScript
         \/ /\ F = "base" /\ c.kind \in {"base.create-data-root", "base.set-data-root-permissions"}
            /\ Script(c) = <<"root">>
         \/ F = "storage" /\ c.kind = "storage.prepare-mountpoint" /\ Script(c) = <<"mountpoint">>
         \/ F = "storage" /\ c.kind = "storage.configure-mount" /\ Script(c) = <<"fstab">>
         \/ F = "storage" /\ c.kind = "storage.mount" /\ Script(c) = <<"mount">>
<1>1. F \in AllFeatures BY HostModulesAssumption DEF MachineOK, F
<1>2. c.id \in Parts /\ c.kind = KindOf(c.id) BY DEF ChangeOK
<1>3. CASE F \in Dockers
  <2>1. c.id \in {"docker.cgroups", "docker.engine", "docker.service", "docker.compose"}
    BY <1>2, <1>3 DEF Parts, Dockers
  <2>2. c.kind \in {"docker.enable-cgroups", "docker.install-engine", "docker.enable-service", "docker.install-compose"}
    BY <1>2, <2>1 DEF KindOf
  <2>3. c.kind # "docker.enable-cgroups" BY DEF Accepted
  <2>4. QED BY <1>3, <2>2, <2>3 DEF Script, ComposeScript, BaseScript, StorageScript, Dockers
<1>4. CASE F = "tailscale"
  <2>1. c.id \in {"tailscale.package", "tailscale.service"} BY <1>2, <1>4 DEF Parts, Dockers
  <2>2. c.kind \in {"tailscale.install", "tailscale.enable-service"} BY <1>2, <2>1 DEF KindOf
  <2>3. QED BY <1>4, <2>2 DEF Script, ComposeScript, BaseScript, StorageScript
<1>5. CASE F = "updates"
  <2>1. c.kind = "updates.enable-unattended" BY <1>2, <1>5 DEF Parts, KindOf, Dockers
  <2>2. QED BY <1>5, <2>1 DEF Script, ComposeScript, BaseScript, StorageScript
<1>6. CASE F = "ssh"
  <2>1. c.kind = "ssh.write-hardening" BY <1>2, <1>6 DEF Parts, KindOf, Dockers
  <2>2. QED BY <1>6, <2>1 DEF Script, ComposeScript, BaseScript, StorageScript
<1>7. CASE F = "base"
  <2>1. c.kind \in {"base.create-data-root", "base.set-data-root-permissions"}
    BY <1>2, <1>7 DEF Parts, KindOf, Dockers
  <2>2. QED BY <1>7, <2>1 DEF Script, ComposeScript, BaseScript, StorageScript
<1>8. CASE F = "storage"
  <2>1. c.id \in {"storage.mountpoint", "storage.mount-config", "storage.mount"} BY <1>2, <1>8 DEF Parts, Dockers
  <2>2. c.kind \in {"storage.prepare-mountpoint", "storage.configure-mount", "storage.mount"}
    BY <1>2, <2>1 DEF KindOf
  <2>3. QED BY <1>8, <2>2 DEF Script, ComposeScript, BaseScript, StorageScript
<1>9. QED BY <1>1, <1>3, <1>4, <1>5, <1>6, <1>7, <1>8 DEF AllFeatures, Dockers

LEMMA ScriptTyped ==
  ASSUME MachineOK, NEW c, ChangeOK(c), c.kind \in Accepted
  PROVE  Script(c) \in Seq(Steps)
<1>1. P \in AllPlatforms BY HostModulesAssumption DEF MachineOK, P
<1>2. CASE F \in Dockers
  <2>1. {"package", "rest", "recheck", "compose", "enable", "start"} \subseteq Steps BY <1>2 DEF Steps, Dockers
  <2>2. P \in {"alpine", "enterprise"} => "repo" \in Steps BY <1>2 DEF OwnsFile, Steps, Dockers
  <2>3. DockerScript \in Seq(Steps) BY <2>1, <2>2 DEF DockerScript
  <2>4. <<"compose">> \in Seq(Steps) /\ EnableScript \in Seq(Steps) BY <2>1 DEF EnableScript
  <2>5. QED BY <1>2, <2>3, <2>4, ScriptIs DEF Dockers
<1>3. CASE F = "tailscale"
  <2>1. /\ {"package", "rest", "recheck", "enable", "start"} \subseteq Steps
        /\ P = "devuan" => "index" \in Steps
    BY <1>3 DEF Steps
  <2>2. P \notin {"void", "arch", "artix"} => "repo" \in Steps
    BY <1>1, <1>3 DEF OwnsFile, Steps, AllPlatforms, RPM, DNF, Zypper
  <2>3. TailscaleScript \in Seq(Steps) BY <2>1, <2>2 DEF TailscaleScript, DevuanTailscaleScript
  <2>4. EnableScript \in Seq(Steps) BY <2>1 DEF EnableScript
  <2>5. QED BY <1>3, <2>3, <2>4, ScriptIs DEF Dockers
<1>4. CASE F = "updates"
  <2>1. {"package", "rest", "recheck", "quiet", "enable", "start", "repo"} \subseteq Steps
    BY <1>4 DEF OwnsFile, Steps
  <2>2. UpdatesScript \in Seq(Steps) BY <2>1 DEF UpdatesScript
  <2>3. QED BY <1>4, <2>2, ScriptIs DEF Dockers
<1>5. CASE F = "ssh"
  <2>1. {"candidate", "dropin", "reload"} \subseteq Steps BY <1>5 DEF Steps
  <2>2. SSHScript \in Seq(Steps) BY <2>1 DEF SSHScript
  <2>3. QED BY <1>5, <2>2, ScriptIs DEF Dockers
<1>6. CASE F = "base"
  <2>1. "root" \in Steps BY <1>6 DEF Steps
  <2>2. <<"root">> \in Seq(Steps) BY <2>1
  <2>3. QED BY <1>6, <2>2, ScriptIs DEF Dockers
<1>7. CASE F = "storage"
  <2>1. {"mountpoint", "fstab", "mount"} \subseteq Steps BY <1>7 DEF Steps
  <2>2. <<"mountpoint">> \in Seq(Steps) /\ <<"fstab">> \in Seq(Steps) /\ <<"mount">> \in Seq(Steps) BY <2>1
  <2>3. QED BY <1>7, <2>2, ScriptIs DEF Dockers
<1>8. QED BY <1>2, <1>3, <1>4, <1>5, <1>6, <1>7, ScriptIs

-----------------------------------------------------------------------------
(* What a step does. *)

LEMMA ReposClosed ==
  ASSUME HasFile(P, F) PROVE "managed" \in ReposOf(P, F)
BY DEF ReposOf, Only

\* A package set whose fields range over any sets.
AnyUnits(A, B, C, D, E, L, R, G, S, Q) ==
  [main: BOOLEAN, rest: A, repo: B, avail: BOOLEAN, conflict: C, held: D, definition: E, link: L, run: R,
   cgroups: G, cgsvc: S, plugin: Q]

LEMMA AnyUnitsClosed ==
  ASSUME NEW A, NEW B, NEW C, NEW D, NEW E, NEW L, NEW R, NEW G, NEW S, NEW Q,
         NEW h \in AnyUnits(A, B, C, D, E, L, R, G, S, Q), NEW d \in E
  PROVE  /\ \A x \in A : [h EXCEPT !.rest = x, !.definition = d] \in AnyUnits(A, B, C, D, E, L, R, G, S, Q)
         /\ \A x \in BOOLEAN, y \in B :
              [h EXCEPT !.main = x, !.definition = d, !.repo = y] \in AnyUnits(A, B, C, D, E, L, R, G, S, Q)
BY DEF AnyUnits

LEMMA UnitsAreAny ==
  \E A, B, C, D, E, L, R, G, S, Q :
     /\ UnitsOf(P, F) = AnyUnits(A, B, C, D, E, L, R, G, S, Q)
     /\ TRUE \in A /\ B = ReposOf(P, F) /\ E \in SUBSET BOOLEAN /\ TRUE \in E /\ "correct" \in L /\ "up" \in R
<1> DEFINE
  A == Only(F \in Dockers \/ <<P, F>> \in {<<"devuan", "tailscale">>, <<"devuan", "updates">>, <<"alpine", "tailscale">>}, BOOLEAN, TRUE)
  B == ReposOf(P, F)
  C == Only(\/ F \in Dockers /\ P \in RPM
            \/ F = "updates" /\ P \in {"alpine", "enterprise"} \cup Zypper
            \/ F = "tailscale" /\ P \in Zypper, BOOLEAN, FALSE)
  D == Only(P = "void" /\ F # "updates", {"no", "held", "locked"}, "no")
  E == Only(P \in {"void", "artix"} \/ (F = "updates" /\ P \in {"alpine", "devuan"}), BOOLEAN, TRUE)
  L == Only(P = "void" \/ <<P, F>> = <<"devuan", "tailscale">>, {"absent", "correct", "conflict"}, "absent")
         \cup Only(F # "updates", {"correct"}, "correct")
  R == {"down", "up"} \cup Only(F \in Dockers, {"hung"}, "up")
  G == Only(F \in Dockers /\ P \in {"alpine", "void", "artix"}, BOOLEAN, TRUE)
  S == Only(F \in Dockers /\ P = "alpine", {"none", "off", "on"}, "none")
  Q == Only(F = "compose" /\ P = "void", BOOLEAN, TRUE)
<1>1. UnitsOf(P, F) = AnyUnits(A, B, C, D, E, L, R, G, S, Q) BY Zenon DEF UnitsOf, AnyUnits
<1>2. TRUE \in A BY DEF Only
<1>3. E \in SUBSET BOOLEAN /\ TRUE \in E BY DEF Only
<1>4. "correct" \in L BY DEF Only
<1>5. "up" \in R OBVIOUS
<1> HIDE DEF A, C, D, E, L, R, G, S, Q
<1>6. QED BY <1>1, <1>2, <1>3, <1>4, <1>5

LEMMA DoUnits ==
  ASSUME MachineOK, F \in UnitFeatures, NEW h \in UnitsOf(P, F), NEW step \in Steps
  PROVE  Do(step, h) \in UnitsOf(P, F)
<1>0. F \in AllFeatures /\ P \in AllPlatforms BY HostModulesAssumption DEF MachineOK, F, P
<1>7. Do(step, h) = UnitDo(step, h) BY DEF Do, UnitFeatures, Dockers
<1>8. PICK A, B, C, D, E, L, R, G, S, Q :
        /\ UnitsOf(P, F) = AnyUnits(A, B, C, D, E, L, R, G, S, Q)
        /\ TRUE \in A /\ B = ReposOf(P, F) /\ E \in SUBSET BOOLEAN /\ TRUE \in E /\ "correct" \in L /\ "up" \in R
  BY UnitsAreAny
<1>9. h.definition \in E /\ h.repo \in B /\ h.definition \in BOOLEAN BY <1>8 DEF AnyUnits
<1>11. h \in AnyUnits(A, B, C, D, E, L, R, G, S, Q) BY <1>8
<1>10. ASSUME NEW b \in BOOLEAN PROVE (h.definition \/ b) \in E
  <2>1. CASE h.definition \/ b
    <3>1. (h.definition \/ b) = TRUE BY <2>1
    <3>2. QED BY <1>8, <3>1
  <2>2. CASE ~(h.definition \/ b)
    <3>1. (h.definition \/ b) = h.definition BY <1>9, <2>2
    <3>2. QED BY <1>9, <3>1
  <2>3. QED BY <2>1, <2>2
<1>1. CASE step = "repo"
  <2>1. UnitDo(step, h) = FileWritten(h) BY <1>1 DEF UnitDo
  <2>2. HasFile(P, F) BY <1>0, <1>1 DEF Steps, OwnsFile, HasFile, UnitFeatures, Dockers
  <2>3. "managed" \in B BY <1>8, <2>2, ReposClosed
  <2>4. FileWritten(h) \in UnitsOf(P, F) BY <1>8, <2>3 DEF AnyUnits, FileWritten
  <2>5. QED BY <1>7, <2>1, <2>4
<1>2. CASE step = "package"
  <2>1. UnitDo(step, h) = PackageInstalled(h) BY <1>2 DEF UnitDo
  <2>2. P = "void" /\ VoidFacts(h).repo = "absent" => "managed" \in B
    <3>1. P = "void" => HasFile(P, F) BY DEF HasFile, UnitFeatures, Dockers
    <3>2. QED BY <1>8, <3>1, ReposClosed
  <2> DEFINE d == h.definition \/ (~h.main /\ P # "artix" /\ F # "updates")
             o == IF P = "void" /\ VoidFacts(h).repo = "absent" THEN "managed" ELSE h.repo
  <2>3. PackageInstalled(h) = [h EXCEPT !.main = TRUE, !.definition = d, !.repo = o] BY DEF PackageInstalled
  <2>4. d \in E BY <1>10
  <2>5. o \in B BY <1>9, <2>2
  <2> HIDE DEF d, o
  <2>6. \A x \in BOOLEAN, y \in B : [h EXCEPT !.main = x, !.definition = d, !.repo = y]
                                     \in AnyUnits(A, B, C, D, E, L, R, G, S, Q)
    BY <1>11, <2>4, AnyUnitsClosed, Zenon
  <2>7. [h EXCEPT !.main = TRUE, !.definition = d, !.repo = o] \in UnitsOf(P, F) BY <1>8, <2>5, <2>6, Zenon
  <2>8. QED BY <1>7, <2>1, <2>3, <2>7
<1>3. CASE step \in {"rest", "compose", "index"}
  <2>1. UnitDo(step, h) \in {[h EXCEPT !.rest = TRUE], [h EXCEPT !.rest = TRUE, !.definition = @ \/ P = "artix"]}
    BY <1>3 DEF UnitDo
  <2>5. \A x \in A : [h EXCEPT !.rest = x] \in UnitsOf(P, F) BY <1>8 DEF AnyUnits
  <2>2. [h EXCEPT !.rest = TRUE] \in UnitsOf(P, F) BY <1>8, <2>5, Zenon
  <2> DEFINE d == h.definition \/ P = "artix"
  <2>7. d \in E BY <1>10
  <2>6. [h EXCEPT !.rest = TRUE, !.definition = @ \/ P = "artix"] = [h EXCEPT !.rest = TRUE, !.definition = d]
    OBVIOUS
  <2> HIDE DEF d
  <2>8. \A x \in A : [h EXCEPT !.rest = x, !.definition = d] \in AnyUnits(A, B, C, D, E, L, R, G, S, Q)
    BY <1>11, <2>7, AnyUnitsClosed, Zenon
  <2>9. [h EXCEPT !.rest = TRUE, !.definition = d] \in UnitsOf(P, F) BY <1>8, <2>8, Zenon
  <2>3. [h EXCEPT !.rest = TRUE, !.definition = @ \/ P = "artix"] \in UnitsOf(P, F) BY <2>6, <2>9
  <2>4. QED BY <1>7, <2>1, <2>2, <2>3
<1>4. CASE step \in {"enable", "start"}
  <2>1. UnitDo(step, h) \in {[h EXCEPT !.link = "correct"], [h EXCEPT !.run = IF @ = "down" THEN "up" ELSE @]}
    BY <1>4 DEF UnitDo
  <2>2. [h EXCEPT !.link = "correct"] \in UnitsOf(P, F) BY <1>8 DEF AnyUnits
  <2>3. [h EXCEPT !.run = IF @ = "down" THEN "up" ELSE @] \in UnitsOf(P, F) BY <1>8 DEF AnyUnits
  <2>4. QED BY <1>7, <2>1, <2>2, <2>3
<1>5. CASE step \in {"recheck", "quiet"} BY <1>5, <1>7 DEF UnitDo
<1>6. QED BY <1>1, <1>2, <1>3, <1>4, <1>5 DEF Steps, UnitFeatures, Dockers

\* What each step of a package set's script changes, field by field.
LEMMA UnitSteps ==
  ASSUME F \in UnitFeatures, NEW step, NEW h
  PROVE  Do(step, h) = UnitDo(step, h) /\ (Able(step, h) <=> UnitAble(step, h))
BY DEF Do, Able, UnitFeatures, Dockers

LEMMA UnitEffects ==
  ASSUME F \in UnitFeatures, NEW h \in Units, NEW step
  PROVE  LET g == Do(step, h)
             configures == step = "repo" /\ P = "debian" /\ F = "updates"
         IN /\ g.avail = h.avail /\ g.conflict = h.conflict /\ g.held = h.held /\ g.cgroups = h.cgroups
            /\ g.cgsvc = h.cgsvc /\ g.plugin = h.plugin
            /\ step # "package" => g.main = h.main
            /\ g.main <=> h.main \/ step = "package"
            /\ g.rest <=> (h.rest \/ step \in {"index", "rest", "compose"})
            /\ g.link = IF step = "enable" \/ configures THEN "correct" ELSE h.link
            /\ g.run = IF configures \/ (step = "start" /\ h.run = "down") THEN "up" ELSE h.run
            /\ g.repo = IF \/ step = "repo" /\ (h.repo # "beside" \/ configures)
                           \/ step = "package" /\ P = "void" /\ VoidFacts(h).repo = "absent"
                        THEN "managed" ELSE h.repo
            /\ g.definition <=> (\/ h.definition
                                 \/ step = "rest" /\ P = "artix"
                                 \/ step = "package" /\ ~h.main /\ P # "artix" /\ F # "updates")
<1>1. Do(step, h) = UnitDo(step, h) BY UnitSteps
<1>2. CASE step = "repo"
  <2>1. Do(step, h) = FileWritten(h) BY <1>1, <1>2 DEF UnitDo
  <2>2. CASE P = "debian" /\ F = "updates"
    <3>1. Do(step, h) = [h EXCEPT !.repo = "managed", !.link = "correct", !.run = "up"]
      BY <2>1, <2>2 DEF FileWritten
    <3> DEFINE g == Do(step, h)
    <3>2. /\ g.avail = h.avail /\ g.conflict = h.conflict /\ g.held = h.held /\ g.cgroups = h.cgroups
          /\ g.cgsvc = h.cgsvc /\ g.plugin = h.plugin /\ g.main = h.main /\ g.rest = h.rest
          /\ g.definition = h.definition /\ g.repo = "managed" /\ g.link = "correct" /\ g.run = "up"
      BY <3>1 DEF Units
    <3>3. h.main \in BOOLEAN /\ h.rest \in BOOLEAN /\ h.definition \in BOOLEAN BY DEF Units
    <3> HIDE DEF g
    <3>4. QED BY <1>2, <2>2, <3>2, <3>3 DEF g
  <2>3. CASE ~(P = "debian" /\ F = "updates")
    <3>1. Do(step, h) = [h EXCEPT !.repo = IF @ = "beside" THEN "beside" ELSE "managed"]
      BY <2>1, <2>3 DEF FileWritten
    <3> DEFINE g == Do(step, h)
    <3>2. /\ g.avail = h.avail /\ g.conflict = h.conflict /\ g.held = h.held /\ g.cgroups = h.cgroups
          /\ g.cgsvc = h.cgsvc /\ g.plugin = h.plugin /\ g.main = h.main /\ g.rest = h.rest
          /\ g.definition = h.definition /\ g.link = h.link /\ g.run = h.run
          /\ g.repo = IF h.repo = "beside" THEN "beside" ELSE "managed"
      BY <3>1 DEF Units
    <3>3. h.main \in BOOLEAN /\ h.rest \in BOOLEAN /\ h.definition \in BOOLEAN BY DEF Units
    <3> HIDE DEF g
    <3>4. QED BY <1>2, <2>3, <3>2, <3>3 DEF g
  <2>4. QED BY <2>2, <2>3
<1>3. CASE step = "package" BY <1>1, <1>3 DEF UnitDo, PackageInstalled, Units
<1>4. CASE step \in {"index", "rest", "compose"} BY <1>1, <1>4 DEF UnitDo, Units
<1>5. CASE step \in {"enable", "start"} BY <1>1, <1>5 DEF UnitDo, Units
<1>6. CASE step \notin {"repo", "package", "index", "rest", "compose", "enable", "start"}
  BY <1>1, <1>6 DEF UnitDo, Units
<1>7. QED BY <1>2, <1>3, <1>4, <1>5, <1>6

LEMMA DoPossible ==
  ASSUME MachineOK, NEW h \in Possible, NEW step \in Steps
  PROVE  Do(step, h) \in Possible
<1>0. F \in AllFeatures BY HostModulesAssumption DEF MachineOK, F
<1>1. CASE F \in UnitFeatures BY <1>1, DoUnits DEF Possible, HostsOf, UnitFeatures, Dockers
<1>2. CASE F = "ssh" BY <1>2 DEF Possible, Shells, Steps, Do, UnitDo, SSHDo, StorageDo, FileWritten, PackageInstalled,
                                 UnitFeatures, Dockers
<1>3. CASE F = "base" BY <1>3 DEF Possible, HostsOf, Roots, Steps, Do, UnitDo, SSHDo, StorageDo, FileWritten,
                                  PackageInstalled, UnitFeatures, Dockers
<1>4. CASE F = "storage" BY <1>4 DEF Possible, HostsOf, Disks, Steps, Do, UnitDo, SSHDo, StorageDo, FileWritten,
                                     PackageInstalled, UnitFeatures, Dockers
<1>5. QED BY <1>0, <1>1, <1>2, <1>3, <1>4 DEF AllFeatures, UnitFeatures, Dockers

-----------------------------------------------------------------------------
(* Type correctness. *)

\* The machine does not change, and with it everything a module derives from it.
LEMMA SameMachine ==
  ASSUME [Next]_vars
  PROVE  /\ machine' = machine /\ P' = P /\ F' = F
         /\ Possible' = Possible /\ Steps' = Steps /\ Parts' = Parts
         /\ \A c : ChangeOK(c)' <=> ChangeOK(c)
<1>1. machine' = machine BY DEF Next, vars, Start, Check, Step, Interrupt, Verify, Replan, Edit
<1>2. P' = P /\ F' = F BY <1>1 DEF P, F
<1>3. Possible' = Possible BY <1>2 DEF Possible
<1>4. Steps' = Steps BY <1>2 DEF Steps, OwnsFile
<1>5. Parts' = Parts BY <1>2 DEF Parts
<1>6. \A c : ChangeOK(c)' <=> ChangeOK(c) BY <1>2, <1>5 DEF ChangeOK, Prudent
<1>7. QED BY <1>1, <1>2, <1>3, <1>4, <1>5, <1>6

LEMMA InitType == ASSUME Init PROVE TypeInv
<1>1. MachineOK BY DEF Init, MachineOK
<1>2. HostOK
  <2>1. host \in HostsOf(P, F) BY DEF Init
  <2>2. F = "ssh" => HostsOf(P, F) \subseteq Shells BY DEF HostsOf
  <2>3. QED BY <2>1, <2>2 DEF HostOK, Possible
<1>3. ApplyOK
  <2>1. 0 \in 0 .. MaxEdits /\ 0 \in 0 .. MaxFaults /\ 0 \in 0 .. MaxRuns BY HostModulesAssumption
  <2>2. script \in Seq(Steps) BY DEF Init
  <2>3. QED BY <2>1, <2>2 DEF Init, ApplyOK
<1>4. TodoOK BY DEF Init, TodoOK
<1>5. QED BY <1>1, <1>2, <1>3, <1>4 DEF TypeInv

LEMMA EditedPossible ==
  ASSUME TypeInv, NEW h \in Edited(host) \cap HostsOf(P, F)
  PROVE  h \in Possible
BY DEF Possible, HostsOf

LEMMA CleanedPossible ==
  ASSUME TypeInv
  PROVE  Cleaned(host) \in Possible
BY DEF TypeInv, HostOK, Possible, Cleaned, Shells

\* Ending an apply leaves nothing to remember.
LEMMA EndType ==
  ASSUME TypeInv, [Next]_vars, NEW result \in {"success", "blocked", "error", "failed"}, End(result),
         HostOK', stale' \in {"nothing", "plan", "checks"}, own' \in BOOLEAN, excuse' \in BOOLEAN,
         edits' \in 0 .. MaxEdits, faults' \in 0 .. MaxFaults, runs' \in 0 .. MaxRuns
  PROVE  TypeInv'
<1>1. MachineOK' BY SameMachine DEF TypeInv, MachineOK
<1>2. ApplyOK' BY DEF End, ApplyOK
<1>3. TodoOK' BY DEF End, TodoOK
<1>4. QED BY <1>1, <1>2, <1>3 DEF TypeInv

LEMMA StartType ==
  ASSUME TypeInv, Start
  PROVE  TypeInv'
<1>1. [Next]_vars BY DEF Next
<1>2. HostOK' BY <1>1, SameMachine DEF TypeInv, HostOK, Start
<1>3. /\ stale' = "nothing" /\ excuse' \in BOOLEAN /\ edits' = edits /\ faults' = faults
      /\ runs' = runs + 1 /\ runs < MaxRuns
  BY DEF Start
<1>4. stale' \in {"nothing", "plan", "checks"} /\ edits' \in 0 .. MaxEdits /\ faults' \in 0 .. MaxFaults
      /\ runs' \in 0 .. MaxRuns
  BY <1>3, HostModulesAssumption DEF TypeInv, ApplyOK
<1>5. own' \in BOOLEAN BY DEF Start, TypeInv, ApplyOK
<1>6. CASE End("error") \/ End("blocked") \/ End("success") BY <1>1, <1>2, <1>3, <1>4, <1>5, <1>6, EndType
<1>7. CASE ~(End("error") \/ End("blocked") \/ End("success"))
  <2> DEFINE changes == Plan(host)
  <2>1. /\ Sortable(changes) /\ ~(\E c \in changes : c.blocked) /\ changes # {}
        /\ pc' = "planned" /\ todo' = changes /\ outcome' = "none" /\ script' = script /\ verified' = verified
    BY <1>7 DEF Start
  <2>2. ASSUME NEW c \in changes PROVE machine.sudo /\ ChangeOK(c) /\ ~c.blocked /\ c.deps \subseteq IDsOf(changes)
    BY <2>1, PlanPlanned DEF TypeInv, PlannedOK, Sortable
  <2>3. TodoOK' BY <1>1, <2>1, <2>2, SameMachine DEF TodoOK, IDsOf
  <2>4. MachineOK' BY <1>1, SameMachine DEF TypeInv, MachineOK
  <2>5. pc = "idle" BY DEF Start
  <2>6. ApplyOK' BY <1>1, <1>3, <1>4, <1>5, <2>1, <2>5, SameMachine DEF TypeInv, ApplyOK
  <2>7. QED BY <1>2, <2>3, <2>4, <2>6 DEF TypeInv
<1>8. QED BY <1>6, <1>7

LEMMA CheckType ==
  ASSUME TypeInv, Check
  PROVE  TypeInv'
<1>1. [Next]_vars BY DEF Next
<1>2. HostOK' BY <1>1, SameMachine DEF TypeInv, HostOK, Check
<1>3. /\ own' = own /\ excuse' = excuse /\ edits' = edits /\ faults' = faults /\ runs' = runs
      /\ pc = "planned" /\ todo # {}
  BY DEF Check
<1>4. stale' \in {"nothing", "plan", "checks"} BY DEF Check, TypeInv, ApplyOK
<1>5. CASE End("failed") BY <1>1, <1>2, <1>3, <1>4, <1>5, EndType DEF TypeInv, ApplyOK
<1>6. CASE ~End("failed")
  <2>1. /\ Following(todo).kind \in Accepted /\ pc' = "running" /\ script' = Script(Following(todo))
        /\ todo' = todo /\ verified' = verified /\ outcome' = outcome
    BY <1>6 DEF Check
  <2>2. Script(Following(todo)) \in Seq(Steps) BY <1>3, <2>1, AtHand, ScriptTyped DEF TypeInv, TodoOK
  <2>3. ApplyOK' BY <1>1, <1>3, <1>4, <2>1, <2>2, SameMachine DEF TypeInv, ApplyOK
  <2>4. TodoOK' BY <1>1, <2>1, SameMachine DEF TypeInv, TodoOK, IDsOf
  <2>5. MachineOK' BY <1>1, SameMachine DEF TypeInv, MachineOK
  <2>6. QED BY <1>2, <2>3, <2>4, <2>5 DEF TypeInv
<1>7. QED BY <1>5, <1>6

LEMMA StepType ==
  ASSUME TypeInv, Step
  PROVE  TypeInv'
<1>1. [Next]_vars BY DEF Next
<1>2. /\ stale' = stale /\ own' = own /\ excuse' = excuse /\ edits' = edits /\ faults' = faults /\ runs' = runs
      /\ pc = "running" /\ script # <<>>
  BY DEF Step
<1>3. Head(script) \in Steps /\ Tail(script) \in Seq(Steps) BY <1>2 DEF TypeInv, ApplyOK
<1>4. CASE Able(Head(script), host)
  <2>1. /\ host' = Do(Head(script), host) /\ script' = Tail(script)
        /\ pc' = pc /\ todo' = todo /\ verified' = verified /\ outcome' = outcome
    BY <1>4 DEF Step
  <2>2. HostOK' BY <1>1, <1>3, <2>1, SameMachine, DoPossible DEF TypeInv, HostOK
  <2>3. ApplyOK' BY <1>1, <1>2, <1>3, <2>1, SameMachine DEF TypeInv, ApplyOK
  <2>4. TodoOK' BY <1>1, <2>1, SameMachine DEF TypeInv, TodoOK, IDsOf
  <2>5. MachineOK' BY <1>1, SameMachine DEF TypeInv, MachineOK
  <2>6. QED BY <2>2, <2>3, <2>4, <2>5 DEF TypeInv
<1>5. CASE ~Able(Head(script), host)
  <2>1. host' = Cleaned(host) /\ End("failed") BY <1>5 DEF Step
  <2>2. HostOK' BY <1>1, <2>1, SameMachine, CleanedPossible DEF HostOK
  <2>3. QED BY <1>1, <1>2, <2>1, <2>2, EndType DEF TypeInv, ApplyOK
<1>6. QED BY <1>4, <1>5

LEMMA VerifyType ==
  ASSUME TypeInv, Verify
  PROVE  TypeInv'
<1>1. [Next]_vars BY DEF Next
<1>2. HostOK' BY <1>1, SameMachine DEF TypeInv, HostOK, Verify
<1>3. /\ stale' = stale /\ own' = own /\ excuse' = excuse /\ edits' = edits /\ faults' = faults /\ runs' = runs
      /\ pc = "running" /\ script = <<>>
  BY DEF Verify
<1>4. CASE End("failed") BY <1>1, <1>2, <1>3, <1>4, EndType DEF TypeInv, ApplyOK
<1>5. CASE ~End("failed")
  <2> DEFINE c == Following(todo)
  <2>1. /\ pc' = "planned" /\ todo' = todo \ {c} /\ verified' = verified \cup {c.id}
        /\ script' = script /\ outcome' = outcome
    BY <1>5 DEF Verify
  <2> HIDE DEF c
  <2>2. IDsOf(todo) \subseteq IDsOf(todo \ {c}) \cup {c.id} BY DEF IDsOf
  <2>3. ASSUME NEW d \in todo' PROVE d.deps \subseteq IDsOf(todo') \cup verified'
    BY <2>1, <2>2 DEF TypeInv, TodoOK
  <2>4. TodoOK' BY <1>1, <2>1, <2>3, SameMachine DEF TypeInv, TodoOK, IDsOf
  <2>5. ApplyOK' BY <1>1, <1>3, <2>1, SameMachine DEF TypeInv, ApplyOK
  <2>6. MachineOK' BY <1>1, SameMachine DEF TypeInv, MachineOK
  <2>7. QED BY <1>2, <2>4, <2>5, <2>6 DEF TypeInv
<1>6. QED BY <1>4, <1>5

\* The variables keep their types, whatever is planned, interrupted or edited.
LEMMA NextType ==
  ASSUME TypeInv, [Next]_vars
  PROVE  TypeInv'
<1>1. CASE Start BY <1>1, StartType
<1>2. CASE Check BY <1>2, CheckType
<1>3. CASE Step BY <1>3, StepType
<1>4. CASE Interrupt
  <2>1. HostOK' BY <1>4, SameMachine DEF TypeInv, HostOK, Interrupt
  <2>2. End("failed") /\ stale' = stale /\ own' = own /\ excuse' = TRUE /\ edits' = edits /\ runs' = runs
        /\ faults' = faults + 1 /\ faults < MaxFaults
    BY <1>4 DEF Interrupt
  <2>3. faults' \in 0 .. MaxFaults BY <2>2, HostModulesAssumption DEF TypeInv, ApplyOK
  <2>4. QED BY <2>1, <2>2, <2>3, EndType DEF TypeInv, ApplyOK
<1>5. CASE Verify BY <1>5, VerifyType
<1>6. CASE Replan
  <2>1. HostOK' BY <1>6, SameMachine DEF TypeInv, HostOK, Replan
  <2>2. /\ End("error") \/ End("failed") \/ End("success")
        /\ stale' = stale /\ own' = own /\ excuse' = excuse /\ edits' = edits /\ faults' = faults /\ runs' = runs
    BY <1>6 DEF Replan
  <2>3. QED BY <2>1, <2>2, EndType DEF TypeInv, ApplyOK
<1>7. CASE Edit
  <2>1. PICK h \in Edited(host) \cap HostsOf(P, F) : host' = h BY <1>7 DEF Edit
  <2>2. HostOK' BY <2>1, EditedPossible, SameMachine DEF HostOK
  <2>3. /\ edits' = edits + 1 /\ edits < MaxEdits /\ stale' = "checks" /\ excuse' = TRUE /\ own' = FALSE
        /\ pc' = pc /\ todo' = todo /\ script' = script /\ verified' = verified /\ outcome' = outcome
        /\ faults' = faults /\ runs' = runs
    BY <1>7 DEF Edit
  <2>4. edits' \in 0 .. MaxEdits BY <2>3, HostModulesAssumption DEF TypeInv, ApplyOK
  <2>5. ApplyOK' BY <2>3, <2>4, SameMachine DEF TypeInv, ApplyOK
  <2>6. TodoOK' BY <2>3, SameMachine DEF TypeInv, TodoOK, IDsOf
  <2>7. MachineOK' BY SameMachine DEF TypeInv, MachineOK
  <2>8. QED BY <2>2, <2>5, <2>6, <2>7 DEF TypeInv
<1>8. CASE UNCHANGED vars
  <2>1. HostOK' BY <1>8, SameMachine DEF TypeInv, HostOK, vars
  <2>2. ApplyOK' BY <1>8, SameMachine DEF TypeInv, ApplyOK, vars
  <2>3. TodoOK' BY <1>8, SameMachine DEF TypeInv, TodoOK, IDsOf, vars
  <2>4. MachineOK' BY SameMachine DEF TypeInv, MachineOK
  <2>5. QED BY <2>1, <2>2, <2>3, <2>4 DEF TypeInv
<1>9. QED BY <1>1, <1>2, <1>3, <1>4, <1>5, <1>6, <1>7, <1>8 DEF Next

LEMMA UnitsAreUnits ==
  ASSUME NEW p, NEW f
  PROVE  UnitsOf(p, f) \subseteq Units
<1>1. ReposOf(p, f) \subseteq Owned BY DEF ReposOf, Only, Owned
<1>2. QED BY <1>1 DEF UnitsOf, Units, Only

LEMMA TypeInvIsType == ASSUME TypeInv PROVE HostTypeOK
<1>1. host \in Units \cup Shells \cup Disks \cup Roots
  BY UnitsAreUnits DEF TypeInv, HostOK, Possible, HostsOf
<1>2. QED BY <1>1 DEF TypeInv, ApplyOK, TodoOK, HostTypeOK

LEMMA TypeInvariant == Spec => []TypeInv
<1>1. Init => TypeInv BY InitType
<1>2. TypeInv /\ [Next]_vars => TypeInv' BY NextType
<1>3. QED BY <1>1, <1>2, PTL DEF Spec

\* The variables hold what the code can put there, and an idle apply remembers nothing.
THEOREM HostTypeCorrect == Spec => []HostTypeOK
<1>1. TypeInv => HostTypeOK BY TypeInvIsType
<1>2. QED BY <1>1, TypeInvariant, PTL

\* Whatever was verified, whatever failed or was edited: a change is at hand only when all it builds on was verified
\* in this apply, since the plan holds every change that one of its changes waits for, and a first one among them.
THEOREM DependenciesAreVerified == Spec => []DependenciesVerified
<1>1. ASSUME TypeInv PROVE DependenciesVerified
  <2>1. SUFFICES ASSUME pc = "running" PROVE Following(todo).deps \subseteq verified BY DEF DependenciesVerified
  <2>2. todo # {} BY <1>1, <2>1 DEF TypeInv, ApplyOK
  <2>3. /\ Following(todo) \in todo /\ Following(todo).deps \cap IDsOf(todo) = {} BY <1>1, <2>2, AtHand
  <2>4. QED BY <1>1, <2>3 DEF TypeInv, TodoOK
<1>2. QED BY <1>1, TypeInvariant, PTL

-----------------------------------------------------------------------------
(* What is not Bebop's stays. *)

LEMMA BeforeTail ==
  ASSUME NEW S, NEW s \in Seq(S), s # <<>>, NEW a, NEW b, Before(a, b, s), Head(s) # a
  PROVE  Head(s) # b /\ Before(a, b, Tail(s))
<1>1. 1 \in 1 .. Len(s) /\ Head(s) = s[1] OBVIOUS
<1>2. Head(s) # b BY <1>1 DEF Before
<1>3. ASSUME NEW j \in 1 .. Len(Tail(s)), Tail(s)[j] = b PROVE \E i \in 1 .. (j - 1) : Tail(s)[i] = a
  <2>1. j + 1 \in 1 .. Len(s) /\ s[j + 1] = b BY <1>3
  <2>2. PICK i \in 1 .. j : s[i] = a BY <2>1 DEF Before
  <2>3. i # 1 BY <2>2, <1>1
  <2>4. i - 1 \in 1 .. (j - 1) /\ Tail(s)[i - 1] = s[i] BY <2>1, <2>2, <2>3
  <2>5. QED BY <2>2, <2>4
<1>4. QED BY <1>2, <1>3 DEF Before

LEMMA LacksTail ==
  ASSUME NEW S, NEW s \in Seq(S), s # <<>>, NEW b, Lacks(b, s)
  PROVE  Head(s) # b /\ Lacks(b, Tail(s))
<1>1. 1 \in 1 .. Len(s) /\ Head(s) = s[1] OBVIOUS
<1>2. Head(s) # b BY <1>1 DEF Lacks
<1>3. ASSUME NEW j \in 1 .. Len(Tail(s)) PROVE Tail(s)[j] # b
  <2>1. j + 1 \in 1 .. Len(s) /\ Tail(s)[j] = s[j + 1] OBVIOUS
  <2>2. QED BY <2>1 DEF Lacks
<1>4. QED BY <1>2, <1>3 DEF Lacks

LEMMA EmptyScript ==
  ASSUME NEW a, NEW b PROVE Before(a, b, <<>>) /\ Lacks(b, <<>>)
BY DEF Before, Lacks

\* What the scripts say about themselves.
LEMMA ScriptOrder ==
  ASSUME MachineOK, NEW c, ChangeOK(c), c.kind \in Accepted
  PROVE  /\ \/ Before("recheck", "repo", Script(c)) \/ P = "debian"
            \/ c.kind = "docker.install-engine" /\ P = "enterprise"
            \/ c.kind = "tailscale.install" /\ P \in RPM
         /\ \/ Before("quiet", "package", Script(c))
            \/ c.kind \in {"docker.install-engine", "tailscale.install"}
            \/ P \notin RPM \/ P = "fedora"
         /\ \/ Lacks("package", Script(c)) \/ P # "void" \/ F = "updates"
            \/ c.kind \in {"docker.install-engine", "tailscale.install"}
         /\ Lacks("mount", Script(c)) \/ c.kind = "storage.mount"
<1>1. P \in AllPlatforms BY HostModulesAssumption DEF MachineOK, P
<1> USE DEF Before, Lacks
<1>2. CASE c.kind = "docker.install-engine" /\ Script(c) = DockerScript
  BY <1>1, <1>2 DEF DockerScript, AllPlatforms
<1>3. CASE c.kind = "tailscale.install" /\ Script(c) = TailscaleScript
  BY <1>1, <1>3 DEF TailscaleScript, DevuanTailscaleScript, AllPlatforms, RPM, DNF, Zypper
<1>4. CASE F = "updates" /\ Script(c) = UpdatesScript
  BY <1>1, <1>4 DEF UpdatesScript, AllPlatforms, RPM, DNF, Zypper
<1>5. CASE Script(c) \in {EnableScript, <<"compose">>, <<"root">>, <<"mountpoint">>, <<"fstab">>}
  BY <1>5 DEF EnableScript
<1>6. CASE Script(c) = SSHScript BY <1>6 DEF SSHScript
<1>7. CASE c.kind = "storage.mount" /\ Script(c) = <<"mount">> BY <1>7
<1>8. QED BY <1>2, <1>3, <1>4, <1>5, <1>6, <1>7, ScriptIs

\* What the preconditions of each feature test.
LEMMA UnitPreconditions ==
  ASSUME F \in UnitFeatures, NEW h
  PROVE  /\ Holds("absent", h) <=> ~h.main
         /\ Holds("available", h) <=> h.avail
         /\ Holds("repository-safe", h) <=> RepositorySafe(h)
         /\ Holds("repositories", h) <=> ~h.conflict
         /\ Holds("candidates", h) <=> (F = "updates" => h.avail)
         /\ Holds("no-conflict", h) <=> ~h.conflict
         /\ Holds("provenance", h) <=> VoidFacts(h).repo # "unmanaged"
         /\ Holds("constraints", h) <=> h.held # "locked"
<1>1. ASSUME NEW pre PROVE Holds(pre, h) <=> UnitHolds(pre, h) BY DEF Holds, UnitFeatures, Dockers
<1>2. QED BY <1>1 DEF UnitHolds

LEMMA StoragePreconditions ==
  ASSUME F = "storage", NEW h
  PROVE  /\ Holds("mountpoint", h) <=> MountpointSafe(h)
         /\ Holds("fstab", h) <=> MountConfigured(h) \/ h.fstab = "absent"
         /\ Holds("configured", h) <=> MountConfigured(h)
BY DEF Holds, StorageHolds

\* A script starts only where what it would overwrite, mix with or cover is not there, or is looked for once more.
LEMMA CheckedScript ==
  ASSUME TypeInv, todo # {}, Following(todo).kind \in Accepted,
         \A pre \in Following(todo).pre : Holds(pre, host)
  PROVE  LET s == Script(Following(todo)) IN
         /\ P = "debian" \/ Before("recheck", "repo", s) \/ host.repo # "unmanaged"
         /\ Before("quiet", "package", s) \/ ~host.conflict \/ host.main
         /\ P # "void" \/ Lacks("package", s) \/ host.held # "locked"
         /\ Lacks("mount", s) \/ host.dir # "full"
<1> DEFINE c == Following(todo)
<1>1. ChangeOK(c) BY AtHand DEF TypeInv, TodoOK
<1>2. MachineOK /\ host \in Possible BY DEF TypeInv, HostOK
<1>3. c.kind \in Accepted /\ \A pre \in c.pre : Holds(pre, host) OBVIOUS
<1> HIDE DEF c
<1>4. P = "debian" \/ Before("recheck", "repo", Script(c)) \/ host.repo # "unmanaged"
  <2>1. SUFFICES ASSUME \/ c.kind = "docker.install-engine" /\ P = "enterprise"
                        \/ c.kind = "tailscale.install" /\ P \in RPM
                 PROVE  host.repo # "unmanaged"
    BY <1>1, <1>2, <1>3, ScriptOrder
  <2>2. "repository-safe" \in c.pre BY <1>1, <2>1 DEF ChangeOK, Prudent
  <2>5. F \in UnitFeatures BY <1>1, <1>2, <1>3, <2>1, ScriptIs DEF Accepted, UnitFeatures
  <2>3. RepositorySafe(host) BY <1>3, <2>2, <2>5, UnitPreconditions
  <2>4. QED BY <2>3 DEF RepositorySafe, Unrecognized
<1>5. Before("quiet", "package", Script(c)) \/ ~host.conflict \/ host.main
  <2>1. CASE c.kind = "docker.install-engine"
    <3>1. F \in Dockers BY <1>1, <1>2, <1>3, <2>1, ScriptIs DEF Accepted
    <3>2. host \in UnitsOf(P, F) BY <1>2, <3>1 DEF Possible, HostsOf, Dockers
    <3>3. CASE P \in RPM
      <4>1. "no-conflict" \in c.pre BY <1>1, <2>1, <3>3 DEF ChangeOK, Prudent
      <4>2. QED BY <1>3, <3>1, <4>1, UnitPreconditions DEF UnitFeatures
    <3>4. CASE P \notin RPM BY <3>1, <3>2, <3>4 DEF UnitsOf, Only, Dockers
    <3>5. QED BY <3>3, <3>4
  <2>2. CASE c.kind = "tailscale.install"
    <3>1. F = "tailscale" BY <1>1, <1>2, <1>3, <2>2, ScriptIs DEF Accepted
    <3>2. host \in UnitsOf(P, F) BY <1>2, <3>1 DEF Possible, HostsOf, Dockers
    <3>3. CASE P \in RPM
      <4>1. "repository-safe" \in c.pre BY <1>1, <2>2, <3>3 DEF ChangeOK, Prudent
      <4>2. RepositorySafe(host) BY <1>3, <3>1, <4>1 DEF Holds, UnitHolds, UnitFeatures, Dockers
      <4>3. P \in Zypper => ~host.conflict BY <3>1, <4>2 DEF RepositorySafe, Unrecognized, Zypper
      <4>4. QED BY <3>1, <3>2, <4>3 DEF UnitsOf, Only, Dockers
    <3>4. CASE P \notin RPM BY <3>1, <3>2, <3>4 DEF UnitsOf, Only, Dockers, RPM
    <3>5. QED BY <3>3, <3>4
  <2>3. CASE F = "updates" /\ (P \notin RPM \/ P = "fedora")
    <3>1. host \in UnitsOf(P, F) BY <1>2, <2>3 DEF Possible, HostsOf, Dockers
    <3>2. CASE P = "alpine"
      <4>1. c.kind = "updates.enable-unattended" BY <1>1, <2>3 DEF ChangeOK, Parts, KindOf, Dockers
      <4>2. "repositories" \in c.pre BY <1>1, <3>2, <4>1 DEF ChangeOK, Prudent
      <4>3. QED BY <1>3, <2>3, <4>2 DEF Holds, UnitHolds, UnitFeatures, Dockers
    <3>3. CASE P # "alpine" BY <2>3, <3>1, <3>3 DEF UnitsOf, Only, Dockers, RPM, DNF, Zypper
    <3>4. QED BY <3>2, <3>3
  <2>4. CASE F # "updates" /\ c.kind \notin {"docker.install-engine", "tailscale.install"}
    BY <1>1, <1>2, <1>3, <2>4, ScriptIs DEF Before, EnableScript, SSHScript
  <2>5. QED BY <1>1, <1>2, <1>3, <2>1, <2>2, <2>3, <2>4, ScriptOrder
<1>6. Lacks("mount", Script(c)) \/ host.dir # "full"
  <2>1. SUFFICES ASSUME c.kind = "storage.mount" PROVE host.dir # "full" BY <1>1, <1>2, <1>3, ScriptOrder
  <2>2. "mountpoint" \in c.pre BY <1>1, <2>1 DEF ChangeOK, Prudent
  <2>5. F = "storage" BY <1>1, <1>2, <1>3, <2>1, ScriptIs DEF Accepted
  <2>3. MountpointSafe(host) BY <1>3, <2>2, <2>5, StoragePreconditions
  <2>4. QED BY <2>3 DEF MountpointSafe
<1>8. P # "void" \/ Lacks("package", Script(c)) \/ host.held # "locked"
  <2>1. CASE c.kind \in {"docker.install-engine", "tailscale.install"} /\ P = "void"
    <3>1. F \in Dockers \cup {"tailscale"} BY <1>1, <1>2, <1>3, <2>1, ScriptIs DEF Accepted
    <3>2. "constraints" \in c.pre BY <1>1, <2>1 DEF ChangeOK, Prudent
    <3>3. QED BY <1>3, <3>1, <3>2, UnitPreconditions DEF UnitFeatures
  <2>2. CASE F = "updates"
    <3>1. host \in UnitsOf(P, F) BY <1>2, <2>2 DEF Possible, HostsOf, Dockers
    <3>2. QED BY <2>2, <3>1 DEF UnitsOf, Only
  <2>3. QED BY <1>1, <1>2, <1>3, <2>1, <2>2, ScriptOrder
<1>7. QED BY <1>4, <1>5, <1>6, <1>8 DEF c

\* A module that hardens SSH saw a key.
LEMMA PlannedKeys ==
  ASSUME F = "ssh", NEW h, Plan(h) # {}, \A c \in Plan(h) : ~c.blocked
  PROVE  h.keys
BY DEF Plan, Dockers, PlanSSH, When, Change

\* A module that prepares packages saw a file it recognizes, or none, and no hold on what it would install.
LEMMA PlannedRecognized ==
  ASSUME MachineOK, F \in UnitFeatures, NEW h \in UnitsOf(P, F), Plan(h) # {}, \A c \in Plan(h) : ~c.blocked
  PROVE  Recognized(h)
<1> DEFINE f == UnitFacts(h)
<1>5. PICK c \in Plan(h) : ~c.blocked OBVIOUS
<1>6. \A d : d.blocked => d \notin Plan(h) OBVIOUS
<1>7. \A id, kind : Blocked(id, kind).blocked BY DEF Blocked, Change
<1>8. \A id, kind : Blocked(id, kind) \notin Plan(h) BY <1>6, <1>7
<1>9. \A id, kind, deps, pre : Change(id, kind, deps, pre, TRUE) \notin Plan(h) BY <1>6 DEF Change
<1>1. CASE F \in Dockers
  <2>1. Plan(h) = PlanDocker(f) BY <1>1 DEF Plan, Dockers
  <2>2. CASE P = "enterprise"
    <3>1. f.repo = Ownership(h) BY <1>1, <2>2 DEF UnitFacts, Seen, Dockers
    <3>2. Plan(h) = PlanEnterpriseDocker(f) BY <2>1, <2>2 DEF PlanDocker
    <3> HIDE DEF f
    <3>3. f.repo # "unmanaged" BY <1>8, <3>2 DEF PlanEnterpriseDocker
    <3>4. h.held = "no" BY <2>2 DEF UnitsOf, Only
    <3>5. QED BY <3>1, <3>3, <3>4 DEF Recognized, Ownership
  <2>3. CASE P = "void"
    <3>1. f.held = (h.held # "no") BY <1>1, <2>3 DEF UnitFacts, VoidFacts, Seen, Dockers
    <3>2. Plan(h) = PlanVoidDocker(f) BY <2>1, <2>3 DEF PlanDocker, Zypper
    <3> HIDE DEF f
    <3>3. ~f.held BY <1>8, <3>2 DEF PlanVoidDocker
    <3>4. h.repo \notin {"edited", "beside"}
      BY <1>1, <2>3 DEF UnitsOf, Only, ReposOf, LenientCheck, LastCounts, Dockers
    <3>5. QED BY <3>1, <3>3, <3>4 DEF Recognized
  <2>4. CASE P \notin {"enterprise", "void"}
    BY <1>1, <2>4 DEF Recognized, UnitsOf, Only, ReposOf, LenientCheck, LastCounts, Dockers
  <2>5. QED BY <2>2, <2>3, <2>4
<1>2. CASE F = "tailscale"
  <2>1. Plan(h) = PlanTailscale(f) BY <1>2 DEF Plan, Dockers
  <2>2. CASE P \in {"fedora", "enterprise", "devuan"}
    <3>1. f.repo = Ownership(h) BY <1>2, <2>2 DEF UnitFacts, DevuanTailscaleFacts, Seen, Dockers
    <3> HIDE DEF f
    <3>2. CASE P = "devuan"
      <4>1. Plan(h) = PlanDevuanTailscale(f) BY <2>1, <3>2 DEF PlanTailscale, RPM, DNF, Zypper
      <4>2. f.repo # "unmanaged" BY <1>8, <4>1 DEF PlanDevuanTailscale, Unowned
      <4>3. QED BY <3>1, <3>2, <4>2 DEF Recognized, Ownership, UnitsOf, Only
    <3>3. CASE P # "devuan"
      <4>1. f.repo # "unmanaged"
        BY <1>8, <2>1, <2>2, <3>3 DEF PlanTailscale, RPM, DNF, Zypper
      <4>2. QED BY <2>2, <3>1, <3>3, <4>1 DEF Recognized, Ownership, UnitsOf, Only
    <3>4. QED BY <3>2, <3>3
  <2>3. CASE P = "void"
    <3>1. f.held = (h.held # "no") /\ f.installed = h.main BY <1>2, <2>3 DEF UnitFacts, VoidFacts, Seen, Dockers
    <3>2. Plan(h) = PlanVoidTailscale(f) BY <2>1, <2>3 DEF PlanTailscale, RPM, DNF, Zypper
    <3> HIDE DEF f
    <3>3. ASSUME f.held, ~f.installed PROVE FALSE
      <4> DEFINE d == Change("tailscale.package", "tailscale.install", {}, {"available", "provenance", "constraints"},
                             f.held \/ ~f.available)
      <4>1. d \in Plan(h) BY <1>8, <3>2, <3>3 DEF PlanVoidTailscale, Unowned, Fetch, When
      <4>2. d.blocked BY <3>3 DEF Change
      <4>3. QED BY <1>6, <4>1, <4>2
    <3>4. h.repo \notin {"edited", "beside"}
      BY <1>2, <2>3 DEF UnitsOf, Only, ReposOf, LenientCheck, LastCounts, Dockers
    <3>5. QED BY <3>1, <3>3, <3>4 DEF Recognized, UnitsOf
  <2>4. CASE P \notin {"fedora", "enterprise", "devuan", "void"}
    BY <1>2, <2>4 DEF Recognized, UnitsOf, Only, ReposOf, LenientCheck, LastCounts, Dockers
  <2>5. QED BY <2>2, <2>3, <2>4
<1>3. CASE F = "updates"
  <2>1. Plan(h) = PlanUpdates(f) BY <1>3 DEF Plan, Dockers
  <2>2. h.held = "no" BY <1>3 DEF UnitsOf, Only
  <2>3. CASE P \in {"fedora", "enterprise", "tumbleweed"}
    <3>1. f.repo = Ownership(h) BY <1>3, <2>3 DEF UnitFacts, Seen, Dockers
    <3> HIDE DEF f
    <3>2. ASSUME f.repo = "unmanaged" PROVE FALSE
      <4>1. PICK pre, reason : Plan(h) = Update(pre, reason) /\ reason
        <5>1. CASE P = "fedora" BY <2>1, <3>2, <5>1 DEF PlanUpdates, PlanFedoraUpdates, Zypper
        <5>2. CASE P = "enterprise" BY <2>1, <3>2, <5>2 DEF PlanUpdates, PlanEnterpriseUpdates, Zypper
        <5>3. CASE P = "tumbleweed" BY <2>1, <3>2, <5>3 DEF PlanUpdates, PlanOpenSUSEUpdates, Zypper
        <5>4. QED BY <2>3, <5>1, <5>2, <5>3
      <4>2. QED BY <1>6, <4>1 DEF Update, Change
    <3>3. QED BY <2>2, <3>1, <3>2 DEF Recognized, Ownership
  <2>4. CASE P \notin {"fedora", "enterprise", "tumbleweed"}
    BY <1>3, <2>2, <2>4 DEF Recognized, UnitsOf, Only, ReposOf, LenientCheck, LastCounts, Dockers
  <2>5. QED BY <2>3, <2>4
<1>4. QED BY <1>1, <1>2, <1>3 DEF UnitFeatures

LEMMA NeverStep ==
  ASSUME NEW S, NEW s \in Seq(S), NEW b, b \notin S
  PROVE  Lacks(b, s) /\ \A a : Before(a, b, s)
BY DEF Lacks, Before

\* A step writes Bebop's file or none, resolves no conflict and removes nothing.
LEMMA DoKeeps ==
  ASSUME MachineOK, F \in UnitFeatures, NEW h \in UnitsOf(P, F), NEW step \in Steps
  PROVE  LET g == Do(step, h) IN
         /\ g.repo = "unmanaged" => h.repo = "unmanaged"
         /\ g.conflict = h.conflict /\ g.held = h.held /\ (h.main => g.main)
         /\ Recognized(h) => Recognized(g)
<1> DEFINE g == Do(step, h)
<1>1. h \in Units BY UnitsAreUnits
<1>2. /\ g.conflict = h.conflict /\ g.held = h.held /\ (h.main => g.main)
      /\ g.repo \in {h.repo, "managed"}
  BY <1>1, UnitEffects
<1> HIDE DEF g
<1>3. g.repo = "unmanaged" => h.repo = "unmanaged" BY <1>2
<1>4. Recognized(h) => Recognized(g) BY <1>2 DEF Recognized
<1>5. QED BY <1>2, <1>3, <1>4 DEF g

\* What a step that can be taken overwrites.
LEMMA HarmStep ==
  ASSUME TypeInv, HarmInv, Step
  PROVE  HarmInv' /\ ~Trespass
<1>1. [Next]_vars BY DEF Next
<1>2. TypeInv' BY <1>1, NextType
<1>3. P' = P /\ F' = F BY <1>1, SameMachine
<1>4. /\ stale' = stale /\ pc = "running" /\ script # <<>> /\ script \in Seq(Steps) /\ todo # {}
      /\ MachineOK /\ host \in Possible
  BY DEF Step, TypeInv, ApplyOK, HostOK
<1>5. F \in AllFeatures BY <1>4, HostModulesAssumption DEF MachineOK, F
<1>6. CASE ~Able(Head(script), host)
  <2>1. host' = Cleaned(host) /\ script' = <<>> /\ todo' = {} BY <1>6 DEF Step, End
  <2>2. HarmInv' BY <1>3, <2>1, EmptyScript DEF HarmInv
  <2>3. ~Trespass BY <1>4, <1>5, <2>1 DEF Trespass, Cleaned, Possible, Shells, AllFeatures, UnitTrespass, SSHTrespass,
                                          StorageTrespass, Installs
  <2>4. QED BY <2>2, <2>3
<1>7. CASE Able(Head(script), host)
  <2> DEFINE step == Head(script)
  <2>1. host' = Do(step, host) /\ script' = Tail(script) /\ todo' = todo /\ step \in Steps /\ Able(step, host)
    BY <1>4, <1>7 DEF Step
  <2> HIDE DEF step
  <2>7. script' \in Seq(Steps) BY <1>4, <2>1
  <2>2. CASE F \in UnitFeatures
    <3>1. host \in UnitsOf(P, F) BY <1>4, <2>2 DEF Possible, HostsOf, UnitFeatures, Dockers
    <3>2. /\ host'.repo = "unmanaged" => host.repo = "unmanaged"
          /\ host'.conflict = host.conflict /\ host'.held = host.held /\ (host.main => host'.main)
          /\ Recognized(host) => Recognized(host')
      BY <1>4, <2>1, <2>2, <3>1, DoKeeps
    <3>3. stale # "checks" => P = "debian" \/ Before("recheck", "repo", script') \/ host'.repo # "unmanaged"
      <4>1. CASE step = "recheck"
        <5>1. RepositorySafe(host) BY <2>1, <2>2, <4>1, UnitSteps DEF UnitAble, Rechecked
        <5>2. QED BY <3>2, <5>1 DEF RepositorySafe, Unrecognized
      <4>2. CASE step # "recheck"
        <5>1. Before("recheck", "repo", script) => Before("recheck", "repo", script')
          BY <1>4, <2>1, <4>2, BeforeTail DEF step
        <5>2. QED BY <3>2, <5>1 DEF HarmInv
      <4>3. QED BY <4>1, <4>2
    <3>4. stale # "checks" => Before("quiet", "package", script') \/ ~host'.conflict \/ host'.main
      <4>1. CASE step = "quiet" BY <2>1, <2>2, <3>2, <4>1, UnitSteps DEF UnitAble
      <4>2. CASE step # "quiet"
        <5>1. Before("quiet", "package", script) => Before("quiet", "package", script')
          BY <1>4, <2>1, <4>2, BeforeTail DEF step
        <5>2. QED BY <3>2, <5>1 DEF HarmInv
      <4>3. QED BY <4>1, <4>2
    <3>12. Lacks("package", script) => Lacks("package", script') /\ step # "package"
      BY <1>4, <2>1, LacksTail DEF step
    <3>14. host \in Units BY <3>1, UnitsAreUnits
    <3>5. Lacks("mount", script') BY <2>2, <2>7, NeverStep DEF Steps, UnitFeatures, Dockers
    <3>13. (Recognized(host))' <=> Recognized(host') BY DEF Recognized
    <3>6. HarmInv' BY <1>3, <1>4, <2>1, <2>2, <3>2, <3>3, <3>4, <3>5, <3>12, <3>13 DEF HarmInv, UnitFeatures, Dockers
    <3>7. CASE step = "repo"
      <4>1. host.link = "conflict" => <<P, F>> # <<"debian", "updates">> BY <3>1 DEF UnitsOf, Only
      <4>2. (host'.main <=> host.main) /\ (host.link = "conflict" => host'.link = host.link)
        BY <2>1, <2>2, <3>7, <3>14, <4>1, UnitEffects DEF Units
      <4>3. ~Before("recheck", "repo", script) BY <1>4, <3>7, BeforeTail DEF step
      <4>4. QED BY <1>4, <2>2, <3>2, <3>6, <4>2, <4>3 DEF Recognized, Trespass, HarmInv, UnitFeatures, Dockers,
                                                          UnitTrespass,
                                                          SSHTrespass, StorageTrespass, Installs
    <3>8. CASE step = "package"
      <4>1. ~Before("quiet", "package", script) BY <1>4, <3>8, BeforeTail DEF step
      <4>2. host'.link = host.link /\ (P # "void" => host'.repo = host.repo)
        BY <2>1, <2>2, <3>8, <3>14, UnitEffects
      <4>4. P # "void" => host.held = "no" BY <3>1 DEF UnitsOf, Only
      <4>5. stale # "checks" => (~host.conflict \/ host.main) /\ host.held # "locked"
        BY <3>8, <3>12, <4>1, <4>4 DEF HarmInv
      <4>6. stale = "nothing" => Recognized(host) BY <1>4, <2>2 DEF HarmInv
      <4>7. ~UnitTrespass BY <4>2, <4>5, <4>6 DEF UnitTrespass, Installs, Recognized
      <4>3. QED BY <2>2, <3>6, <4>7 DEF Trespass, UnitFeatures, Dockers
    <3>9. CASE step = "enable"
      <4>1. host.link # "conflict" /\ (host'.main <=> host.main) /\ host'.repo = host.repo
        BY <2>1, <2>2, <3>9, <3>14, UnitEffects, UnitSteps DEF UnitAble, Enableable, Units
      <4>2. QED BY <2>2, <3>6, <4>1 DEF Trespass, UnitFeatures, Dockers, UnitTrespass, SSHTrespass, StorageTrespass,
                                        Installs
    <3>10. CASE step \notin {"repo", "package", "enable"}
      <4>1. (host'.main <=> host.main) /\ host'.repo = host.repo /\ host'.link = host.link
        BY <2>1, <2>2, <3>10, <3>14, UnitEffects DEF Units
      <4>2. QED BY <2>2, <3>6, <4>1 DEF Trespass, UnitFeatures, Dockers, UnitTrespass, SSHTrespass, StorageTrespass,
                                        Installs
    <3>11. QED BY <3>6, <3>7, <3>8, <3>9, <3>10
  <2>3. CASE F = "ssh"
    <3>1. host \in Shells BY <1>4, <2>3 DEF Possible
    <3>2. host'.keys = host.keys BY <2>1, <2>3, <3>1 DEF Do, Steps, Shells, UnitDo, SSHDo, StorageDo, FileWritten,
                                                         PackageInstalled, UnitFeatures, Dockers
    <3>0. "mount" \notin Steps /\ "repo" \notin Steps /\ "package" \notin Steps BY <2>3 DEF Steps
    <3>7. Lacks("package", script') BY <2>7, <3>0, NeverStep
    <3>3. Lacks("mount", script') /\ Before("recheck", "repo", script') /\ Before("quiet", "package", script')
      BY <2>7, <3>0, NeverStep
    <3>4. HarmInv' BY <1>3, <1>4, <2>1, <2>3, <3>2, <3>3, <3>7 DEF HarmInv, UnitFeatures, Dockers
    <3>5. ~Trespass BY <1>4, <2>3 DEF Trespass, HarmInv, UnitTrespass, SSHTrespass, StorageTrespass, Installs
    <3>6. QED BY <3>4, <3>5
  <2>4. CASE F = "storage"
    <3>1. host \in Disks BY <1>4, <2>4 DEF Possible, HostsOf
    <3>2. host'.dir = "full" => host.dir = "full" BY <2>1, <2>4, <3>1
        DEF Do, Steps, Disks, UnitDo, SSHDo, StorageDo, FileWritten, PackageInstalled, UnitFeatures, Dockers
    <3>0. "repo" \notin Steps /\ "package" \notin Steps BY <2>4 DEF Steps
    <3>9. Lacks("package", script') BY <2>7, <3>0, NeverStep
    <3>3. Before("recheck", "repo", script') /\ Before("quiet", "package", script')
      BY <2>7, <3>0, NeverStep
    <3>4. Lacks("mount", script) => Lacks("mount", script') /\ step # "mount" BY <1>4, <2>1, LacksTail DEF step
    <3>5. HarmInv' BY <1>3, <1>4, <2>1, <2>4, <3>2, <3>3, <3>4, <3>9 DEF HarmInv, UnitFeatures, Dockers
    <3>6. step # "mount" => host'.mounted = host.mounted BY <2>1, <2>4, <3>1
        DEF Do, Steps, Disks, UnitDo, SSHDo, StorageDo, FileWritten, PackageInstalled, UnitFeatures, Dockers
    <3>7. ~Trespass BY <1>4, <2>4, <3>4, <3>6 DEF Trespass, HarmInv, UnitTrespass, SSHTrespass, StorageTrespass,
                                                  Installs
    <3>8. QED BY <3>5, <3>7
  <2>5. CASE F = "base"
    <3>0. "mount" \notin Steps /\ "repo" \notin Steps /\ "package" \notin Steps BY <2>5 DEF Steps
    <3>5. Lacks("package", script') BY <2>7, <3>0, NeverStep
    <3>1. Lacks("mount", script') /\ Before("recheck", "repo", script') /\ Before("quiet", "package", script')
      BY <2>7, <3>0, NeverStep
    <3>2. HarmInv' BY <1>3, <1>4, <2>5, <3>1, <3>5 DEF HarmInv, UnitFeatures, Dockers
    <3>3. ~Trespass BY <2>5 DEF Trespass, UnitTrespass, SSHTrespass, StorageTrespass, Installs
    <3>4. QED BY <3>2, <3>3
  <2>6. QED BY <1>5, <2>2, <2>3, <2>4, <2>5 DEF AllFeatures, UnitFeatures, Dockers
<1>8. QED BY <1>6, <1>7

\* Everything else leaves the host alone, but for edits, which are somebody else's.
LEMMA HarmElse ==
  ASSUME TypeInv, HarmInv, Next, ~Step
  PROVE  HarmInv' /\ (edits' = edits => ~Trespass)
<1>1. [Next]_vars BY DEF Next
<1>2. P' = P /\ F' = F BY <1>1, SameMachine
<1>3. ASSUME script' = <<>>, todo' = {} PROVE HarmInv' BY <1>3, EmptyScript DEF HarmInv
<1>4. ASSUME host' = host PROVE ~Trespass BY <1>4 DEF Trespass, UnitTrespass, SSHTrespass, StorageTrespass, Installs
<1>5. CASE Start
  <2>1. host' = host /\ script' = <<>> BY <1>5 DEF Start, End, TypeInv, ApplyOK
  <2>2. ASSUME F = "ssh", todo' # {} PROVE host.keys
    <3>1. todo' = Plan(host) /\ \A c \in Plan(host) : ~c.blocked BY <1>5, <2>2 DEF Start, End
    <3>2. QED BY <2>2, <3>1, PlannedKeys
  <2>5. ASSUME F \in UnitFeatures, todo' # {} PROVE Recognized(host)
    <3>1. todo' = Plan(host) /\ \A c \in Plan(host) : ~c.blocked BY <1>5, <2>5 DEF Start, End
    <3>2. MachineOK /\ host \in UnitsOf(P, F)
      BY <2>5 DEF TypeInv, HostOK, Possible, HostsOf, UnitFeatures, Dockers
    <3>3. QED BY <2>5, <3>1, <3>2, PlannedRecognized
  <2>6. (Recognized(host))' <=> Recognized(host') BY DEF Recognized
  <2>3. HarmInv' BY <1>2, <2>1, <2>2, <2>5, <2>6, EmptyScript DEF HarmInv
  <2>4. QED BY <1>4, <2>1, <2>3
<1>6. CASE Check
  <2>1. host' = host BY <1>6 DEF Check
  <2>2. CASE End("failed") BY <1>3, <1>4, <2>1, <2>2 DEF End
  <2>3. CASE ~End("failed")
    <3>1. /\ todo # {} /\ Following(todo).kind \in Accepted /\ \A pre \in Following(todo).pre : Holds(pre, host)
          /\ script' = Script(Following(todo)) /\ todo' = todo /\ (stale' = "nothing" => stale = "nothing")
      BY <1>6, <2>3 DEF Check
    <3>2. HarmInv' BY <1>2, <2>1, <3>1, CheckedScript DEF HarmInv
    <3>3. QED BY <1>4, <2>1, <3>2
  <2>4. QED BY <2>2, <2>3
<1>7. CASE Interrupt BY <1>3, <1>4, <1>7 DEF Interrupt, End
<1>8. CASE Verify
  <2>1. host' = host /\ stale' = stale /\ script' = <<>> /\ todo' \subseteq todo BY <1>8 DEF Verify, End
  <2>2. HarmInv' BY <1>2, <2>1, EmptyScript DEF HarmInv
  <2>3. QED BY <1>4, <2>1, <2>2
<1>9. CASE Replan BY <1>3, <1>4, <1>9 DEF Replan, End
<1>10. CASE Edit
  <2>1. stale' = "checks" /\ edits' = edits + 1 BY <1>10 DEF Edit
  <2>2. edits' # edits BY <2>1, HostModulesAssumption DEF TypeInv, ApplyOK
  <2>3. QED BY <2>1, <2>2 DEF HarmInv
<1>11. QED BY <1>5, <1>6, <1>7, <1>8, <1>9, <1>10 DEF Next

LEMMA HarmNext ==
  ASSUME TypeInv, HarmInv, [Next]_vars
  PROVE  HarmInv' /\ [edits' = edits => ~Trespass]_vars
<1>1. CASE Step BY <1>1, HarmStep
<1>2. CASE Next /\ ~Step BY <1>2, HarmElse
<1>3. CASE UNCHANGED vars
  <2>1. P' = P /\ F' = F BY SameMachine
  <2>2. (Recognized(host))' <=> Recognized(host) BY <1>3 DEF Recognized, vars
  <2>3. QED BY <1>3, <2>1, <2>2 DEF HarmInv, vars, UnitFeatures
<1>4. QED BY <1>1, <1>2, <1>3

LEMMA HarmInvariant == Spec => []HarmInv
<1>1. Init => HarmInv BY EmptyScript DEF Init, HarmInv
<1>2. TypeInv /\ HarmInv /\ [Next]_vars => HarmInv' BY HarmNext
<1>3. QED BY <1>1, <1>2, TypeInvariant, PTL DEF Spec

\* Whatever is interrupted and edited: what the plan saw in the way it left alone (Recognized), what a check can see
\* no script overwrites that does not look itself, and nothing but an edit puts anything there.
THEOREM ForeignIsUnharmed == Spec => NothingForeignIsHarmed
<1>1. TypeInv /\ HarmInv /\ [Next]_vars => [edits' = edits => ~Trespass]_vars BY HarmNext
<1>2. QED BY <1>1, TypeInvariant, HarmInvariant, PTL DEF Spec, NothingForeignIsHarmed

-----------------------------------------------------------------------------
(* Success means that the host is as configured. *)

LEMMA CoveredIsDesired ==
  ASSUME F \in AllFeatures, NEW h, Covered(h, {})
  PROVE  Desired(h) \/ <<P, F>> \in {"devuan"} \X Dockers
BY DEF Covered, Desired, AllFeatures, Dockers, RPM, DNF, Zypper

LEMMA Asked ==
  ASSUME NEW S, NEW id, NEW kind, \E deps, pre, reason : Change(id, kind, deps, pre, reason) \in S
  PROVE  id \in IDsOf(S)
BY DEF IDsOf, Change

LEMMA BlockedIsBlocked == \A id, kind : Blocked(id, kind).blocked
BY DEF Blocked, Change

LEMMA DockerCovers ==
  ASSUME MachineOK, F \in Dockers, NEW h \in UnitsOf(P, F), \A c \in Plan(h) : ~c.blocked
  PROVE  Covered(h, IDsOf(Plan(h)))
<1> DEFINE f == UnitFacts(h)
<1>1. Plan(h) = PlanDocker(f) BY DEF Plan, Dockers
<1>2. f.ready = (h.link = "correct" /\ h.run = "up")
  BY DEF UnitFacts, DevuanDockerFacts, AlpineDockerFacts, VoidFacts, AlpineTailscaleFacts, DevuanTailscaleFacts,
         LeapUpdatesFacts, AlpineUpdatesFacts, Seen, DevuanUpdatesFacts, Ownership
<1>3. P # "devuan" => f.installed = h.main /\ f.complete = (h.main /\ h.rest)
  BY DEF UnitFacts, AlpineDockerFacts, VoidFacts, Seen, Dockers, DevuanUpdatesFacts, Ownership
<1>4. f.compose = (h.main /\ h.rest /\ h.plugin)
  BY DEF UnitFacts, DevuanDockerFacts, AlpineDockerFacts, VoidFacts, Seen, Dockers, DevuanUpdatesFacts, Ownership
<1> HIDE DEF f
<1> DEFINE T == IDsOf(PlanDocker(f))
       Serves == \E deps, reason : Change("docker.service", "docker.enable-service", deps, {}, reason) \in PlanDocker(f)
       Engines == \E pre, reason : Change("docker.engine", "docker.install-engine", {}, pre, reason) \in PlanDocker(f)
       Composes == \E deps, reason : Change("docker.compose", "docker.install-compose", deps, {}, reason) \in PlanDocker(f)
<1>0. /\ Serves => "docker.service" \in T
      /\ Engines => "docker.engine" \in T
      /\ Composes => "docker.compose" \in T
  BY Asked
<1> HIDE DEF T
<1>5. CASE P = "debian"
  <2>1. ~f.ready => Serves BY <1>1, <1>5, BlockedIsBlocked DEF PlanDocker, PlanDebianDocker, Zypper, Serve, When
  <2>2. ~f.installed => Engines BY <1>1, <1>5, BlockedIsBlocked DEF PlanDocker, PlanDebianDocker, Zypper, Install, When
  <2>3. ~f.compose /\ F = "compose" => Composes BY <1>1, <1>5, BlockedIsBlocked
      DEF PlanDocker, PlanDebianDocker, Zypper, Compose, When
  <2>4. QED BY <1>0, <1>1, <1>2, <1>3, <1>4, <1>5, <2>1, <2>2, <2>3 DEF T, Covered, Ready, Dockers
<1>6. CASE P = "artix"
  <2>1. ~f.ready => Serves BY <1>1, <1>6, BlockedIsBlocked DEF PlanDocker, PlanArtixDocker, Zypper, Serve, When
  <2>2. ~f.installed \/ ~f.complete => Engines BY <1>1, <1>6, BlockedIsBlocked
      DEF PlanDocker, PlanArtixDocker, Zypper, Install, When
  <2>3. QED BY <1>0, <1>1, <1>2, <1>3, <1>6, <2>1, <2>2 DEF T, Covered, Ready, Dockers
<1>7. CASE P = "alpine"
  <2>1. ~f.ready => Serves BY <1>1, <1>7, BlockedIsBlocked DEF PlanDocker, PlanAlpineDocker, Zypper, Serve, When
  <2>2. ~f.installed \/ ~f.complete => Engines BY <1>1, <1>7, BlockedIsBlocked
      DEF PlanDocker, PlanAlpineDocker, Zypper, Install, When
  <2>3. QED BY <1>0, <1>1, <1>2, <1>3, <1>7, <2>1, <2>2 DEF T, Covered, Ready, Dockers
<1>8. CASE P = "void"
  <2>1. ~f.ready => Serves BY <1>1, <1>8, BlockedIsBlocked DEF PlanDocker, PlanVoidDocker, Zypper, Serve, When
  <2>2. ~f.installed \/ ~f.complete => Engines BY <1>1, <1>8, BlockedIsBlocked
      DEF PlanDocker, PlanVoidDocker, Zypper, Install, When
  <2>3. QED BY <1>0, <1>1, <1>2, <1>3, <1>8, <2>1, <2>2 DEF T, Covered, Ready, Dockers
<1>9. CASE P = "arch"
  <2>1. ~f.ready => Serves BY <1>1, <1>9, BlockedIsBlocked DEF PlanDocker, PlanArchDocker, Zypper, Serve, When
  <2>2. ~f.installed \/ ~f.complete => Engines BY <1>1, <1>9, BlockedIsBlocked
      DEF PlanDocker, PlanArchDocker, Zypper, Install, When
  <2>3. QED BY <1>0, <1>1, <1>2, <1>3, <1>9, <2>1, <2>2 DEF T, Covered, Ready, Dockers
<1>10. CASE P \in Zypper
  <2>1. ~f.ready => Serves BY <1>1, <1>10, BlockedIsBlocked DEF PlanDocker, PlanOpenSUSEDocker, Zypper, Serve, When
  <2>2. ~f.installed \/ ~f.complete => Engines BY <1>1, <1>10, BlockedIsBlocked
      DEF PlanDocker, PlanOpenSUSEDocker, Zypper, Install, When
  <2>3. QED BY <1>0, <1>1, <1>2, <1>3, <1>10, <2>1, <2>2 DEF T, Covered, Ready, Dockers, Zypper
<1>11. CASE P = "enterprise"
  <2>1. ~f.ready => Serves BY <1>1, <1>11, BlockedIsBlocked DEF PlanDocker, PlanEnterpriseDocker, Zypper, Serve, When
  <2>2. ~f.installed \/ ~f.complete => Engines BY <1>1, <1>11, BlockedIsBlocked
      DEF PlanDocker, PlanEnterpriseDocker, Zypper, Install, When
  <2>3. QED BY <1>0, <1>1, <1>2, <1>3, <1>11, <2>1, <2>2 DEF T, Covered, Ready, Dockers, Zypper
<1>12. CASE P = "fedora"
  <2>1. ~f.ready => Serves BY <1>1, <1>12, BlockedIsBlocked DEF PlanDocker, PlanFedoraDocker, Zypper, Serve, When
  <2>2. ~f.installed \/ ~f.complete => Engines BY <1>1, <1>12, BlockedIsBlocked
      DEF PlanDocker, PlanFedoraDocker, Zypper, Install, When
  <2>3. QED BY <1>0, <1>1, <1>2, <1>3, <1>12, <2>1, <2>2 DEF T, Covered, Ready, Dockers, Zypper
<1>13. CASE P = "devuan" BY <1>13 DEF Covered, Dockers
<1>14. P \in AllPlatforms BY HostModulesAssumption DEF MachineOK, P
<1>15. QED
  BY <1>5, <1>6, <1>7, <1>8, <1>9, <1>10, <1>11, <1>12, <1>13, <1>14 DEF AllPlatforms, Zypper

LEMMA TailscaleCovers ==
  ASSUME MachineOK, F = "tailscale", NEW h \in UnitsOf(P, F), \A c \in Plan(h) : ~c.blocked
  PROVE  Covered(h, IDsOf(Plan(h)))
<1> DEFINE f == UnitFacts(h)
           T == IDsOf(PlanTailscale(f))
           Fetches == \E pre, reason : Change("tailscale.package", "tailscale.install", {}, pre, reason) \in PlanTailscale(f)
           Joins == \E deps, reason : Change("tailscale.service", "tailscale.enable-service", deps, {}, reason) \in PlanTailscale(f)
<1>1. Plan(h) = PlanTailscale(f) BY DEF Plan, Dockers
<1>2. f.ready = (h.link = "correct" /\ h.run = "up")
  BY DEF UnitFacts, DevuanDockerFacts, AlpineDockerFacts, VoidFacts, AlpineTailscaleFacts, DevuanTailscaleFacts,
         LeapUpdatesFacts, AlpineUpdatesFacts, Seen, DevuanUpdatesFacts, Ownership
<1>3. /\ P # "alpine" => f.installed = h.main
      /\ P = "alpine" => f.installed = (h.main /\ h.rest)
      /\ P \notin {"alpine", "void"} => (f.repo = "managed" => h.repo = "managed")
  BY DEF UnitFacts, AlpineTailscaleFacts, DevuanTailscaleFacts, VoidFacts, Seen, Dockers, DevuanUpdatesFacts, Ownership
<1>4. /\ Joins => "tailscale.service" \in T
      /\ Fetches => "tailscale.package" \in T
  BY Asked
<1> HIDE DEF f, T
<1>5. CASE P = "alpine"
  <2>1. ~f.ready => Joins BY <1>5 DEF PlanTailscale, PlanAlpineTailscale, Join, When, RPM, DNF, Zypper
  <2>2. ~f.installed => Fetches BY <1>5 DEF PlanTailscale, PlanAlpineTailscale, Fetch, When, RPM, DNF, Zypper
  <2>3. QED BY <1>1, <1>2, <1>3, <1>4, <1>5, <2>1, <2>2 DEF T, Covered, Ready, Dockers, RPM, DNF, Zypper
<1>6. CASE P = "void"
  <2>1. ~f.ready => Joins
    BY <1>1, <1>6, BlockedIsBlocked DEF PlanTailscale, PlanVoidTailscale, Unowned, Join, When, RPM, DNF, Zypper
  <2>2. ~f.installed => Fetches
    BY <1>1, <1>6, BlockedIsBlocked DEF PlanTailscale, PlanVoidTailscale, Unowned, Fetch, When, RPM, DNF, Zypper
  <2>3. QED BY <1>1, <1>2, <1>3, <1>4, <1>6, <2>1, <2>2 DEF T, Covered, Ready, Dockers, RPM, DNF, Zypper
<1>7. CASE P = "devuan"
  <2>1. ~f.ready => Joins
    BY <1>1, <1>7, BlockedIsBlocked DEF PlanTailscale, PlanDevuanTailscale, Unowned, Join, When, RPM, DNF, Zypper
  <2>2. ~f.installed \/ f.repo # "managed" => Fetches
    BY <1>1, <1>7, BlockedIsBlocked DEF PlanTailscale, PlanDevuanTailscale, Unowned, Fetch, When, RPM, DNF, Zypper
  <2>3. QED BY <1>1, <1>2, <1>3, <1>4, <1>7, <2>1, <2>2 DEF T, Covered, Ready, Dockers, RPM, DNF, Zypper
<1>8. CASE P = "artix"
  <2>1. ~f.ready => Joins BY <1>8 DEF PlanTailscale, PlanArtixTailscale, Join, When, RPM, DNF, Zypper
  <2>2. ~f.installed => Fetches BY <1>8 DEF PlanTailscale, PlanArtixTailscale, Fetch, When, RPM, DNF, Zypper
  <2>3. QED BY <1>1, <1>2, <1>3, <1>4, <1>8, <2>1, <2>2 DEF T, Covered, Ready, Dockers, RPM, DNF, Zypper
<1>9. CASE P \notin {"alpine", "void", "devuan", "artix"}
  <2>1. ~f.ready => Joins BY <1>1, <1>9, BlockedIsBlocked DEF PlanTailscale, Join, When
  <2>2. ~f.installed \/ (P \in RPM /\ f.repo # "managed") => Fetches
    BY <1>1, <1>9, BlockedIsBlocked DEF PlanTailscale, Fetch, When
  <2>3. QED BY <1>1, <1>2, <1>3, <1>4, <1>9, <2>1, <2>2 DEF T, Covered, Ready, Dockers
<1>10. QED BY <1>5, <1>6, <1>7, <1>8, <1>9

LEMMA UpdatesCovers ==
  ASSUME MachineOK, F = "updates", NEW h \in UnitsOf(P, F), \A c \in Plan(h) : ~c.blocked, Plan(h) = {}
  PROVE  Desired(h)
<1> DEFINE f == UnitFacts(h)
<1>1. Plan(h) = PlanUpdates(f) BY DEF Plan, Dockers
<1>2. P \in AllPlatforms BY HostModulesAssumption DEF MachineOK, P
<1>3. /\ P # "void" => f.ready = (h.link = "correct" /\ h.run = "up") /\ f.conflict = h.conflict
      /\ P = "leap" => f.installed = (h.repo = "managed")
      /\ P \notin {"leap", "void", "devuan"} => f.installed = h.main
      /\ P \notin {"void", "alpine"} => (f.repo = "managed" => h.repo = "managed")
  BY DEF UnitFacts, AlpineUpdatesFacts, LeapUpdatesFacts, Seen, Dockers, DevuanUpdatesFacts, Ownership
<1> HIDE DEF f
<1>4. /\ P \notin {"arch", "artix", "void", "alpine", "devuan"}
      /\ f.installed /\ f.ready /\ (P = "debian" \/ f.repo = "managed") /\ ~f.conflict
  BY <1>1, <1>2 DEF PlanUpdates, PlanAlpineUpdates, PlanDevuanUpdates, PlanFedoraUpdates, PlanEnterpriseUpdates,
     PlanOpenSUSEUpdates, Update, AllPlatforms, Zypper
<1>5. QED BY <1>3, <1>4 DEF Desired, Ready, Dockers

\* An accepted plan covers all the configuration asks and the host is not.
LEMMA PlanCovers ==
  ASSUME MachineOK, NEW h \in Possible, \A c \in Plan(h) : ~c.blocked
  PROVE  Covered(h, IDsOf(Plan(h)))
<1>0. F \in AllFeatures BY HostModulesAssumption DEF MachineOK, F
<1>1. CASE F \in Dockers BY <1>1, DockerCovers DEF Possible, HostsOf, Dockers
<1>2. CASE F = "tailscale" BY <1>2, TailscaleCovers DEF Possible, HostsOf, Dockers
<1>3. IDsOf(Plan(h)) = {} <=> Plan(h) = {} BY DEF IDsOf
<1>4. CASE F = "updates"
  BY <1>3, <1>4, UpdatesCovers DEF Covered, Possible, HostsOf, Dockers
<1>5. CASE F = "ssh"
  BY <1>3, <1>5 DEF Covered, Desired, Plan, PlanSSH, When, Dockers
<1>6. CASE F = "base"
  <2>1. h.root \in {"absent", "wrong", "right"} BY <1>6 DEF Possible, HostsOf, Roots
  <2>2. Plan(h) = {} => h.root = "right" BY <1>6, <2>1 DEF Plan, PlanBase, When, Dockers
  <2>3. QED BY <1>3, <1>6, <2>2 DEF Covered, Desired, Dockers
<1>7. CASE F = "storage"
  <2>1. Plan(h) = PlanStorage(h) BY <1>7 DEF Plan, Dockers
  <2>2. CASE Assess(h) = "ready" /\ h.mounted = "right" BY <1>7, <2>2 DEF Covered, Dockers
  <2>3. Assess(h) = "ready" => h.mounted = "right" BY DEF Assess
  <2>4. CASE Assess(h) # "ready"
    <3>1. \E deps, pre, reason : Change("storage.mount", "storage.mount", deps, pre, reason) \in Plan(h)
      BY <2>1, <2>4, BlockedIsBlocked DEF PlanStorage
    <3>2. QED BY <1>7, <3>1, Asked DEF Covered, Dockers
  <2>5. QED BY <2>2, <2>3, <2>4
<1>8. QED BY <1>0, <1>1, <1>2, <1>4, <1>5, <1>6, <1>7 DEF AllFeatures, Dockers

\* Steps finish what is covered and undo none of it.
LEMMA DoCovers ==
  ASSUME MachineOK, NEW h \in Possible, NEW step \in Steps, NEW T, T # {}, Covered(h, T)
  PROVE  Covered(Do(step, h), T)
<1>0. F \in AllFeatures BY HostModulesAssumption DEF MachineOK, F
<1>1. CASE F \in UnitFeatures
  <2>1. h \in UnitsOf(P, F) BY <1>1 DEF Possible, HostsOf, UnitFeatures, Dockers
  <2>2. LET g == Do(step, h) IN
        /\ (h.main => g.main) /\ (h.rest => g.rest) /\ (Ready(h) => Ready(g)) /\ (h.repo = "managed" => g.repo = "managed")
    BY <1>1, <2>1 DEF Do, UnitsOf, Steps, UnitFeatures, Dockers, Ready, UnitDo, SSHDo, StorageDo, FileWritten,
                      PackageInstalled
  <2>3. QED BY <1>1, <2>2 DEF Covered, UnitFeatures, Dockers
<1>2. CASE F \in {"ssh", "base"} BY <1>2 DEF Covered, Dockers
<1>3. CASE F = "storage"
  <2>1. h \in Disks BY <1>3 DEF Possible, HostsOf
  <2>2. h.mounted = "right" => Do(step, h).mounted = "right" BY <1>3, <2>1
      DEF Do, Steps, Disks, UnitDo, SSHDo, StorageDo, FileWritten, PackageInstalled, UnitFeatures, Dockers
  <2>3. QED BY <1>3, <2>2 DEF Covered, Dockers
<1>4. QED BY <1>0, <1>1, <1>2, <1>3 DEF AllFeatures, UnitFeatures, Dockers

LEMMA LacksHead ==
  ASSUME NEW S, NEW s \in Seq(S), s # <<>>, NEW b, Head(s) # b, Lacks(b, Tail(s))
  PROVE  Lacks(b, s)
<1>1. ASSUME NEW j \in 1 .. Len(s) PROVE s[j] # b
  <2>1. CASE j = 1 BY <2>1
  <2>2. CASE j # 1
    <3>1. j - 1 \in 1 .. Len(Tail(s)) /\ Tail(s)[j - 1] = s[j] BY <2>2
    <3>2. QED BY <3>1 DEF Lacks
  <2>3. QED BY <2>1, <2>2
<1>2. QED BY <1>1 DEF Lacks

\* A script starts with all that its change is about still to do.
LEMMA DoingStarts ==
  ASSUME TypeInv, todo # {}, Following(todo).kind \in Accepted, \A pre \in Following(todo).pre : Holds(pre, host)
  PROVE  LET c == Following(todo)
             s == Script(c)
         IN /\ c.kind = "tailscale.install" /\ P \in RPM \cup {"devuan"} => ~Lacks("repo", s)
            /\ c.kind = "updates.enable-unattended" =>
                 /\ ~Lacks("repo", s)
                 /\ P # "leap" => ~Lacks("package", s)
                 /\ ~host.conflict \/ ~Lacks("quiet", s)
<1> DEFINE c == Following(todo)
<1>1. ChangeOK(c) /\ MachineOK /\ host \in Possible /\ c.kind \in Accepted /\ \A pre \in c.pre : Holds(pre, host)
  BY AtHand DEF TypeInv, TodoOK, HostOK
<1> HIDE DEF c
<1>2. P \in AllPlatforms BY <1>1, HostModulesAssumption DEF MachineOK, P
<1>3. ASSUME c.kind = "tailscale.install", P \in RPM \cup {"devuan"} PROVE ~Lacks("repo", Script(c))
  <2>1. Script(c) = TailscaleScript BY <1>1, <1>3, ScriptIs
  <2>2. Script(c) \in {<<"repo", "package">>, <<"recheck", "repo", "index", "package">>}
    BY <1>3, <2>1 DEF TailscaleScript, DevuanTailscaleScript, RPM, DNF, Zypper
  <2>3. ~Lacks("repo", <<"repo", "package">>) BY DEF Lacks
  <2>4. ~Lacks("repo", <<"recheck", "repo", "index", "package">>)
    <3> DEFINE s == <<"recheck", "repo", "index", "package">>
    <3>1. 2 \in 1 .. Len(s) /\ s[2] = "repo" OBVIOUS
    <3>2. QED BY <3>1 DEF Lacks
  <2>5. QED BY <2>2, <2>3, <2>4
<1>4. ASSUME c.kind = "updates.enable-unattended"
      PROVE  /\ ~Lacks("repo", Script(c))
             /\ P # "leap" => ~Lacks("package", Script(c))
             /\ ~host.conflict \/ ~Lacks("quiet", Script(c))
  <2>1. Script(c) = UpdatesScript /\ F = "updates" BY <1>1, <1>4, ScriptIs
  <2>2. host \in UnitsOf(P, F) BY <1>1, <2>1 DEF Possible, HostsOf, Dockers
  <2>8. host.conflict => P \in {"leap", "tumbleweed", "enterprise", "alpine"}
    BY <2>1, <2>2 DEF UnitsOf, Only, RPM, DNF, Zypper, Dockers
  <2>9. P = "alpine" => ~host.conflict
    <3>1. P = "alpine" => "repositories" \in c.pre BY <1>1, <1>4 DEF ChangeOK, Prudent
    <3>2. QED BY <1>1, <2>1, <3>1, UnitPreconditions DEF UnitFeatures
  <2>3. host.conflict => P \in {"leap", "tumbleweed", "enterprise"} BY <2>8, <2>9
  <2>4. ~Lacks("repo", UpdatesScript) BY <1>2 DEF UpdatesScript, Lacks, AllPlatforms
  <2>5. P # "leap" => ~Lacks("package", UpdatesScript) BY <1>2 DEF UpdatesScript, Lacks, AllPlatforms
  <2>6. P \in {"leap", "tumbleweed", "enterprise"} => ~Lacks("quiet", UpdatesScript)
    BY DEF UpdatesScript, Lacks
  <2>7. QED BY <2>1, <2>3, <2>4, <2>5, <2>6
<1>5. QED BY <1>3, <1>4 DEF c

\* A verified change may be struck off.
LEMMA ConfirmedCovers ==
  ASSUME TypeInv, pc = "running", Doing, script = <<>>, Covered(host, IDsOf(todo)),
         Confirmed(Following(todo), host)
  PROVE  Covered(host, IDsOf(todo \ {Following(todo)}))
<1> DEFINE c == Following(todo)
           T == IDsOf(todo)
           U == IDsOf(todo \ {c})
<1>1. todo # {} /\ MachineOK /\ host \in Possible BY DEF TypeInv, ApplyOK, HostOK
<1>2. c.id \in Parts /\ c.kind = KindOf(c.id) BY <1>1, AtHand DEF TypeInv, TodoOK, ChangeOK
<1>3. T \subseteq U \cup {c.id} BY DEF IDsOf
<1>4. Lacks("repo", script) /\ Lacks("package", script) /\ Lacks("quiet", script) BY EmptyScript
<1>5. /\ c.kind = "tailscale.install" /\ P \in RPM \cup {"devuan"} => host.repo = "managed"
      /\ c.kind = "updates.enable-unattended" =>
           /\ host.repo = "managed" /\ (P # "leap" => host.main) /\ ~host.conflict
  BY <1>4 DEF Doing
<1>6. Confirmed(c, host) /\ Covered(host, T) OBVIOUS
<1> SUFFICES Covered(host, U) OBVIOUS
<1> HIDE DEF c, T, U
<1>7. F \in AllFeatures BY <1>1, HostModulesAssumption DEF MachineOK, F
<1>8. CASE F \in Dockers
  <2>1. DockerConfirmed(c.kind, host) BY <1>6, <1>8 DEF Confirmed, Dockers
  <2>2. CASE P = "devuan" BY <1>8, <2>2 DEF Covered, Dockers
  <2>3. CASE P # "devuan"
    <3>1. c.id = "docker.engine" => c.kind = "docker.install-engine" BY <1>2 DEF KindOf
    <3>2. c.id = "docker.engine" => host.main /\ (P = "debian" \/ host.rest)
      BY <2>1, <2>3, <3>1 DEF DockerConfirmed
    <3>3. c.id = "docker.compose" => c.kind = "docker.install-compose" BY <1>2 DEF KindOf
    <3>4. c.id = "docker.compose" => host.rest BY <2>1, <3>3 DEF DockerConfirmed
    <3>5. c.id = "docker.service" => c.kind = "docker.enable-service" BY <1>2 DEF KindOf
    <3>6. c.id = "docker.service" => Ready(host) BY <2>1, <3>5 DEF DockerConfirmed
    <3>7. /\ "docker.engine" \in T => "docker.engine" \in U \/ c.id = "docker.engine"
          /\ "docker.compose" \in T => "docker.compose" \in U \/ c.id = "docker.compose"
          /\ "docker.service" \in T => "docker.service" \in U \/ c.id = "docker.service"
      BY <1>3
    <3>8. QED BY <1>6, <1>8, <2>3, <3>2, <3>4, <3>6, <3>7 DEF Covered, Dockers
  <2>4. QED BY <2>2, <2>3
<1>9. CASE F = "tailscale"
  <2>1. TailscaleConfirmed(c.kind, host) BY <1>6, <1>9 DEF Confirmed, Dockers
  <2>2. c.id = "tailscale.package" => c.kind = "tailscale.install" BY <1>2 DEF KindOf
  <2>3. c.id = "tailscale.package" =>
          host.main /\ (P = "devuan" => host.repo = "managed") /\ (P \in RPM => host.repo = "managed")
    BY <1>5, <2>1, <2>2 DEF TailscaleConfirmed
  <2>4. c.id = "tailscale.service" => c.kind = "tailscale.enable-service" BY <1>2 DEF KindOf
  <2>5. c.id = "tailscale.service" => Ready(host) BY <2>1, <2>4 DEF TailscaleConfirmed
  <2>6. /\ "tailscale.package" \in T => "tailscale.package" \in U \/ c.id = "tailscale.package"
        /\ "tailscale.service" \in T => "tailscale.service" \in U \/ c.id = "tailscale.service"
    BY <1>3
  <2>7. QED BY <1>6, <1>9, <2>3, <2>5, <2>6 DEF Covered, Dockers
<1>10. CASE F = "updates"
  <2>1. c.kind = "updates.enable-unattended" BY <1>2, <1>10 DEF Parts, KindOf, Dockers
  <2>2. Ready(host) BY <1>6, <1>10 DEF Confirmed, UpdatesConfirmed, Dockers, Unrecognized
  <2>3. QED BY <1>5, <1>10, <2>1, <2>2 DEF Covered, Desired, Dockers
<1>11. CASE F \in {"ssh", "base"}
  BY <1>6, <1>11 DEF Confirmed, Covered, Desired, Dockers
<1>12. CASE F = "storage"
  <2>1. c.id = "storage.mount" => c.kind = "storage.mount" BY <1>2 DEF KindOf
  <2>2. c.id = "storage.mount" => host.mounted = "right"
    BY <1>6, <1>12, <2>1 DEF Confirmed, StorageConfirmed, Dockers
  <2>3. "storage.mount" \in T => "storage.mount" \in U \/ c.id = "storage.mount" BY <1>3
  <2>4. QED BY <1>6, <1>12, <2>2, <2>3 DEF Covered, Dockers
<1>13. QED BY <1>7, <1>8, <1>9, <1>10, <1>11, <1>12 DEF AllFeatures, Dockers

LEMMA ReadyStep ==
  ASSUME TypeInv, HarmInv, ReadyInv, Step
  PROVE  ReadyInv'
<1>1. [Next]_vars BY DEF Next
<1>2. P' = P /\ F' = F BY <1>1, SameMachine
<1>3. /\ stale' = stale /\ pc = "running" /\ script # <<>> /\ script \in Seq(Steps) /\ todo # {}
      /\ MachineOK /\ host \in Possible /\ outcome = "none"
  BY DEF Step, TypeInv, ApplyOK, HostOK
<1>4. CASE ~Able(Head(script), host)
  <2>1. pc' = "idle" /\ outcome' = "failed" BY <1>4 DEF Step, End
  <2>2. QED BY <2>1 DEF ReadyInv, SuccessIsReady
<1>5. CASE Able(Head(script), host)
  <2> DEFINE step == Head(script)
  <2>1. /\ host' = Do(step, host) /\ script' = Tail(script) /\ todo' = todo /\ step \in Steps
        /\ Able(step, host) /\ pc' = pc /\ outcome' = outcome
    BY <1>3, <1>5 DEF Step
  <2> HIDE DEF step
  <2>2. SuccessIsReady' BY <1>3, <2>1 DEF SuccessIsReady
  <2>3. SUFFICES ASSUME stale = "nothing" PROVE Covered(host, IDsOf(todo))' /\ Doing'
    BY <1>3, <2>2 DEF ReadyInv
  <2>4. Covered(host, IDsOf(todo)) /\ Doing BY <1>3, <2>3 DEF ReadyInv
  <2>5. IDsOf(todo) # {} BY <1>3 DEF IDsOf
  <2>6. Covered(Do(step, host), IDsOf(todo)) BY <1>3, <2>1, <2>4, <2>5, DoCovers
  <2>7. Covered(host, IDsOf(todo))'
    BY <1>2, <2>1, <2>6 DEF Covered, Desired, Ready, Effective, IDsOf
  <2>8. Doing'
    <3> DEFINE c == Following(todo)
    <3>1. \A b : b # step /\ ~Lacks(b, script) => ~Lacks(b, script') BY <1>3, <2>1, LacksHead DEF step
    <3>2. CASE F \in UnitFeatures
      <4>1. host \in UnitsOf(P, F) BY <1>3, <3>2 DEF Possible, HostsOf, UnitFeatures, Dockers
      <4>6. host \in Units BY <4>1, UnitsAreUnits
      <4>7. host.repo # "beside" BY <1>3, <2>3, <3>2 DEF HarmInv, Recognized
      <4>2. /\ host.repo = "managed" \/ step = "repo" => host'.repo = "managed"
            /\ host.main \/ step = "package" => host'.main
            /\ host'.conflict = host.conflict
        BY <2>1, <3>2, <4>6, <4>7, UnitEffects
      <4>3. step = "quiet" => ~host'.conflict BY <2>1, <3>2, <4>2, UnitSteps DEF UnitAble
      <4>4. (c.kind)' = c.kind BY <2>1
      <4>5. QED BY <1>2, <2>4, <3>1, <4>2, <4>3, <4>4 DEF Doing
    <3>3. CASE F \notin UnitFeatures
      <4>1. ChangeOK(c) BY <1>3, AtHand DEF TypeInv, TodoOK
      <4>3. c.id \in Parts /\ c.kind = KindOf(c.id) BY <4>1 DEF ChangeOK
      <4>4. F \in {"ssh", "base", "storage"}
        BY <1>3, <3>3, HostModulesAssumption DEF MachineOK, F, AllFeatures, UnitFeatures, Dockers
      <4>5. c.id \in {"ssh.hardening", "base.data-root", "base.data-root.permissions", "storage.mountpoint",
                     "storage.mount-config", "storage.mount"}
        BY <4>3, <4>4 DEF Parts, Dockers
      <4>6. c.kind \notin {"tailscale.install", "updates.enable-unattended"} BY <4>3, <4>5 DEF KindOf
      <4>7. QED BY <1>2, <2>1, <4>6 DEF Doing
    <3>4. QED BY <3>2, <3>3
  <2>9. QED BY <2>7, <2>8
<1>6. QED BY <1>4, <1>5

\* Everything but a step: planning finds what is to do, verification strikes it off, edits make the plan out of date.
LEMMA ReadyElse ==
  ASSUME TypeInv, ReadyInv, Next, ~Step
  PROVE  ReadyInv'
<1>1. [Next]_vars BY DEF Next
<1>2. P' = P /\ F' = F BY <1>1, SameMachine
<1>3. MachineOK /\ host \in Possible /\ F \in AllFeatures
  BY HostModulesAssumption DEF TypeInv, HostOK, MachineOK, F
<1>4. ASSUME pc' = "idle", outcome' # "success" PROVE ReadyInv' BY <1>4 DEF ReadyInv, SuccessIsReady
<1>5. ASSUME host' = host, Desired(host) \/ <<P, F>> \in {"devuan"} \X Dockers, pc' = "idle" PROVE ReadyInv'
  <2>1. Desired(host)' = Desired(host) BY <1>2, <1>5 DEF Desired, Ready, Effective
  <2>2. QED BY <1>2, <1>5, <2>1 DEF ReadyInv, SuccessIsReady
<1>6. ASSUME host' = host, pc' # "idle", outcome' # "success",
             stale' = "nothing" => Covered(host, IDsOf(todo')),
             stale' = "nothing" /\ pc' = "running" => Doing'
      PROVE  ReadyInv'
  <2>1. Covered(host, IDsOf(todo))' = Covered(host, IDsOf(todo'))
    BY <1>2, <1>6 DEF Covered, Desired, Ready, Effective, IDsOf
  <2>2. QED BY <1>6, <2>1 DEF ReadyInv, SuccessIsReady
<1>7. CASE Start
  <2>1. host' = host BY <1>7 DEF Start
  <2>2. CASE End("error") \/ End("blocked") BY <1>4, <2>2 DEF End
  <2>3. CASE ~(End("error") \/ End("blocked"))
    <3>1. \A c \in Plan(host) : ~c.blocked BY <1>7, <2>3 DEF Start
    <3>2. Covered(host, IDsOf(Plan(host))) BY <1>3, <3>1, PlanCovers
    <3>3. CASE Plan(host) = {}
      <4>1. Covered(host, {}) BY <3>2, <3>3 DEF IDsOf
      <4>2. pc' = "idle" BY <1>7, <3>3 DEF Start, End
      <4>3. QED BY <1>3, <1>5, <2>1, <4>1, <4>2, CoveredIsDesired
    <3>4. CASE Plan(host) # {}
      <4>1. todo' = Plan(host) /\ pc' = "planned" /\ outcome' = "none" BY <1>7, <2>3, <3>1, <3>4 DEF Start
      <4>2. QED BY <1>6, <2>1, <3>2, <4>1
    <3>5. QED BY <3>3, <3>4
  <2>4. QED BY <2>2, <2>3
<1>8. CASE Check
  <2>1. host' = host /\ pc = "planned" /\ todo # {} BY <1>8 DEF Check
  <2>2. CASE End("failed") BY <1>4, <2>2 DEF End
  <2>3. CASE ~End("failed")
    <3>1. /\ Following(todo).kind \in Accepted /\ script' = Script(Following(todo)) /\ todo' = todo
          /\ \A pre \in Following(todo).pre : Holds(pre, host)
          /\ pc' = "running" /\ outcome' = outcome /\ (stale' = "nothing" => stale = "nothing")
      BY <1>8, <2>3 DEF Check
    <3>2. outcome = "none" BY <2>1 DEF TypeInv, ApplyOK
    <3>3. Doing' BY <1>2, <2>1, <3>1, DoingStarts DEF Doing
    <3>4. stale' = "nothing" => Covered(host, IDsOf(todo')) BY <2>1, <3>1 DEF ReadyInv
    <3>5. QED BY <1>6, <2>1, <3>1, <3>2, <3>3, <3>4
  <2>4. QED BY <2>2, <2>3
<1>9. CASE Interrupt BY <1>4, <1>9 DEF Interrupt, End
<1>10. CASE Verify
  <2>1. host' = host /\ stale' = stale /\ pc = "running" /\ script = <<>> BY <1>10 DEF Verify
  <2>2. CASE End("failed") BY <1>4, <2>2 DEF End
  <2>3. CASE ~End("failed")
    <3>1. /\ Confirmed(Following(todo), host) /\ pc' = "planned" /\ todo' = todo \ {Following(todo)}
          /\ outcome' = outcome
      BY <1>10, <2>3 DEF Verify
    <3>2. outcome = "none" BY <2>1 DEF TypeInv, ApplyOK
    <3>3. stale' = "nothing" => Covered(host, IDsOf(todo')) BY <2>1, <3>1, ConfirmedCovers DEF ReadyInv
    <3>4. QED BY <1>6, <2>1, <3>1, <3>2, <3>3
  <2>4. QED BY <2>2, <2>3
<1>11. CASE Replan
  <2>1. host' = host /\ stale' = stale /\ pc = "planned" /\ todo = {} /\ pc' = "idle" BY <1>11 DEF Replan, End
  <2>2. CASE stale = "nothing"
    <3>1. Covered(host, {}) BY <2>1, <2>2 DEF ReadyInv, IDsOf
    <3>2. QED BY <1>3, <1>5, <2>1, <3>1, CoveredIsDesired
  <2>3. CASE stale # "nothing" BY <2>1, <2>3 DEF ReadyInv, SuccessIsReady
  <2>4. QED BY <2>2, <2>3
<1>12. CASE Edit BY <1>12 DEF Edit, ReadyInv, SuccessIsReady
<1>13. QED BY <1>7, <1>8, <1>9, <1>10, <1>11, <1>12 DEF Next

LEMMA ReadyInvariant == Spec => []ReadyInv
<1>1. Init => ReadyInv BY DEF Init, ReadyInv, SuccessIsReady
<1>2. TypeInv /\ HarmInv /\ ReadyInv /\ [Next]_vars => ReadyInv'
  <2> SUFFICES ASSUME TypeInv, HarmInv, ReadyInv, [Next]_vars PROVE ReadyInv' OBVIOUS
  <2>1. CASE Step BY <2>1, ReadyStep
  <2>2. CASE Next /\ ~Step BY <2>2, ReadyElse
  <2>3. CASE UNCHANGED vars
    <3>1. P' = P /\ F' = F BY SameMachine
    <3>2. SuccessIsReady' BY <2>3, <3>1 DEF ReadyInv, SuccessIsReady, Desired, Ready, Effective, vars
    <3>3. Covered(host, IDsOf(todo))' = Covered(host, IDsOf(todo))
      BY <2>3, <3>1 DEF Covered, Desired, Ready, Effective, IDsOf, vars
    <3>4. Doing' = Doing BY <2>3, <3>1 DEF Doing, vars
    <3>5. QED BY <2>3, <3>2, <3>3, <3>4 DEF ReadyInv, vars
  <2>4. QED BY <2>1, <2>2, <2>3
<1>3. QED BY <1>1, <1>2, TypeInvariant, HarmInvariant, PTL DEF Spec

\* However many applies were interrupted and whatever was edited before: an apply that ends in success, and a plan
\* without changes, mean that the host is as the configuration asks.  What is not so yet is always a change of the
\* plan (Covered), a step undoes nothing, and a change is struck off only when verification saw what it is for or
\* the script is known to have done it (Doing).
THEOREM SuccessIsReadyAlways == Spec => []SuccessIsReady
<1>1. ReadyInv => SuccessIsReady BY DEF ReadyInv
<1>2. QED BY <1>1, ReadyInvariant, PTL

-----------------------------------------------------------------------------
(* What is in the way of a plan. *)

\* With root at hand, only its own reason blocks a change.
LEMMA ChangeBlocks ==
  \A id, kind, deps, pre, reason : machine.sudo => (Change(id, kind, deps, pre, reason).blocked <=> reason)
BY DEF Change

LEMMA UnionBlocks ==
  \A A, B : NoneBlocked(A \cup B) <=> NoneBlocked(A) /\ NoneBlocked(B)
BY DEF NoneBlocked

LEMMA WhenBlocks ==
  ASSUME machine.sudo, NEW wanted, NEW id, NEW kind, NEW deps, NEW pre, NEW reason
  PROVE  NoneBlocked(When(wanted, Change(id, kind, deps, pre, reason))) <=> (wanted => ~reason)
BY ChangeBlocks DEF NoneBlocked, When

LEMMA InstallBlocks ==
  ASSUME machine.sudo, NEW wanted, NEW pre, NEW reason
  PROVE  NoneBlocked(Install(wanted, pre, reason)) <=> (wanted => ~reason)
BY WhenBlocks DEF Install

LEMMA ServeBlocks ==
  ASSUME machine.sudo, NEW f, NEW deps, NEW reason
  PROVE  NoneBlocked(Serve(f, deps, reason)) <=> (~f.ready => ~reason)
BY WhenBlocks DEF Serve

LEMMA ComposeBlocks ==
  ASSUME machine.sudo, NEW wanted, NEW deps, NEW reason
  PROVE  NoneBlocked(Compose(wanted, deps, reason)) <=> (wanted /\ F = "compose" => ~reason)
BY WhenBlocks DEF Compose

LEMMA FetchBlocks ==
  ASSUME machine.sudo, NEW wanted, NEW pre, NEW reason
  PROVE  NoneBlocked(Fetch(wanted, pre, reason)) <=> (wanted => ~reason)
BY WhenBlocks DEF Fetch

LEMMA JoinBlocks ==
  ASSUME machine.sudo, NEW f, NEW deps, NEW reason
  PROVE  NoneBlocked(Join(f, deps, reason)) <=> (~f.ready => ~reason)
BY WhenBlocks DEF Join

LEMMA BlockedBlocks ==
  ASSUME NEW id, NEW kind PROVE ~NoneBlocked({Blocked(id, kind)})
BY DEF NoneBlocked, Blocked, Change

LEMMA DockerBlocks ==
  ASSUME MachineOK, machine.sudo, F \in Dockers, NEW f
  PROVE  NoneBlocked(PlanDocker(f)) <=> DockerClear(f)
<1> DEFINE need == ~f.installed \/ ~f.complete
<1>0. P \in AllPlatforms BY HostModulesAssumption DEF MachineOK, P
<1>1. CASE P = "debian"
  <2> DEFINE A == Install(~f.installed, {"absent"}, FALSE)
             B == Serve(f, Dep(~f.installed, "docker.engine"), FALSE)
             C == Compose(~f.compose, Behind(f, ~f.installed), ~f.available)
  <2>1. PlanDocker(f) = (A \cup B) \cup C BY <1>1 DEF PlanDocker, PlanDebianDocker, Zypper
  <2>2. NoneBlocked(A) BY InstallBlocks
  <2>3. NoneBlocked(B) BY ServeBlocks
  <2>4. NoneBlocked(C) <=> (F = "compose" /\ ~f.compose => f.available) BY ComposeBlocks
  <2> HIDE DEF A, B, C
  <2>5. QED BY <1>1, <2>1, <2>2, <2>3, <2>4, UnionBlocks DEF DockerClear
<1>2. CASE P = "devuan"
  <2> DEFINE A == Install(need, {"available"}, ~f.available)
             B == Serve(f, Dep(need, "docker.engine"), need /\ ~f.available)
  <2>1. PlanDocker(f) = A \cup B BY <1>2 DEF PlanDocker, PlanDevuanDocker, Zypper
  <2>2. NoneBlocked(A) <=> (need => f.available) BY InstallBlocks
  <2>3. NoneBlocked(B) <=> (~f.ready => ~(need /\ ~f.available)) BY ServeBlocks
  <2> HIDE DEF A, B
  <2>4. QED BY <1>2, <2>1, <2>2, <2>3, UnionBlocks DEF DockerClear
<1>3. CASE P = "artix"
  <2> DEFINE A == Install(need, {"available"}, ~f.available)
             B == Serve(f, Dep(need, "docker.engine"), (f.installed /\ ~f.definition) \/ (need /\ ~f.available))
  <2>1. PlanDocker(f) = IF ~f.cgroups THEN {Blocked("docker.cgroups", "docker.cgroups-blocked")} ELSE A \cup B
    BY <1>3 DEF PlanDocker, PlanArtixDocker, Zypper
  <2>2. NoneBlocked(A) <=> (need => f.available) BY InstallBlocks
  <2>3. NoneBlocked(B) <=> (~f.ready => ~((f.installed /\ ~f.definition) \/ (need /\ ~f.available))) BY ServeBlocks
  <2> HIDE DEF A, B
  <2>4. QED BY <1>3, <2>1, <2>2, <2>3, UnionBlocks, BlockedBlocks DEF DockerClear
<1>4. CASE P = "alpine"
  <2> DEFINE more == ~f.installed \/ ~f.complete \/ f.repo # "managed"
             stuck == f.repo = "unmanaged" \/ ~f.available
             A == When(f.cgsvc = "off", Change("docker.cgroups", "docker.enable-cgroups", {}, {}, FALSE))
             B == Install(more, {"repository-safe", "available"}, stuck)
             C == Serve(f, Dep(f.cgsvc = "off", "docker.cgroups") \cup Dep(more, "docker.engine"), more /\ stuck)
  <2>1. PlanDocker(f) =
          IF ~f.cgroups THEN {Blocked("docker.cgroups", "docker.cgroups-blocked")} ELSE (A \cup B) \cup C
    BY <1>4 DEF PlanDocker, PlanAlpineDocker, Zypper
  <2>2. NoneBlocked(A) BY WhenBlocks
  <2>3. NoneBlocked(B) <=> (more => ~stuck) BY InstallBlocks
  <2>4. NoneBlocked(C) <=> (~f.ready => ~(more /\ stuck)) BY ServeBlocks
  <2> HIDE DEF A, B, C
  <2>5. QED BY <1>4, <2>1, <2>2, <2>3, <2>4, UnionBlocks, BlockedBlocks DEF DockerClear
<1>5. CASE P = "void"
  <2> DEFINE A == Install(need, {"available", "provenance", "constraints"}, ~f.available)
             B == Serve(f, Dep(need, "docker.engine"),
                        f.link = "conflict" \/ (~need /\ ~f.definition) \/ (need /\ ~f.available))
             C == Compose(~f.compose /\ ~need, {"docker.service"}, ~f.available)
  <2>1. PlanDocker(f) =
          IF f.repo = "unmanaged" \/ f.held THEN {Blocked("docker.engine", "docker.install-engine")}
          ELSE IF ~f.cgroups THEN {Blocked("docker.cgroups", "docker.cgroups-blocked")} ELSE (A \cup B) \cup C
    BY <1>5 DEF PlanDocker, PlanVoidDocker, Zypper
  <2>2. NoneBlocked(A) <=> (need => f.available) BY InstallBlocks
  <2>3. NoneBlocked(B) <=>
          (~f.ready => ~(f.link = "conflict" \/ (~need /\ ~f.definition) \/ (need /\ ~f.available)))
    BY ServeBlocks
  <2>4. NoneBlocked(C) <=> (F = "compose" /\ ~f.compose /\ ~need => f.available) BY ComposeBlocks
  <2> HIDE DEF A, B, C
  <2>5. QED BY <1>5, <2>1, <2>2, <2>3, <2>4, UnionBlocks, BlockedBlocks DEF DockerClear
<1>6. CASE P \in {"arch", "leap", "tumbleweed", "fedora"}
  <2> DEFINE pre == IF P = "arch" THEN {"available"} ELSE {"no-conflict"}
             A == Install(need, pre, ~f.available)
             B == Serve(f, Dep(need, "docker.engine"), need /\ ~f.available)
             C == Compose(~f.compose, Behind(f, need), ~f.available)
  <2>1. PlanDocker(f) = IF P # "arch" /\ f.conflict THEN {Blocked("docker.conflict", "docker.conflict")}
                        ELSE (A \cup B) \cup C
    BY <1>6 DEF PlanDocker, PlanArchDocker, PlanOpenSUSEDocker, PlanFedoraDocker, Zypper
  <2>2. NoneBlocked(A) <=> (need => f.available) BY InstallBlocks
  <2>3. NoneBlocked(B) <=> (~f.ready => ~(need /\ ~f.available)) BY ServeBlocks
  <2>4. NoneBlocked(C) <=> (F = "compose" /\ ~f.compose => f.available) BY ComposeBlocks
  <2> HIDE DEF A, B, C
  <2>5. QED BY <1>6, <2>1, <2>2, <2>3, <2>4, UnionBlocks, BlockedBlocks DEF DockerClear
<1>7. CASE P = "enterprise"
  <2> DEFINE more == ~f.installed \/ ~f.complete \/ f.repo # "managed"
             stuck == f.repo = "managed" /\ ~f.available
             A == Install(more, {"no-conflict", "repository-safe"}, stuck)
             B == Serve(f, Dep(more, "docker.engine"), more /\ stuck)
             C == Compose(~f.compose, Behind(f, more), stuck)
  <2>1. PlanDocker(f) =
          IF f.conflict THEN {Blocked("docker.conflict", "docker.conflict")}
          ELSE IF f.repo = "unmanaged" THEN {Blocked("docker.repository", "docker.repository-conflict")}
          ELSE (A \cup B) \cup C
    BY <1>7 DEF PlanDocker, PlanEnterpriseDocker, Zypper
  <2>2. NoneBlocked(A) <=> (more => ~stuck) BY InstallBlocks
  <2>3. NoneBlocked(B) <=> (~f.ready => ~(more /\ stuck)) BY ServeBlocks
  <2>4. NoneBlocked(C) <=> (F = "compose" /\ ~f.compose => ~stuck) BY ComposeBlocks
  <2> HIDE DEF A, B, C
  <2>5. QED BY <1>7, <2>1, <2>2, <2>3, <2>4, UnionBlocks, BlockedBlocks DEF DockerClear
<1>8. QED BY <1>0, <1>1, <1>2, <1>3, <1>4, <1>5, <1>6, <1>7 DEF AllPlatforms

LEMMA TailscaleBlocks ==
  ASSUME machine.sudo, F = "tailscale", NEW f
  PROVE  NoneBlocked(PlanTailscale(f)) <=> TailscaleClear(f)
<1>1. CASE P = "devuan"
  <2> DEFINE need == ~f.installed \/ f.repo # "managed"
             stuck == f.repo = "managed" /\ ~f.available
             A == Fetch(need, {"repository-safe", "candidates"}, stuck)
             B == Join(f, Dep(need, "tailscale.package"), f.link = "conflict" \/ (need /\ stuck))
  <2>1. PlanTailscale(f) = IF f.repo = "unmanaged" THEN Unowned ELSE A \cup B
    BY <1>1 DEF PlanTailscale, PlanDevuanTailscale, RPM, DNF, Zypper
  <2>2. NoneBlocked(A) <=> (need => ~stuck) BY FetchBlocks
  <2>3. NoneBlocked(B) <=> (~f.ready => ~(f.link = "conflict" \/ (need /\ stuck))) BY JoinBlocks
  <2> HIDE DEF A, B
  <2>4. QED BY <1>1, <2>1, <2>2, <2>3, UnionBlocks, BlockedBlocks DEF TailscaleClear, Unowned
<1>2. CASE P = "artix"
  <2> DEFINE need == ~f.installed \/ ~f.definition
             A == Fetch(need, {"available"}, ~f.available)
             B == Join(f, Dep(need, "tailscale.package"), (f.installed /\ ~f.definition) \/ (need /\ ~f.available))
  <2>1. PlanTailscale(f) = A \cup B BY <1>2 DEF PlanTailscale, PlanArtixTailscale, RPM, DNF, Zypper
  <2>2. NoneBlocked(A) <=> (need => f.available) BY FetchBlocks
  <2>3. NoneBlocked(B) <=> (~f.ready => ~((f.installed /\ ~f.definition) \/ (need /\ ~f.available))) BY JoinBlocks
  <2> HIDE DEF A, B
  <2>4. QED BY <1>2, <2>1, <2>2, <2>3, UnionBlocks DEF TailscaleClear
<1>3. CASE P = "alpine"
  <2> DEFINE need == ~f.installed \/ f.repo # "managed"
             stuck == f.repo = "unmanaged" \/ ~f.available
             A == Fetch(need, {"repository-safe", "available"}, stuck)
             B == Join(f, Dep(need, "tailscale.package"), need /\ stuck)
  <2>1. PlanTailscale(f) = A \cup B BY <1>3 DEF PlanTailscale, PlanAlpineTailscale, RPM, DNF, Zypper
  <2>2. NoneBlocked(A) <=> (need => ~stuck) BY FetchBlocks
  <2>3. NoneBlocked(B) <=> (~f.ready => ~(need /\ stuck)) BY JoinBlocks
  <2> HIDE DEF A, B
  <2>4. QED BY <1>3, <2>1, <2>2, <2>3, UnionBlocks DEF TailscaleClear
<1>4. CASE P = "void"
  <2> DEFINE need == ~f.installed
             stuck == f.held \/ ~f.available
             A == Fetch(need, {"available", "provenance", "constraints"}, stuck)
             B == Join(f, Dep(need, "tailscale.package"),
                       f.link = "conflict" \/ (f.installed /\ ~f.definition) \/ (need /\ stuck))
  <2>1. PlanTailscale(f) = IF f.repo = "unmanaged" THEN Unowned ELSE A \cup B
    BY <1>4 DEF PlanTailscale, PlanVoidTailscale, RPM, DNF, Zypper
  <2>2. NoneBlocked(A) <=> (need => ~stuck) BY FetchBlocks
  <2>3. NoneBlocked(B) <=>
          (~f.ready => ~(f.link = "conflict" \/ (f.installed /\ ~f.definition) \/ (need /\ stuck)))
    BY JoinBlocks
  <2> HIDE DEF A, B
  <2>4. QED BY <1>4, <2>1, <2>2, <2>3, UnionBlocks, BlockedBlocks DEF TailscaleClear, Unowned
<1>5. CASE P \notin {"devuan", "artix", "alpine", "void"}
  <2> DEFINE need == ~f.installed \/ (P \in RPM /\ f.repo # "managed")
             pre == {"absent"} \cup Dep(P \in RPM, "repository-safe") \cup Dep(P = "arch", "available")
             stuck == P = "arch" /\ ~f.available
             A == Fetch(need, pre, stuck)
             B == Join(f, Dep(~f.installed, "tailscale.package"), ~f.installed /\ stuck)
  <2>1. PlanTailscale(f) =
          IF P \in RPM /\ f.repo = "unmanaged" THEN {Blocked("tailscale.repository", "tailscale.repository-conflict")}
          ELSE A \cup B
    BY <1>5 DEF PlanTailscale
  <2>2. NoneBlocked(A) <=> (need => ~stuck) BY FetchBlocks
  <2>3. NoneBlocked(B) <=> (~f.ready => ~(~f.installed /\ stuck)) BY JoinBlocks
  <2>4. P = "arch" => P \notin RPM BY DEF RPM, DNF, Zypper
  <2> HIDE DEF A, B
  <2>5. QED BY <1>5, <2>1, <2>2, <2>3, <2>4, UnionBlocks, BlockedBlocks DEF TailscaleClear
<1>6. QED BY <1>1, <1>2, <1>3, <1>4, <1>5

LEMMA UpdatesBlocks ==
  ASSUME machine.sudo, F = "updates", NEW f
  PROVE  NoneBlocked(PlanUpdates(f)) <=> UpdatesClear(f)
<1>1. \A pre, reason : NoneBlocked(Update(pre, reason)) <=> ~reason
  BY ChangeBlocks DEF NoneBlocked, Update
<1>2. NoneBlocked({}) BY DEF NoneBlocked
<1>3. QED
  BY <1>1, <1>2, BlockedBlocks DEF PlanUpdates, PlanAlpineUpdates, PlanDevuanUpdates, PlanFedoraUpdates,
     PlanEnterpriseUpdates, PlanOpenSUSEUpdates, UpdatesClear, UpdatesDone, Zypper

\* What Bebop's scripts alone make of a package set that was planned with nothing in the way gets in nobody's way, but
\* for the known traces.
LEMMA DockerGrows ==
  ASSUME MachineOK, machine.sudo, F \in Dockers, NEW g \in UnitsOf(P, F), host \in UnitsOf(P, F),
         DockerClear(UnitFacts(g)), GrownUnits(g, host)
  PROVE  DockerClear(UnitFacts(host)) \/ Tripwire
<1>0. P \in AllPlatforms BY HostModulesAssumption DEF MachineOK, P
<1> USE DEF UnitFacts, Seen, UnitsOf, GrownUnits, Tripwire, Dockers, DevuanUpdatesFacts, Ownership, Unrecognized
<1>1. CASE P = "debian" BY <1>1 DEF DockerClear
<1>2. CASE P = "devuan" BY <1>2 DEF DockerClear, DevuanDockerFacts, Offered
<1>3. CASE P = "artix" BY <1>3 DEF DockerClear, Offered
<1>4. CASE P = "alpine" BY <1>4 DEF DockerClear, AlpineDockerFacts, AlpineRepository, Only, Owned, ReposOf,
                                    LenientCheck, LastCounts
<1>5. CASE P = "void" BY <1>5 DEF DockerClear, VoidFacts, Offered, Only, Owned, ReposOf, LenientCheck, LastCounts
<1>6. CASE P = "enterprise" BY <1>6 DEF DockerClear, Offered, Only, Owned, ReposOf, LenientCheck, LastCounts
<1>7. CASE P \in {"arch", "leap", "tumbleweed", "fedora"} BY <1>7 DEF DockerClear, Offered
<1>8. QED BY <1>0, <1>1, <1>2, <1>3, <1>4, <1>5, <1>6, <1>7 DEF AllPlatforms

LEMMA TailscaleGrows ==
  ASSUME MachineOK, machine.sudo, F = "tailscale", NEW g \in UnitsOf(P, F), host \in UnitsOf(P, F),
         TailscaleClear(UnitFacts(g)), GrownUnits(g, host)
  PROVE  TailscaleClear(UnitFacts(host)) \/ Tripwire
<1> USE DEF UnitFacts, Seen, UnitsOf, GrownUnits, Tripwire, Dockers, TailscaleClear, DevuanUpdatesFacts, Ownership,
            Unrecognized
<1>1. CASE P = "devuan" BY <1>1 DEF DevuanTailscaleFacts, Only, Owned, ReposOf, LenientCheck, LastCounts
<1>2. CASE P = "artix" BY <1>2
<1>3. CASE P = "alpine"
  <2>1. \A h : UnitFacts(h) = AlpineTailscaleFacts(h) BY <1>3
  <2>2. \A h : /\ AlpineTailscaleFacts(h).installed = (h.main /\ h.rest)
               /\ AlpineTailscaleFacts(h).repo = AlpineRepository(h) /\ AlpineTailscaleFacts(h).available = h.avail
    BY DEF AlpineTailscaleFacts
  <2> HIDE DEF UnitFacts, DevuanUpdatesFacts
  <2>3. QED BY <1>3, <2>1, <2>2 DEF AlpineRepository, Only, Owned, ReposOf, LenientCheck, LastCounts
<1>4. CASE P = "void" BY <1>4 DEF VoidFacts, Only, Owned, ReposOf, LenientCheck, LastCounts
<1>5. CASE P \notin {"devuan", "artix", "alpine", "void"} BY <1>5
    DEF Only, Owned, RPM, DNF, Zypper, LeapUpdatesFacts, ReposOf, LenientCheck, LastCounts
<1>6. QED BY <1>1, <1>2, <1>3, <1>4, <1>5

LEMMA UpdatesGrow ==
  ASSUME MachineOK, machine.sudo, F = "updates", NEW g \in UnitsOf(P, F), host \in UnitsOf(P, F),
         UpdatesClear(UnitFacts(g)), GrownUnits(g, host)
  PROVE  UpdatesClear(UnitFacts(host)) \/ Tripwire
<1> USE DEF UnitFacts, Seen, UnitsOf, GrownUnits, Tripwire, Dockers, UpdatesClear, UpdatesDone, DevuanUpdatesFacts,
            Ownership, Unrecognized
<1>1. CASE P = "alpine" BY <1>1 DEF AlpineUpdatesFacts, AlpineRepository, Only, Owned, ReposOf, LenientCheck, LastCounts
<1>2. CASE P = "devuan"
  <2>1. \A h : UnitFacts(h) = DevuanUpdatesFacts(h) BY <1>2
  <2>2. \A h : /\ (DevuanUpdatesFacts(h).repo = "unmanaged" <=> h.repo # "absent")
               /\ DevuanUpdatesFacts(h).definition = h.definition /\ DevuanUpdatesFacts(h).available = h.avail
    BY DEF DevuanUpdatesFacts
  <2> HIDE DEF UnitFacts, DevuanUpdatesFacts
  <2>3. QED BY <1>2, <2>1, <2>2 DEF Zypper
<1>3. CASE P = "fedora" BY <1>3
<1>4. CASE P = "enterprise" BY <1>4
<1>5. CASE P = "leap" BY <1>5 DEF LeapUpdatesFacts, Zypper
<1>6. CASE P = "tumbleweed" BY <1>6 DEF Zypper
<1>7. CASE P \notin {"alpine", "devuan", "fedora", "enterprise", "leap", "tumbleweed"} BY <1>7 DEF Zypper, VoidFacts
<1>8. QED BY <1>1, <1>2, <1>3, <1>4, <1>5, <1>6, <1>7

LEMMA SSHGrows ==
  ASSUME machine.sudo, F = "ssh", NEW g \in Shells, host \in Shells, NoneBlocked(Plan(g)), Grown(g, host)
  PROVE  NoneBlocked(Plan(host)) \/ Tripwire
<1>1. \A h : NoneBlocked(Plan(h)) <=>
        (h.installed /\ ~(h.dropin = "ours" /\ Effective(h)) =>
           ~(\/ machine.root \/ ~h.keys \/ ~h.valid \/ ~DropInSupported(h) \/ h.earlier # "none"
             \/ (P \in {"void", "devuan", "artix"} /\ h.service # "up")))
  BY WhenBlocks DEF Plan, Dockers, PlanSSH
<1>2. /\ host.installed = g.installed /\ host.wins = g.wins /\ host.keys = g.keys /\ host.valid = g.valid
      /\ host.included = g.included /\ host.service = g.service
      /\ host.earlier \in {g.earlier, "none", "leftover"} /\ host.dropin \in {g.dropin, "ours"}
  BY DEF Grown, UnitFeatures, Dockers
<1>3. QED BY <1>1, <1>2 DEF Effective, DropInSupported, Tripwire, Shells, Unrecognized

LEMMA StorageGrows ==
  ASSUME machine.sudo, F = "storage", NEW g \in Disks, host \in Disks, NoneBlocked(Plan(g)), Grown(g, host)
  PROVE  NoneBlocked(Plan(host))
<1>1. \A h : NoneBlocked(Plan(h)) <=> Assess(h) = "ready" \/ (Assess(h) = "missing" /\ machine.managed)
  <2> TAKE h
  <2>1. Plan(h) = PlanStorage(h) BY DEF Plan, Dockers
  <2>2. NoneBlocked({}) BY DEF NoneBlocked
  <2>3. NoneBlocked({Change("storage.mountpoint", "storage.prepare-mountpoint", {}, {"mountpoint"}, FALSE),
          Change("storage.mount-config", "storage.configure-mount", {"storage.mountpoint"}, {"fstab"}, FALSE),
          Change("storage.mount", "storage.mount", {"storage.mount-config"}, {"mountpoint", "configured"}, FALSE)})
    BY ChangeBlocks DEF NoneBlocked
  <2>4. QED BY <2>1, <2>2, <2>3, BlockedBlocks DEF PlanStorage
<1>2. /\ host.mounted \in {g.mounted, "right"}
      /\ host.fstab = g.fstab \/ (g.fstab = "absent" /\ host.fstab = "exact")
  BY DEF Grown, UnitFeatures, Dockers
<1>3. QED BY <1>1, <1>2 DEF Assess, Disks

LEMMA BaseIsFree ==
  ASSUME machine.sudo, F = "base", NEW h
  PROVE  NoneBlocked(Plan(h))
<1>1. Plan(h) = PlanBase(h) BY DEF Plan, Dockers
<1> DEFINE A == When(h.root = "absent", Change("base.data-root", "base.create-data-root", {}, {"absent"}, FALSE))
           B == When(h.root = "wrong",
                     Change("base.data-root.permissions", "base.set-data-root-permissions", {}, {}, FALSE))
<1>2. PlanBase(h) = A \cup B BY DEF PlanBase
<1>3. NoneBlocked(A) /\ NoneBlocked(B) BY WhenBlocks
<1> HIDE DEF A, B
<1>4. QED BY <1>1, <1>2, <1>3, UnionBlocks

LEMMA GrowthBlocksNothing ==
  ASSUME TypeInv, machine.sudo, NEW g \in Possible, NoneBlocked(Plan(g)), Grown(g, host)
  PROVE  NoneBlocked(Plan(host)) \/ Tripwire
<1>0. F \in AllFeatures /\ MachineOK /\ host \in Possible BY HostModulesAssumption DEF TypeInv, HostOK, MachineOK, F
<1>1. F \in UnitFeatures => /\ g \in UnitsOf(P, F) /\ host \in UnitsOf(P, F) /\ GrownUnits(g, host)
  BY <1>0 DEF UnitFeatures, Dockers, Possible, HostsOf, Grown
<1>2. CASE F \in Dockers
  <2>1. \A h : Plan(h) = PlanDocker(UnitFacts(h)) BY <1>2 DEF Plan, Dockers
  <2>2. QED BY <1>0, <1>1, <1>2, <2>1, DockerBlocks, DockerGrows DEF UnitFeatures
<1>3. CASE F = "tailscale"
  <2>1. \A h : Plan(h) = PlanTailscale(UnitFacts(h)) BY <1>3 DEF Plan, Dockers
  <2>2. QED BY <1>0, <1>1, <1>3, <2>1, TailscaleBlocks, TailscaleGrows DEF UnitFeatures
<1>4. CASE F = "updates"
  <2>1. \A h : Plan(h) = PlanUpdates(UnitFacts(h)) BY <1>4 DEF Plan, Dockers
  <2>2. QED BY <1>0, <1>1, <1>4, <2>1, UpdatesBlocks, UpdatesGrow DEF UnitFeatures
<1>5. CASE F = "ssh" BY <1>0, <1>5, SSHGrows DEF Possible
<1>6. CASE F = "base" BY <1>6, BaseIsFree
<1>7. CASE F = "storage" BY <1>0, <1>7, StorageGrows DEF Possible, HostsOf, Dockers
<1>8. QED BY <1>0, <1>2, <1>3, <1>4, <1>5, <1>6, <1>7 DEF AllFeatures, Dockers

LEMMA GrownSelf ==
  ASSUME MachineOK, NEW g \in Possible
  PROVE  Grown(g, g)
<1>0. F \in AllFeatures BY HostModulesAssumption DEF MachineOK, F
<1>1. CASE F = "ssh" BY <1>1 DEF Grown, UnitFeatures, Dockers, Possible, Shells
<1>2. CASE F # "ssh" BY <1>0, <1>2 DEF Grown, GrownUnits, UnitFeatures, Dockers, AllFeatures
<1>3. QED BY <1>1, <1>2

\* What a step adds to a package set is no more than the set may become.
LEMMA UnitsGrow ==
  ASSUME MachineOK, F \in UnitFeatures, NEW g \in UnitsOf(P, F), NEW h \in UnitsOf(P, F), GrownUnits(g, h),
         NEW step \in Steps, Able(step, h),
         step = "rest" => h.main /\ Offered(h),
         step = "compose" /\ P = "void" => h.main
  PROVE  GrownUnits(g, Do(step, h))
<1>0. h \in Units BY UnitsAreUnits
<1> USE DEF UnitsOf
<1>1. CASE step = "repo" BY <1>1 DEF GrownUnits, Do, Only, Offered, VoidFacts, Dockers, UnitDo, SSHDo, StorageDo,
                                     FileWritten, PackageInstalled, UnitFeatures
<1>2. CASE step = "index" BY <1>2 DEF GrownUnits, Do, Steps, UnitFeatures, Dockers, UnitDo, SSHDo, StorageDo,
                                      FileWritten, PackageInstalled
<1>3. CASE step = "package"
  <2>1. Offered(h) BY <1>3 DEF Able, UnitAble, SSHAble, StorageAble, Rechecked, Replaceable, Enableable, UnitFeatures,
                               Dockers
  <2>2. CASE P = "void"
    <3> DEFINE k == Do(step, h)
    <3>1. k = [h EXCEPT !.main = TRUE, !.definition = @ \/ (~h.main /\ P # "artix" /\ F # "updates"),
                        !.repo = IF P = "void" /\ VoidFacts(h).repo = "absent" THEN "managed" ELSE @]
      BY <1>3 DEF Do, UnitDo, SSHDo, StorageDo, FileWritten, PackageInstalled, UnitFeatures, Dockers
    <3>2. /\ k.avail = h.avail /\ k.conflict = h.conflict /\ k.held = h.held /\ k.cgroups = h.cgroups
          /\ k.cgsvc = h.cgsvc /\ k.plugin = h.plugin /\ k.rest = h.rest /\ k.link = h.link /\ k.run = h.run
          /\ k.main /\ (h.definition => k.definition)
          /\ k.repo = IF VoidFacts(h).repo = "absent" THEN "managed" ELSE h.repo
      BY <2>2, <3>1
    <3>3. h.main \/ (F \in Dockers /\ h.rest) \/ VoidFacts(h).repo = "absent" BY DEF VoidFacts, Seen, Ownership
    <3>4. VoidFacts(g).repo = "absent" <=> ~g.main /\ ~(F \in Dockers /\ g.rest) BY DEF VoidFacts, Seen, Ownership
    <3>5. VoidFacts(h).repo = "absent" <=> ~h.main /\ ~(F \in Dockers /\ h.rest) BY DEF VoidFacts, Seen, Ownership
    <3> HIDE DEF k
    <3>6. k.repo \in {g.repo, "managed"} BY <3>2 DEF GrownUnits
    <3>7. VoidFacts(g).repo = "absent" => k.repo = "managed"
      <4>1. CASE h.main = g.main /\ h.rest = g.rest BY <4>1, <3>2, <3>4, <3>5
      <4>2. CASE ~(h.main = g.main /\ h.rest = g.rest)
        <5>1. VoidFacts(g).repo = "absent" => h.repo = "managed" BY <2>2, <4>2 DEF GrownUnits
        <5>2. QED BY <3>2, <5>1
      <4>3. QED BY <4>1, <4>2
    <3>8. GrownUnits(g, k) BY <2>1, <3>2, <3>6, <3>7 DEF GrownUnits, Offered
    <3>9. QED BY <3>8 DEF k
  <2>3. CASE P # "void"
    <3> DEFINE k == Do(step, h)
    <3>1. /\ k.avail = h.avail /\ k.conflict = h.conflict /\ k.held = h.held /\ k.cgroups = h.cgroups
          /\ k.cgsvc = h.cgsvc /\ k.plugin = h.plugin /\ k.link = h.link /\ k.run = h.run /\ k.repo = h.repo
          /\ k.main /\ (h.rest => k.rest) /\ (h.definition => k.definition)
          /\ k.rest <=> h.rest
      BY <1>0, <1>3, <2>3, UnitEffects
    <3> HIDE DEF k
    <3>2. GrownUnits(g, k) BY <2>1, <2>3, <3>1 DEF GrownUnits, Offered
    <3>3. QED BY <3>2 DEF k
  <2>4. QED BY <2>2, <2>3
<1>4. CASE step = "rest"
  <2> DEFINE k == Do(step, h)
  <2>1. k = [h EXCEPT !.rest = TRUE, !.definition = @ \/ P = "artix"] BY <1>4
      DEF Do, UnitDo, SSHDo, StorageDo, FileWritten, PackageInstalled, UnitFeatures, Dockers
  <2>2. /\ k.avail = h.avail /\ k.conflict = h.conflict /\ k.held = h.held /\ k.cgroups = h.cgroups
        /\ k.cgsvc = h.cgsvc /\ k.plugin = h.plugin /\ k.main = h.main /\ k.link = h.link /\ k.run = h.run
        /\ k.rest /\ (h.definition => k.definition) /\ k.repo = h.repo
    BY <2>1
  <2>3. VoidFacts(g).repo = "absent" <=> ~g.main /\ ~(F \in Dockers /\ g.rest) BY DEF VoidFacts, Seen, Ownership
  <2>4. h.main /\ (F \in Dockers => Offered(g)) BY <1>4 DEF GrownUnits, Offered
  <2> HIDE DEF k
  <2>5. GrownUnits(g, k) BY <2>2, <2>3, <2>4 DEF GrownUnits
  <2>6. QED BY <2>5 DEF k
<1>5. CASE step = "compose"
  <2> DEFINE k == Do(step, h)
  <2>1. /\ k.avail = h.avail /\ k.conflict = h.conflict /\ k.held = h.held /\ k.cgroups = h.cgroups
        /\ k.cgsvc = h.cgsvc /\ k.plugin = h.plugin /\ k.link = h.link /\ k.run = h.run /\ k.repo = h.repo
        /\ k.rest /\ (h.main => k.main) /\ (h.definition => k.definition)
        /\ k.main <=> h.main
    BY <1>0, <1>5, UnitEffects
  <2>2. h.avail BY <1>5, UnitSteps DEF UnitAble
  <2> HIDE DEF k
  <2>3. F \in Dockers => Offered(g) BY <2>2 DEF GrownUnits, Offered
  <2>4. P = "void" => k.main BY <1>5, <2>1
  <2>5. P = "void" /\ VoidFacts(g).repo = "absent" => k.repo = "managed"
    <3>1. VoidFacts(g).repo = "absent" => ~g.main BY DEF VoidFacts, Seen, Ownership
    <3>2. QED BY <1>5, <2>1, <3>1 DEF GrownUnits
  <2>6. GrownUnits(g, k) BY <2>1, <2>3, <2>4, <2>5 DEF GrownUnits
  <2>7. QED BY <2>6 DEF k
<1>6. CASE step = "enable" BY <1>6 DEF GrownUnits, Do, Able, Only, UnitDo, SSHDo, StorageDo, FileWritten,
                                       PackageInstalled, UnitAble, SSHAble, StorageAble, Rechecked, Replaceable,
                                       Enableable, UnitFeatures, Dockers
<1>7. CASE step = "start" BY <1>7 DEF GrownUnits, Do, UnitDo, SSHDo, StorageDo, FileWritten, PackageInstalled,
                                      UnitFeatures, Dockers
<1>8. CASE step \in {"recheck", "quiet"} BY <1>8 DEF Do, UnitDo, SSHDo, StorageDo, FileWritten, PackageInstalled,
                                                     UnitFeatures, Dockers
<1>9. QED BY <1>1, <1>2, <1>3, <1>4, <1>5, <1>6, <1>7, <1>8 DEF Steps, UnitFeatures, Dockers

LEMMA HostGrows ==
  ASSUME TypeInv, NEW g \in Possible, Grown(g, host), NEW step \in Steps, Able(step, host),
         F \in UnitFeatures /\ step = "rest" => host.main /\ Offered(host),
         F \in UnitFeatures /\ P = "void" /\ step = "compose" => host.main
  PROVE  Grown(g, Do(step, host))
<1>0. F \in AllFeatures /\ MachineOK /\ host \in Possible BY HostModulesAssumption DEF TypeInv, HostOK, MachineOK, F
<1>1. CASE F \in UnitFeatures
  <2>1. g \in UnitsOf(P, F) /\ host \in UnitsOf(P, F) BY <1>1
      DEF UnitFeatures, Dockers, Possible, HostsOf, TypeInv, HostOK
  <2>2. \A h : Grown(g, h) <=> GrownUnits(g, h) BY <1>1 DEF Grown, UnitFeatures, Dockers
  <2>3. QED BY <1>0, <1>1, <2>1, <2>2, UnitsGrow
<1>2. CASE F = "ssh" BY <1>0, <1>2 DEF Grown, Do, Steps, UnitFeatures, Dockers, Possible, Shells, UnitDo, SSHDo,
                                       StorageDo, FileWritten, PackageInstalled
<1>3. CASE F = "base" BY <1>3 DEF Grown, UnitFeatures, Dockers
<1>4. CASE F = "storage"
  BY <1>0, <1>4 DEF Grown, Do, Able, MountConfigured, Steps, UnitFeatures, Dockers, Possible, HostsOf, Disks, UnitDo,
                    SSHDo, StorageDo, FileWritten, PackageInstalled, UnitAble, SSHAble, StorageAble, Rechecked,
                    Replaceable, Enableable
<1>5. QED BY <1>0, <1>1, <1>2, <1>3, <1>4 DEF AllFeatures, UnitFeatures, Dockers

\* The scripts put a package in place before what belongs to it.
LEMMA ScriptBuilds ==
  ASSUME MachineOK, NEW c, ChangeOK(c), c.kind \in Accepted
  PROVE  /\ Before("package", "rest", Script(c))
         /\ Lacks("compose", Script(c)) \/ c.id = "docker.compose"
<1>1. P \in AllPlatforms BY HostModulesAssumption DEF MachineOK, P
<1> USE DEF Before, Lacks
<1>2. CASE Script(c) = DockerScript BY <1>1, <1>2 DEF DockerScript, AllPlatforms
<1>3. CASE Script(c) = TailscaleScript
  BY <1>1, <1>3 DEF TailscaleScript, DevuanTailscaleScript, AllPlatforms
<1>4. CASE Script(c) = UpdatesScript BY <1>1, <1>4 DEF UpdatesScript, AllPlatforms
<1>5. CASE Script(c) \in {EnableScript, <<"root">>, <<"mountpoint">>, <<"fstab">>, <<"mount">>}
  BY <1>5 DEF EnableScript
<1>6. CASE Script(c) = SSHScript BY <1>6 DEF SSHScript
<1>7. CASE F \in Dockers /\ c.kind = "docker.install-compose" /\ Script(c) = <<"compose">>
  <2>1. c.id = "docker.compose" BY <1>7 DEF ChangeOK, Parts, KindOf
  <2>2. QED BY <1>7, <2>1
<1>8. QED BY <1>2, <1>3, <1>4, <1>5, <1>6, <1>7, ScriptIs

\* Under Void Compose is planned for a Docker that is there.
LEMMA VoidCompose ==
  ASSUME MachineOK, P = "void", NEW h, NEW c \in Plan(h), c.id = "docker.compose"
  PROVE  h.main
<1>0. F \in AllFeatures BY HostModulesAssumption DEF MachineOK, F
<1>1. CASE F \in Dockers
  <2>1. Plan(h) = PlanVoidDocker(VoidFacts(h)) BY <1>1 DEF Plan, Dockers, UnitFacts, PlanDocker, Zypper,
                                                           DevuanUpdatesFacts
  <2>2. \A f : c \in PlanVoidDocker(f) => f.installed
    BY DEF PlanVoidDocker, Install, Serve, Compose, When, Blocked, Change
  <2>3. VoidFacts(h).installed => h.main BY DEF VoidFacts, Seen, Ownership
  <2>4. QED BY <2>1, <2>2, <2>3
<1>2. CASE F = "tailscale"
  BY <1>2 DEF Plan, Dockers, PlanTailscale, PlanVoidTailscale, Unowned, Fetch, Join, When, Blocked, Change
<1>3. CASE F = "updates" BY <1>3 DEF Plan, Dockers, PlanUpdates, Blocked, Change, Zypper
<1>4. CASE F = "ssh" BY <1>4 DEF Plan, Dockers, PlanSSH, When, Change
<1>5. CASE F = "base" BY <1>5 DEF Plan, Dockers, PlanBase, When, Change
<1>6. CASE F = "storage" BY <1>6 DEF Plan, Dockers, PlanStorage, Blocked, Change
<1>7. QED BY <1>0, <1>1, <1>2, <1>3, <1>4, <1>5, <1>6 DEF AllFeatures, Dockers

-----------------------------------------------------------------------------
(* Bebop does not stumble over its own traces. *)

\* What a plan says depends on the host it is given, and on nothing else that changes.
LEMMA SamePlan ==
  ASSUME machine' = machine, NEW h
  PROVE  Plan(h)' = Plan(h)
<1>0. P' = P /\ F' = F BY DEF P, F
<1>1. \A f : /\ PlanDebianDocker(f)' = PlanDebianDocker(f) /\ PlanDevuanDocker(f)' = PlanDevuanDocker(f)
             /\ PlanArtixDocker(f)' = PlanArtixDocker(f) /\ PlanAlpineDocker(f)' = PlanAlpineDocker(f)
  BY <1>0 DEF PlanDebianDocker, PlanDevuanDocker, PlanArtixDocker, PlanAlpineDocker, Install, Serve, Compose,
     Behind, Dep, When, Blocked, Change
<1>2. \A f : /\ PlanVoidDocker(f)' = PlanVoidDocker(f) /\ PlanArchDocker(f)' = PlanArchDocker(f)
             /\ PlanOpenSUSEDocker(f)' = PlanOpenSUSEDocker(f) /\ PlanEnterpriseDocker(f)' = PlanEnterpriseDocker(f)
             /\ PlanFedoraDocker(f)' = PlanFedoraDocker(f)
  BY <1>0 DEF PlanVoidDocker, PlanArchDocker, PlanOpenSUSEDocker, PlanEnterpriseDocker, PlanFedoraDocker, Install,
     Serve, Compose, Behind, Dep, When, Blocked, Change
<1>3. \A f : PlanDocker(f)' = PlanDocker(f) BY <1>0, <1>1, <1>2 DEF PlanDocker
<1>4. \A f : PlanTailscale(f)' = PlanTailscale(f)
  BY <1>0 DEF PlanTailscale, PlanAlpineTailscale, PlanVoidTailscale, PlanDevuanTailscale, PlanArtixTailscale,
     Unowned, Fetch, Join, Dep, When, Blocked, Change
<1>5. \A f : PlanUpdates(f)' = PlanUpdates(f)
  BY <1>0 DEF PlanUpdates, PlanAlpineUpdates, PlanDevuanUpdates, PlanFedoraUpdates, PlanEnterpriseUpdates,
     PlanOpenSUSEUpdates, Update, Blocked, Change
<1>6. PlanSSH(h)' = PlanSSH(h) BY <1>0 DEF PlanSSH, DropInSupported, When, Change
<1>7. PlanBase(h)' = PlanBase(h) BY DEF PlanBase, When, Change
<1>8. PlanStorage(h)' = PlanStorage(h) BY DEF PlanStorage, Assess, Blocked, Change
<1>9. UnitFacts(h)' = UnitFacts(h) BY <1>0 DEF UnitFacts, VoidFacts, DevuanUpdatesFacts
<1>10. QED BY <1>0, <1>3, <1>4, <1>5, <1>6, <1>7, <1>8, <1>9 DEF Plan

LEMMA SameGrowth ==
  ASSUME machine' = machine, NEW g
  PROVE  Grown(g, host)' <=> Grown(g, host')
<1>1. P' = P /\ F' = F BY DEF P, F
<1>2. VoidFacts(g)' = VoidFacts(g) BY <1>1 DEF VoidFacts
<1>3. Offered(g)' <=> Offered(g) BY <1>1 DEF Offered
<1>4. QED BY <1>1, <1>2, <1>3 DEF Grown, GrownUnits

\* Where the host came from stays known if it only grew.
LEMMA TraceKept ==
  ASSUME [Next]_vars, Traced, NEW h, host' = h,
         \A g \in Possible : host = g \/ (machine.sudo /\ Grown(g, host)) => h = g \/ (machine.sudo /\ Grown(g, h))
  PROVE  Traced'
<1>1. PICK g \in Possible : NoneBlocked(Plan(g)) /\ (host = g \/ (machine.sudo /\ Grown(g, host))) BY DEF Traced
<1>2. machine' = machine /\ Possible' = Possible BY SameMachine
<1>3. NoneBlocked(Plan(g))' BY <1>1, <1>2, SamePlan DEF NoneBlocked
<1>4. h = g \/ (machine.sudo /\ Grown(g, h)) BY <1>1
<1>5. Grown(g, h) => Grown(g, host)' BY <1>2, SameGrowth
<1>6. QED BY <1>2, <1>3, <1>4, <1>5 DEF Traced

LEMMA TraceBegins ==
  ASSUME TypeInv, [Next]_vars, host' = host, NoneBlocked(Plan(host))
  PROVE  Traced'
<1> DEFINE g == host
<1>1. g \in Possible BY DEF TypeInv, HostOK
<1>2. machine' = machine /\ Possible' = Possible BY SameMachine
<1>3. NoneBlocked(Plan(g)) OBVIOUS
<1>4. Traced BY <1>1, <1>3 DEF Traced
<1>5. QED BY <1>4, TraceKept

\* What is said of the script in hand holds of an apply that is over.
LEMMA OwnAtEnd ==
  ASSUME OwnInv, [Next]_vars, NEW result \in {"error", "failed", "success"}, End(result), own' => Traced'
  PROVE  OwnInv'
<1>1. script' = <<>> /\ todo' = {} /\ outcome' = result BY DEF End
<1>2. OwnTraceNeverBlocks' BY <1>1 DEF OwnTraceNeverBlocks
<1>3. Before("package", "rest", script)' /\ Lacks("compose", script)' BY <1>1 DEF Before, Lacks
<1>4. QED BY <1>1, <1>2, <1>3 DEF OwnInv

LEMMA OwnStart ==
  ASSUME TypeInv, OwnInv, Start
  PROVE  OwnInv'
<1>0. [Next]_vars BY DEF Next
<1>1. host' = host /\ machine' = machine /\ pc = "idle" /\ script = <<>> BY DEF Start, TypeInv, ApplyOK
<1>2. own => Traced' BY <1>0, <1>1, TraceKept DEF OwnInv
<1>3. CASE ~Sortable(Plan(host))
  <2>1. End("error") /\ own' = own BY <1>3 DEF Start
  <2>2. QED BY <1>0, <1>2, <2>1, OwnAtEnd
<1>4. CASE Sortable(Plan(host)) /\ ~NoneBlocked(Plan(host))
  <2>1. End("blocked") /\ own' = own BY <1>4 DEF Start, NoneBlocked
  <2>2. own => Tripwire
    <3>1. SUFFICES ASSUME own PROVE Tripwire OBVIOUS
    <3>2. PICK g \in Possible : NoneBlocked(Plan(g)) /\ (host = g \/ (machine.sudo /\ Grown(g, host)))
      BY <3>1 DEF OwnInv, Traced
    <3>3. host # g BY <1>4, <3>2
    <3>4. QED BY <1>4, <3>2, <3>3, GrowthBlocksNothing
  <2>3. Tripwire' <=> Tripwire
    <3>1. P' = P /\ F' = F BY <1>1 DEF P, F
    <3>2. QED BY <1>1, <3>1 DEF Tripwire, Unrecognized
  <2>4. script' = <<>> /\ todo' = {} BY <2>1 DEF End
  <2>5. OwnTraceNeverBlocks' BY <2>1, <2>2, <2>3 DEF OwnTraceNeverBlocks
  <2>6. Before("package", "rest", script)' /\ Lacks("compose", script)' BY <2>4 DEF Before, Lacks
  <2>7. QED BY <1>2, <2>1, <2>4, <2>5, <2>6 DEF OwnInv
<1>5. CASE Sortable(Plan(host)) /\ NoneBlocked(Plan(host))
  <2>1. Traced' BY <1>0, <1>1, <1>5, TraceBegins
  <2>2. CASE Plan(host) = {}
    <3>1. End("success") BY <1>5, <2>2 DEF Start, NoneBlocked
    <3>2. QED BY <1>0, <2>1, <3>1, OwnAtEnd
  <2>3. CASE Plan(host) # {}
    <3>1. todo' = Plan(host) /\ outcome' = "none" /\ script' = <<>> BY <1>1, <1>5, <2>3 DEF Start, NoneBlocked
    <3>2. P = "void" => \A c \in todo' : c.id = "docker.compose" => host.main BY <3>1, VoidCompose DEF TypeInv
    <3>3. Before("package", "rest", script)' /\ Lacks("compose", script)' BY <3>1 DEF Before, Lacks
    <3>4. P' = P BY <1>1 DEF P
    <3>5. QED BY <1>1, <2>1, <3>1, <3>2, <3>3, <3>4 DEF OwnInv, OwnTraceNeverBlocks
  <2>4. QED BY <2>2, <2>3
<1>6. QED BY <1>3, <1>4, <1>5

LEMMA OwnCheck ==
  ASSUME TypeInv, OwnInv, Check
  PROVE  OwnInv'
<1>0. [Next]_vars BY DEF Next
<1>1. host' = host /\ machine' = machine /\ own' = own /\ pc = "planned" /\ todo # {} BY DEF Check
<1>2. own' => Traced' BY <1>0, <1>1, TraceKept DEF OwnInv
<1>3. CASE End("failed") BY <1>0, <1>2, <1>3, OwnAtEnd
<1>4. CASE ~End("failed")
  <2> DEFINE c == Following(todo)
  <2>1. c.kind \in Accepted /\ script' = Script(c) /\ todo' = todo /\ outcome' = outcome BY <1>4 DEF Check
  <2>2. c \in todo /\ ChangeOK(c) BY <1>1, AtHand DEF TypeInv, TodoOK
  <2> HIDE DEF c
  <2>3. Before("package", "rest", script') /\ (Lacks("compose", script') \/ c.id = "docker.compose")
    BY <2>1, <2>2, ScriptBuilds DEF TypeInv
  <2>4. own /\ F \in UnitFeatures /\ P = "void" => Lacks("compose", script') \/ host.main BY <2>2, <2>3 DEF OwnInv
  <2>5. outcome' = "none" BY <1>1, <2>1 DEF TypeInv, ApplyOK
  <2>6. P' = P /\ F' = F BY <1>1 DEF P, F
  <2>7. Before("package", "rest", script)' /\ (Lacks("compose", script)' <=> Lacks("compose", script'))
    BY <2>3 DEF Before, Lacks
  <2>8. QED BY <1>1, <1>2, <2>1, <2>4, <2>5, <2>6, <2>7 DEF OwnInv, OwnTraceNeverBlocks
<1>5. QED BY <1>3, <1>4

LEMMA OwnStep ==
  ASSUME TypeInv, OwnInv, Step
  PROVE  OwnInv'
<1>0. [Next]_vars BY DEF Next
<1>1. machine' = machine /\ own' = own /\ pc = "running" /\ script # <<>> BY DEF Step
<1>2. machine.sudo BY <1>1 DEF TypeInv, ApplyOK, TodoOK
<1>3. MachineOK /\ host \in Possible /\ script \in Seq(Steps) BY DEF TypeInv, HostOK, ApplyOK
<1>4. CASE ~Able(Head(script), host)
  <2>1. host' = Cleaned(host) /\ End("failed") BY <1>4 DEF Step
  <2>2. \A g \in Possible : Grown(g, host) => Grown(g, Cleaned(host))
    <3>1. CASE F = "ssh" BY <1>3, <3>1 DEF Cleaned, Grown, UnitFeatures, Dockers, Possible, Shells
    <3>2. CASE F # "ssh" BY <3>2 DEF Cleaned
    <3>3. QED BY <3>1, <3>2
  <2>3. own' => Traced' BY <1>0, <1>1, <1>2, <1>3, <2>1, <2>2, GrownSelf, TraceKept DEF OwnInv
  <2>4. QED BY <1>0, <2>1, <2>3, OwnAtEnd
<1>5. CASE Able(Head(script), host)
  <2> DEFINE step == Head(script)
             h == Do(step, host)
  <2>1. host' = h /\ script' = Tail(script) /\ todo' = todo /\ outcome' = outcome BY <1>5 DEF Step
  <2>2. step \in Steps /\ Able(step, host) BY <1>1, <1>3, <1>5
  <2>3. SUFFICES ASSUME own PROVE OwnInv'
    <3>1. outcome' = "none" BY <1>1, <2>1 DEF TypeInv, ApplyOK
    <3>2. QED BY <1>1, <3>1 DEF OwnInv, OwnTraceNeverBlocks
  <2>4. F \in UnitFeatures => \/ step # "rest" /\ Before("package", "rest", Tail(script))
                              \/ step = "package"
                              \/ host.main /\ Offered(host)
    BY <1>1, <1>3, <2>3, BeforeTail DEF OwnInv
  <2>5. F \in UnitFeatures /\ P = "void" => (step # "compose" /\ Lacks("compose", Tail(script))) \/ host.main
    BY <1>1, <1>3, <2>3, LacksTail DEF OwnInv
  <2>6. \A g \in Possible : Grown(g, host) => Grown(g, h)
    BY <1>3, <2>2, <2>4, <2>5, HostGrows
  <2>7. Traced' BY <1>0, <1>2, <1>3, <2>1, <2>3, <2>6, GrownSelf, TraceKept DEF OwnInv
  <2>8. F \in UnitFeatures => (host.main => h.main) /\ (step = "package" => h.main /\ Offered(host))
                              /\ (Offered(host) => Offered(h))
    <3>1. SUFFICES ASSUME F \in UnitFeatures
                   PROVE  (host.main => h.main) /\ (step = "package" => h.main /\ Offered(host))
                          /\ (Offered(host) => Offered(h))
      OBVIOUS
    <3>2. host \in UnitsOf(P, F) BY <1>3, <3>1 DEF Possible, HostsOf, UnitFeatures, Dockers
    <3>3. Grown(host, h) BY <1>3, <2>6, GrownSelf
    <3>4. GrownUnits(host, h) BY <3>1, <3>3 DEF Grown, UnitFeatures, Dockers
    <3>5. step = "package" => Offered(host) BY <2>2, <3>1, UnitSteps DEF UnitAble
    <3>6. step = "package" => h.main BY <3>1, <3>2, UnitsAreUnits, UnitEffects
    <3>7. QED BY <3>4, <3>5, <3>6 DEF GrownUnits, Offered
  <2>9. P' = P /\ F' = F /\ outcome' = "none" BY <1>1, <2>1 DEF P, F, TypeInv, ApplyOK
  <2>10. Offered(host)' <=> Offered(h) BY <2>1, <2>9 DEF Offered
  <2>11. F \in UnitFeatures => Before("package", "rest", script)' \/ (h.main /\ Offered(h))
    BY <2>1, <2>4, <2>8 DEF Before
  <2>12. F \in UnitFeatures /\ P = "void" => Lacks("compose", script)' \/ h.main BY <2>1, <2>5, <2>8 DEF Lacks
  <2>13. F \in UnitFeatures /\ P = "void" => \A c \in todo' : c.id = "docker.compose" => h.main
    BY <2>1, <2>3, <2>8 DEF OwnInv
  <2>14. QED BY <2>1, <2>7, <2>9, <2>10, <2>11, <2>12, <2>13 DEF OwnInv, OwnTraceNeverBlocks, UnitFeatures, Dockers
<1>6. QED BY <1>4, <1>5

LEMMA OwnNext ==
  ASSUME TypeInv, OwnInv, [Next]_vars
  PROVE  OwnInv'
<1>1. CASE Start BY <1>1, OwnStart
<1>2. CASE Check BY <1>2, OwnCheck
<1>3. CASE Step BY <1>3, OwnStep
<1>4. CASE Interrupt
  <2>1. End("failed") /\ own' = own /\ host' = host BY <1>4 DEF Interrupt
  <2>2. QED BY <2>1, TraceKept, OwnAtEnd DEF OwnInv
<1>5. CASE Verify
  <2>1. own' = own /\ host' = host /\ machine' = machine /\ script = <<>> BY <1>5 DEF Verify
  <2>2. own' => Traced' BY <2>1, TraceKept DEF OwnInv
  <2>3. CASE End("failed") BY <2>2, <2>3, OwnAtEnd
  <2>4. CASE ~End("failed")
    <3>1. todo' \subseteq todo /\ script' = script /\ outcome' = outcome BY <1>5, <2>4 DEF Verify
    <3>2. outcome' = "none" BY <1>5, <3>1 DEF Verify, TypeInv, ApplyOK
    <3>3. Before("package", "rest", script)' /\ Lacks("compose", script)' BY <2>1, <3>1 DEF Before, Lacks
    <3>4. P' = P /\ F' = F BY <2>1 DEF P, F
    <3>5. QED BY <2>1, <2>2, <3>1, <3>2, <3>3, <3>4 DEF OwnInv, OwnTraceNeverBlocks, UnitFeatures, Dockers
  <2>5. QED BY <2>3, <2>4
<1>6. CASE Replan
  <2>1. /\ End("error") \/ End("failed") \/ End("success")
        /\ own' = own /\ host' = host
    BY <1>6 DEF Replan
  <2>2. own' => Traced' BY <2>1, TraceKept DEF OwnInv
  <2>3. QED BY <2>1, <2>2, OwnAtEnd
<1>7. CASE Edit
  <2>1. own' = FALSE BY <1>7 DEF Edit
  <2>2. QED BY <2>1 DEF OwnInv, OwnTraceNeverBlocks
<1>8. CASE UNCHANGED vars
  <2>1. host' = host /\ own' = own /\ script' = script /\ todo' = todo /\ outcome' = outcome /\ machine' = machine
    BY <1>8 DEF vars
  <2>2. own' => Traced' BY <2>1, TraceKept DEF OwnInv
  <2>3. P' = P /\ F' = F BY <2>1 DEF P, F
  <2>4. (Before("package", "rest", script)' <=> Before("package", "rest", script))
        /\ (Lacks("compose", script)' <=> Lacks("compose", script)) /\ (Offered(host)' <=> Offered(host))
        /\ (Tripwire' <=> Tripwire)
    BY <2>1, <2>3 DEF Before, Lacks, Offered, Tripwire, Unrecognized
  <2>5. QED BY <2>1, <2>2, <2>3, <2>4 DEF OwnInv, OwnTraceNeverBlocks, UnitFeatures, Dockers
<1>9. QED BY <1>1, <1>2, <1>3, <1>4, <1>5, <1>6, <1>7, <1>8 DEF Next

\* Once a plan found nothing in the way and nobody else touched the host, no later plan finds anything, however the
\* scripts were interrupted and how often, but for the traces that the code is known to leave (Tripwire).
THEOREM OwnTraceNeverBlocksAlways == Spec => []OwnTraceNeverBlocks
<1>1. Init => OwnInv BY DEF Init, OwnInv, OwnTraceNeverBlocks
<1>2. TypeInv /\ TypeInv' /\ OwnInv /\ [Next]_vars => OwnInv' BY OwnNext
<1>3. OwnInv => OwnTraceNeverBlocks BY DEF OwnInv
<1>4. QED BY <1>1, <1>2, <1>3, TypeInvariant, PTL DEF Spec

-----------------------------------------------------------------------------
(* What was planned can be carried out: plans. *)

\* A plan of Docker: the engine first, the service behind it, Compose behind both.
LEMMA DockerShape ==
  ASSUME F \in Dockers, NEW w, NEW pre, NEW r, NEW f, NEW deps, NEW s, NEW v, NEW more, NEW t,
         w => "docker.engine" \in deps, w /\ v => "docker.engine" \in more, P = "artix" => ~v
  PROVE  LET T == (Install(w, pre, r) \cup Serve(f, deps, s)) \cup Compose(v, more, t) IN
         /\ Shape(T)
         /\ \A c \in T : \A p \in c.pre : w /\ p \in pre
         /\ w => "docker.engine" \in IDsOf(T)
<1> DEFINE A == Install(w, pre, r)
           B == Serve(f, deps, s)
           C == Compose(v, more, t)
           T == (A \cup B) \cup C
<1>1. \A c \in A : w /\ c.id = "docker.engine" /\ c.pre = pre /\ c = Change("docker.engine", "docker.install-engine", {}, pre, r)
  BY DEF Install, When, Change
<1>2. \A c \in B : c.id = "docker.service" /\ c.pre = {} /\ c.deps = deps /\ c = Change("docker.service", "docker.enable-service", deps, {}, s)
  BY DEF Serve, When, Change
<1>3. \A c \in C : v /\ c.id = "docker.compose" /\ c.pre = {} /\ c.deps = more /\ c = Change("docker.compose", "docker.install-compose", more, {}, t)
  BY DEF Compose, When, Change
<1>4. w => \E c \in A : c.id = "docker.engine" BY DEF Install, When, Change
<1> HIDE DEF A, B, C
<1>5. \A c, d \in T : c.id = d.id => c = d BY <1>1, <1>2, <1>3
<1>6. F \notin {"base", "storage"} BY DEF Dockers
<1>7. "docker.engine" \in IDsOf(T) <=> w BY <1>1, <1>2, <1>3, <1>4 DEF IDsOf
<1>8. "tailscale.package" \notin IDsOf(T) BY <1>1, <1>2, <1>3 DEF IDsOf
<1>9. \A c \in T : \A p \in c.pre : w /\ p \in pre BY <1>1, <1>2, <1>3
<1>10. Shape(T) BY <1>1, <1>2, <1>3, <1>5, <1>6, <1>7, <1>8 DEF Shape, Bases
<1>11. QED BY <1>7, <1>9, <1>10 DEF A, B, C

LEMMA TailscaleShape ==
  ASSUME F = "tailscale", NEW w, NEW pre, NEW r, NEW f, NEW deps, NEW s, w => "tailscale.package" \in deps
  PROVE  LET T == Fetch(w, pre, r) \cup Join(f, deps, s) IN
         /\ Shape(T)
         /\ \A c \in T : \A p \in c.pre : w /\ p \in pre
<1> DEFINE A == Fetch(w, pre, r)
           B == Join(f, deps, s)
           T == A \cup B
<1>1. \A c \in A : w /\ c.id = "tailscale.package" /\ c.pre = pre /\ c = Change("tailscale.package", "tailscale.install", {}, pre, r)
  BY DEF Fetch, When, Change
<1>2. \A c \in B : c.id = "tailscale.service" /\ c.pre = {} /\ c.deps = deps /\ c = Change("tailscale.service", "tailscale.enable-service", deps, {}, s)
  BY DEF Join, When, Change
<1> HIDE DEF A, B
<1>3. \A c, d \in T : c.id = d.id => c = d BY <1>1, <1>2
<1>4. "docker.engine" \notin IDsOf(T) BY <1>1, <1>2 DEF IDsOf
<1>5. "tailscale.package" \in IDsOf(T) => w BY <1>1, <1>2 DEF IDsOf
<1>6. \A c \in T : \A p \in c.pre : w /\ p \in pre BY <1>1, <1>2
<1>7. Shape(T) BY <1>1, <1>2, <1>3, <1>4, <1>5 DEF Shape, Bases
<1>8. QED BY <1>6, <1>7 DEF A, B

\* What most probes report alike.
LEMMA CommonFacts ==
  ASSUME NEW h, NEW f \in {Seen(h), VoidFacts(h), DevuanTailscaleFacts(h)}
  PROVE  /\ f.installed = h.main /\ f.complete = (h.main /\ h.rest) /\ f.compose = (h.main /\ h.rest /\ h.plugin)
         /\ f.conflict = h.conflict /\ f.held = (h.held # "no") /\ f.link = h.link
         /\ f.ready = (h.link = "correct" /\ h.run = "up") /\ f.cgroups = h.cgroups /\ f.definition = h.definition
         /\ f \in {Seen(h), VoidFacts(h)} => f.available = h.avail
         /\ f \in {Seen(h), DevuanTailscaleFacts(h)} => f.repo = Ownership(h)
<1>1. /\ Seen(h).installed = h.main /\ Seen(h).complete = (h.main /\ h.rest)
      /\ Seen(h).compose = (h.main /\ h.rest /\ h.plugin)
      /\ Seen(h).conflict = h.conflict /\ Seen(h).held = (h.held # "no") /\ Seen(h).link = h.link
      /\ Seen(h).ready = (h.link = "correct" /\ h.run = "up") /\ Seen(h).cgroups = h.cgroups
      /\ Seen(h).definition = h.definition
      /\ Seen(h).available = h.avail /\ Seen(h).repo = Ownership(h)
  BY DEF Seen
<1>2. /\ VoidFacts(h).installed = h.main /\ VoidFacts(h).complete = (h.main /\ h.rest)
      /\ VoidFacts(h).compose = (h.main /\ h.rest /\ h.plugin)
      /\ VoidFacts(h).conflict = h.conflict /\ VoidFacts(h).held = (h.held # "no") /\ VoidFacts(h).link = h.link
      /\ VoidFacts(h).ready = (h.link = "correct" /\ h.run = "up") /\ VoidFacts(h).cgroups = h.cgroups
      /\ VoidFacts(h).definition = h.definition
      /\ VoidFacts(h).available = h.avail
  BY DEF VoidFacts, Seen
<1>3. /\ DevuanTailscaleFacts(h).installed = h.main /\ DevuanTailscaleFacts(h).complete = (h.main /\ h.rest)
      /\ DevuanTailscaleFacts(h).compose = (h.main /\ h.rest /\ h.plugin)
      /\ DevuanTailscaleFacts(h).conflict = h.conflict /\ DevuanTailscaleFacts(h).held = (h.held # "no") /\ DevuanTailscaleFacts(h).link = h.link
      /\ DevuanTailscaleFacts(h).ready = (h.link = "correct" /\ h.run = "up") /\ DevuanTailscaleFacts(h).cgroups = h.cgroups
      /\ DevuanTailscaleFacts(h).definition = h.definition
      /\ DevuanTailscaleFacts(h).repo = Ownership(h)
  BY DEF DevuanTailscaleFacts, Seen
<1>4. QED BY <1>1, <1>2, <1>3

\* A plan of Docker with nothing in the way, on a healthy host, can be begun.
LEMMA DockerFits ==
  ASSUME MachineOK, F \in Dockers, P \notin {"alpine", "devuan"}, NEW h \in UnitsOf(P, F), Sound(h),
         DockerClear(UnitFacts(h))
  PROVE  Promising(h, PlanDocker(UnitFacts(h))) /\ FirstHolds(h, PlanDocker(UnitFacts(h)))
<1> DEFINE f == UnitFacts(h)
           T == PlanDocker(f)
           need == ~f.installed \/ ~f.complete
<1>0. P \in AllPlatforms BY HostModulesAssumption DEF MachineOK, P
<1>1. h.run # "hung" /\ h.avail /\ (h.main => h.definition) /\ h.plugin BY DEF Sound, Dockers
<1>2. /\ f.installed = h.main /\ f.complete = (h.main /\ h.rest) /\ f.compose = (h.main /\ h.rest /\ h.plugin)
      /\ f.available = h.avail /\ f.conflict = h.conflict /\ f.held = (h.held # "no") /\ f.link = h.link
      /\ f.ready = (h.link = "correct" /\ h.run = "up") /\ f.cgroups = h.cgroups /\ f.definition = h.definition
      /\ P # "void" => f.repo = Ownership(h)
      /\ P = "void" => f.repo = VoidFacts(h).repo
  <2>1. f = IF P = "void" THEN VoidFacts(h) ELSE Seen(h) BY DEF UnitFacts, Dockers
  <2> HIDE DEF f
  <2>2. QED BY <2>1, CommonFacts
<1>3. DockerClear(f) OBVIOUS
<1>4. Fit(h) BY <1>1 DEF Fit, Dockers
<1>5. Passable(h, T)
  <2>1. ~h.conflict
    <3>1. CASE P \in RPM BY <1>2, <1>3, <3>1 DEF DockerClear, RPM, DNF, Zypper
    <3>2. CASE P \notin RPM BY <3>2 DEF UnitsOf, Only, Dockers
    <3>3. QED BY <3>1, <3>2
  <2>2. h.link # "conflict"
    <3>1. CASE P = "void" BY <1>2, <1>3, <3>1 DEF DockerClear
    <3>2. CASE P # "void" BY <3>2 DEF UnitsOf, Only, Dockers
    <3>3. QED BY <3>1, <3>2
  <2>3. Ownership(h) # "unmanaged" \/ P \in {"debian", "void"}
    <3>1. CASE P = "enterprise" BY <1>2, <1>3, <3>1 DEF DockerClear
    <3>2. CASE P \notin {"enterprise", "void"}
      BY <3>2 DEF UnitsOf, Only, Dockers, ReposOf, HasFile, LenientCheck, LastCounts, Ownership
    <3>3. QED BY <3>1, <3>2
  <2>4. QED BY <2>1, <2>2, <2>3 DEF Passable, Dockers
<1>6. SUFFICES /\ Shape(T) /\ FirstHolds(h, T)
               /\ P = "enterprise" => h.repo = "managed" \/ "docker.engine" \in IDsOf(T)
  BY <1>4, <1>5 DEF Promising
<1>7. ASSUME NEW w, NEW pre, NEW r, NEW deps, NEW s, NEW v, NEW more, NEW t,
             T = (Install(w, pre, r) \cup Serve(f, deps, s)) \cup Compose(v, more, t),
             w => "docker.engine" \in deps, w /\ v => "docker.engine" \in more, P = "artix" => ~v,
             w => \A p \in pre : Holds(p, h),
             P = "enterprise" => h.repo = "managed" \/ w
      PROVE  /\ Shape(T) /\ FirstHolds(h, T)
             /\ P = "enterprise" => h.repo = "managed" \/ "docker.engine" \in IDsOf(T)
  <2> DEFINE U == (Install(w, pre, r) \cup Serve(f, deps, s)) \cup Compose(v, more, t)
  <2> HIDE DEF T, f
  <2>1. Shape(U) /\ (\A c \in U : \A p \in c.pre : w /\ p \in pre) /\ (w => "docker.engine" \in IDsOf(U))
    BY <1>7, DockerShape
  <2> HIDE DEF U
  <2>2. T = U BY <1>7 DEF U
  <2>3. QED BY <1>7, <2>1, <2>2 DEF FirstHolds
<1>8. \A v : Compose(FALSE, {}, v) = {} BY DEF Compose, When
<1>9. /\ ~h.main => Holds("absent", h)
      /\ Holds("available", h) /\ Holds("no-conflict", h) /\ Holds("constraints", h)
      /\ P = "void" => Holds("provenance", h)
      /\ P = "enterprise" => Holds("repository-safe", h)
  <2>1. P = "void" => VoidFacts(h).repo # "unmanaged" BY <1>2, <1>3 DEF DockerClear
  <2>2. ~h.conflict /\ (P = "enterprise" => h.repo # "unmanaged") BY <1>5 DEF Passable, Dockers, Ownership
  <2>3. P = "enterprise" => RepositorySafe(h) BY <2>2 DEF RepositorySafe, Unrecognized, Dockers
  <2>4. h.held # "locked"
    <3>1. CASE P = "void" BY <1>2, <1>3, <3>1 DEF DockerClear
    <3>2. CASE P # "void" BY <3>2 DEF UnitsOf, Only
    <3>3. QED BY <3>1, <3>2
  <2>5. F \in UnitFeatures BY DEF UnitFeatures
  <2> HIDE DEF f, T
  <2>6. QED BY <1>1, <2>1, <2>2, <2>3, <2>4, <2>5, UnitPreconditions
<1>10. \A w : /\ w => "docker.engine" \in Dep(w, "docker.engine")
              /\ w => "docker.engine" \in Behind(f, w)
  BY DEF Dep, Behind
<1>11. CASE P = "debian"
  <2>1. T = (Install(~f.installed, {"absent"}, FALSE) \cup Serve(f, Dep(~f.installed, "docker.engine"), FALSE))
              \cup Compose(~f.compose, Behind(f, ~f.installed), ~f.available)
    BY <1>11 DEF PlanDocker, PlanDebianDocker, Zypper
  <2> DEFINE w == ~f.installed
             v == ~f.compose
             pre == {"absent"}
             deps == Dep(w, "docker.engine")
             more == Behind(f, w)
             t == ~f.available
  <2>2. w => \A p \in pre : Holds(p, h) BY <1>2, <1>9
  <2>3. (w => "docker.engine" \in deps) /\ (w /\ v => "docker.engine" \in more) BY <1>10
  <2>4. T = (Install(w, pre, FALSE) \cup Serve(f, deps, FALSE)) \cup Compose(v, more, t) BY <2>1
  <2> HIDE DEF T, f, w, v, pre, deps, more, t
  <2>5. QED BY <1>7, <1>11, <2>2, <2>3, <2>4
<1>12. CASE P = "artix"
  <2>1. T = Install(need, {"available"}, ~f.available)
              \cup Serve(f, Dep(need, "docker.engine"), (f.installed /\ ~f.definition) \/ (need /\ ~f.available))
    BY <1>3, <1>12 DEF PlanDocker, PlanArtixDocker, Zypper, DockerClear
  <2>2. T = (Install(need, {"available"}, ~f.available)
              \cup Serve(f, Dep(need, "docker.engine"), (f.installed /\ ~f.definition) \/ (need /\ ~f.available)))
              \cup Compose(FALSE, {}, FALSE)
    BY <1>8, <2>1
  <2> DEFINE pre == {"available"}
             deps == Dep(need, "docker.engine")
             r == ~f.available
             s == (f.installed /\ ~f.definition) \/ (need /\ ~f.available)
             v == FALSE
             more == {}
  <2>3. T = (Install(need, pre, r) \cup Serve(f, deps, s)) \cup Compose(v, more, v) BY <2>2
  <2>4. /\ \A p \in pre : Holds(p, h)
        /\ need => "docker.engine" \in deps
        /\ need /\ v => "docker.engine" \in more
        /\ ~v
    BY <1>9, <1>10
  <2> HIDE DEF T, f, need, pre, deps, r, s, v, more
  <2>5. QED BY <1>7, <1>12, <2>3, <2>4
<1>13. CASE P = "void"
  <2>1. T = (Install(need, {"available", "provenance", "constraints"}, ~f.available)
              \cup Serve(f, Dep(need, "docker.engine"),
                         f.link = "conflict" \/ (~need /\ ~f.definition) \/ (need /\ ~f.available)))
              \cup Compose(~f.compose /\ ~need, {"docker.service"}, ~f.available)
    BY <1>3, <1>13 DEF PlanDocker, PlanVoidDocker, Zypper, DockerClear
  <2> DEFINE pre == {"available", "provenance", "constraints"}
             deps == Dep(need, "docker.engine")
             r == ~f.available
             s == f.link = "conflict" \/ (~need /\ ~f.definition) \/ (need /\ ~f.available)
             v == ~f.compose /\ ~need
             more == {"docker.service"}
  <2>2. T = (Install(need, pre, r) \cup Serve(f, deps, s)) \cup Compose(v, more, r) BY <2>1
  <2>3. /\ \A p \in pre : Holds(p, h)
        /\ need => "docker.engine" \in deps
        /\ need /\ v => "docker.engine" \in more
    BY <1>9, <1>10, <1>13
  <2> HIDE DEF T, f, need, pre, deps, r, s, v, more
  <2>4. QED BY <1>7, <1>13, <2>2, <2>3
<1>14. CASE P \in {"arch", "leap", "tumbleweed", "fedora"}
  <2> DEFINE pre == IF P = "arch" THEN {"available"} ELSE {"no-conflict"}
  <2>1. T = (Install(need, pre, ~f.available) \cup Serve(f, Dep(need, "docker.engine"), need /\ ~f.available))
              \cup Compose(~f.compose, Behind(f, need), ~f.available)
    BY <1>3, <1>14 DEF PlanDocker, PlanArchDocker, PlanOpenSUSEDocker, PlanFedoraDocker, Zypper, DockerClear
  <2>2. \A p \in pre : Holds(p, h) BY <1>9
  <2> HIDE DEF T, f, pre
  <2>3. QED BY <1>7, <1>10, <1>14, <2>1, <2>2
<1>15. CASE P = "enterprise"
  <2> DEFINE w == ~f.installed \/ ~f.complete \/ f.repo # "managed"
             stuck == f.repo = "managed" /\ ~f.available
  <2>1. T = (Install(w, {"no-conflict", "repository-safe"}, stuck) \cup Serve(f, Dep(w, "docker.engine"), w /\ stuck))
              \cup Compose(~f.compose, Behind(f, w), stuck)
    BY <1>3, <1>15 DEF PlanDocker, PlanEnterpriseDocker, Zypper, DockerClear
  <2>2. h.repo = "managed" \/ w BY <1>2, <1>15 DEF Ownership
  <2> HIDE DEF T, f, w
  <2>3. QED BY <1>7, <1>9, <1>10, <1>15, <2>1, <2>2
<1>16. QED BY <1>0, <1>6, <1>11, <1>12, <1>13, <1>14, <1>15 DEF AllPlatforms

LEMMA TailscaleFits ==
  ASSUME MachineOK, F = "tailscale", P # "alpine", NEW h \in UnitsOf(P, F), Sound(h),
         P \in RPM => ~h.main /\ ~h.conflict, TailscaleClear(UnitFacts(h))
  PROVE  Promising(h, PlanTailscale(UnitFacts(h))) /\ FirstHolds(h, PlanTailscale(UnitFacts(h)))
<1> DEFINE f == UnitFacts(h)
           T == PlanTailscale(f)
<1>1. h.run # "hung" /\ h.avail /\ (h.main => h.definition) /\ h.plugin BY DEF Sound, Dockers
<1>2. /\ f.installed = h.main /\ f.held = (h.held # "no") /\ f.link = h.link
      /\ f.ready = (h.link = "correct" /\ h.run = "up") /\ f.definition = h.definition
      /\ P # "void" => f.repo = Ownership(h)
      /\ P = "void" => f.repo = VoidFacts(h).repo
      /\ P # "devuan" => f.available = h.avail
  <2>1. f = IF P = "void" THEN VoidFacts(h) ELSE IF P = "devuan" THEN DevuanTailscaleFacts(h) ELSE Seen(h)
    BY DEF UnitFacts, Dockers
  <2> HIDE DEF f
  <2>2. QED BY <2>1, CommonFacts
<1>3. TailscaleClear(f) OBVIOUS
<1>4. Fit(h) BY <1>1 DEF Fit, Dockers
<1>5. Passable(h, T)
  <2>1. ~h.conflict
    <3>1. CASE P \in RPM BY <3>1
    <3>2. CASE P \notin RPM BY <3>2 DEF UnitsOf, Only, Dockers, RPM, DNF, Zypper
    <3>3. QED BY <3>1, <3>2
  <2>2. h.link # "conflict"
    <3>1. CASE P \in {"void", "devuan"} BY <1>2, <1>3, <3>1 DEF TailscaleClear
    <3>2. CASE P \notin {"void", "devuan"} BY <3>2 DEF UnitsOf, Only, Dockers
    <3>3. QED BY <3>1, <3>2
  <2>3. Ownership(h) # "unmanaged" \/ P \in {"debian", "void"}
    <3>1. CASE P \in RPM \cup {"devuan"}
      <4>1. f.repo = Ownership(h) BY <1>2, <3>1 DEF RPM, DNF, Zypper
      <4> HIDE DEF f, T
      <4>2. QED BY <1>3, <3>1, <4>1 DEF TailscaleClear, RPM, DNF, Zypper
    <3>2. CASE P \notin RPM \cup {"devuan", "void", "debian"}
      BY <3>2 DEF UnitsOf, Only, Dockers, RPM, DNF, Zypper, ReposOf, HasFile, LenientCheck, LastCounts, Ownership
    <3>3. QED BY <3>1, <3>2
  <2>4. QED BY <2>1, <2>2, <2>3 DEF Passable, Dockers
<1>6. SUFFICES Shape(T) /\ FirstHolds(h, T) BY <1>4, <1>5 DEF Promising, Dockers
<1>7. ASSUME NEW w, NEW pre, NEW r, NEW deps, NEW s,
             T = Fetch(w, pre, r) \cup Join(f, deps, s),
             w => "tailscale.package" \in deps, w => \A p \in pre : Holds(p, h)
      PROVE  Shape(T) /\ FirstHolds(h, T)
  <2> DEFINE U == Fetch(w, pre, r) \cup Join(f, deps, s)
  <2> HIDE DEF T, f
  <2>1. Shape(U) /\ (\A c \in U : \A p \in c.pre : w /\ p \in pre) BY <1>7, TailscaleShape
  <2> HIDE DEF U
  <2>2. T = U BY <1>7 DEF U
  <2>3. QED BY <1>7, <2>1, <2>2 DEF FirstHolds
<1>8. /\ ~h.main => Holds("absent", h)
      /\ Holds("available", h) /\ (~h.main => Holds("constraints", h)) /\ Holds("candidates", h)
      /\ P = "void" => Holds("provenance", h)
      /\ P \in RPM \cup {"devuan"} => Holds("repository-safe", h)
  <2>1. P = "void" => VoidFacts(h).repo # "unmanaged" BY <1>2, <1>3 DEF TailscaleClear
  <2>2. ~h.conflict /\ (P \in RPM \cup {"devuan"} => h.repo # "unmanaged")
    BY <1>5 DEF Passable, Dockers, RPM, DNF, Zypper, Ownership
  <2>3. P \in RPM \cup {"devuan"} => RepositorySafe(h) BY <2>2 DEF RepositorySafe, Unrecognized
  <2>4. ~h.main => h.held # "locked"
    <3>1. CASE P = "void"
      <4>1. f.held = (h.held # "no") /\ f.installed = h.main BY <1>2
      <4> HIDE DEF f, T
      <4>2. QED BY <1>3, <3>1, <4>1 DEF TailscaleClear
    <3>2. CASE P # "void" BY <3>2 DEF UnitsOf, Only
    <3>3. QED BY <3>1, <3>2
  <2>5. F \in UnitFeatures BY DEF UnitFeatures
  <2> HIDE DEF f, T
  <2>6. QED BY <1>1, <2>1, <2>2, <2>3, <2>4, <2>5, UnitPreconditions
<1>9. \A w : w => "tailscale.package" \in Dep(w, "tailscale.package") BY DEF Dep
<1>10. CASE P = "devuan"
  <2> DEFINE w == ~f.installed \/ f.repo # "managed"
             stuck == f.repo = "managed" /\ ~f.available
  <2>1. T = Fetch(w, {"repository-safe", "candidates"}, stuck)
              \cup Join(f, Dep(w, "tailscale.package"), f.link = "conflict" \/ (w /\ stuck))
    BY <1>3, <1>10 DEF PlanTailscale, PlanDevuanTailscale, TailscaleClear, RPM, DNF, Zypper
  <2> HIDE DEF T, f, w, stuck
  <2>2. QED BY <1>7, <1>8, <1>9, <1>10, <2>1
<1>11. CASE P = "artix"
  <2> DEFINE w == ~f.installed \/ ~f.definition
  <2>1. T = Fetch(w, {"available"}, ~f.available)
              \cup Join(f, Dep(w, "tailscale.package"), (f.installed /\ ~f.definition) \/ (w /\ ~f.available))
    BY <1>11 DEF PlanTailscale, PlanArtixTailscale, RPM, DNF, Zypper
  <2> HIDE DEF T, f, w
  <2>2. QED BY <1>7, <1>8, <1>9, <2>1
<1>12. CASE P = "void"
  <2> DEFINE w == ~f.installed
             stuck == f.held \/ ~f.available
  <2>1. T = Fetch(w, {"available", "provenance", "constraints"}, stuck)
              \cup Join(f, Dep(w, "tailscale.package"),
                        f.link = "conflict" \/ (f.installed /\ ~f.definition) \/ (w /\ stuck))
    BY <1>3, <1>12 DEF PlanTailscale, PlanVoidTailscale, TailscaleClear, RPM, DNF, Zypper
  <2>2. w => ~h.main BY <1>2
  <2> HIDE DEF T, f, w, stuck
  <2>3. QED BY <1>7, <1>8, <1>9, <1>12, <2>1, <2>2
<1>13. CASE P \notin {"devuan", "artix", "void"}
  <2> DEFINE w == ~f.installed \/ (P \in RPM /\ f.repo # "managed")
             pre == {"absent"} \cup Dep(P \in RPM, "repository-safe") \cup Dep(P = "arch", "available")
             stuck == P = "arch" /\ ~f.available
  <2>1. T = Fetch(w, pre, stuck) \cup Join(f, Dep(~f.installed, "tailscale.package"), ~f.installed /\ stuck)
    BY <1>3, <1>13 DEF PlanTailscale, TailscaleClear
  <2>2. w => ~f.installed BY <1>2
  <2>3. w => \A p \in pre : Holds(p, h) BY <1>2, <1>8, <2>2 DEF Dep
  <2>4. w => "tailscale.package" \in Dep(~f.installed, "tailscale.package") BY <2>2 DEF Dep
  <2> HIDE DEF T, f, w, pre
  <2>5. QED BY <1>7, <2>1, <2>3, <2>4
<1>14. QED BY <1>6, <1>10, <1>11, <1>12, <1>13

LEMMA UpdatesFits ==
  ASSUME MachineOK, F = "updates", P \notin {"alpine", "devuan"}, NEW h \in UnitsOf(P, F), Sound(h),
         UpdatesClear(UnitFacts(h)), PlanUpdates(UnitFacts(h)) # {}
  PROVE  /\ Promising(h, PlanUpdates(UnitFacts(h))) /\ FirstHolds(h, PlanUpdates(UnitFacts(h)))
<1> DEFINE f == UnitFacts(h)
           T == PlanUpdates(f)
<1>0. P \in AllPlatforms BY HostModulesAssumption DEF MachineOK, P
<1>1. h.run # "hung" /\ h.avail /\ (h.main => h.definition) /\ h.plugin BY DEF Sound, Dockers
<1>2. P \notin {"arch", "artix", "void"}
  <2>1. UpdatesClear(f) OBVIOUS
  <2> HIDE DEF f
  <2>2. ASSUME P \in {"arch", "artix", "void"} PROVE FALSE BY <2>1, <2>2 DEF UpdatesClear, UpdatesDone, Zypper
  <2>3. QED BY <2>2
<1>3. f.conflict = h.conflict /\ f.repo = Ownership(h)
  <2>1. f = IF P = "leap" THEN LeapUpdatesFacts(h) ELSE Seen(h) BY <1>2 DEF UnitFacts, Dockers
  <2>2. LeapUpdatesFacts(h).conflict = h.conflict /\ LeapUpdatesFacts(h).repo = Ownership(h)
    BY DEF LeapUpdatesFacts, Seen
  <2> HIDE DEF f
  <2>3. QED BY <2>1, <2>2, CommonFacts
<1>4. UpdatesClear(f) /\ T # {} OBVIOUS
<1>5. ~UpdatesDone(f) BY <1>0, <1>2, <1>4 DEF PlanUpdates, UpdatesDone, AllPlatforms, Zypper
<1>6. PICK r : T = Update({}, r)
  <2>1. CASE P = "debian" BY <1>4, <2>1 DEF PlanUpdates, Zypper
  <2>2. CASE P = "fedora" BY <1>4, <2>2 DEF PlanUpdates, PlanFedoraUpdates, Zypper
  <2>3. CASE P = "enterprise" BY <1>4, <2>3 DEF PlanUpdates, PlanEnterpriseUpdates, Zypper
  <2>4. CASE P \in Zypper BY <1>4, <2>4 DEF PlanUpdates, PlanOpenSUSEUpdates, Zypper
  <2>5. QED BY <1>0, <1>2, <2>1, <2>2, <2>3, <2>4 DEF AllPlatforms, Zypper
<1>7. Passable(h, T)
  <2>1. ~h.conflict
    <3>1. CASE P \in RPM \ {"fedora"}
      BY <1>3, <1>4, <1>5, <3>1 DEF UpdatesClear, RPM, DNF, Zypper
    <3>2. CASE P \notin RPM \ {"fedora"}
      <4>1. P \notin Zypper \cup {"alpine", "enterprise"} BY <3>2 DEF RPM, DNF, Zypper
      <4>2. QED BY <3>2, <4>1 DEF UnitsOf, Only, Dockers
    <3>3. QED BY <3>1, <3>2
  <2>2. h.link # "conflict" BY <1>2 DEF UnitsOf, Only, Dockers
  <2>3. Ownership(h) # "unmanaged" \/ P = "debian"
    BY <1>0, <1>2, <1>3, <1>4, <1>5 DEF UpdatesClear, AllPlatforms, RPM, DNF, Zypper
  <2>4. QED BY <1>2, <2>1, <2>2, <2>3 DEF Passable, Dockers
<1>8. Fit(h) BY <1>1 DEF Fit, Dockers
<1> HIDE DEF T
<1>9. T = {Change("updates.unattended", "updates.enable-unattended", {}, {}, r)} BY <1>6 DEF Update
<1>10. \A c \in T : c.id = "updates.unattended" /\ c.pre = {} BY <1>9 DEF Change
<1>11. \A c, d \in T : c = d BY <1>9
<1>12. \A x \in Bases : x \notin IDsOf(T) BY <1>10 DEF IDsOf, Bases
<1>13. Shape(T) BY <1>10, <1>11, <1>12 DEF Shape
<1>14. FirstHolds(h, T) BY <1>10 DEF FirstHolds
<1>15. Promising(h, T) BY <1>7, <1>8, <1>13 DEF Promising, Dockers
<1>16. QED BY <1>14, <1>15 DEF T

\* A reason blocks a change, with root or without.
LEMMA ReasonBlocks ==
  \A id, kind, deps, pre, reason : reason => Change(id, kind, deps, pre, reason).blocked
BY DEF Change

LEMMA SSHFits ==
  ASSUME F = "ssh", NEW h, Sound(h), NoneBlocked(PlanSSH(h)), h.earlier \in {"none", "foreign", "leftover"}
  PROVE  Promising(h, PlanSSH(h)) /\ FirstHolds(h, PlanSSH(h))
<1> DEFINE T == PlanSSH(h)
           w == h.installed /\ ~(h.dropin = "ours" /\ Effective(h))
           b == \/ machine.root \/ ~h.keys \/ ~h.valid \/ ~DropInSupported(h) \/ h.earlier # "none"
                \/ (P \in {"void", "devuan", "artix"} /\ h.service # "up")
<1>1. T = When(w, Change("ssh.hardening", "ssh.write-hardening", {}, {}, b)) BY DEF PlanSSH
<1>2. \A c \in T : w /\ c.id = "ssh.hardening" /\ c.pre = {} /\ c = Change("ssh.hardening", "ssh.write-hardening", {}, {}, b)
  BY <1>1 DEF When, Change
<1>3. T # {} => ~b
  <2>1. \A c \in T : c = Change("ssh.hardening", "ssh.write-hardening", {}, {}, b) BY <1>2
  <2> HIDE DEF T, b
  <2>2. b => \A c \in T : c.blocked BY <2>1, ReasonBlocks
  <2>3. QED BY <2>2 DEF NoneBlocked, T
<1>4. T # {} => Passable(h, T) BY <1>3 DEF Passable, DropInSupported, Dockers
<1>5. Fit(h) BY DEF Fit, Sound, Dockers
<1> HIDE DEF T
<1>6. \A x \in Bases : x \notin IDsOf(T) BY <1>2 DEF IDsOf, Bases
<1>7. Shape(T) BY <1>2, <1>6 DEF Shape, UnitFeatures, Dockers
<1>8. Promising(h, T) BY <1>4, <1>5, <1>7 DEF Promising, Dockers
<1>9. FirstHolds(h, T) BY DEF FirstHolds, UnitFeatures, Dockers
<1>10. QED BY <1>8, <1>9 DEF T

LEMMA BaseFits ==
  ASSUME F = "base", NEW h
  PROVE  Promising(h, PlanBase(h)) /\ FirstHolds(h, PlanBase(h))
<1> DEFINE T == PlanBase(h)
           A == When(h.root = "absent", Change("base.data-root", "base.create-data-root", {}, {"absent"}, FALSE))
           B == When(h.root = "wrong", Change("base.data-root.permissions", "base.set-data-root-permissions", {}, {}, FALSE))
<1>1. T = A \cup B BY DEF PlanBase
<1>2. \A c \in A : /\ h.root = "absent" /\ c.id = "base.data-root" /\ c.pre = {"absent"}
                   /\ c = Change("base.data-root", "base.create-data-root", {}, {"absent"}, FALSE)
  BY DEF When, Change
<1>3. \A c \in B : /\ h.root = "wrong" /\ c.id = "base.data-root.permissions" /\ c.pre = {}
                   /\ c = Change("base.data-root.permissions", "base.set-data-root-permissions", {}, {}, FALSE)
  BY DEF When, Change
<1> HIDE DEF T, A, B
<1>4. \A c, d \in T : c = d BY <1>1, <1>2, <1>3
<1>5. \A c \in T : c.id \in {"base.data-root", "base.data-root.permissions"} BY <1>1, <1>2, <1>3
<1>6. \A x \in Bases : x \notin IDsOf(T) BY <1>5 DEF IDsOf, Bases
<1>7. Shape(T) BY <1>4, <1>5, <1>6 DEF Shape, UnitFeatures, Dockers
<1>8. Promising(h, T) BY <1>7 DEF Promising, Passable, Fit, Dockers
<1>9. \A c \in T : \A pre \in c.pre : Holds(pre, h) BY <1>1, <1>2, <1>3
    DEF Holds, StorageHolds, UnitHolds, UnitFeatures, Dockers
<1>10. FirstHolds(h, T) BY <1>9 DEF FirstHolds
<1>11. QED BY <1>8, <1>10 DEF T

LEMMA StorageFits ==
  ASSUME F = "storage", NEW h \in Disks, Sound(h), NoneBlocked(PlanStorage(h))
  PROVE  Promising(h, PlanStorage(h)) /\ FirstHolds(h, PlanStorage(h))
<1> DEFINE T == PlanStorage(h)
           A == Change("storage.mountpoint", "storage.prepare-mountpoint", {}, {"mountpoint"}, FALSE)
           B == Change("storage.mount-config", "storage.configure-mount", {"storage.mountpoint"}, {"fstab"}, FALSE)
           C == Change("storage.mount", "storage.mount", {"storage.mount-config"}, {"mountpoint", "configured"}, FALSE)
<1>1. Fit(h) BY DEF Fit, Sound, Dockers
<1>2. FirstHolds(h, T) BY DEF FirstHolds, UnitFeatures, Dockers
<1>3. CASE T = {} BY <1>1, <1>2, <1>3 DEF Promising, Dockers
<1>4. CASE T # {}
  <2>1. T # {Blocked("storage.blocked", "storage.blocked")} BY BlockedIsBlocked DEF NoneBlocked
  <2>2. T = {A, B, C} /\ Assess(h) = "missing" /\ machine.managed BY <1>4, <2>1 DEF PlanStorage
  <2>3. h.fstab \in {"absent", "exact", "external"} BY <2>2 DEF Assess, Disks
  <2>4. /\ A.id = "storage.mountpoint" /\ A.pre = {"mountpoint"}
        /\ B.id = "storage.mount-config" /\ B.pre = {"fstab"}
        /\ C.id = "storage.mount" /\ C.pre = {"mountpoint", "configured"} /\ C.deps = {"storage.mount-config"}
    BY DEF Change
  <2> HIDE DEF T, A, B, C
  <2>5. \A c, d \in T : c.id = d.id => c = d BY <2>2, <2>4
  <2>6. \A x \in Bases : x \notin IDsOf(T) BY <2>2, <2>4 DEF IDsOf, Bases
  <2>7. "storage.mount-config" \in IDsOf(T) BY <2>2, <2>4 DEF IDsOf
  <2>8. Shape(T) BY <2>2, <2>4, <2>5, <2>6 DEF Shape, UnitFeatures, Dockers
  <2>9. Passable(h, T) BY <2>3, <2>7 DEF Passable, Dockers
  <2>10. QED BY <1>1, <1>2, <2>8, <2>9 DEF Promising, Dockers, T
<1>5. QED BY <1>3, <1>4

\* A plan with nothing in the way, of a healthy host, can be begun.
LEMMA PlanFits ==
  ASSUME TypeInv, NoneBlocked(Plan(host)), Sound(host), ~Unfinishable, Plan(host) # {}
  PROVE  Promising(host, Plan(host)) /\ FirstHolds(host, Plan(host)) /\ Defined(host, <<>>)
<1>0. MachineOK /\ F \in AllFeatures BY HostModulesAssumption DEF TypeInv, MachineOK, F
<1>1. machine.sudo
  <2>1. PICK c \in Plan(host) : ~c.blocked BY DEF NoneBlocked
  <2>2. QED BY <1>0, <2>1, PlanPlanned DEF PlannedOK
<1>2. F \in UnitFeatures => host \in UnitsOf(P, F)
  BY DEF TypeInv, HostOK, Possible, HostsOf, UnitFeatures, Dockers
<1>3. Defined(host, <<>>) BY DEF Defined, Sound, UnitFeatures, Dockers
<1>4. CASE F \in Dockers
  <2>1. Plan(host) = PlanDocker(UnitFacts(host)) BY <1>4 DEF Plan, Dockers
  <2>2. P \notin {"alpine", "devuan"} BY <1>4 DEF Unfinishable
  <2>3. DockerClear(UnitFacts(host)) BY <1>0, <1>1, <1>2, <1>4, <2>1, DockerBlocks DEF UnitFeatures
  <2>4. QED BY <1>0, <1>2, <1>3, <1>4, <2>1, <2>2, <2>3, DockerFits DEF UnitFeatures
<1>5. CASE F = "tailscale"
  <2>1. Plan(host) = PlanTailscale(UnitFacts(host)) BY <1>5 DEF Plan, Dockers
  <2>2. P # "alpine" /\ (P \in RPM => ~host.main /\ ~host.conflict) BY <1>5 DEF Unfinishable
  <2>3. TailscaleClear(UnitFacts(host)) BY <1>0, <1>1, <1>2, <1>5, <2>1, TailscaleBlocks DEF UnitFeatures
  <2>4. QED BY <1>0, <1>2, <1>3, <1>5, <2>1, <2>2, <2>3, TailscaleFits DEF UnitFeatures
<1>6. CASE F = "updates"
  <2>1. Plan(host) = PlanUpdates(UnitFacts(host)) BY <1>6 DEF Plan, Dockers
  <2>2. P \notin {"alpine", "devuan"} BY <1>6 DEF Unfinishable
  <2>3. UpdatesClear(UnitFacts(host)) BY <1>0, <1>1, <1>2, <1>6, <2>1, UpdatesBlocks DEF UnitFeatures
  <2>4. QED BY <1>0, <1>2, <1>3, <1>6, <2>1, <2>2, <2>3, UpdatesFits DEF UnitFeatures
<1>7. CASE F = "ssh"
  <2>1. Plan(host) = PlanSSH(host) BY <1>7 DEF Plan, Dockers
  <2>2. host.earlier \in {"none", "foreign", "leftover"} BY <1>7 DEF TypeInv, HostOK, Possible, Shells
  <2>3. QED BY <1>3, <1>7, <2>1, <2>2, SSHFits
<1>8. CASE F = "base"
  <2>1. Plan(host) = PlanBase(host) BY <1>8 DEF Plan, Dockers
  <2>2. QED BY <1>3, <1>8, <2>1, BaseFits
<1>9. CASE F = "storage"
  <2>1. Plan(host) = PlanStorage(host) BY <1>9 DEF Plan, Dockers
  <2>2. host \in Disks BY <1>9 DEF TypeInv, HostOK, Possible, HostsOf, Dockers
  <2>3. QED BY <1>3, <1>9, <2>1, <2>2, StorageFits
<1>10. QED BY <1>0, <1>4, <1>5, <1>6, <1>7, <1>8, <1>9 DEF AllFeatures, Dockers

-----------------------------------------------------------------------------
(* What was planned can be carried out: steps. *)

\* What is said of a host and its changes is said in the same words after a step.
LEMMA SameFit ==
  ASSUME machine' = machine
  PROVE  /\ Promising(host, todo)' <=> Promising(host', todo')
         /\ Defined(host, script)' <=> Defined(host', script')
         /\ FirstHolds(host, todo)' <=> FirstHolds(host', todo')
<1>0. P' = P /\ F' = F BY DEF P, F
<1>1. Fit(host)' <=> Fit(host') BY <1>0 DEF Fit
<1>2. Passable(host, todo)' <=> Passable(host', todo') BY <1>0 DEF Passable, MountConfigured, IDsOf
<1>3. Shape(todo)' <=> Shape(todo') BY <1>0 DEF Shape, UnitFeatures, Dockers, IDsOf, Bases
<1>4. Promising(host, todo)' <=> Promising(host', todo') BY <1>0, <1>1, <1>2, <1>3 DEF Promising, Dockers, IDsOf
<1>5. Defined(host, script)' <=> Defined(host', script') BY <1>0 DEF Defined, UnitFeatures, Dockers
<1>6. ASSUME NEW pre PROVE Holds(pre, host)' <=> Holds(pre, host')
  <2>1. VoidFacts(host)' = VoidFacts(host') BY <1>0 DEF VoidFacts, Seen, Ownership
  <2>2. QED BY <1>0, <2>1 DEF Holds, RepositorySafe, MountpointSafe, MountConfigured, StorageHolds, UnitHolds,
                              Unrecognized, UnitFeatures, Dockers
<1>7. FirstHolds(host, todo)' <=> FirstHolds(host', todo') BY <1>0, <1>6 DEF FirstHolds, UnitFeatures, Dockers
<1>8. QED BY <1>4, <1>5, <1>7

LEMMA SameScript ==
  ASSUME machine' = machine, NEW c
  PROVE  Script(c)' = Script(c)
<1>1. P' = P /\ F' = F BY DEF P, F
<1>2. QED
  BY <1>1 DEF Script, DockerScript, TailscaleScript, DevuanTailscaleScript, UpdatesScript, SSHScript, EnableScript,
              ComposeScript, BaseScript, StorageScript

LEMMA SameUnderway ==
  ASSUME machine' = machine, todo' = todo
  PROVE  Underway(host, Following(todo), script)' <=> Underway(host', Following(todo), script')
<1> DEFINE c == Following(todo)
<1>0. P' = P /\ F' = F BY DEF P, F
<1>1. c' = c BY DEF Following, Unlocked, IDsOf
<1>2. Script(c)' = Script(c')
  BY <1>0 DEF Script, DockerScript, TailscaleScript, DevuanTailscaleScript, UpdatesScript, SSHScript, EnableScript,
              ComposeScript, BaseScript, StorageScript
<1>3. \A step : Made(step, host)' <=> Made(step, host') BY <1>0 DEF Made, Ready, MountConfigured
<1>4. \A a, b : (Before(a, b, script)' <=> Before(a, b, script')) /\ (Lacks(b, script)' <=> Lacks(b, script'))
  BY DEF Before, Lacks
<1> HIDE DEF c
<1>5. Underway(host, c, script)' <=> Underway(host', c', script')
  <2>1. Script(c') = Script(c) BY <1>1
  <2>2. QED BY <1>0, <1>1, <1>2, <1>3, <1>4, <2>1 DEF Underway, Accepted, UnitFeatures, Dockers
<1>6. QED BY <1>1, <1>5 DEF c

\* A step leaves a healthy host healthy, spoils nothing an earlier step has made, and makes what it is for.
LEMMA DoFit ==
  ASSUME MachineOK, NEW h \in Possible, NEW step \in Steps, Able(step, h), Fit(h),
         F \in UnitFeatures => h.repo # "beside"
  PROVE  /\ Fit(Do(step, h))
         /\ \A T : Passable(h, T) => Passable(Do(step, h), T)
         /\ \A other \in Steps : Made(other, h) => Made(other, Do(step, h))
         /\ Made(step, Do(step, h))
         /\ F \in UnitFeatures => (h.main => Do(step, h).main) /\ (h.repo = "managed" => Do(step, h).repo = "managed")
<1>0. F \in AllFeatures BY HostModulesAssumption DEF MachineOK, F
<1> DEFINE g == Do(step, h)
<1>1. CASE F \in UnitFeatures
  <2>1. h \in UnitsOf(P, F) BY <1>1 DEF Possible, HostsOf, UnitFeatures, Dockers
  <2>2. step \in {"recheck", "quiet", "package", "rest", "compose", "enable", "start", "repo", "index"}
    BY <1>1 DEF Steps, UnitFeatures, Dockers
  <2>3. h \in Units /\ h.run \in {"down", "up", "hung"} BY <2>1, UnitsAreUnits DEF Units
  <2>4. /\ g.avail = h.avail /\ g.plugin = h.plugin /\ g.conflict = h.conflict
        /\ g.repo \in {h.repo, "managed"}
        /\ (h.main => g.main) /\ (h.rest => g.rest)
        /\ g.link \in {h.link, "correct"}
        /\ g.run \in {h.run, "up"}
        /\ h.run = "down" /\ step = "start" => g.run = "up"
    BY <1>1, <2>3, UnitEffects
  <2>5. /\ step = "repo" => g.repo = "managed" /\ (<<P, F>> = <<"debian", "updates">> => Ready(g))
        /\ step = "package" => g.main
        /\ step \in {"rest", "compose", "index"} => g.rest
        /\ step = "enable" => g.link = "correct"
    BY <1>1, <2>3, UnitEffects DEF Ready
  <2>6. h.run # "hung" /\ h.avail /\ h.plugin BY <1>1 DEF Fit, UnitFeatures, Dockers
  <2> HIDE DEF g
  <2>7. Fit(g) BY <1>1, <2>4, <2>6 DEF Fit, UnitFeatures, Dockers
  <2>8. ASSUME NEW T, Passable(h, T) PROVE Passable(g, T)
    BY <1>1, <2>4, <2>8 DEF Passable, UnitFeatures, Dockers, Ownership
  <2>9. \A other \in Steps : Made(other, h) => Made(other, g)
    <3>1. \A other \in Steps : other \notin {"dropin", "root", "fstab", "mount"}
      BY <1>1 DEF Steps, UnitFeatures, Dockers
    <3>2. QED BY <2>3, <2>4, <3>1 DEF Made, Ready
  <2>10. Made(step, g)
    <3>1. step = "start" => g.run = "up" BY <2>3, <2>4, <2>6
    <3>2. QED BY <2>2, <2>5, <3>1 DEF Made
  <2>11. QED BY <2>4, <2>7, <2>8, <2>9, <2>10 DEF g
<1>2. CASE F = "ssh"
  <2>1. step \in {"candidate", "dropin", "reload"} BY <1>2 DEF Steps
  <2>2. h \in Shells BY <1>2 DEF Possible
  <2>3. /\ g.wins = h.wins /\ g.service = h.service /\ g.valid = h.valid /\ g.included = h.included
        /\ g.earlier \in {h.earlier, "leftover", "none"}
        /\ h.dropin = "ours" => g.dropin = "ours"
        /\ step = "dropin" => g.dropin = "ours"
    BY <1>2, <2>1, <2>2 DEF Do, Shells, SSHDo
  <2> HIDE DEF g
  <2>4. \A other \in Steps : other \in {"candidate", "dropin", "reload"} BY <1>2 DEF Steps
  <2>5. QED BY <1>2, <2>1, <2>3, <2>4 DEF Fit, Passable, Made, UnitFeatures, Dockers, g
<1>3. CASE F = "base"
  <2>1. step = "root" BY <1>3 DEF Steps
  <2>2. h \in Roots BY <1>3 DEF Possible, HostsOf, Dockers
  <2>3. g.root = "right" BY <1>3, <2>1, <2>2 DEF Do, Roots
  <2> HIDE DEF g
  <2>4. \A other \in Steps : other = "root" BY <1>3 DEF Steps
  <2>5. QED BY <1>3, <2>1, <2>3, <2>4 DEF Fit, Passable, Made, UnitFeatures, Dockers, g
<1>4. CASE F = "storage"
  <2>1. step \in {"mountpoint", "fstab", "mount"} BY <1>4 DEF Steps
  <2>2. h \in Disks BY <1>4 DEF Possible, HostsOf, Dockers
  <2>3. /\ g.device = h.device /\ g.dir \in {h.dir, "empty"}
        /\ g.mounted \in {h.mounted, "right"} /\ (step = "mount" => g.mounted = "right")
        /\ g.fstab = h.fstab \/ (h.fstab = "absent" /\ g.fstab = "exact")
        /\ step = "fstab" /\ h.fstab = "absent" => g.fstab = "exact"
    BY <1>4, <2>1, <2>2 DEF Do, Disks, StorageDo
  <2>4. step = "fstab" => MountConfigured(h) \/ h.fstab = "absent" BY <1>4 DEF Able, StorageAble
  <2> HIDE DEF g
  <2>5. \A other \in Steps : other \in {"mountpoint", "fstab", "mount"} BY <1>4 DEF Steps
  <2>6. QED BY <1>4, <2>1, <2>3, <2>4, <2>5 DEF Fit, Passable, Made, MountConfigured, UnitFeatures, Dockers, g
<1>5. QED BY <1>0, <1>1, <1>2, <1>3, <1>4 DEF AllFeatures, UnitFeatures, Dockers

\* On a healthy host no step of a script that is under way fails.
LEMMA AbleFit ==
  ASSUME TypeInv, pc = "running", script # <<>>, ~Unfinishable, Promising(host, todo), Defined(host, script),
         NEW c, Underway(host, c, script)
  PROVE  Able(Head(script), host)
<1> DEFINE step == Head(script)
<1>1. todo # {} /\ script \in Seq(Steps) /\ MachineOK /\ host \in Possible BY DEF TypeInv, ApplyOK, HostOK
<1>2. step \in Steps BY <1>1
<1>3. Fit(host) /\ Passable(host, todo) BY <1>1 DEF Promising
<1>4. F \in AllFeatures BY <1>1, HostModulesAssumption DEF MachineOK, F
<1>5. CASE F \in UnitFeatures
  <2>1. host \in UnitsOf(P, F) BY <1>1, <1>5 DEF Possible, HostsOf, UnitFeatures, Dockers
  <2>2. host.avail /\ ~host.conflict /\ host.link # "conflict" /\ (host.repo # "unmanaged" \/ P \in {"debian", "void"})
    BY <1>3, <1>5 DEF Fit, Passable, UnitFeatures, Dockers, Ownership
  <2>3. ~Unrecognized BY <1>5 DEF Unfinishable, Unrecognized, UnitFeatures
  <2>4. step = "recheck" => P \notin {"debian", "void"}
    BY <1>1, <1>5, LacksTail DEF Underway
  <2>5. step = "enable" => host.main \/ <<P, F>> = <<"leap", "updates">>
    BY <1>1, <1>5, BeforeTail DEF Underway
  <2>6. step = "enable" => host.definition
    <3>1. CASE host.main
      <4>1. step = "enable" => script # <<"rest">> BY <1>1
      <4>2. QED BY <1>5, <3>1, <4>1 DEF Defined
    <3>2. CASE P = "leap" /\ F = "updates" BY <2>1, <3>2 DEF UnitsOf, Only, Dockers
    <3>3. QED BY <2>5, <3>1, <3>2
  <2>7. step \in {"recheck", "quiet", "package", "rest", "compose", "enable", "start", "repo", "index"}
    BY <1>2, <1>5 DEF Steps, UnitFeatures, Dockers
  <2> HIDE DEF step
  <2>8. UnitAble(step, host) BY <2>2, <2>3, <2>4, <2>5, <2>6, <2>7
      DEF RepositorySafe, Offered, UnitAble, Rechecked, Replaceable, Enableable
  <2>9. QED BY <1>5, <2>8, UnitSteps DEF step
<1>6. CASE F = "ssh"
  <2>1. step \in {"candidate", "dropin", "reload"} BY <1>2, <1>6 DEF Steps
  <2>2. QED BY <1>3, <1>6, <2>1 DEF Able, Fit, Passable, SSHAble
<1>7. CASE F = "base"
  <2>1. step = "root" BY <1>2, <1>7 DEF Steps
  <2>2. QED BY <2>1 DEF Able, UnitAble, SSHAble, StorageAble, Rechecked, Replaceable, Enableable, UnitFeatures, Dockers
<1>8. CASE F = "storage"
  <2>1. step \in {"mountpoint", "fstab", "mount"} BY <1>2, <1>8 DEF Steps
  <2>2. QED BY <1>3, <1>8, <2>1 DEF Able, Fit, Passable, MountConfigured, Dockers, UnitAble, SSHAble, StorageAble,
                                    Rechecked, Replaceable, Enableable, UnitFeatures
<1>9. QED BY <1>4, <1>5, <1>6, <1>7, <1>8 DEF AllFeatures, UnitFeatures, Dockers

\* After a step a package has its service, but for Artix between its two packages.
LEMMA StepDefines ==
  ASSUME MachineOK, F \in UnitFeatures, NEW h \in UnitsOf(P, F), NEW s \in Seq(Steps), s # <<>>, Defined(h, s),
         F = "updates" => P \notin {"alpine", "devuan", "arch", "artix", "void"},
         P = "artix" => s \in {<<>>, <<"package", "rest">>, <<"rest">>, <<"enable", "start">>, <<"start">>}
  PROVE  Defined(Do(Head(s), h), Tail(s))
<1> DEFINE step == Head(s)
           g == Do(step, h)
<1>1. step \in {"recheck", "quiet", "package", "rest", "compose", "enable", "start", "repo", "index"}
  BY DEF Steps, UnitFeatures, Dockers
<1>2. h = [main |-> h.main, rest |-> h.rest, repo |-> h.repo, avail |-> h.avail, conflict |-> h.conflict,
           held |-> h.held, definition |-> h.definition, link |-> h.link, run |-> h.run, cgroups |-> h.cgroups,
           cgsvc |-> h.cgsvc, plugin |-> h.plugin]
      /\ h.main \in BOOLEAN /\ h.definition \in BOOLEAN
  BY DEF UnitsOf, Only
<1>3. (h.definition => g.definition) /\ (g.main => h.main \/ step = "package") BY <1>1, <1>2
    DEF Do, UnitDo, SSHDo, StorageDo, FileWritten, PackageInstalled, UnitFeatures, Dockers
<1>4. CASE h.main /\ h.definition BY <1>3, <1>4 DEF Defined
<1>5. CASE h.main /\ ~h.definition
  <2>1. P = "artix" /\ s = <<"rest">> BY <1>5 DEF Defined
  <2>2. step = "rest" BY <2>1
  <2>3. g.definition BY <1>2, <2>1, <2>2 DEF Do, UnitDo, SSHDo, StorageDo, FileWritten, PackageInstalled,
                                             UnitFeatures, Dockers
  <2>4. QED BY <2>3 DEF Defined
<1>6. CASE ~h.main /\ step = "package"
  <2>1. CASE F = "updates"
    <3>1. h.definition BY <2>1 DEF UnitsOf, Only, Dockers
    <3>2. QED BY <1>3, <3>1 DEF Defined
  <2>2. CASE F # "updates" /\ P # "artix"
    <3>1. g.definition BY <1>2, <1>6, <2>2 DEF Do, UnitDo, SSHDo, StorageDo, FileWritten, PackageInstalled,
                                               UnitFeatures, Dockers
    <3>2. QED BY <3>1 DEF Defined
  <2>3. CASE P = "artix"
    <3>1. s = <<"package", "rest">> BY <1>6, <2>3
    <3>2. Tail(s) = <<"rest">> BY <3>1
    <3>3. QED BY <2>3, <3>2 DEF Defined
  <2>4. QED BY <2>1, <2>2, <2>3
<1>7. CASE ~g.main BY <1>7 DEF Defined
<1>8. QED BY <1>2, <1>3, <1>4, <1>5, <1>6, <1>7

\* A step that succeeds leaves its script under way.
LEMMA StepUnderway ==
  ASSUME MachineOK, NEW h \in Possible, NEW s \in Seq(Steps), s # <<>>, NEW c, ChangeOK(c), Underway(h, c, s),
         Able(Head(s), h), Fit(h), F \in UnitFeatures => h.repo # "beside"
  PROVE  Underway(Do(Head(s), h), c, Tail(s))
<1> DEFINE step == Head(s)
           g == Do(step, h)
<1>1. step \in Steps OBVIOUS
<1>2. /\ \A other \in Steps : Made(other, h) => Made(other, g)
      /\ Made(step, g)
      /\ F \in UnitFeatures => (h.main => g.main)
  BY <1>1, DoFit
<1>3. c.kind \in Accepted BY DEF Underway
<1>4. Script(c) \in Seq(Steps) BY <1>3, ScriptTyped
<1> HIDE DEF g
<1>5. ASSUME NEW i \in 1 .. Len(Script(c)) PROVE Made(Script(c)[i], g) \/ ~Lacks(Script(c)[i], Tail(s))
  <2> DEFINE x == Script(c)[i]
  <2>1. x \in Steps BY <1>4
  <2>2. Made(x, h) \/ ~Lacks(x, s) BY DEF Underway
  <2> SUFFICES Made(x, g) \/ ~Lacks(x, Tail(s)) OBVIOUS
  <2> HIDE DEF x
  <2>3. CASE Made(x, h) BY <1>2, <2>1, <2>3
  <2>4. CASE x = step BY <1>2, <2>4
  <2>5. CASE ~Lacks(x, s) /\ x # step BY <2>5, LacksHead
  <2>6. QED BY <2>2, <2>3, <2>4, <2>5
<1>6. ASSUME F \in UnitFeatures
      PROVE  /\ Before("package", "enable", Tail(s)) \/ g.main \/ <<P, F>> = <<"leap", "updates">>
             /\ P \in {"debian", "void"} => Lacks("recheck", Tail(s))
             /\ P = "artix" => Tail(s) \in {<<>>, <<"package", "rest">>, <<"rest">>, <<"enable", "start">>, <<"start">>}
  <2>1. CASE P = "artix"
    <3>1. s \in {<<"package", "rest">>, <<"rest">>, <<"enable", "start">>, <<"start">>} BY <1>6, <2>1 DEF Underway
    <3>0. Before("package", "enable", <<"rest">>) /\ Before("package", "enable", <<"start">>) BY DEF Before
    <3>2. CASE s = <<"package", "rest">>
      <4>1. Tail(s) = <<"rest">> BY <3>2
      <4>2. Before("package", "enable", Tail(s)) BY <3>0, <4>1
      <4>3. QED BY <2>1, <4>1, <4>2
    <3>3. CASE s = <<"enable", "start">>
      <4>1. Tail(s) = <<"start">> BY <3>3
      <4>2. Before("package", "enable", Tail(s)) BY <3>0, <4>1
      <4>3. QED BY <2>1, <4>1, <4>2
    <3>4. CASE s \in {<<"rest">>, <<"start">>}
      <4>1. Tail(s) = <<>>
        <5>1. CASE s = <<"rest">> BY <5>1
        <5>2. CASE s = <<"start">> BY <5>2
        <5>3. QED BY <3>4, <5>1, <5>2
      <4>2. Before("package", "enable", Tail(s)) BY <4>1, EmptyScript
      <4>3. QED BY <2>1, <4>1, <4>2
    <3>5. QED BY <3>1, <3>2, <3>3, <3>4
  <2>2. step = "package" => g.main
    <3>1. step = "package" => Made("package", g) BY <1>2
    <3>2. QED BY <3>1 DEF Made
  <2>3. Before("package", "enable", Tail(s)) \/ g.main \/ <<P, F>> = <<"leap", "updates">>
    <3>1. CASE Before("package", "enable", s) BY <2>2, <3>1, BeforeTail
    <3>2. CASE ~Before("package", "enable", s) BY <1>2, <1>6, <3>2 DEF Underway
    <3>3. QED BY <3>1, <3>2
  <2>4. P \in {"debian", "void"} => Lacks("recheck", Tail(s)) BY <1>6, LacksTail DEF Underway
  <2>5. QED BY <2>1, <2>3, <2>4
<1>7. QED BY <1>3, <1>5, <1>6 DEF Underway, g

LEMMA FitStep ==
  ASSUME TypeInv, FitInv, Step
  PROVE  FitInv'
<1>1. [Next]_vars BY DEF Next
<1>2. /\ machine' = machine /\ P' = P /\ F' = F /\ stale' = stale /\ excuse' = excuse
      /\ pc = "running" /\ script # <<>> /\ script \in Seq(Steps) /\ todo # {} /\ outcome = "none"
      /\ MachineOK /\ host \in Possible
  BY <1>1, SameMachine DEF Step, TypeInv, ApplyOK, HostOK
<1>3. CASE excuse
  <2>1. QED BY <1>2, <1>3 DEF FitInv, PlannedIsAppliable
<1>4. CASE Unfinishable
  <2>1. Unfinishable'
    <3>1. ASSUME F = "tailscale", host.main \/ host.conflict PROVE host'.main \/ host'.conflict
      <4>1. host \in Units /\ F \in UnitFeatures
        BY <1>2, <3>1, UnitsAreUnits DEF Possible, HostsOf, Dockers, UnitFeatures
      <4>2. Do(Head(script), host).main \/ Do(Head(script), host).conflict BY <3>1, <4>1, UnitEffects
      <4>3. Cleaned(host) = host BY <3>1 DEF Cleaned
      <4>4. host' \in {Do(Head(script), host), host} BY <4>3 DEF Step
      <4>5. QED BY <3>1, <4>2, <4>4
    <3>2. QED BY <1>2, <1>4, <3>1 DEF Unfinishable
  <2>2. pc' # "idle" /\ ~excuse' => stale' = "nothing"
    <3>1. pc' = "idle" \/ pc' = pc BY DEF Step, End
    <3>2. QED BY <1>2, <3>1 DEF FitInv
  <2>3. QED BY <1>2, <2>1, <2>2 DEF FitInv, PlannedIsAppliable
<1>5. CASE ~excuse /\ ~Unfinishable
  <2> DEFINE c == Following(todo)
             step == Head(script)
             g == Do(step, host)
  <2>1. /\ stale = "nothing" /\ Promising(host, todo) /\ Defined(host, script) /\ Underway(host, c, script)
    BY <1>2, <1>5 DEF FitInv
  <2>2. Able(step, host) BY <1>2, <1>5, <2>1, AbleFit
  <2>3. /\ host' = g /\ script' = Tail(script) /\ pc' = pc /\ todo' = todo /\ outcome' = outcome
    BY <2>2 DEF Step
  <2>4. Fit(host) /\ Passable(host, todo) /\ step \in Steps BY <1>2, <2>1 DEF Promising
  <2>4a. F \in UnitFeatures => host.repo # "beside"
    <3>1. ASSUME F \in UnitFeatures PROVE host.repo # "beside"
      <4>1. Ownership(host) # "unmanaged" \/ P \in {"debian", "void"}
        BY <2>4, <3>1 DEF Passable, UnitFeatures, Dockers
      <4>2. host.repo \in ReposOf(P, F)
        BY <1>2, <3>1 DEF Possible, HostsOf, UnitFeatures, Dockers, UnitsOf
      <4>3. QED BY <4>1, <4>2 DEF Ownership, ReposOf, Only, LastCounts
    <3>2. QED BY <3>1
  <2>5. /\ Fit(g) /\ Passable(g, todo)
        /\ F \in UnitFeatures => (host.main => g.main) /\ (host.repo = "managed" => g.repo = "managed")
    BY <1>2, <2>2, <2>4, <2>4a, DoFit
  <2>6. Promising(g, todo) BY <1>2, <2>1, <2>5 DEF Promising, UnitFeatures
  <2>7. ChangeOK(c) BY <1>2, AtHand DEF TypeInv, TodoOK
  <2>8. Underway(g, c, Tail(script)) BY <1>2, <2>1, <2>2, <2>4, <2>7, <2>4a, StepUnderway
  <2>9. Defined(g, Tail(script))
    <3>1. CASE F \in UnitFeatures
      <4>1. host \in UnitsOf(P, F) BY <1>2, <3>1 DEF Possible, HostsOf, UnitFeatures, Dockers
      <4>2. F = "updates" => P \notin {"alpine", "devuan", "arch", "artix", "void"}
        BY <1>5, <2>4 DEF Unfinishable, Passable, Dockers
      <4>3. P = "artix" => script \in {<<>>, <<"package", "rest">>, <<"rest">>, <<"enable", "start">>, <<"start">>}
        BY <2>1, <3>1 DEF Underway
      <4>4. QED BY <1>2, <2>1, <3>1, <4>1, <4>2, <4>3, StepDefines
    <3>2. CASE F \notin UnitFeatures BY <3>2 DEF Defined
    <3>3. QED BY <3>1, <3>2
  <2> HIDE DEF g, c, step
  <2>10. Promising(host, todo)' /\ Defined(host, script)'
    BY <1>2, <2>3, <2>6, <2>9, SameFit
  <2>11. Underway(host, c, script)' BY <1>2, <2>3, <2>8, SameUnderway DEF c
  <2>12. PlannedIsAppliable' BY <1>2, <2>3 DEF PlannedIsAppliable
  <2>13. QED BY <1>2, <2>1, <2>3, <2>10, <2>11, <2>12 DEF FitInv, c
<1>6. QED BY <1>3, <1>4, <1>5

-----------------------------------------------------------------------------
(* What was planned can be carried out: checks and verifications. *)

\* A change at hand waits for no base: it is done.
LEMMA BasesDone ==
  ASSUME TypeInv, todo # {}, Shape(todo), NEW x \in Bases, x \in IDsOf(todo)
  PROVE  Following(todo).id = x
<1> DEFINE c == Following(todo)
<1>1. c \in todo /\ c.deps \cap IDsOf(todo) = {} BY AtHand
<1> HIDE DEF c
<1>2. c.id # x => x \in c.deps BY <1>1 DEF Shape
<1>3. c.id = x BY <1>1, <1>2
<1>4. QED BY <1>3 DEF c

\* Behind the change that installs the package, the package is there.
LEMMA BaseIsThere ==
  ASSUME TypeInv, todo # {}, Shape(todo), ~Unfinishable, Covered(host, IDsOf(todo)), Following(todo).id \notin Bases
  PROVE  /\ F \in Dockers => host.main /\ (P # "debian" => host.rest)
         /\ F = "tailscale" => host.main
<1>1. \A x \in Bases : x \notin IDsOf(todo) BY BasesDone
<1>2. "docker.engine" \notin IDsOf(todo) /\ "tailscale.package" \notin IDsOf(todo) BY <1>1 DEF Bases
<1>3. F \in Dockers => P # "devuan" BY DEF Unfinishable
<1>4. QED BY <1>2, <1>3 DEF Covered, Dockers

\* On a healthy host the last check before a script finds nothing wrong.
LEMMA CheckHolds ==
  ASSUME TypeInv, todo # {}, Promising(host, todo), FirstHolds(host, todo)
  PROVE  LET c == Following(todo) IN c.kind \in Accepted /\ \A pre \in c.pre : Holds(pre, host)
<1> DEFINE c == Following(todo)
<1>1. c \in todo /\ c.deps \cap IDsOf(todo) = {} /\ MachineOK BY AtHand DEF TypeInv
<1>2. c.id \in Parts /\ c.kind = KindOf(c.id) BY <1>1 DEF TypeInv, TodoOK, ChangeOK
<1>3. Fit(host) /\ Passable(host, todo) /\ Shape(todo) BY DEF Promising
<1>4. F \in AllFeatures BY <1>1, HostModulesAssumption DEF MachineOK, F
<1> HIDE DEF c
<1>5. c.kind \in Accepted
  <2>1. c.id # "docker.cgroups" BY <1>1, <1>3 DEF Shape
  <2>2. c.id \in {"docker.engine", "docker.service", "docker.compose", "tailscale.package", "tailscale.service",
                  "updates.unattended", "ssh.hardening", "base.data-root", "base.data-root.permissions",
                  "storage.mountpoint", "storage.mount-config", "storage.mount"}
    BY <1>2, <1>4, <2>1 DEF Parts, AllFeatures, Dockers
  <2>3. QED BY <1>2, <2>2 DEF KindOf, Accepted
<1>6. ASSUME NEW pre \in c.pre PROVE Holds(pre, host)
  <2>1. CASE F \in UnitFeatures \cup {"base"} BY <1>1, <2>1 DEF FirstHolds
  <2>2. CASE F = "ssh"
    <3>1. c.id \notin Bases BY <1>2, <2>2 DEF Parts, Bases, Dockers
    <3>2. c.pre = {} BY <1>1, <1>3, <2>2, <3>1 DEF Shape
    <3>3. QED BY <3>2
  <2>3. CASE F = "storage"
    <3>1. /\ c.pre \subseteq {"mountpoint", "fstab", "configured"}
          /\ "configured" \in c.pre => "storage.mount-config" \in c.deps
      BY <1>1, <1>3, <2>3 DEF Shape
    <3>2. CASE pre = "mountpoint" BY <1>3, <2>3, <3>2 DEF Fit, Holds, MountpointSafe, Dockers, StorageHolds,
                                                          UnitHolds, UnitFeatures
    <3>3. CASE pre = "fstab" BY <1>3, <2>3, <3>3 DEF Passable, Holds, MountConfigured, Dockers, StorageHolds,
                                                     UnitHolds, UnitFeatures
    <3>4. CASE pre = "configured"
      <4>1. "storage.mount-config" \notin IDsOf(todo) BY <1>1, <3>1, <3>4
      <4>2. MountConfigured(host) BY <1>3, <2>3, <4>1 DEF Passable, Dockers
      <4>3. QED BY <2>3, <3>4, <4>2, StoragePreconditions
    <3>5. QED BY <3>1, <3>2, <3>3, <3>4
  <2>4. QED BY <1>4, <2>1, <2>2, <2>3 DEF AllFeatures, UnitFeatures, Dockers
<1>7. QED BY <1>5, <1>6 DEF c

\* A script that starts is under way.
LEMMA ScriptUnderway ==
  ASSUME TypeInv, todo # {}, ~Unfinishable, Promising(host, todo), Covered(host, IDsOf(todo)),
         Following(todo).kind \in Accepted
  PROVE  Underway(host, Following(todo), Script(Following(todo)))
<1> DEFINE c == Following(todo)
           s == Script(c)
<1>1. c \in todo /\ MachineOK BY AtHand DEF TypeInv
<1>2. ChangeOK(c) /\ c.id \in Parts /\ c.kind = KindOf(c.id) BY <1>1 DEF TypeInv, TodoOK, ChangeOK
<1>3. Passable(host, todo) /\ Shape(todo) BY DEF Promising
<1>4. P \in AllPlatforms BY <1>1, HostModulesAssumption DEF MachineOK, P
<1>5. c.kind \in Accepted /\ s \in Seq(Steps) BY <1>1, <1>2, ScriptTyped
<1>6. c.id \notin Bases => (F \in Dockers \cup {"tailscale"} => host.main) BY <1>3, BaseIsThere
<1>7. P = "artix" => c.id # "docker.compose" BY <1>1, <1>3 DEF Shape
<1> HIDE DEF c
<1>8. \A i \in 1 .. Len(s) : ~Lacks(s[i], s) BY <1>5 DEF Lacks
<1>9. ASSUME F \in UnitFeatures
      PROVE  /\ Before("package", "enable", s) \/ host.main \/ <<P, F>> = <<"leap", "updates">>
             /\ P \in {"debian", "void"} => Lacks("recheck", s)
             /\ P = "artix" => s \in {<<>>, <<"package", "rest">>, <<"rest">>, <<"enable", "start">>, <<"start">>}
  <2> HIDE DEF s
  <2>1. CASE F \in Dockers /\ s = DockerScript
    <3>1. P \notin {"alpine", "devuan"} BY <2>1 DEF Unfinishable
    <3>2. s \in {<<"package">>, <<"repo", "package", "rest">>, <<"package", "rest">>} /\ (P = "artix" => s = <<"package", "rest">>)
      BY <2>1, <3>1 DEF DockerScript
    <3>3. Before("package", "enable", s) /\ Lacks("recheck", s) BY <3>2 DEF Before, Lacks
    <3>4. QED BY <3>2, <3>3
  <2>2. CASE F = "tailscale" /\ s = TailscaleScript
    <3>1. P # "alpine" BY <2>2 DEF Unfinishable
    <3>2. /\ s \in {<<"recheck", "repo", "index", "package">>, <<"package">>, <<"package", "rest">>, <<"repo", "package">>}
          /\ P = "artix" => s = <<"package", "rest">>
          /\ P \in {"debian", "void"} => s \in {<<"package">>, <<"repo", "package">>}
      BY <2>2, <3>1 DEF TailscaleScript, DevuanTailscaleScript
    <3>3. Before("package", "enable", s) BY <3>2 DEF Before
    <3>4. P \in {"debian", "void"} => Lacks("recheck", s) BY <3>2 DEF Lacks
    <3>5. QED BY <3>2, <3>3, <3>4
  <2>3. CASE F = "updates" /\ s = UpdatesScript
    <3>1. P \in {"debian", "fedora", "leap", "tumbleweed", "enterprise"}
      BY <1>3, <1>4, <2>3 DEF Passable, Unfinishable, AllPlatforms, Dockers
    <3>2. P # "leap" => Before("package", "enable", s) BY <2>3, <3>1 DEF UpdatesScript, Before
    <3>3. P = "debian" => Lacks("recheck", s) BY <2>3 DEF UpdatesScript, Lacks
    <3>4. QED BY <2>3, <3>1, <3>2, <3>3
  <2>4. CASE F \in Dockers /\ c.kind = "docker.install-compose" /\ s = <<"compose">>
    <3>1. c.id = "docker.compose" BY <1>2, <2>4 DEF Parts, KindOf, Dockers
    <3>2. Before("package", "enable", s) /\ Lacks("recheck", s) BY <2>4 DEF Before, Lacks
    <3>3. QED BY <1>7, <3>1, <3>2
  <2>5. CASE F \in Dockers /\ c.kind = "docker.enable-service" /\ s = EnableScript
    <3>1. c.id = "docker.service" BY <1>2, <2>5 DEF Parts, KindOf, Dockers
    <3>2. host.main BY <1>6, <2>5, <3>1 DEF Bases
    <3>3. Lacks("recheck", s) /\ s = <<"enable", "start">> BY <2>5 DEF EnableScript, Lacks
    <3>4. QED BY <3>2, <3>3
  <2>6. CASE F = "tailscale" /\ c.kind = "tailscale.enable-service" /\ s = EnableScript
    <3>1. c.id = "tailscale.service" BY <1>2, <2>6 DEF Parts, KindOf, Dockers
    <3>2. host.main BY <1>6, <2>6, <3>1 DEF Bases
    <3>3. Lacks("recheck", s) /\ s = <<"enable", "start">> BY <2>6 DEF EnableScript, Lacks
    <3>4. QED BY <3>2, <3>3
  <2>7. QED BY <1>1, <1>2, <1>5, <1>9, <2>1, <2>2, <2>3, <2>4, <2>5, <2>6, ScriptIs DEF s, UnitFeatures, Dockers
<1>10. QED BY <1>5, <1>8, <1>9 DEF Underway, c

\* When the script of a change is through, all its steps are made.
LEMMA AllMade ==
  ASSUME MachineOK, NEW c, ChangeOK(c), NEW h, Underway(h, c, <<>>), NEW s \in Seq(Steps), s = Script(c),
         NEW i \in 1 .. Len(s)
  PROVE  Made(s[i], h)
<1>1. Lacks(s[i], <<>>) BY EmptyScript
<1>2. QED BY <1>1 DEF Underway

\* On a healthy host every verification accepts what the script has done.
LEMMA VerifyAccepts ==
  ASSUME TypeInv, todo # {}, ~Unfinishable, Promising(host, todo), Covered(host, IDsOf(todo)), Defined(host, <<>>),
         Underway(host, Following(todo), <<>>)
  PROVE  Confirmed(Following(todo), host)
<1> DEFINE c == Following(todo)
           s == Script(c)
<1>1. c \in todo /\ MachineOK /\ host \in Possible BY AtHand DEF TypeInv, HostOK
<1>2. ChangeOK(c) /\ c.id \in Parts /\ c.kind = KindOf(c.id) BY <1>1 DEF TypeInv, TodoOK, ChangeOK
<1>3. Fit(host) /\ Passable(host, todo) /\ Shape(todo) BY DEF Promising
<1>4. P \in AllPlatforms BY <1>1, HostModulesAssumption DEF MachineOK, P
<1>5. c.kind \in Accepted /\ s \in Seq(Steps) BY <1>1, <1>2, ScriptTyped DEF Underway
<1>6. \A i \in 1 .. Len(s) : Made(s[i], host) BY <1>1, <1>2, <1>5, AllMade
<1>7. c.id \notin Bases => /\ F \in Dockers => host.main /\ (P # "debian" => host.rest)
                           /\ F = "tailscale" => host.main
  BY <1>3, BaseIsThere
<1> SUFFICES Confirmed(c, host) OBVIOUS
<1> HIDE DEF c, s
<1>8. s = EnableScript => Ready(host)
  <2>1. s = EnableScript => s[1] = "enable" /\ s[2] = "start" /\ Len(s) = 2 BY DEF EnableScript
  <2>2. s = EnableScript => Made("enable", host) /\ Made("start", host) BY <1>6, <2>1
  <2>3. QED BY <2>2 DEF Made, Ready
<1>9. CASE F \in Dockers /\ c.kind = "docker.install-engine" /\ s = DockerScript
  <2>1. P \notin {"alpine", "devuan"} BY <1>9 DEF Unfinishable
  <2>2. CASE P = "debian"
    <3>1. s = <<"package">> BY <1>9, <2>2 DEF DockerScript
    <3>2. Made("package", host) BY <1>6, <3>1
    <3>3. QED BY <1>9, <2>2, <3>2 DEF Confirmed, DockerConfirmed, Made, Dockers
  <2>3. CASE P = "enterprise"
    <3>1. s = <<"repo", "package", "rest">> BY <1>9, <2>3 DEF DockerScript
    <3>2. s[2] = "package" /\ s[3] = "rest" /\ Len(s) = 3 BY <3>1
    <3>3. Made("package", host) /\ Made("rest", host) BY <1>6, <3>2
    <3>4. QED BY <1>9, <2>3, <3>3 DEF Confirmed, DockerConfirmed, Made, Dockers
  <2>4. CASE P \notin {"debian", "enterprise"}
    <3>1. s = <<"package", "rest">> BY <1>9, <2>1, <2>4 DEF DockerScript
    <3>2. s[1] = "package" /\ s[2] = "rest" /\ Len(s) = 2 BY <3>1
    <3>3. Made("package", host) /\ Made("rest", host) BY <1>6, <3>2
    <3>4. QED BY <1>9, <2>1, <2>4, <3>3 DEF Confirmed, DockerConfirmed, Made, Dockers
  <2>5. QED BY <2>2, <2>3, <2>4
<1>10. CASE F \in Dockers /\ c.kind = "docker.install-compose" /\ s = <<"compose">>
  <2>1. c.id = "docker.compose" BY <1>2, <1>10 DEF Parts, KindOf, Dockers
  <2>2. host.main BY <1>7, <1>10, <2>1 DEF Bases
  <2>3. Made("compose", host) BY <1>6, <1>10
  <2>4. host.rest BY <2>3 DEF Made
  <2>5. host.plugin BY <1>3, <1>10 DEF Fit, Dockers
  <2>6. QED BY <1>10, <2>2, <2>4, <2>5 DEF Confirmed, DockerConfirmed, Dockers
<1>11. CASE F \in Dockers /\ c.kind = "docker.enable-service" /\ s = EnableScript
  <2>1. c.id = "docker.service" BY <1>2, <1>11 DEF Parts, KindOf, Dockers
  <2>2. host.main /\ (P # "debian" => host.rest) BY <1>7, <1>11, <2>1 DEF Bases
  <2>3. P \in {"void", "artix"} => host.definition BY <1>11, <2>2 DEF Defined, UnitFeatures
  <2>4. host.plugin BY <1>3, <1>11 DEF Fit, Dockers
  <2>5. QED BY <1>8, <1>11, <2>2, <2>3, <2>4 DEF Confirmed, DockerConfirmed, Dockers
<1>12. CASE F = "tailscale" /\ c.kind = "tailscale.install" /\ s = TailscaleScript
  <2>1. P # "alpine" BY <1>12 DEF Unfinishable
  <2>2. CASE P = "devuan"
    <3>1. s = <<"recheck", "repo", "index", "package">> BY <1>12, <2>2 DEF TailscaleScript, DevuanTailscaleScript
    <3>2. s[2] = "repo" /\ s[3] = "index" /\ s[4] = "package" /\ Len(s) = 4 BY <3>1
    <3>3. Made("repo", host) /\ Made("index", host) /\ Made("package", host) BY <1>6, <3>2
    <3>4. host.repo = "managed" /\ host.rest /\ host.main BY <3>3 DEF Made
    <3>5. host.avail BY <1>3, <1>12 DEF Fit, Dockers
    <3>6. DevuanTailscaleFacts(host).available BY <3>4, <3>5 DEF DevuanTailscaleFacts, Seen, Ownership
    <3>7. QED BY <1>12, <2>2, <3>4, <3>6 DEF Confirmed, TailscaleConfirmed, Dockers
  <2>3. CASE P # "devuan"
    <3>1. s \in {<<"package">>, <<"package", "rest">>, <<"repo", "package">>}
      BY <1>12, <2>1, <2>3 DEF TailscaleScript
    <3>2. \E i \in 1 .. Len(s) : s[i] = "package" BY <3>1
    <3>3. Made("package", host) BY <1>6, <3>2
    <3>4. host.main BY <3>3 DEF Made
    <3>5. P = "artix" => host.definition BY <1>12, <3>4 DEF Defined, UnitFeatures
    <3>6. QED BY <1>12, <2>1, <2>3, <3>4, <3>5 DEF Confirmed, TailscaleConfirmed, Dockers
  <2>4. QED BY <2>2, <2>3
<1>13. CASE F = "tailscale" /\ c.kind = "tailscale.enable-service" /\ s = EnableScript
  <2>1. c.id = "tailscale.service" BY <1>2, <1>13 DEF Parts, KindOf, Dockers
  <2>2. host.main BY <1>7, <1>13, <2>1 DEF Bases
  <2>3. P \in {"void", "artix"} => host.definition BY <1>13, <2>2 DEF Defined, UnitFeatures
  <2>4. QED BY <1>8, <1>13, <2>3 DEF Confirmed, TailscaleConfirmed, Dockers
<1>14. CASE F = "updates" /\ s = UpdatesScript
  <2>1. P \in {"debian", "fedora", "leap", "tumbleweed", "enterprise"}
    BY <1>3, <1>4, <1>14 DEF Passable, Unfinishable, AllPlatforms, Dockers
  <2>2. /\ \E i \in 1 .. Len(s) : s[i] = "repo"
        /\ P # "leap" => \E i \in 1 .. Len(s) : s[i] = "package"
        /\ P # "debian" => (\E i \in 1 .. Len(s) : s[i] = "enable") /\ (\E i \in 1 .. Len(s) : s[i] = "start")
    <3>1. CASE P = "debian" BY <1>14, <3>1 DEF UpdatesScript
    <3>2. CASE P = "fedora" BY <1>14, <3>2 DEF UpdatesScript
    <3>3. CASE P = "leap" BY <1>14, <3>3 DEF UpdatesScript
    <3>4. CASE P \in {"tumbleweed", "enterprise"} BY <1>14, <3>4 DEF UpdatesScript
    <3>5. QED BY <2>1, <3>1, <3>2, <3>3, <3>4
  <2>3. /\ Made("repo", host)
        /\ P # "leap" => Made("package", host)
        /\ P # "debian" => Made("enable", host) /\ Made("start", host)
    BY <1>6, <2>2
  <2>4. Ready(host) /\ host.repo = "managed" /\ (P # "leap" => host.main) BY <1>14, <2>3 DEF Made, Ready
  <2>5. QED BY <1>14, <2>1, <2>4 DEF Confirmed, UpdatesConfirmed, Dockers, Unrecognized
<1>15. CASE F = "ssh" /\ s = SSHScript
  <2>1. s[2] = "dropin" /\ Len(s) = 3 BY <1>15 DEF SSHScript
  <2>2. Made("dropin", host) BY <1>6, <2>1
  <2>3. QED BY <1>3, <1>15, <2>2 DEF Made, Confirmed, Effective, Fit, Passable, Dockers
<1>16. CASE F = "base" /\ s = <<"root">>
  <2>1. Made("root", host) BY <1>6, <1>16
  <2>2. QED BY <1>16, <2>1 DEF Made, Confirmed, Dockers
<1>17. CASE F = "storage" /\ c.kind = "storage.prepare-mountpoint"
  BY <1>3, <1>17 DEF Confirmed, StorageConfirmed, MountpointSafe, Fit, Dockers
<1>18. CASE F = "storage" /\ c.kind = "storage.configure-mount" /\ s = <<"fstab">>
  <2>1. Made("fstab", host) BY <1>6, <1>18
  <2>2. QED BY <1>18, <2>1 DEF Made, Confirmed, StorageConfirmed, Dockers
<1>19. CASE F = "storage" /\ c.kind = "storage.mount" /\ s = <<"mount">>
  <2>1. Made("mount", host) BY <1>6, <1>19
  <2>2. QED BY <1>19, <2>1 DEF Made, Confirmed, StorageConfirmed, Dockers
<1>20. QED
  BY <1>1, <1>2, <1>5, <1>9, <1>10, <1>11, <1>12, <1>13, <1>14, <1>15, <1>16, <1>17, <1>18, <1>19, ScriptIs DEF s

\* What is left of a plan can still be carried out.
LEMMA RestFits ==
  ASSUME TypeInv, todo # {}, Promising(host, todo), Underway(host, Following(todo), <<>>)
  PROVE  /\ Promising(host, todo \ {Following(todo)})
         /\ FirstHolds(host, todo \ {Following(todo)})
<1> DEFINE c == Following(todo)
           T == todo \ {c}
           s == Script(c)
<1>1. c \in todo /\ c.deps \cap IDsOf(todo) = {} /\ MachineOK /\ host \in Possible BY AtHand DEF TypeInv, HostOK
<1>2. ChangeOK(c) /\ c.id \in Parts /\ c.kind = KindOf(c.id) BY <1>1 DEF TypeInv, TodoOK, ChangeOK
<1>3. Fit(host) /\ Passable(host, todo) /\ Shape(todo) BY DEF Promising
<1>4. c.kind \in Accepted /\ s \in Seq(Steps) BY <1>1, <1>2, ScriptTyped DEF Underway
<1>5. \A i \in 1 .. Len(s) : Made(s[i], host) BY <1>1, <1>2, <1>4, AllMade
<1>6. \A x : x \in IDsOf(todo) => x \in IDsOf(T) \/ x = c.id BY DEF IDsOf
<1>7. IDsOf(T) \subseteq IDsOf(todo) /\ T \subseteq todo BY DEF IDsOf
<1>8. \A x \in Bases : x \in IDsOf(todo) => c.id = x BY <1>3, BasesDone, <1>1
<1>9. \A d \in T : d \in todo /\ d # c OBVIOUS
<1>10. Promising(host, todo) OBVIOUS
<1>11. c.id \in IDsOf(todo) BY <1>1 DEF IDsOf
<1> SUFFICES Promising(host, T) /\ FirstHolds(host, T) OBVIOUS
<1> HIDE DEF c, T, s
<1>12. Shape(T) BY <1>3, <1>7 DEF Shape
<1>13. P = "enterprise" /\ F \in Dockers => host.repo = "managed" \/ "docker.engine" \in IDsOf(T)
  <2>1. ASSUME P = "enterprise", F \in Dockers, c.id = "docker.engine" PROVE host.repo = "managed"
    <3>1. c.kind = "docker.install-engine" BY <1>2, <2>1 DEF KindOf
    <3>2. s = DockerScript BY <1>1, <1>2, <1>4, <3>1, ScriptIs DEF s
    <3>3. s = <<"repo", "package", "rest">> BY <2>1, <3>2 DEF DockerScript
    <3>4. s[1] = "repo" /\ Len(s) = 3 BY <3>3
    <3>5. Made("repo", host) BY <1>5, <3>4
    <3>6. QED BY <3>5 DEF Made
  <2>2. QED BY <1>6, <1>10, <2>1 DEF Promising
<1>14. Passable(host, T)
  <2>1. CASE F = "storage"
    <3>1. ASSUME c.id = "storage.mount-config" PROVE MountConfigured(host)
      <4>1. c.kind = "storage.configure-mount" BY <1>2, <3>1 DEF KindOf
      <4>2. s = <<"fstab">> BY <1>1, <1>2, <1>4, <4>1, ScriptIs DEF s
      <4>3. Made("fstab", host) BY <1>5, <4>2
      <4>4. QED BY <4>3 DEF Made
    <3>2. QED BY <1>3, <1>6, <2>1, <3>1 DEF Passable, Dockers
  <2>2. CASE F # "storage" BY <1>3, <2>2 DEF Passable, Dockers
  <2>3. QED BY <2>1, <2>2
<1>15. ASSUME F \in UnitFeatures, NEW d \in T PROVE d.pre = {}
  <2>1. d \in todo /\ d # c /\ d.id \in IDsOf(todo) BY <1>9, <1>15 DEF IDsOf
  <2>2. d.id # c.id BY <1>1, <1>3, <2>1 DEF Shape
  <2>3. d.id \notin Bases BY <1>8, <2>1, <2>2
  <2>4. QED BY <1>3, <1>15, <2>1, <2>3 DEF Shape
<1>16. F = "base" => \A d \in T : FALSE BY <1>1, <1>3, <1>9 DEF Shape
<1>17. FirstHolds(host, T) BY <1>15, <1>16 DEF FirstHolds
<1>18. Promising(host, T) BY <1>3, <1>12, <1>13, <1>14 DEF Promising
<1>19. QED BY <1>17, <1>18

\* Where the host is as asked, Docker has nothing more to do.
LEMMA DockerDone ==
  ASSUME MachineOK, F \in Dockers, P \notin {"alpine", "devuan"}, NEW h \in UnitsOf(P, F), Desired(h), h.plugin,
         P = "enterprise" => h.repo = "managed"
  PROVE  \A c \in PlanDocker(UnitFacts(h)) : c.blocked
<1> DEFINE f == UnitFacts(h)
<1>0. P \in AllPlatforms BY HostModulesAssumption DEF MachineOK, P
<1>1. h.main /\ (h.rest \/ (P = "debian" /\ F = "docker")) /\ h.link = "correct" /\ h.run = "up"
  BY DEF Desired, Ready, Dockers
<1>2. /\ f.installed = h.main /\ f.complete = (h.main /\ h.rest) /\ f.compose = (h.main /\ h.rest /\ h.plugin)
      /\ f.ready = (h.link = "correct" /\ h.run = "up")
      /\ P # "void" /\ h.repo = "managed" => f.repo = "managed"
  <2>1. f = IF P = "void" THEN VoidFacts(h) ELSE Seen(h) BY DEF UnitFacts, Dockers
  <2> HIDE DEF f
  <2>2. h.repo = "managed" => Ownership(h) = "managed" BY DEF Ownership
  <2>3. QED BY <2>1, <2>2, CommonFacts
<1>3. f.installed /\ f.ready /\ (f.complete \/ P = "debian") /\ (F = "compose" => f.compose) BY <1>1, <1>2 DEF Dockers
<1> HIDE DEF f
<1>4. /\ \A pre, r : Install(FALSE, pre, r) = {}
      /\ \A deps, r : Serve(f, deps, r) = {}
      /\ \A deps, r : Compose(~f.compose, deps, r) = {} /\ Compose(FALSE, deps, r) = {}
  BY <1>3 DEF Install, Serve, Compose, When
<1>5. \A id, kind : \A c \in {Blocked(id, kind)} : c.blocked BY BlockedIsBlocked
<1>6. CASE P = "debian"
  <2>1. PlanDocker(f) = {} BY <1>3, <1>4, <1>6 DEF PlanDocker, PlanDebianDocker, Zypper
  <2>2. QED BY <2>1 DEF f
<1>7. CASE P = "artix"
  <2>1. PlanDocker(f) \in {{Blocked("docker.cgroups", "docker.cgroups-blocked")}, {}}
    BY <1>3, <1>4, <1>7 DEF PlanDocker, PlanArtixDocker, Zypper
  <2>2. QED BY <1>5, <2>1 DEF f
<1>8. CASE P = "void"
  <2>1. PlanDocker(f) \in {{Blocked("docker.engine", "docker.install-engine")},
                           {Blocked("docker.cgroups", "docker.cgroups-blocked")}, {}}
    <3>1. \A deps, r : Compose(~f.compose /\ TRUE, deps, r) = {} BY <1>3 DEF Compose, When
    <3>2. QED BY <1>3, <1>4, <1>8, <3>1 DEF PlanDocker, PlanVoidDocker, Zypper
  <2>2. QED BY <1>5, <2>1 DEF f
<1>9. CASE P = "arch"
  <2>1. PlanDocker(f) = {} BY <1>3, <1>4, <1>9 DEF PlanDocker, PlanArchDocker, Zypper
  <2>2. QED BY <2>1 DEF f
<1>10. CASE P \in {"leap", "tumbleweed", "fedora"}
  <2>1. PlanDocker(f) \in {{Blocked("docker.conflict", "docker.conflict")}, {}}
    BY <1>3, <1>4, <1>10 DEF PlanDocker, PlanOpenSUSEDocker, PlanFedoraDocker, Zypper
  <2>2. QED BY <1>5, <2>1 DEF f
<1>11. CASE P = "enterprise"
  <2>1. PlanDocker(f) \in {{Blocked("docker.conflict", "docker.conflict")}, {}}
    BY <1>2, <1>3, <1>4, <1>11 DEF PlanDocker, PlanEnterpriseDocker, Zypper
  <2>2. QED BY <1>5, <2>1 DEF f
<1>12. QED BY <1>0, <1>6, <1>7, <1>8, <1>9, <1>10, <1>11 DEF AllPlatforms

LEMMA TailscaleDone ==
  ASSUME F = "tailscale", P # "alpine", P \notin RPM, NEW h, Desired(h), h.definition
  PROVE  \A c \in PlanTailscale(UnitFacts(h)) : c.blocked
<1> DEFINE f == UnitFacts(h)
<1>1. h.main /\ h.link = "correct" /\ h.run = "up" /\ (P = "devuan" => h.repo = "managed")
  BY DEF Desired, Ready, Dockers
<1>2. /\ f.installed = h.main /\ f.definition = h.definition
      /\ f.ready = (h.link = "correct" /\ h.run = "up")
      /\ P # "void" /\ h.repo = "managed" => f.repo = "managed"
  <2>1. f = IF P = "void" THEN VoidFacts(h) ELSE IF P = "devuan" THEN DevuanTailscaleFacts(h) ELSE Seen(h)
    BY DEF UnitFacts, Dockers
  <2> HIDE DEF f
  <2>2. h.repo = "managed" => Ownership(h) = "managed" BY DEF Ownership
  <2>3. QED BY <2>1, <2>2, CommonFacts
<1>3. f.installed /\ f.ready /\ f.definition /\ (P = "devuan" => f.repo = "managed") BY <1>1, <1>2
<1> HIDE DEF f
<1>4. /\ \A pre, r : Fetch(FALSE, pre, r) = {}
      /\ \A deps, r : Join(f, deps, r) = {}
  BY <1>3 DEF Fetch, Join, When
<1>5. PlanTailscale(f) \in {{Blocked("tailscale.package", "tailscale.install")}, {}}
  <2>1. CASE P = "devuan" BY <1>3, <1>4, <2>1 DEF PlanTailscale, PlanDevuanTailscale, Unowned
  <2>2. CASE P = "artix" BY <1>3, <1>4, <2>2 DEF PlanTailscale, PlanArtixTailscale
  <2>3. CASE P = "void" BY <1>3, <1>4, <2>3 DEF PlanTailscale, PlanVoidTailscale, Unowned
  <2>4. CASE P \notin {"devuan", "artix", "void"} BY <1>3, <1>4, <2>4 DEF PlanTailscale
  <2>5. QED BY <2>1, <2>2, <2>3, <2>4
<1>6. QED BY <1>5, BlockedIsBlocked DEF f

LEMMA UpdatesAreDone ==
  ASSUME MachineOK, F = "updates", P \notin {"alpine", "devuan"}, NEW h, Desired(h)
  PROVE  \A c \in PlanUpdates(UnitFacts(h)) : c.blocked
<1> DEFINE f == UnitFacts(h)
<1>1. h.link = "correct" /\ h.run = "up" /\ (P # "leap" => h.main) /\ (P # "debian" => h.repo = "managed") /\ ~h.conflict
  BY DEF Desired, Ready, Dockers
<1>2. CASE P \in {"arch", "artix", "void"}
  <2>1. PlanUpdates(f) = {Blocked("updates.unattended", "updates.automatic-unsupported")}
    BY <1>2 DEF PlanUpdates, Zypper
  <2>2. QED BY <2>1, BlockedIsBlocked
<1>3. CASE P \notin {"arch", "artix", "void"}
  <2>1. f.installed /\ f.ready /\ (P = "debian" \/ f.repo = "managed") /\ ~f.conflict
    BY <1>1, <1>3 DEF UnitFacts, LeapUpdatesFacts, Seen, Dockers, DevuanUpdatesFacts, Ownership
  <2> HIDE DEF f
  <2>2. PlanUpdates(f) = {} BY <1>3, <2>1 DEF PlanUpdates, Zypper
  <2>3. QED BY <2>2 DEF f
<1>4. QED BY <1>2, <1>3

\* Where the host is as asked, planning again finds nothing that could still be done.
LEMMA NothingLeft ==
  ASSUME TypeInv, ~Unfinishable, Desired(host), Promising(host, {}), Defined(host, <<>>)
  PROVE  \A c \in Plan(host) : c.blocked
<1>0. MachineOK /\ F \in AllFeatures BY HostModulesAssumption DEF TypeInv, MachineOK, F
<1>1. F \in UnitFeatures => host \in UnitsOf(P, F) /\ host.plugin
  BY DEF TypeInv, HostOK, Possible, HostsOf, UnitFeatures, Dockers, Promising, Fit
<1>2. CASE F \in Dockers
  <2>1. Plan(host) = PlanDocker(UnitFacts(host)) BY <1>2 DEF Plan, Dockers
  <2>2. P \notin {"alpine", "devuan"} BY <1>2 DEF Unfinishable
  <2>3. P = "enterprise" => host.repo = "managed" BY <1>2 DEF Promising, IDsOf
  <2>4. QED BY <1>0, <1>1, <1>2, <2>1, <2>2, <2>3, DockerDone DEF UnitFeatures
<1>3. CASE F = "tailscale"
  <2>1. Plan(host) = PlanTailscale(UnitFacts(host)) BY <1>3 DEF Plan, Dockers
  <2>2. host.main BY <1>3 DEF Desired, Dockers
  <2>3. P # "alpine" /\ P \notin RPM BY <1>3, <2>2 DEF Unfinishable
  <2>4. host.definition BY <1>3, <2>2 DEF Defined, UnitFeatures
  <2>5. QED BY <1>3, <2>1, <2>3, <2>4, TailscaleDone
<1>4. CASE F = "updates"
  <2>1. Plan(host) = PlanUpdates(UnitFacts(host)) BY <1>4 DEF Plan, Dockers
  <2>2. P \notin {"alpine", "devuan"} BY <1>4 DEF Unfinishable
  <2>3. QED BY <1>0, <1>4, <2>1, <2>2, UpdatesAreDone
<1>5. CASE F = "ssh"
  <2>1. Plan(host) = {} BY <1>5 DEF Desired, Plan, PlanSSH, When, Dockers
  <2>2. QED BY <2>1
<1>6. CASE F = "base"
  <2>1. Plan(host) = {} BY <1>6 DEF Desired, Plan, PlanBase, When, Dockers
  <2>2. QED BY <2>1
<1>7. CASE F = "storage"
  <2>1. host.mounted = "right" BY <1>7 DEF Desired, Dockers
  <2>2. Assess(host) # "missing" BY <2>1 DEF Assess
  <2>3. PlanStorage(host) \in {{}, {Blocked("storage.blocked", "storage.blocked")}} BY <2>2 DEF PlanStorage
  <2>4. Plan(host) = PlanStorage(host) BY <1>7 DEF Plan, Dockers
  <2>5. QED BY <2>3, <2>4, BlockedIsBlocked
<1>8. QED BY <1>0, <1>2, <1>3, <1>4, <1>5, <1>6, <1>7 DEF AllFeatures, Dockers

-----------------------------------------------------------------------------
(* What was planned can be carried out: every step. *)

\* An apply that is over, and has not failed, has nothing to answer for.
LEMMA FitAtEnd ==
  ASSUME pc' = "idle", outcome' # "failed"
  PROVE  FitInv'
BY DEF FitInv, PlannedIsAppliable

LEMMA FitExcused ==
  ASSUME excuse'
  PROVE  FitInv'
BY DEF FitInv, PlannedIsAppliable

LEMMA SameUnfinishable ==
  ASSUME [Next]_vars, host' = host
  PROVE  Unfinishable' <=> Unfinishable
<1>1. P' = P /\ F' = F BY SameMachine
<1>2. QED BY <1>1 DEF Unfinishable

LEMMA FitStart ==
  ASSUME TypeInv, Start
  PROVE  FitInv'
<1>1. [Next]_vars BY DEF Next
<1>2. host' = host /\ machine' = machine /\ pc = "idle" /\ script = <<>> /\ stale' = "nothing" /\ excuse' = ~Sound(host)
  BY DEF Start, TypeInv, ApplyOK
<1>3. CASE End("error") \/ End("blocked") \/ End("success") BY <1>3, FitAtEnd DEF End
<1>4. CASE ~(End("error") \/ End("blocked") \/ End("success"))
  <2>1. NoneBlocked(Plan(host)) /\ Plan(host) # {} BY <1>4 DEF Start, NoneBlocked
  <2>2. todo' = Plan(host) /\ pc' = "planned" /\ outcome' = "none" /\ script' = <<>> BY <1>2, <1>4 DEF Start
  <2>3. ASSUME Sound(host), ~Unfinishable
        PROVE  Promising(host, todo)' /\ FirstHolds(host, todo)' /\ Defined(host, script)'
    <3>1. Promising(host, Plan(host)) /\ FirstHolds(host, Plan(host)) /\ Defined(host, <<>>)
      BY <2>1, <2>3, PlanFits
    <3>2. QED BY <1>2, <2>2, <3>1, SameFit
  <2>4. Unfinishable' <=> Unfinishable BY <1>1, <1>2, SameUnfinishable
  <2>5. QED BY <1>2, <2>2, <2>3, <2>4 DEF FitInv, PlannedIsAppliable
<1>5. QED BY <1>3, <1>4

LEMMA FitCheck ==
  ASSUME TypeInv, ReadyInv, FitInv, Check
  PROVE  FitInv'
<1>1. [Next]_vars BY DEF Next
<1>2. /\ host' = host /\ machine' = machine /\ excuse' = excuse /\ pc = "planned" /\ todo # {}
      /\ script = <<>> /\ outcome = "none"
  BY DEF Check, TypeInv, ApplyOK
<1>3. CASE excuse BY <1>2, <1>3, FitExcused
<1>4. Unfinishable' <=> Unfinishable BY <1>1, <1>2, SameUnfinishable
<1>5. CASE ~excuse /\ Unfinishable
  <2>1. stale = "nothing" BY <1>2, <1>5 DEF FitInv
  <2>2. stale' = "nothing" BY <2>1 DEF Check
  <2>3. QED BY <1>2, <1>4, <1>5, <2>2 DEF FitInv, PlannedIsAppliable
<1>6. CASE ~excuse /\ ~Unfinishable
  <2> DEFINE c == Following(todo)
  <2>1. /\ stale = "nothing" /\ Promising(host, todo) /\ Defined(host, <<>>) /\ FirstHolds(host, todo)
    BY <1>2, <1>6 DEF FitInv
  <2>2. c.kind \in Accepted /\ \A pre \in c.pre : Holds(pre, host) BY <1>2, <2>1, CheckHolds
  <2>3. /\ pc' = "running" /\ script' = Script(c) /\ stale' = "nothing" /\ todo' = todo /\ outcome' = outcome
    BY <2>1, <2>2 DEF Check
  <2>4. Covered(host, IDsOf(todo)) BY <1>2, <2>1 DEF ReadyInv
  <2>5. Underway(host, c, Script(c)) BY <1>2, <1>6, <2>1, <2>2, <2>4, ScriptUnderway
  <2>6. Defined(host, Script(c)) BY <2>1 DEF Defined
  <2> HIDE DEF c
  <2>7. Promising(host, todo)' /\ Defined(host, script)' BY <1>2, <2>1, <2>3, <2>6, SameFit
  <2>8. Underway(host, Following(todo), script)' BY <1>2, <2>3, <2>5, SameUnderway DEF c
  <2>9. QED BY <1>2, <2>3, <2>7, <2>8 DEF FitInv, PlannedIsAppliable
<1>7. QED BY <1>3, <1>5, <1>6

LEMMA FitVerify ==
  ASSUME TypeInv, ReadyInv, FitInv, Verify
  PROVE  FitInv'
<1>1. [Next]_vars BY DEF Next
<1>2. /\ host' = host /\ machine' = machine /\ excuse' = excuse /\ stale' = stale /\ pc = "running" /\ todo # {}
      /\ script = <<>> /\ outcome = "none"
  BY DEF Verify, TypeInv, ApplyOK
<1>3. CASE excuse BY <1>2, <1>3, FitExcused
<1>4. Unfinishable' <=> Unfinishable BY <1>1, <1>2, SameUnfinishable
<1>5. CASE ~excuse /\ Unfinishable
  <2>1. stale = "nothing" BY <1>2, <1>5 DEF FitInv
  <2>2. QED BY <1>2, <1>4, <1>5, <2>1 DEF FitInv, PlannedIsAppliable
<1>6. CASE ~excuse /\ ~Unfinishable
  <2> DEFINE c == Following(todo)
  <2>1. /\ stale = "nothing" /\ Promising(host, todo) /\ Defined(host, <<>>) /\ Underway(host, c, <<>>)
    BY <1>2, <1>6 DEF FitInv
  <2>2. Covered(host, IDsOf(todo)) BY <1>2, <2>1 DEF ReadyInv
  <2>3. Confirmed(c, host) BY <1>2, <1>6, <2>1, <2>2, VerifyAccepts
  <2>4. pc' = "planned" /\ todo' = todo \ {c} /\ script' = <<>> /\ outcome' = outcome
    BY <1>2, <2>3 DEF Verify
  <2>5. Promising(host, todo \ {c}) /\ FirstHolds(host, todo \ {c}) BY <1>2, <2>1, RestFits
  <2> HIDE DEF c
  <2>6. Promising(host, todo)' /\ FirstHolds(host, todo)' /\ Defined(host, script)'
    BY <1>2, <2>1, <2>4, <2>5, SameFit
  <2>7. QED BY <1>2, <2>1, <2>4, <2>6 DEF FitInv, PlannedIsAppliable
<1>7. QED BY <1>3, <1>5, <1>6

LEMMA FitReplan ==
  ASSUME TypeInv, ReadyInv, FitInv, Replan
  PROVE  FitInv'
<1>1. [Next]_vars BY DEF Next
<1>2. /\ host' = host /\ machine' = machine /\ excuse' = excuse /\ pc = "planned" /\ todo = {}
      /\ script = <<>> /\ pc' = "idle"
  BY DEF Replan, End, TypeInv, ApplyOK
<1>3. CASE excuse BY <1>2, <1>3, FitExcused
<1>4. Unfinishable' <=> Unfinishable BY <1>1, <1>2, SameUnfinishable
<1>5. CASE Unfinishable BY <1>2, <1>4, <1>5 DEF FitInv, PlannedIsAppliable
<1>6. CASE ~excuse /\ ~Unfinishable
  <2>1. stale = "nothing" /\ Promising(host, {}) /\ Defined(host, <<>>) BY <1>2, <1>6 DEF FitInv
  <2>2. Covered(host, {}) BY <1>2, <2>1 DEF ReadyInv, IDsOf
  <2>3. MachineOK /\ F \in AllFeatures /\ host \in Possible
    BY HostModulesAssumption DEF TypeInv, HostOK, MachineOK, F
  <2>4. Desired(host)
    <3>1. <<P, F>> \notin {"devuan"} \X Dockers BY <1>6 DEF Unfinishable
    <3>2. QED BY <2>2, <2>3, <3>1, CoveredIsDesired
  <2>5. \A c \in Plan(host) : c.blocked BY <1>6, <2>1, <2>4, NothingLeft
  <2>6. outcome' # "failed" BY <2>5 DEF Replan, End
  <2>7. QED BY <1>2, <2>6, FitAtEnd
<1>7. QED BY <1>3, <1>5, <1>6

LEMMA FitNext ==
  ASSUME TypeInv, ReadyInv, FitInv, [Next]_vars
  PROVE  FitInv'
<1>1. CASE Start BY <1>1, FitStart
<1>2. CASE Check BY <1>2, FitCheck
<1>3. CASE Step BY <1>3, FitStep
<1>4. CASE Interrupt BY <1>4, FitExcused DEF Interrupt
<1>5. CASE Verify BY <1>5, FitVerify
<1>6. CASE Replan BY <1>6, FitReplan
<1>7. CASE Edit BY <1>7, FitExcused DEF Edit
<1>8. CASE UNCHANGED vars
  <2>1. /\ host' = host /\ machine' = machine /\ todo' = todo /\ script' = script /\ pc' = pc /\ outcome' = outcome
        /\ stale' = stale /\ excuse' = excuse
    BY <1>8 DEF vars
  <2>2. Unfinishable' <=> Unfinishable BY <2>1, SameUnfinishable
  <2>3. /\ Promising(host, todo)' <=> Promising(host, todo)
        /\ Defined(host, script)' <=> Defined(host, script)
        /\ FirstHolds(host, todo)' <=> FirstHolds(host, todo)
    BY <2>1, SameFit
  <2>4. Underway(host, Following(todo), script)' <=> Underway(host, Following(todo), script) BY <2>1, SameUnderway
  <2>5. QED BY <2>1, <2>2, <2>3, <2>4 DEF FitInv, PlannedIsAppliable
<1>9. QED BY <1>1, <1>2, <1>3, <1>4, <1>5, <1>6, <1>7, <1>8 DEF Next

\* On a host in good order that nobody else touches, an accepted plan never fails: no precondition, script, verification
\* or second planning, of any feature on any distribution, contradicts what another part took for granted.
THEOREM PlannedIsAppliableAlways == Spec => []PlannedIsAppliable
<1>1. Init => FitInv BY DEF Init, FitInv, PlannedIsAppliable
<1>2. TypeInv /\ ReadyInv /\ FitInv /\ [Next]_vars => FitInv' BY FitNext
<1>3. FitInv => PlannedIsAppliable BY DEF FitInv
<1>4. QED BY <1>1, <1>2, <1>3, TypeInvariant, ReadyInvariant, PTL DEF Spec
=============================================================================
