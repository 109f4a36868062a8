----------------------------- MODULE TimersProofs -----------------------------
(* Theorems about Timers for any jobs, versions and faults, on either backend. *)
EXTENDS Timers, TLAPS

\* The units of a job, and the timer of a unit.
LEMMA UnitFacts ==
  /\ \A u \in Units : /\ TimerOf(u) \in Units /\ TimerOf(u).legacy = u.legacy /\ TimerOf(u).job = u.job
                      /\ TimerOf(u).part = "timer" /\ TimerOf(TimerOf(u)) = TimerOf(u)
  /\ \A u \in Units : u.part = "timer" => TimerOf(u) = u
  /\ \A j \in Jobs : Trigger(j) \in Units /\ ~Trigger(j).legacy
  /\ \A j \in Jobs, part \in Parts : Legacy(j, part) \in Units
BY DEF Units, Parts, TimerOf, Trigger, Unit, Legacy

\* Every step of a command is typed.
LEMMA StepsType ==
  ASSUME NEW p
  PROVE  InstallSteps(p) \subseteq Step /\ UninstallSteps(p) \subseteq Step
<1>1. \A act \in Acts, units \in SUBSET (Units \cup {All}) : Do(act, units) \subseteq Step
  BY DEF Do, Step
<1>2. /\ Desired(p) \subseteq Units /\ OwnedUnits \subseteq Units /\ LegacyOwnedUnits(p) \subseteq Units
      /\ Missing(p) \subseteq Units /\ Differing(p) \subseteq Units /\ Obsolete(p) \subseteq Units
  BY DEF Desired, OwnedUnits, LegacyOwnedUnits, Missing, Differing, Obsolete
<1>3. \A units \in SUBSET Units : Timers(units) \in SUBSET Units BY DEF Timers
<1>4. SystemdInstall(p) \subseteq Step
  <2>1. /\ Do("write", Desired(p)) \subseteq Step
        /\ Do("unlink", Timers(Obsolete(p))) \subseteq Step /\ Do("stop", Timers(Obsolete(p))) \subseteq Step
        /\ Do("remove", Obsolete(p)) \subseteq Step /\ Do("reload", {All}) \subseteq Step
        /\ Do("link", Timers(Desired(p))) \subseteq Step /\ Do("start", Timers(Desired(p))) \subseteq Step
    BY <1>1, <1>2, <1>3 DEF Acts
  <2> QED BY <2>1 DEF SystemdInstall
<1>5. LaunchdInstall(p) \subseteq Step
  <2>1. /\ Do("bootout", Differing(p) \cup Obsolete(p)) \subseteq Step
        /\ Do("remove", Obsolete(p)) \subseteq Step
        /\ Do("write", Missing(p) \cup Differing(p)) \subseteq Step
        /\ Do("bootstrap", Desired(p)) \subseteq Step /\ Do("verify", {All}) \subseteq Step
    BY <1>1, <1>2 DEF Acts
  <2> QED BY <2>1 DEF LaunchdInstall
<1>6. SystemdUninstall(p) \subseteq Step
  <2> DEFINE owned == OwnedUnits \cup LegacyOwnedUnits(p)
  <2>1. owned \in SUBSET Units BY <1>2
  <2> HIDE DEF owned
  <2>2. /\ Do("unlink", Timers(owned)) \subseteq Step /\ Do("stop", Timers(owned)) \subseteq Step
        /\ Do("remove", owned) \subseteq Step /\ Do("reload", IF owned = {} THEN {} ELSE {All}) \subseteq Step
    BY <1>1, <1>3, <2>1 DEF Acts
  <2> QED BY <2>2 DEF SystemdUninstall, owned
<1>7. LaunchdUninstall \subseteq Step
  <2>1. Do("bootout", OwnedUnits) \subseteq Step /\ Do("remove", OwnedUnits) \subseteq Step
    BY <1>1, <1>2 DEF Acts
  <2> QED BY <2>1 DEF LaunchdUninstall
<1> QED BY <1>4, <1>5, <1>6, <1>7 DEF InstallSteps, UninstallSteps

(***************************************************************************)
(* The inductive invariant.  Whose a unit is gets decided when a command   *)
(* begins; the steps are done later.                                       *)
(***************************************************************************)

\* What a step is about was the command's own when it was planned, and is so still.
Targets ==
  \A s \in todo :
    /\ s.act = "write" => s.unit \in Desired(declared) /\ file[s.unit] # "special"
    /\ s.act \in {"link", "start", "bootout", "bootstrap"} => s.unit \in Units /\ ~s.unit.legacy
    /\ s.act = "remove" => s.unit \in Units /\ file[s.unit] \notin {"other", "foreign", "special"}
    /\ s.act \in {"unlink", "stop"} =>
         /\ s.unit \in Units /\ s.unit.part = "timer"
         /\ \A u \in Units : TimerOf(u) = s.unit => file[u] # "other"

\* Another project's units are legacy ones; its timers are enabled, and the manager runs what is in their files.
Strangers ==
  \A u \in Units : file[u] = "other" =>
    /\ Systemd /\ u.legacy /\ u.part # "plist"
    /\ file[TimerOf(u)] \in {"other", "none"} /\ loaded[u] = file[TimerOf(u)]
    /\ file[TimerOf(u)] = "other" => TimerOf(u) \in links

\* Its timers come with their services.
Pairs == \A j \in Jobs : file[Legacy(j, "timer")] = "other" => file[Legacy(j, "service")] = "other"

\* M7 had no launchd adapter.
NoLegacy == ~Systemd => \A u \in Units : file[u] # "old"

Kept == TimersTypeOK /\ Targets /\ Strangers /\ Pairs /\ NoLegacy

\* It holds before anybody has run.
LEMMA InitKept == Init => Kept
<1> SUFFICES ASSUME Init PROVE Kept OBVIOUS
<1> DEFINE Marks == IF Systemd THEN {"none", "old", "other"} ELSE {"none"}
<1>a. PICK foreign \in SUBSET {u \in Units : ~u.legacy /\ u.part \in Artifacts /\ u.job \in OldJobs} :
        \E special \in SUBSET foreign, service, timer \in [OldJobs -> Marks] :
          /\ \A j \in OldJobs : timer[j] \in {"none", service[j]}
          /\ file = OldFile(foreign, special, service, timer)
  BY DEF Init
<1>b. PICK special \in SUBSET foreign, service \in [OldJobs -> Marks], timer \in [OldJobs -> Marks] :
        /\ \A j \in OldJobs : timer[j] \in {"none", service[j]}
        /\ file = OldFile(foreign, special, service, timer)
  BY <1>a
<1>1. /\ foreign \in SUBSET {u \in Units : ~u.legacy /\ u.part \in Artifacts /\ u.job \in OldJobs}
      /\ service \in [OldJobs -> Marks] /\ timer \in [OldJobs -> Marks]
      /\ \A j \in OldJobs : timer[j] \in {"none", service[j]}
      /\ file = OldFile(foreign, special, service, timer)
  BY <1>b
<1>2. \A j \in OldJobs : service[j] \in {"none", "old", "other"} /\ timer[j] \in {"none", "old", "other"}
  OBVIOUS
<1>3. \A j \in OldJobs : ~Systemd => service[j] = "none" /\ timer[j] = "none" OBVIOUS
<1>4. file \in [Units -> Contents] BY <1>1, <1>2 DEF Contents, OldFile
<1>5. loaded = [u \in Units |-> IF ~Systemd \/ file[TimerOf(u)] # "none" THEN file[u] ELSE "none"]
  BY DEF Init
<1>6. loaded \in [Units -> Contents]
  <2>1. "none" \in Contents BY DEF Contents
  <2> QED BY <1>4, <1>5, <2>1
<1>7. links \subseteq Units /\ todo = {} BY DEF Init
<1>8. TimersTypeOK BY <1>4, <1>6, <1>7 DEF Init, TimersTypeOK
<1>9. \A u \in Units : file[u] = "other" =>
        /\ Systemd /\ u.legacy /\ u.part # "plist" /\ u.job \in OldJobs
        /\ u.part = "service" => service[u.job] = "other"
        /\ u.part = "timer" => timer[u.job] = "other"
  BY <1>1, <1>2, <1>3 DEF OldFile
<1>10. \A j \in OldJobs : /\ Legacy(j, "timer") \in Units /\ file[Legacy(j, "timer")] = timer[j]
                          /\ Legacy(j, "service") \in Units /\ file[Legacy(j, "service")] = service[j]
  BY <1>1, TimersAssumption DEF OldFile, Legacy, Units, Parts
<1>11. Strangers
  <2> SUFFICES ASSUME NEW u \in Units, file[u] = "other"
               PROVE  /\ Systemd /\ u.legacy /\ u.part # "plist"
                      /\ file[TimerOf(u)] \in {"other", "none"} /\ loaded[u] = file[TimerOf(u)]
                      /\ file[TimerOf(u)] = "other" => TimerOf(u) \in links
    BY DEF Strangers
  <2>1. Systemd /\ u.legacy /\ u.part # "plist" /\ u.job \in OldJobs BY <1>9
  <2>2. TimerOf(u) = Legacy(u.job, "timer") BY <2>1 DEF TimerOf, Legacy
  <2>3. file[TimerOf(u)] = timer[u.job] BY <1>10, <2>1, <2>2
  <2>4. u.part \in {"service", "timer"} BY <2>1 DEF Units, Parts
  <2>5. timer[u.job] \in {"other", "none"} BY <1>1, <1>9, <2>1, <2>4
  <2>6. loaded[u] = file[TimerOf(u)] BY <1>5, <2>1, <2>3, <2>5
  <2>7. file[TimerOf(u)] = "other" => TimerOf(u) \in links
    <3>1. links = {t \in Units : t.part = "timer" /\ file[t] # "none"} BY <2>1 DEF Init
    <3> QED BY <3>1, UnitFacts
  <2> QED BY <2>1, <2>3, <2>5, <2>6, <2>7
<1>12. Pairs
  <2> SUFFICES ASSUME NEW j \in Jobs, file[Legacy(j, "timer")] = "other"
               PROVE  file[Legacy(j, "service")] = "other"
    BY DEF Pairs
  <2>1. Legacy(j, "timer") \in Units /\ Legacy(j, "timer").job = j /\ Legacy(j, "timer").part = "timer"
    BY DEF Legacy, Units, Parts
  <2>2. j \in OldJobs /\ timer[j] = "other" BY <1>9, <2>1
  <2> QED BY <1>1, <1>10, <2>2
<1>13. NoLegacy
  <2> SUFFICES ASSUME ~Systemd, NEW u \in Units PROVE file[u] # "old" BY DEF NoLegacy
  <2>1. \A j \in OldJobs : service[j] # "old" /\ timer[j] # "old" BY <1>3
  <2> QED BY <1>1, <2>1 DEF OldFile
<1> QED BY <1>7, <1>8, <1>11, <1>12, <1>13 DEF Kept, Targets

\* What the manager makes of the files is typed.
LEMMA ManagerType ==
  ASSUME file \in [Units -> Contents], loaded \in [Units -> Contents]
  PROVE  /\ \A timers : Reread(timers) \in [Units -> Contents]
         /\ \A t : Stopped(t) \in [Units -> Contents] /\ Started(t) \in [Units -> Contents]
<1>1. "none" \in Contents BY DEF Contents
<1>2. QED BY <1>1 DEF Reread, Stopped, Started

\* A command plans nothing about what is not its own.
LEMMA PlanTargets ==
  ASSUME Kept, NEW s,
         (s \in InstallSteps(policy) /\ ~Unreadable(policy)) \/ s \in UninstallSteps(policy)
  PROVE  /\ s.act = "write" => s.unit \in Desired(policy) /\ file[s.unit] # "special"
         /\ s.act \in {"link", "start", "bootout", "bootstrap"} => s.unit \in Units /\ ~s.unit.legacy
         /\ s.act = "remove" => s.unit \in Units /\ file[s.unit] \notin {"other", "foreign", "special"}
         /\ s.act \in {"unlink", "stop"} =>
              /\ s.unit \in Units /\ s.unit.part = "timer"
              /\ \A u \in Units : TimerOf(u) = s.unit => file[u] # "other"
<1> DEFINE owned == OwnedUnits \cup LegacyOwnedUnits(policy)
<1>1. \A u \in LegacyOwnedUnits(policy) : u \in Units /\ u.legacy /\ file[u] = "old" /\ file[Legacy(u.job, "service")] = "old"
  <2> SUFFICES ASSUME NEW u \in LegacyOwnedUnits(policy) PROVE file[u] = "old"
    BY DEF LegacyOwnedUnits, LegacyOwnedForJob
  <2>1. u \in Units /\ u.legacy /\ u.part \in {"service", "timer"} /\ file[u] \in {"old", "other"}
        /\ file[Legacy(u.job, "service")] = "old"
    BY DEF LegacyOwnedUnits, LegacyOwnedForJob
  <2>2. u = Legacy(u.job, u.part) /\ u.job \in Jobs BY <2>1 DEF Units, Legacy
  <2> QED BY <2>1, <2>2 DEF Kept, Pairs
<1>2. \A u \in OwnedUnits : u \in Units /\ ~u.legacy /\ file[u] \in Versions BY DEF OwnedUnits
<1>3. \A u \in owned : u \in Units /\ file[u] \notin {"other", "foreign", "special"}
  BY <1>1, <1>2, TimersAssumption DEF NotVersions
<1>4. \A t \in Timers(owned) : /\ t \in Units /\ t.part = "timer"
                               /\ \A u \in Units : TimerOf(u) = t => file[u] # "other"
  <2> SUFFICES ASSUME NEW t \in owned, t.part = "timer", NEW u \in Units, TimerOf(u) = t, file[u] = "other"
               PROVE  FALSE
    BY <1>3 DEF Timers
  <2>1. u.legacy /\ u.part \in {"service", "timer"} BY DEF Kept, Strangers, Units, Parts
  <2>2. t.legacy BY <2>1, UnitFacts
  <2>3. t \in LegacyOwnedUnits(policy) BY <1>2, <2>2
  <2>4. t.job = u.job BY UnitFacts
  <2>5. u = Legacy(u.job, u.part) BY <2>1 DEF Legacy, Units
  <2>6. u.part = "timer" => u = t BY UnitFacts
  <2> QED BY <1>1, <2>1, <2>3, <2>4, <2>5, <2>6
<1>5. Obsolete(policy) \subseteq owned BY DEF Obsolete
<1>6. \A u \in Desired(policy) : u \in Units /\ ~u.legacy BY DEF Desired
<1>7. \A u \in Missing(policy) \cup Differing(policy) : u \in Desired(policy) BY DEF Missing, Differing
<1>8. \A units : Timers(units) \subseteq units BY DEF Timers
<1>9. \A act, units : \A r \in Do(act, units) : r.act = act /\ r.unit \in units BY DEF Do
<1>10. Timers(Obsolete(policy)) \subseteq Timers(owned) BY <1>5 DEF Timers
<1>11. CASE s \in SystemdInstall(policy) /\ ~Unreadable(policy)
  <2>1. \/ s.act = "write" /\ s.unit \in Desired(policy)
        \/ s.act \in {"unlink", "stop"} /\ s.unit \in Timers(owned)
        \/ s.act = "remove" /\ s.unit \in owned
        \/ s.act = "reload"
        \/ s.act \in {"link", "start"} /\ s.unit \in Desired(policy)
    <3>1. s \in SystemdInstall(policy) BY <1>11
    <3> HIDE DEF owned
    <3> QED BY <1>5, <1>8, <1>9, <1>10, <3>1 DEF SystemdInstall
  <2>2. \A u \in Desired(policy) : file[u] # "special" BY <1>11 DEF Unreadable
  <2> HIDE DEF owned
  <2> QED BY <1>3, <1>4, <1>6, <2>1, <2>2
<1>12. CASE s \in LaunchdInstall(policy) /\ ~Systemd /\ ~Unreadable(policy)
  <2>1. \/ s.act = "bootout" /\ s.unit \in Desired(policy) \cup owned
        \/ s.act = "remove" /\ s.unit \in owned
        \/ s.act = "write" /\ s.unit \in Desired(policy)
        \/ s.act = "bootstrap" /\ s.unit \in Desired(policy)
        \/ s.act = "verify"
    BY <1>5, <1>7, <1>9, <1>12 DEF LaunchdInstall
  <2>2. LegacyOwnedUnits(policy) = {} BY <1>1, <1>12 DEF Kept, NoLegacy
  <2>3. \A u \in Desired(policy) : file[u] # "special" BY <1>12 DEF Unreadable
  <2> QED BY <1>2, <1>3, <1>6, <2>1, <2>2, <2>3
<1>13. CASE s \in SystemdUninstall(policy)
  <2>1. \/ s.act \in {"unlink", "stop"} /\ s.unit \in Timers(owned)
        \/ s.act = "remove" /\ s.unit \in owned
        \/ s.act = "reload"
    BY <1>9, <1>13 DEF SystemdUninstall
  <2> HIDE DEF owned
  <2> QED BY <1>3, <1>4, <2>1
<1>14. CASE s \in LaunchdUninstall
  <2>1. s.act \in {"bootout", "remove"} /\ s.unit \in OwnedUnits
    BY <1>9, <1>14 DEF LaunchdUninstall
  <2> QED BY <1>2, <1>3, <2>1
<1> QED BY <1>11, <1>12, <1>13, <1>14 DEF InstallSteps, UninstallSteps

(***************************************************************************)
(* Every action does to files, links and what the manager runs at most     *)
(* this.                                                                   *)
(***************************************************************************)

\* A file becomes a version or goes; another project's never does, nor a link or directory, and the user's own only in the place of a desired one.
FilesMove ==
  /\ file' \in [Units -> Contents]
  /\ \A u \in Units : file'[u] # file[u] =>
       /\ file'[u] \in Versions \cup {"none"} /\ file[u] \notin {"other", "special"}
       /\ u.legacy => file'[u] = "none"
       /\ file'[u] \in Versions => u \in Desired(declared)
       /\ file[u] = "foreign" => u \in Desired(declared)

ManagerMoves ==
  /\ loaded' \in [Units -> Contents]
  /\ \A u \in Units : file[u] = "other" => loaded'[u] = loaded[u]

LinksMove ==
  /\ links' \subseteq Units
  /\ \A u \in links : file[u] = "other" => u \in links'

\* The steps get fewer, or are those of a new command.
CommandMoves ==
  \/ declared' = declared /\ todo' \subseteq todo
  \/ todo' = {}
  \/ /\ file' = file /\ declared' = policy
     /\ \/ todo' \subseteq InstallSteps(policy) /\ ~Unreadable(policy)
        \/ todo' \subseteq UninstallSteps(policy)

Move == FilesMove /\ ManagerMoves /\ LinksMove /\ CommandMoves /\ backend' = backend

\* What does not touch the files, the links or the manager is such a move.
LEMMA QuietMove ==
  ASSUME Kept, UNCHANGED <<disk, loaded, backend>>, CommandMoves
  PROVE  Move
BY DEF Kept, TimersTypeOK, Move, FilesMove, ManagerMoves, LinksMove, disk

\* A step of a command is such a move.
LEMMA StepMove ==
  ASSUME Kept, NEW s \in todo,
         \/ Write(s) \/ Remove(s)
         \/ Unlink(s) \/ Stop(s) \/ Reload(s) \/ Link(s) \/ Start(s)
         \/ Bootout(s) \/ Bootstrap(s) \/ Check(s)
  PROVE  Move
<1>1. file \in [Units -> Contents] /\ loaded \in [Units -> Contents] /\ links \subseteq Units BY DEF Kept, TimersTypeOK
<1>2. Done(s) => CommandMoves /\ backend' = backend BY DEF Done, run, CommandMoves
<1>3. Refused => Move BY QuietMove DEF Refused, GiveUp, CommandMoves
<1>4. UNCHANGED file => FilesMove BY <1>1 DEF FilesMove
<1>5. UNCHANGED loaded => ManagerMoves BY <1>1 DEF ManagerMoves
<1>6. UNCHANGED links => LinksMove BY <1>1 DEF LinksMove
<1>7. Versions \cap {"other", "foreign", "special", "none"} = {} /\ Versions \cup {"none"} \subseteq Contents
  BY TimersAssumption DEF NotVersions, Contents
<1>8. CASE Write(s)
  <2>1. s.unit \in Desired(declared) /\ file[s.unit] # "special" BY <1>8 DEF Kept, Targets, Write, IsNext
  <2>2. s.unit \in Units /\ ~s.unit.legacy /\ declared[s.unit.job] \in Versions BY <2>1 DEF Desired, Enabled
  <2>3. file[s.unit] # "other" BY <2>2 DEF Kept, Strangers
  <2>4. FilesMove BY <1>1, <1>7, <1>8, <2>1, <2>2, <2>3 DEF Write, FilesMove
  <2> QED BY <1>2, <1>5, <1>6, <1>8, <2>4 DEF Write, Move
<1>9. CASE Remove(s)
  <2>1. s.unit \in Units /\ file[s.unit] \notin {"other", "foreign", "special"} BY <1>9 DEF Kept, Targets, Remove, IsNext
  <2>2. FilesMove BY <1>1, <1>7, <1>9, <2>1 DEF Remove, FilesMove
  <2> QED BY <1>2, <1>5, <1>6, <1>9, <2>2 DEF Remove, Move
<1>10. CASE Unlink(s)
  <2>1. s.unit \in Units /\ s.unit.part = "timer" /\ (\A u \in Units : TimerOf(u) = s.unit => file[u] # "other")
    BY <1>10 DEF Kept, Targets, Unlink, IsNext
  <2>2. file[s.unit] # "other" BY <2>1, UnitFacts
  <2>3. links' = links \ {s.unit} => LinksMove BY <1>1, <2>2 DEF LinksMove
  <2> QED BY <1>2, <1>3, <1>4, <1>5, <1>10, <2>3 DEF Unlink, Move
<1>11. CASE Stop(s)
  <2>1. \A u \in Units : TimerOf(u) = s.unit => file[u] # "other" BY <1>11 DEF Kept, Targets, Stop, IsNext
  <2>2. loaded' \in [Units -> Contents] BY <1>1, <1>11, ManagerType DEF Stop
  <2>3. \A u \in Units : file[u] = "other" => loaded'[u] = loaded[u] BY <1>11, <2>1 DEF Stop, Stopped
  <2> QED BY <1>2, <1>4, <1>6, <1>11, <2>2, <2>3 DEF Stop, disk, ManagerMoves, Move
<1>12. CASE Reload(s)
  <2> DEFINE running == {u \in Units : loaded[u] # "none"}
  <2>1. loaded' = Reread(running) BY <1>12 DEF Reload
  <2>2. loaded' \in [Units -> Contents] BY <1>1, <2>1, ManagerType
  <2>3. ASSUME NEW u \in Units, file[u] = "other" PROVE loaded'[u] = loaded[u]
    <3>1. file[TimerOf(u)] \in {"other", "none"} /\ loaded[u] = file[TimerOf(u)] BY <2>3 DEF Kept, Strangers
    <3>2. TimerOf(u) \in Units /\ TimerOf(TimerOf(u)) = TimerOf(u) BY UnitFacts
    <3>3. file[TimerOf(u)] = "other" => TimerOf(u) \in running BY <3>2 DEF Kept, Strangers
    <3> QED BY <2>1, <2>3, <3>1, <3>3 DEF Reread
  <2> QED BY <1>2, <1>4, <1>6, <1>12, <2>2, <2>3 DEF Reload, disk, ManagerMoves, Move
<1>13. CASE Link(s)
  <2>1. s.unit \in Units BY <1>13 DEF Kept, Targets, Link, IsNext
  <2>2. links' = links \cup {s.unit} => LinksMove BY <1>1, <2>1 DEF LinksMove
  <2> QED BY <1>2, <1>3, <1>4, <1>5, <1>13, <2>2 DEF Link, Move
<1>14. CASE Start(s)
  <2>1. s.unit \in Units /\ ~s.unit.legacy BY <1>14 DEF Kept, Targets, Start, IsNext
  <2>2. ASSUME loaded' = IF loaded[s.unit] = "none" THEN Started(s.unit) ELSE loaded PROVE ManagerMoves
    <3>1. loaded' \in [Units -> Contents] BY <1>1, <2>2, ManagerType
    <3>2. ASSUME NEW u \in Units, file[u] = "other" PROVE loaded'[u] = loaded[u]
      <4>1. TimerOf(u) # s.unit BY <2>1, <3>2, UnitFacts DEF Kept, Strangers
      <4> QED BY <1>1, <2>2, <4>1 DEF Started
    <3> QED BY <3>1, <3>2 DEF ManagerMoves
  <2> QED BY <1>2, <1>3, <1>4, <1>6, <1>14, <2>2 DEF Start, disk, Move
<1>15. CASE Bootout(s)
  <2>1. s.unit \in Units /\ ~s.unit.legacy BY <1>15 DEF Kept, Targets, Bootout, IsNext
  <2>2. file[s.unit] # "other" BY <2>1 DEF Kept, Strangers
  <2>3. ManagerMoves BY <1>1, <1>7, <1>15, <2>2 DEF Bootout, ManagerMoves
  <2> QED BY <1>2, <1>4, <1>6, <1>15, <2>3 DEF Bootout, disk, Move
<1>16. CASE Bootstrap(s)
  <2>1. s.unit \in Units /\ ~s.unit.legacy BY <1>16 DEF Kept, Targets, Bootstrap, IsNext
  <2>2. file[s.unit] # "other" BY <2>1 DEF Kept, Strangers
  <2>3. ASSUME loaded' = IF loaded[s.unit] = "none" THEN [loaded EXCEPT ![s.unit] = file[s.unit]] ELSE loaded
        PROVE  ManagerMoves
    <3>1. file[s.unit] \in Contents BY <1>1, <2>1
    <3> QED BY <1>1, <2>2, <2>3, <3>1 DEF ManagerMoves
  <2> QED BY <1>2, <1>3, <1>4, <1>6, <1>16, <2>3 DEF Bootstrap, disk, Move
<1>17. CASE Check(s)
  BY <1>2, <1>3, <1>4, <1>5, <1>6, <1>17 DEF Check, disk, Move
<1> QED BY <1>8, <1>9, <1>10, <1>11, <1>12, <1>13, <1>14, <1>15, <1>16, <1>17

\* What the user does is such a move.
LEMMA UserMove == Kept /\ (Login \/ ByHand) => Move
<1> SUFFICES ASSUME Kept, Login \/ ByHand PROVE Move OBVIOUS
<1>1. file \in [Units -> Contents] /\ loaded \in [Units -> Contents] /\ links \subseteq Units BY DEF Kept, TimersTypeOK
<1>2. CommandMoves /\ backend' = backend BY DEF Login, ByHand, run, CommandMoves
<1>3. CASE Login
  <2>1. FilesMove /\ LinksMove BY <1>1, <1>3 DEF Login, disk, FilesMove, LinksMove
  <2>2. loaded' \in [Units -> Contents] BY <1>1, <1>3, ManagerType DEF Login
  <2>3. ASSUME NEW u \in Units, file[u] = "other" PROVE loaded'[u] = loaded[u]
    <3>1. /\ Systemd /\ file[TimerOf(u)] \in {"other", "none"} /\ loaded[u] = file[TimerOf(u)]
          /\ file[TimerOf(u)] = "other" => TimerOf(u) \in links
      BY <2>3 DEF Kept, Strangers
    <3>2. loaded' = Reread(links) BY <1>3, <3>1 DEF Login
    <3> QED BY <2>3, <3>1, <3>2 DEF Reread
  <2> QED BY <1>2, <2>1, <2>2, <2>3 DEF ManagerMoves, Move
<1>4. CASE ByHand
  <2>1. PICK u \in OwnedUnits :
          \/ /\ u = Trigger(u.job) /\ loaded' = IF Systemd THEN Stopped(u) ELSE [loaded EXCEPT ![u] = "none"]
             /\ UNCHANGED disk
          \/ links' = links \ {u} /\ UNCHANGED <<file, loaded>>
          \/ file' = [file EXCEPT ![u] = "none"] /\ UNCHANGED <<links, loaded>>
    BY <1>4 DEF ByHand
  <2>2. u \in Units /\ ~u.legacy /\ file[u] \in Versions BY DEF OwnedUnits
  <2>3. file[u] \notin {"other", "foreign", "special"} /\ "none" \in Contents /\ "none" \notin Versions
    BY <2>2, TimersAssumption DEF NotVersions, Contents
  <2>4. \A w \in Units : file[w] = "other" => TimerOf(w) # u BY <2>2, UnitFacts DEF Kept, Strangers
  <2>5. CASE loaded' = (IF Systemd THEN Stopped(u) ELSE [loaded EXCEPT ![u] = "none"]) /\ UNCHANGED disk
    <3>1. loaded' \in [Units -> Contents] BY <1>1, <2>3, <2>5, ManagerType
    <3>2. \A w \in Units : file[w] = "other" => loaded'[w] = loaded[w] BY <1>1, <2>3, <2>4, <2>5 DEF Stopped
    <3> QED BY <1>1, <1>2, <2>5, <3>1, <3>2 DEF disk, FilesMove, LinksMove, ManagerMoves, Move
  <2>6. CASE links' = links \ {u} /\ UNCHANGED <<file, loaded>>
    BY <1>1, <1>2, <2>3, <2>6 DEF FilesMove, LinksMove, ManagerMoves, Move
  <2>7. CASE file' = [file EXCEPT ![u] = "none"] /\ UNCHANGED <<links, loaded>>
    <3>1. FilesMove BY <1>1, <2>2, <2>3, <2>7 DEF FilesMove
    <3> QED BY <1>1, <1>2, <2>7, <3>1 DEF LinksMove, ManagerMoves, Move
  <2> QED BY <2>1, <2>5, <2>6, <2>7
<1> QED BY <1>3, <1>4

\* So is every action.
LEMMA NextMove == Kept /\ [Next]_vars => Move
<1> SUFFICES ASSUME Kept, [Next]_vars PROVE Move OBVIOUS
<1>1. CASE Install \/ Uninstall
  <2>1. /\ UNCHANGED <<disk, loaded, backend>> /\ declared' = policy
        /\ (todo' = InstallSteps(policy) /\ ~Unreadable(policy)) \/ todo' = UninstallSteps(policy)
    BY <1>1 DEF Install, Uninstall, Begin
  <2> QED BY <2>1, QuietMove DEF CommandMoves, disk
<1>2. CASE DoStep BY <1>2, StepMove DEF DoStep
<1>3. CASE Finish BY <1>3, QuietMove DEF Finish, CommandMoves
<1>4. CASE RefuseInstall \/ Fail BY <1>4, QuietMove DEF RefuseInstall, Fail, GiveUp, CommandMoves
<1>5. CASE Edit BY <1>5, QuietMove DEF Edit, run, CommandMoves
<1>6. CASE Login \/ ByHand BY <1>6, UserMove
<1>7. CASE UNCHANGED vars BY <1>7, QuietMove DEF vars, disk, CommandMoves
<1> QED BY <1>1, <1>2, <1>3, <1>4, <1>5, <1>6, <1>7 DEF Next

-----------------------------------------------------------------------------

\* Typed, the files and what the manager runs stay so by a move; the rest is up to the actions.
LEMMA NextType == Kept /\ [Next]_vars => TimersTypeOK'
<1> SUFFICES ASSUME Kept, [Next]_vars PROVE TimersTypeOK' OBVIOUS
<1> USE DEF Kept, TimersTypeOK
<1>1. /\ file' \in [Units -> Contents] /\ loaded' \in [Units -> Contents] /\ links' \subseteq Units
      /\ backend' = backend
  BY NextMove DEF Move, FilesMove, ManagerMoves, LinksMove
<1>2. \A u \in OwnedUnits : u \in Units BY DEF OwnedUnits
<1>3. CASE Install \/ Uninstall
  BY <1>1, <1>3, StepsType DEF Install, Uninstall, Begin
<1>4. CASE DoStep
  <2>1. PICK s \in todo :
          \/ Write(s) \/ Remove(s)
          \/ Unlink(s) \/ Stop(s) \/ Reload(s) \/ Link(s) \/ Start(s)
          \/ Bootout(s) \/ Bootstrap(s) \/ Check(s)
    BY <1>4 DEF DoStep
  <2>2. pc = "working"
    BY <2>1 DEF Write, Remove, Unlink, Stop, Reload, Link, Start, Bootout, Bootstrap, Check, IsNext
  <2>3. Done(s) \/ Refused
    BY <2>1 DEF Write, Remove, Unlink, Stop, Reload, Link, Start, Bootout, Bootstrap, Check
  <2>4. strays' \subseteq strays
    BY <2>1 DEF Write, Remove, Unlink, Stop, Reload, Link, Start, Bootout, Bootstrap, Check, Refused
  <2>5. CASE Done(s) BY <1>1, <2>2, <2>4, <2>5 DEF Done, run
  <2>6. CASE Refused BY <1>1, <2>4, <2>6 DEF Refused, GiveUp
  <2> QED BY <2>3, <2>5, <2>6
<1>5. CASE Finish BY <1>1, <1>5 DEF Finish
<1>6. CASE RefuseInstall \/ Fail BY <1>1, <1>6 DEF RefuseInstall, Fail, GiveUp
<1>7. CASE Edit
  <2>1. PICK j \in Jobs : \E to \in Offers[j] : policy' = [policy EXCEPT ![j] = to] BY <1>7 DEF Edit
  <2>2. Offers[j] \subseteq Versions \cup {"off", "gone"} BY TimersAssumption
  <2>3. policy' \in Policies BY <2>1, <2>2 DEF Policies
  <2> QED BY <1>1, <1>7, <2>3 DEF Edit, run
<1>8. CASE Login BY <1>1, <1>8 DEF Login, run
<1>9. CASE ByHand
  <2>1. strays' \subseteq Units BY <1>2, <1>9 DEF ByHand
  <2> QED BY <1>1, <1>9, <2>1 DEF ByHand, run
<1>10. CASE UNCHANGED vars BY <1>10 DEF vars, Policies
<1> QED BY <1>3, <1>4, <1>5, <1>6, <1>7, <1>8, <1>9, <1>10 DEF Next

\* The steps stay the command's own.
LEMMA MoveTargets == Kept /\ Move => Targets'
<1> SUFFICES ASSUME Kept, Move, NEW s \in todo'
             PROVE  /\ s.act = "write" => s.unit \in Desired(declared)' /\ file'[s.unit] # "special"
                    /\ s.act \in {"link", "start", "bootout", "bootstrap"} => s.unit \in Units /\ ~s.unit.legacy
                    /\ s.act = "remove" => s.unit \in Units /\ file'[s.unit] \notin {"other", "foreign", "special"}
                    /\ s.act \in {"unlink", "stop"} =>
                         /\ s.unit \in Units /\ s.unit.part = "timer"
                         /\ \A u \in Units : TimerOf(u) = s.unit => file'[u] # "other"
  BY DEF Targets
<1>1. /\ s.act = "write" => s.unit \in Desired(declared)' /\ file[s.unit] # "special"
      /\ s.act \in {"link", "start", "bootout", "bootstrap"} => s.unit \in Units /\ ~s.unit.legacy
      /\ s.act = "remove" => s.unit \in Units /\ file[s.unit] \notin {"other", "foreign", "special"}
      /\ s.act \in {"unlink", "stop"} =>
           /\ s.unit \in Units /\ s.unit.part = "timer"
           /\ \A u \in Units : TimerOf(u) = s.unit => file[u] # "other"
  <2>1. CASE declared' = declared /\ todo' \subseteq todo
    <3>1. Desired(declared)' = Desired(declared) BY <2>1 DEF Move, Desired, Enabled, Artifacts, Systemd
    <3> QED BY <2>1, <3>1 DEF Kept, Targets
  <2>2. CASE /\ declared' = policy
             /\ \/ todo' \subseteq InstallSteps(policy) /\ ~Unreadable(policy)
                \/ todo' \subseteq UninstallSteps(policy)
    <3>1. Desired(declared)' = Desired(policy) BY <2>2 DEF Move, Desired, Enabled, Artifacts, Systemd
    <3> QED BY <2>2, <3>1, PlanTargets
  <2> QED BY <2>1, <2>2 DEF Move, CommandMoves
<1>2. \A u \in Units : file'[u] \in {"other", "foreign", "special"} => file[u] = file'[u]
  BY TimersAssumption DEF Move, FilesMove, NotVersions
<1>3. \A u \in Desired(declared)' : u \in Units BY DEF Desired
<1> QED BY <1>1, <1>2, <1>3

\* Another project's units stay what they are.
LEMMA MoveStrangers == Kept /\ Move => Strangers' /\ Pairs' /\ NoLegacy'
<1> SUFFICES ASSUME Kept, Move PROVE Strangers' /\ Pairs' /\ NoLegacy' OBVIOUS
<1>1. \A u \in Units : /\ file'[u] \in {"other", "old"} => file[u] = file'[u]
                       /\ file[u] = "other" => file'[u] = "other"
  BY TimersAssumption DEF Move, FilesMove, NotVersions
<1>2. Systemd' = Systemd BY DEF Move, Systemd
<1>3. Strangers'
  <2> SUFFICES ASSUME NEW u \in Units, file'[u] = "other"
               PROVE  /\ Systemd' /\ u.legacy /\ u.part # "plist"
                      /\ file'[TimerOf(u)] \in {"other", "none"} /\ loaded'[u] = file'[TimerOf(u)]
                      /\ file'[TimerOf(u)] = "other" => TimerOf(u) \in links'
    BY DEF Strangers, TimerOf
  <2>1. /\ Systemd /\ u.legacy /\ u.part # "plist"
        /\ file[TimerOf(u)] \in {"other", "none"} /\ loaded[u] = file[TimerOf(u)]
        /\ file[TimerOf(u)] = "other" => TimerOf(u) \in links
    BY <1>1 DEF Kept, Strangers
  <2>2. TimerOf(u) \in Units /\ TimerOf(u).legacy BY <2>1, UnitFacts
  <2>3. file'[TimerOf(u)] = file[TimerOf(u)] BY <2>1, <2>2, <1>1 DEF Move, FilesMove
  <2>4. loaded'[u] = loaded[u] BY <1>1 DEF Move, ManagerMoves
  <2>5. file[TimerOf(u)] = "other" => TimerOf(u) \in links' BY <2>1 DEF Move, LinksMove
  <2> QED BY <1>2, <2>1, <2>3, <2>4, <2>5
<1>4. Pairs'
  <2> SUFFICES ASSUME NEW j \in Jobs, file'[Legacy(j, "timer")] = "other"
               PROVE  file'[Legacy(j, "service")] = "other"
    BY DEF Pairs, Legacy
  <2>1. Legacy(j, "timer") \in Units /\ Legacy(j, "service") \in Units BY UnitFacts DEF Parts
  <2> QED BY <1>1, <2>1 DEF Kept, Pairs
<1>5. NoLegacy' BY <1>1, <1>2 DEF Kept, NoLegacy
<1> QED BY <1>3, <1>4, <1>5

\* The invariant is inductive.
LEMMA NextKept == Kept /\ [Next]_vars => Kept'
BY NextMove, NextType, MoveTargets, MoveStrangers DEF Kept

\* So every reachable state satisfies it.
LEMMA KeptAlways == Spec => []Kept
BY InitKept, NextKept, PTL DEF Spec

\* The files, the links, what the manager runs and the steps of a command are what the code can put there, on either
\* backend: in particular a step writes a version of the policy the command read, and an idle controller has none left.
THEOREM TimersTypeCorrect == Spec => []TimersTypeOK
<1>1. Kept => TimersTypeOK BY DEF Kept
<1> QED BY <1>1, KeptAlways, PTL

\* Whatever fails, whatever the user does and however often commands are repeated, no step of an installation or a
\* removal touches a file, a link or a running timer of another project, nor a regular file of the user but in the
\* place of one the policy asks for, nor a link or a directory anywhere.
THEOREM ForeignTimersAreKept == Spec => ForeignTimersKept
<1>1. Kept /\ [Next]_vars => [ForeignUntouched]_vars
  <2> SUFFICES ASSUME Kept, [Next]_vars PROVE ForeignUntouched OBVIOUS
  <2>1. Move BY NextMove
  <2> QED BY <2>1 DEF Move, FilesMove, ManagerMoves, LinksMove, ForeignUntouched
<1> QED BY <1>1, KeptAlways, PTL DEF Spec, ForeignTimersKept

-----------------------------------------------------------------------------
(***************************************************************************)
(* How far a command has come: what a step was to do is so, or the step is *)
(* left.                                                                   *)
(***************************************************************************)

\* Versions are in the files of today, the marks of M7 in its own; only files of today are deleted by hand.
Marks ==
  \A u \in Units :
    /\ file[u] \in Versions => ~u.legacy /\ u.part \in Artifacts
    /\ u.legacy => file[u] \in {"none", "old", "other"}
    /\ ~u.legacy => file[u] \notin {"old", "other"}
    /\ u \in strays => ~u.legacy

\* M7's timers for this project are not beside services of another.
Couples == \A j \in Jobs : file[Legacy(j, "timer")] = "old" => file[Legacy(j, "service")] # "other"

\* A timer without a file does not run, unless it is a stray; one that is not of a version runs as its file says.
TimerRuns(t) ==
  /\ t \notin strays => loaded[t] = "none" \/ file[t] # "none"
  /\ file[t] \notin Versions \cup {"none"} => loaded[t] \in {"none", file[t]}

\* An agent runs as its file says, unless it is a stray.
AgentRuns(u) == u \in strays \/ loaded[u] \in {"none", file[u]}

ManagerRuns == \A u \in Units : IF Systemd THEN u.part = "timer" => TimerRuns(u) ELSE AgentRuns(u)

\* The units the command is to leave, and whether a step is left to do.
Wanted == IF command = "install" THEN Desired(declared) ELSE {}
Left(act, u) == [act |-> act, unit |-> u] \in todo

\* Which steps there are on which adapter, and what they are about.
PlanOK ==
  /\ outcome = "none" /\ ~troubled
  /\ \A s \in todo :
       /\ s.act \in {"write", "link", "start", "bootstrap"} => s.unit \in Wanted
       /\ s.act \in {"unlink", "stop", "remove"} => s.unit \notin Wanted
       /\ s.act = "remove" => s.unit \in Units /\ s.unit.part \in Artifacts
       /\ s.act \in {"unlink", "stop", "link", "start"} => Systemd /\ s.unit.part = "timer"
       /\ s.act \in {"bootout", "bootstrap"} => ~Systemd /\ s.unit.part = "plist"
       /\ s.act = "reload" => Systemd /\ s.unit = All
       /\ s.act = "verify" => ~Systemd /\ s.unit = All /\ command = "install"

\* The files are those of the policy, but for the steps left; what is removed is halted before.
Halt == IF Systemd THEN "stop" ELSE "bootout"
FilesOK ==
  /\ \A u \in Wanted : Left("write", u) \/ file[u] = declared[u.job]
  /\ \A u \in Units \ Wanted : file[u] \in Versions => Left("remove", u)
  /\ \A j \in Jobs : declared[j] # "gone" /\ file[Legacy(j, "service")] = "old" => Left("remove", Legacy(j, "service"))
  /\ \A u \in Units : Left("unlink", u) => file[u] # "none"
  /\ \A u \in Units : Left("remove", u) /\ u.part \in {"timer", "plist"} => Left(Halt, u) \/ loaded[u] = "none"

\* Wanted timers are enabled and run; once the manager has read the files, they run as their files say.
Synced(t) == \A u \in Units : TimerOf(u) = t => loaded[u] = file[u]
SystemdOK ==
  Systemd =>
    \A t \in Wanted : t.part = "timer" =>
      /\ Left("link", t) \/ t \in links
      /\ Left("start", t) \/ (~Left("reload", All) /\ loaded[t] # "none")
      /\ Left("reload", All) \/ loaded[t] = "none" \/ Synced(t)

\* It has read them when all is written and removed.
ReadLast ==
  Systemd /\ command = "install" /\ ~Left("reload", All) => \A s \in todo : s.act \in {"link", "start"}

\* Wanted agents are replaced only when they do not run, and run in the end.
LaunchdOK ==
  ~Systemd =>
    \A u \in Wanted :
      /\ Left("write", u) => Left("bootout", u) \/ loaded[u] = "none" \/ u \in strays
      /\ Left("bootstrap", u) \/ (loaded[u] # "none" /\ ~Left("bootout", u) /\ ~Left("write", u))

Work == PlanOK /\ FilesOK /\ SystemdOK /\ ReadLast /\ LaunchdOK

\* After a success everything is as it was to be made, and stays so until somebody interferes.
Settled ==
  /\ \A u \in Wanted : /\ file[u] = declared[u.job]
                       /\ u.part = "timer" => u \in links
                       /\ loaded[u] = file[u] \/ Trigger(u.job) \in strays
  /\ \A u \in Units \ Wanted : file[u] \notin Versions
  /\ \A j \in Jobs : declared[j] # "gone" => file[Legacy(j, "service")] # "old"

\* After a success, and whatever is done by hand then, a timer with its files runs as they say.
InSync ==
  \A j \in Jobs :
    (\A part \in Artifacts : file[Unit(j, part)] \in Versions) /\ loaded[Unit(j, "timer")] # "none" =>
      \A part \in Artifacts : loaded[Unit(j, part)] = file[Unit(j, part)]

Far ==
  /\ pc = "working" => Work
  /\ outcome = "success" => pc = "idle"
  /\ outcome = "success" /\ ~troubled => Settled
  /\ outcome = "success" /\ Systemd => InSync

Schedules == Kept /\ Marks /\ Couples /\ ManagerRuns /\ Far

-----------------------------------------------------------------------------
(* The order of the steps. *)

\* A step is its action and its unit.
LEMMA StepIs ==
  /\ \A s \in Step : s = [act |-> s.act, unit |-> s.unit] /\ s.act \in Acts
  /\ All \notin Units
BY DEF Step, All, Units, Parts

\* The phases are numbers.
LEMMA PhaseIs ==
  /\ Phase["write"] = (IF Systemd THEN 1 ELSE 4)
  /\ \A act \in {"unlink", "stop", "bootout"} : Phase[act] = 2
  /\ Phase["remove"] = 3
  /\ \A act \in {"reload", "bootstrap"} : Phase[act] = 5
  /\ \A act \in {"link", "start"} : Phase[act] = 6
  /\ Phase["verify"] = 7
BY DEF Phase, Acts

\* In an installation no step of an earlier phase is left when one is next.
LEMMA PhaseFirst ==
  ASSUME NEW act, NEW s \in Step, IsNext(s, act), command = "install", NEW r \in todo, r \in Step
  PROVE  ~(Phase[r.act] < Phase[act])
<1>1. s.act = act /\ ~Before(r, s) BY DEF IsNext
<1>2. Position(r)[1] = Phase[r.act] /\ Position(s)[1] = Phase[s.act] BY DEF Position
<1>3. Position(r)[1] < Position(s)[1] => Before(r, s)
  <2>1. PICK a : a = Position(r) OBVIOUS
  <2>2. PICK b : b = Position(s) OBVIOUS
  <2>3. ASSUME a[1] < b[1] PROVE \E i \in 1 .. 4 : a[i] < b[i] /\ \A k \in 1 .. (i - 1) : a[k] = b[k]
    <3>1. \A k \in 1 .. (1 - 1) : a[k] = b[k] OBVIOUS
    <3> QED BY <2>3, <3>1
  <2> QED BY <2>1, <2>2, <2>3 DEF Before
<1> QED BY <1>1, <1>2, <1>3

\* In a removal a unit's earlier turns are over.
LEMMA TurnFirst ==
  ASSUME NEW act, NEW s \in Step, IsNext(s, act), command # "install", NEW r \in todo, r \in Step,
         r.unit = s.unit, s.unit \in Units
  PROVE  ~(Turn[r.act] < Turn[act])
<1>1. s.act = act /\ ~Before(r, s) BY DEF IsNext
<1>2. /\ Position(r) = <<0, 0, Place(s.unit), Turn[r.act]>>
      /\ Position(s) = <<0, 0, Place(s.unit), Turn[s.act]>>
  BY StepIs DEF Position
<1>3. Turn[r.act] < Turn[s.act] => Before(r, s)
  <2>1. PICK a : a = Position(r) OBVIOUS
  <2>2. PICK b : b = Position(s) OBVIOUS
  <2>3. a[1] = b[1] /\ a[2] = b[2] /\ a[3] = b[3] /\ a[4] = Turn[r.act] /\ b[4] = Turn[s.act] BY <1>2, <2>1, <2>2
  <2>4. ASSUME a[4] < b[4] PROVE \E i \in 1 .. 4 : a[i] < b[i] /\ \A k \in 1 .. (i - 1) : a[k] = b[k]
    <3>1. \A k \in 1 .. (4 - 1) : a[k] = b[k] BY <2>3
    <3> QED BY <2>4, <3>1
  <2> QED BY <2>1, <2>2, <2>3, <2>4 DEF Before
<1> QED BY <1>1, <1>3

\* What is over when a step is next.
LEMMA Order ==
  ASSUME Kept, PlanOK, NEW s \in todo, NEW act, IsNext(s, act)
  PROVE  /\ act \in {"reload", "link", "start"} /\ command = "install" =>
              \A r \in todo : r.act \in {"reload", "link", "start"}
         /\ act \in {"link", "start"} => command = "install" /\ ~Left("reload", All)
         /\ act = "remove" => ~Left("unlink", s.unit) /\ ~Left("stop", s.unit) /\ ~Left("bootout", s.unit)
         /\ act \in {"write", "bootstrap"} /\ ~Systemd => \A u : ~Left("bootout", u)
         /\ act = "bootstrap" => \A u : ~Left("write", u)
         /\ act = "verify" => todo = {s}
<1>1. todo \subseteq Step BY DEF Kept, TimersTypeOK
<1>2. s.act = act /\ s \in Step BY <1>1 DEF IsNext
<1>3. \A r \in todo : r \in Step /\ r.act \in Acts /\ r = [act |-> r.act, unit |-> r.unit] BY <1>1, StepIs
<1>4. act \in {"write", "link", "start", "bootstrap", "verify"} => command = "install"
  BY <1>2 DEF PlanOK, Wanted
<1>5. ASSUME command = "install" PROVE \A r \in todo : ~(Phase[r.act] < Phase[act])
  BY <1>2, <1>3, <1>5, PhaseFirst
<1>6. ASSUME NEW a, NEW u, Left(a, u), Phase[a] < Phase[act], command = "install" PROVE FALSE
  <2>1. [act |-> a, unit |-> u].act = a OBVIOUS
  <2> QED BY <1>5, <1>6, <2>1 DEF Left
<1>7. ASSUME act \in {"reload", "link", "start"}, command = "install", NEW r \in todo
      PROVE  r.act \in {"reload", "link", "start"}
  <2>1. Systemd BY <1>2, <1>7 DEF PlanOK
  <2>2. r.act \notin {"bootout", "bootstrap", "verify"} BY <2>1 DEF PlanOK
  <2>3. r.act \notin {"write", "unlink", "stop", "remove"} BY <1>5, <1>7, <2>1, PhaseIs
  <2> QED BY <1>3, <2>2, <2>3 DEF Acts
<1>8. act \in {"link", "start"} => ~Left("reload", All) BY <1>4, <1>6, PhaseIs
<1>9. ASSUME act = "remove", NEW a \in {"unlink", "stop", "bootout"}, Left(a, s.unit) PROVE FALSE
  <2>1. PICK r : r = [act |-> a, unit |-> s.unit] OBVIOUS
  <2>2. r \in todo /\ r.act = a /\ r.unit = s.unit BY <1>9, <2>1 DEF Left
  <2>3. s.unit \in Units BY <1>2, <1>9 DEF PlanOK
  <2>4. Turn[a] < Turn["remove"] BY DEF Turn, Acts
  <2>5. command # "install" BY <1>6, <1>9, PhaseIs
  <2> QED BY <1>2, <1>3, <1>9, <2>2, <2>3, <2>4, <2>5, TurnFirst
<1>10. act \in {"write", "bootstrap"} /\ ~Systemd => \A u : ~Left("bootout", u) BY <1>4, <1>6, PhaseIs
<1>11. act = "bootstrap" => \A u : ~Left("write", u)
  <2>1. act = "bootstrap" => ~Systemd BY <1>2 DEF PlanOK
  <2> QED BY <1>4, <1>6, <2>1, PhaseIs
<1>12. ASSUME act = "verify", NEW r \in todo PROVE r = s
  <2>1. ~Systemd /\ s.unit = All BY <1>2, <1>12 DEF PlanOK
  <2>2. ~(Phase[r.act] < 7) BY <1>4, <1>5, <1>12, PhaseIs
  <2>3. r.act \notin {"write", "unlink", "stop", "bootout", "remove", "reload", "bootstrap", "link", "start"}
    BY <2>1, <2>2, PhaseIs
  <2>4. r.act = "verify" BY <1>3, <2>3 DEF Acts
  <2>5. r.unit = All BY <2>4 DEF PlanOK
  <2> QED BY <1>2, <1>3, <1>12, <2>1, <2>4, <2>5
<1> QED BY <1>4, <1>7, <1>8, <1>9, <1>10, <1>11, <1>12

-----------------------------------------------------------------------------
(* The steps of a command. *)

\* A step that is done leaves the others, and nothing else of the command changes.
LEMMA DoneLeaves ==
  ASSUME todo \subseteq Step, NEW s \in todo, Done(s)
  PROVE  /\ todo' \subseteq todo /\ Wanted' = Wanted /\ Systemd' = Systemd /\ Artifacts' = Artifacts /\ Halt' = Halt
         /\ UNCHANGED <<backend, pc, command, declared, outcome, troubled>>
         /\ \A a, u : Left(a, u)' <=> Left(a, u) /\ ~(a = s.act /\ u = s.unit)
<1>1. todo' = todo \ {s} /\ UNCHANGED <<backend, pc, command, declared, outcome, troubled>> BY DEF Done, run
<1>2. Systemd' = Systemd /\ Artifacts' = Artifacts /\ Halt' = Halt BY <1>1 DEF Systemd, Artifacts, Halt
<1>3. Desired(declared)' = Desired(declared) BY <1>1, <1>2 DEF Desired, Enabled
<1>4. ASSUME NEW a, NEW u PROVE Left(a, u)' <=> Left(a, u) /\ ~(a = s.act /\ u = s.unit)
  <2>1. PICK r : r = [act |-> a, unit |-> u] OBVIOUS
  <2>2. r = s <=> a = s.act /\ u = s.unit
    <3>1. s = [act |-> s.act, unit |-> s.unit] BY StepIs
    <3>2. r.act = a /\ r.unit = u BY <2>1
    <3> QED BY <2>1, <3>1, <3>2
  <2>3. (Left(a, u) <=> r \in todo) /\ (Left(a, u)' <=> r \in todo') BY <2>1 DEF Left
  <2> QED BY <1>1, <2>2, <2>3
<1> QED BY <1>1, <1>2, <1>3, <1>4 DEF Wanted

\* A step that is left is one of the steps.
LEMMA LeftIs ==
  ASSUME NEW act, NEW u, Left(act, u)
  PROVE  \E r \in todo : r.act = act /\ r.unit = u
BY DEF Left

\* What a wanted unit is.
LEMMA WantedIs ==
  ASSUME NEW u \in Wanted
  PROVE  /\ u \in Units /\ ~u.legacy /\ u.part \in Artifacts /\ u.job \in Jobs
         /\ declared[u.job] \in Versions /\ declared[u.job] # "none" /\ command = "install"
<1>1. u \in Desired(declared) /\ command = "install" BY DEF Wanted
<1> QED BY <1>1, TimersAssumption DEF Desired, Enabled, NotVersions, Units

\* The steps of a plan are fewer after a step.
LEMMA DonePlan ==
  ASSUME Kept, PlanOK, ReadLast, NEW s \in todo, NEW act, IsNext(s, act), Done(s)
  PROVE  PlanOK' /\ ReadLast'
<1>1. todo \subseteq Step BY DEF Kept, TimersTypeOK
<1>2. PlanOK' BY <1>1, DoneLeaves DEF PlanOK
<1>3. ReadLast'
  <2> SUFFICES ASSUME Systemd, command = "install", ~Left("reload", All)', NEW r \in todo'
               PROVE  r.act \in {"link", "start"}
    BY <1>1, DoneLeaves DEF ReadLast
  <2>1. r \in todo /\ r # s BY <1>1, DoneLeaves DEF Done
  <2>2. CASE ~Left("reload", All) BY <2>1, <2>2 DEF ReadLast
  <2>3. CASE Left("reload", All)
    <3>1. s.act = "reload" /\ s.unit = All BY <1>1, <2>3, DoneLeaves
    <3>2. r.act \in {"reload", "link", "start"} BY <2>1, <3>1, Order DEF IsNext
    <3>3. r.act = "reload" => r.unit = All BY <2>1 DEF PlanOK
    <3>4. r.act = "reload" => r = s BY <1>1, <2>1, <3>1, <3>3, StepIs
    <3> QED BY <2>1, <3>2, <3>4
  <2> QED BY <2>2, <2>3
<1> QED BY <1>2, <1>3

\* What a step does to the files and to what the manager runs.
Effect(s) ==
  /\ pc = "working" /\ IsNext(s, s.act) /\ Done(s)
  /\ \/ s.act = "write" /\ file' = [file EXCEPT ![s.unit] = declared[s.unit.job]] /\ UNCHANGED <<links, loaded, strays>>
     \/ s.act = "remove" /\ file' = [file EXCEPT ![s.unit] = "none"] /\ UNCHANGED <<links, loaded, strays>>
     \/ s.act = "unlink" /\ links' = links \ {s.unit} /\ UNCHANGED <<file, loaded, strays>>
     \/ s.act = "link" /\ links' = links \cup {s.unit} /\ UNCHANGED <<file, loaded, strays>>
     \/ s.act = "stop" /\ loaded' = Stopped(s.unit) /\ strays' = strays \ {s.unit} /\ UNCHANGED <<file, links>>
     \/ /\ s.act = "start" /\ loaded' = IF loaded[s.unit] = "none" THEN Started(s.unit) ELSE loaded
        /\ UNCHANGED <<file, links, strays>>
     \/ /\ s.act = "reload" /\ loaded' = Reread({u \in Units : loaded[u] # "none"}) /\ strays' = {}
        /\ UNCHANGED <<file, links>>
     \/ /\ s.act = "bootout" /\ loaded' = [loaded EXCEPT ![s.unit] = "none"] /\ strays' = strays \ {s.unit}
        /\ UNCHANGED <<file, links>>
     \/ /\ s.act = "bootstrap"
        /\ loaded' = IF loaded[s.unit] = "none" THEN [loaded EXCEPT ![s.unit] = file[s.unit]] ELSE loaded
        /\ UNCHANGED <<file, links, strays>>
     \/ s.act = "verify" /\ UNCHANGED <<file, links, loaded, strays>>

\* A step is done or refused.
LEMMA StepEffect ==
  ASSUME NEW s \in todo,
         \/ Write(s) \/ Remove(s)
         \/ Unlink(s) \/ Stop(s) \/ Reload(s) \/ Link(s) \/ Start(s)
         \/ Bootout(s) \/ Bootstrap(s) \/ Check(s)
  PROVE  Effect(s) \/ Refused
<1> USE DEF Effect, IsNext
<1>1. CASE Write(s) BY <1>1 DEF Write
<1>2. CASE Remove(s) BY <1>2 DEF Remove
<1>3. CASE Unlink(s) BY <1>3 DEF Unlink
<1>4. CASE Stop(s) BY <1>4 DEF Stop, disk
<1>5. CASE Reload(s) BY <1>5 DEF Reload, disk
<1>6. CASE Link(s) BY <1>6 DEF Link
<1>7. CASE Start(s) BY <1>7 DEF Start, disk
<1>8. CASE Bootout(s) BY <1>8 DEF Bootout, disk
<1>9. CASE Bootstrap(s) BY <1>9 DEF Bootstrap, disk
<1>10. CASE Check(s) BY <1>10 DEF Check, disk
<1> QED BY <1>1, <1>2, <1>3, <1>4, <1>5, <1>6, <1>7, <1>8, <1>9, <1>10

\* A step keeps the files on their way to the policy.
LEMMA DoneFiles ==
  ASSUME Kept, Work, NEW s \in todo, Effect(s)
  PROVE  FilesOK'
<1>1. todo \subseteq Step /\ file \in [Units -> Contents] /\ loaded \in [Units -> Contents] BY DEF Kept, TimersTypeOK
<1>2. PlanOK /\ FilesOK BY DEF Work
<1>3. IsNext(s, s.act) /\ Done(s) BY DEF Effect
<1>4. /\ Wanted' = Wanted /\ Halt' = Halt /\ declared' = declared
      /\ \A a, u : Left(a, u)' <=> Left(a, u) /\ ~(a = s.act /\ u = s.unit)
  BY <1>1, <1>3, DoneLeaves
<1>5. \A u \in Units : file'[u] # file[u] => s.act \in {"write", "remove"} /\ u = s.unit
  BY <1>1 DEF Effect
<1>6. s.act = "write" => s.unit \in Wanted /\ file'[s.unit] = declared[s.unit.job] /\ declared[s.unit.job] \in Versions
  <2> SUFFICES ASSUME s.act = "write" PROVE s.unit \in Wanted /\ file'[s.unit] = declared[s.unit.job] /\ declared[s.unit.job] \in Versions
    OBVIOUS
  <2>1. s.unit \in Wanted BY <1>2 DEF PlanOK
  <2>2. s.unit \in Units /\ declared[s.unit.job] \in Versions BY <2>1, WantedIs
  <2> QED BY <1>1, <2>1, <2>2 DEF Effect
<1>7. s.act = "remove" => s.unit \in Units \ Wanted /\ file'[s.unit] = "none"
  BY <1>1, <1>2 DEF Effect, PlanOK
<1>8. "none" \notin Versions /\ "old" \notin Versions BY TimersAssumption DEF NotVersions
<1>9. ASSUME NEW u \in Wanted PROVE Left("write", u)' \/ file'[u] = declared'[u.job]
  <2>1. u \in Units BY WantedIs
  <2>2. Left("write", u) \/ file[u] = declared[u.job] BY <1>2 DEF FilesOK
  <2> QED BY <1>4, <1>5, <1>6, <1>7, <2>1, <2>2
<1>10. ASSUME NEW u \in Units \ Wanted, file'[u] \in Versions PROVE Left("remove", u)'
  <2>1. file'[u] = file[u] BY <1>5, <1>6, <1>7, <1>8, <1>10
  <2>2. Left("remove", u) BY <1>2, <1>10, <2>1 DEF FilesOK
  <2> QED BY <1>4, <1>7, <1>8, <1>10, <2>2
<1>11. ASSUME NEW j \in Jobs, declared[j] # "gone", file'[Legacy(j, "service")] = "old"
       PROVE  Left("remove", Legacy(j, "service"))'
  <2>1. Legacy(j, "service") \in Units BY UnitFacts DEF Parts
  <2>2. file'[Legacy(j, "service")] = file[Legacy(j, "service")] BY <1>5, <1>6, <1>7, <1>8, <1>11, <2>1
  <2>3. Left("remove", Legacy(j, "service")) BY <1>2, <1>11, <2>2 DEF FilesOK
  <2> QED BY <1>4, <1>7, <1>11, <2>3
<1>12. ASSUME NEW u \in Units, Left("unlink", u)' PROVE file'[u] # "none"
  <2>1. file[u] # "none" /\ Left("unlink", u) BY <1>2, <1>4, <1>12 DEF FilesOK
  <2>2. s.act = "remove" => ~Left("unlink", s.unit) BY <1>2, <1>3, Order
  <2>3. CASE file'[u] = file[u] BY <2>1, <2>3
  <2>4. CASE file'[u] # file[u] BY <1>5, <1>6, <1>8, <2>1, <2>2, <2>4
  <2> QED BY <2>3, <2>4
<1>13. ASSUME NEW u \in Units, Left("remove", u)', u.part \in {"timer", "plist"}
       PROVE  Left(Halt, u)' \/ loaded'[u] = "none"
  <2>1. Left("remove", u) BY <1>4, <1>13
  <2>2. Left(Halt, u) \/ loaded[u] = "none" BY <1>2, <1>13, <2>1 DEF FilesOK
  <2>3. u \notin Wanted
    <3>1. PICK r \in todo : r.act = "remove" /\ r.unit = u BY <2>1, LeftIs
    <3> QED BY <1>2, <3>1 DEF PlanOK
  <2>4. u.part = "timer" => TimerOf(u) = u BY <1>13, UnitFacts
  <2>5. CASE s.act = Halt /\ s.unit = u
    <3>1. CASE Systemd
      <4>1. loaded' = Stopped(u) /\ u.part = "timer" BY <1>2, <2>5, <3>1 DEF Effect, Halt, PlanOK
      <4> QED BY <2>4, <4>1 DEF Stopped
    <3>2. CASE ~Systemd BY <1>1, <2>5, <3>2 DEF Effect, Halt
    <3> QED BY <3>1, <3>2
  <2>6. CASE Left(Halt, u) /\ ~(s.act = Halt /\ s.unit = u) BY <1>4, <2>6
  <2>7. CASE loaded[u] = "none"
    <3>1. CASE s.act = "start"
      <4>1. s.unit \in Wanted /\ s.unit.part = "timer" BY <1>2, <3>1 DEF PlanOK
      <4>2. TimerOf(u) # s.unit \/ u.part = "plist" BY <1>13, <2>3, <2>4, <4>1
      <4>3. TimerOf(u) # s.unit \/ ~Systemd
        <5> SUFFICES ASSUME u.part = "plist", Systemd, TimerOf(u) = s.unit PROVE FALSE BY <4>2
        <5>1. PICK r \in todo : r.act = "remove" /\ r.unit = u BY <2>1, LeftIs
        <5>2. u.part \in Artifacts BY <1>2, <5>1 DEF PlanOK
        <5> QED BY <5>2 DEF Artifacts
      <4>4. Systemd BY <1>2, <3>1 DEF PlanOK
      <4>5. loaded' = IF loaded[s.unit] = "none" THEN Started(s.unit) ELSE loaded BY <3>1 DEF Effect
      <4> QED BY <2>7, <4>3, <4>4, <4>5 DEF Started
    <3>2. CASE s.act = "bootstrap"
      <4>1. s.unit \in Wanted BY <1>2, <3>2 DEF PlanOK
      <4>2. loaded' = IF loaded[s.unit] = "none" THEN [loaded EXCEPT ![s.unit] = file[s.unit]] ELSE loaded BY <3>2 DEF Effect
      <4> QED BY <1>1, <2>3, <2>7, <4>1, <4>2
    <3>3. CASE s.act = "reload"
      <4>1. Systemd /\ loaded' = Reread({w \in Units : loaded[w] # "none"}) BY <1>2, <3>3 DEF Effect, PlanOK
      <4>2. PICK r \in todo : r.act = "remove" /\ r.unit = u BY <2>1, LeftIs
      <4>3. u.part \in Artifacts BY <1>2, <4>2 DEF PlanOK
      <4>4. TimerOf(u) = u BY <1>13, <2>4, <4>1, <4>3 DEF Artifacts
      <4> QED BY <2>7, <4>1, <4>4 DEF Reread
    <3>4. CASE s.act = "stop" BY <2>7, <3>4 DEF Effect, Stopped
    <3>5. CASE s.act = "bootout" BY <1>1, <2>7, <3>5 DEF Effect
    <3>6. CASE s.act \notin {"start", "bootstrap", "reload", "stop", "bootout"} BY <2>7, <3>6 DEF Effect
    <3> QED BY <3>1, <3>2, <3>3, <3>4, <3>5, <3>6
  <2> QED BY <2>2, <2>5, <2>6, <2>7
<1>14. (\A j \in Jobs : declared[j] # "gone" /\ file[Legacy(j, "service")] = "old" => Left("remove", Legacy(j, "service")))'
  BY <1>4, <1>11 DEF Legacy
<1> QED BY <1>4, <1>9, <1>10, <1>12, <1>13, <1>14 DEF FilesOK

\* A step keeps what is wanted of timers.
LEMMA DoneSystemd ==
  ASSUME Kept, Work, NEW s \in todo, Effect(s)
  PROVE  SystemdOK'
<1>1. todo \subseteq Step /\ file \in [Units -> Contents] /\ loaded \in [Units -> Contents] BY DEF Kept, TimersTypeOK
<1>2. PlanOK /\ FilesOK /\ SystemdOK /\ ReadLast BY DEF Work
<1>3. IsNext(s, s.act) /\ Done(s) BY DEF Effect
<1>4. /\ Wanted' = Wanted /\ Systemd' = Systemd
      /\ \A a, u : Left(a, u)' <=> Left(a, u) /\ ~(a = s.act /\ u = s.unit)
  BY <1>1, <1>3, DoneLeaves
<1> SUFFICES ASSUME Systemd, NEW t \in Wanted, t.part = "timer"
             PROVE  /\ Left("link", t)' \/ t \in links'
                    /\ Left("start", t)' \/ (~Left("reload", All)' /\ loaded'[t] # "none")
                    /\ Left("reload", All)' \/ loaded'[t] = "none" \/ Synced(t)'
  BY <1>4 DEF SystemdOK
<1>5. t \in Units /\ TimerOf(t) = t /\ command = "install" /\ declared[t.job] # "none" BY WantedIs, UnitFacts
<1>6. /\ Left("link", t) \/ t \in links
      /\ Left("start", t) \/ (~Left("reload", All) /\ loaded[t] # "none")
      /\ Left("reload", All) \/ loaded[t] = "none" \/ Synced(t)
  BY <1>2 DEF SystemdOK
<1>7. s.act \in {"link", "start", "reload"} => file[t] = declared[t.job]
  <2> SUFFICES ASSUME s.act \in {"link", "start", "reload"}, Left("write", t) PROVE FALSE
    BY <1>2 DEF FilesOK
  <2>1. \A r \in todo : r.act \in {"reload", "link", "start"} BY <1>2, <1>3, <1>5, Order
  <2> QED BY <2>1, LeftIs
<1>8. CASE s.act = "reload"
  <2>1. loaded' = Reread({u \in Units : loaded[u] # "none"}) /\ UNCHANGED <<file, links>> BY <1>8 DEF Effect
  <2>2. s.unit = All BY <1>2, <1>8 DEF PlanOK
  <2>3. Left("reload", All)
    <3>1. s = [act |-> s.act, unit |-> s.unit] BY <1>1, StepIs
    <3> QED BY <1>8, <2>2, <3>1 DEF Left
  <2>4. loaded[t] = "none" => loaded'[t] = "none" BY <1>5, <2>1 DEF Reread
  <2>5. loaded[t] # "none" => \A u \in Units : TimerOf(u) = t => loaded'[u] = file'[u]
    BY <1>5, <1>7, <1>8, <2>1 DEF Reread
  <2>6. loaded[t] # "none" => Synced(t)' BY <2>5 DEF Synced, TimerOf
  <2> QED BY <1>4, <1>6, <1>8, <2>1, <2>3, <2>4, <2>6
<1>9. CASE s.act = "start"
  <2>1. /\ loaded' = IF loaded[s.unit] = "none" THEN Started(s.unit) ELSE loaded
        /\ UNCHANGED <<file, links>>
    BY <1>9 DEF Effect
  <2>2. ~Left("reload", All) BY <1>2, <1>3, <1>9, Order
  <2>3. CASE s.unit = t
    <3>1. loaded[t] = "none" => \A u \in Units : TimerOf(u) = t => loaded'[u] = file'[u] BY <2>1, <2>3 DEF Started
    <3>2. loaded[t] = "none" => Synced(t)' BY <3>1 DEF Synced, TimerOf
    <3>3. loaded[t] # "none" => Synced(t)' BY <1>6, <2>1, <2>2, <2>3 DEF Synced, TimerOf
    <3>4. loaded'[t] # "none" BY <1>5, <1>7, <1>9, <2>1, <2>3 DEF Started
    <3> QED BY <1>4, <1>6, <1>9, <2>1, <2>2, <3>2, <3>3, <3>4
  <2>4. CASE s.unit # t
    <3>1. \A u \in Units : TimerOf(u) = t => loaded'[u] = loaded[u] BY <1>1, <2>1, <2>4 DEF Started
    <3>2. Synced(t) => Synced(t)' BY <2>1, <3>1 DEF Synced, TimerOf
    <3>3. loaded'[t] = loaded[t] BY <1>5, <3>1
    <3> QED BY <1>4, <1>6, <1>9, <2>1, <2>4, <3>2, <3>3
  <2> QED BY <2>3, <2>4
<1>10. CASE s.act = "link" BY <1>4, <1>6, <1>10 DEF Effect, Synced, TimerOf
<1>11. CASE s.act \notin {"reload", "start", "link"}
  <2>1. Left("reload", All) BY <1>2, <1>5, <1>11 DEF ReadLast
  <2>2. Left("reload", All)' /\ Left("start", t) /\ Left("start", t)' BY <1>4, <1>6, <1>11, <2>1
  <2>3. s.act = "unlink" => s.unit # t BY <1>2 DEF PlanOK
  <2>4. t \in links => t \in links' BY <1>11, <2>3 DEF Effect
  <2> QED BY <1>4, <1>6, <1>11, <2>2, <2>4
<1> QED BY <1>8, <1>9, <1>10, <1>11

\* And of agents.
LEMMA DoneLaunchd ==
  ASSUME Kept, Work, NEW s \in todo, Effect(s)
  PROVE  LaunchdOK'
<1>1. todo \subseteq Step /\ file \in [Units -> Contents] /\ loaded \in [Units -> Contents] BY DEF Kept, TimersTypeOK
<1>2. PlanOK /\ FilesOK /\ LaunchdOK BY DEF Work
<1>3. IsNext(s, s.act) /\ Done(s) BY DEF Effect
<1>4. /\ Wanted' = Wanted /\ Systemd' = Systemd
      /\ \A a, u : Left(a, u)' <=> Left(a, u) /\ ~(a = s.act /\ u = s.unit)
  BY <1>1, <1>3, DoneLeaves
<1> SUFFICES ASSUME ~Systemd, NEW u \in Wanted
             PROVE  /\ Left("write", u)' => Left("bootout", u)' \/ loaded'[u] = "none" \/ u \in strays'
                    /\ Left("bootstrap", u)' \/ (loaded'[u] # "none" /\ ~Left("bootout", u)' /\ ~Left("write", u)')
  BY <1>4 DEF LaunchdOK
<1>5. u \in Units /\ declared[u.job] # "none" BY WantedIs
<1>6. /\ Left("write", u) => Left("bootout", u) \/ loaded[u] = "none" \/ u \in strays
      /\ Left("bootstrap", u) \/ (loaded[u] # "none" /\ ~Left("bootout", u) /\ ~Left("write", u))
  BY <1>2 DEF LaunchdOK
<1>7. s.act \in {"write", "remove", "bootout", "bootstrap", "verify"} BY <1>2 DEF Effect, PlanOK
<1>8. CASE s.act = "bootout" /\ s.unit = u
  <2>1. Left("bootout", u)
    <3>1. s = [act |-> s.act, unit |-> s.unit] BY <1>1, StepIs
    <3> QED BY <1>8, <3>1 DEF Left
  <2>2. loaded'[u] = "none" BY <1>1, <1>5, <1>8 DEF Effect
  <2> QED BY <1>4, <1>6, <1>8, <2>1, <2>2
<1>9. CASE s.act = "bootstrap" /\ s.unit = u
  <2>1. ~Left("write", u) /\ ~Left("bootout", u) BY <1>2, <1>3, <1>9, Order
  <2>2. file[u] = declared[u.job] BY <1>2, <2>1 DEF FilesOK
  <2>3. loaded' = IF loaded[u] = "none" THEN [loaded EXCEPT ![u] = file[u]] ELSE loaded BY <1>9 DEF Effect
  <2>4. loaded'[u] # "none" BY <1>1, <1>5, <2>2, <2>3
  <2> QED BY <1>4, <2>1, <2>4
<1>10. CASE s.act \in {"bootout", "bootstrap"} /\ s.unit # u
  <2>1. \/ loaded' = [loaded EXCEPT ![s.unit] = "none"] /\ strays' = strays \ {s.unit}
        \/ loaded' = [loaded EXCEPT ![s.unit] = file[s.unit]] /\ strays' = strays
        \/ loaded' = loaded /\ strays' = strays
    BY <1>10 DEF Effect
  <2>2. loaded'[u] = loaded[u] /\ (u \in strays => u \in strays') BY <1>1, <1>5, <1>10, <2>1
  <2> QED BY <1>4, <1>6, <1>10, <2>2
<1>11. CASE s.act \notin {"bootout", "bootstrap"}
  <2>1. loaded' = loaded /\ strays' = strays BY <1>7, <1>11 DEF Effect
  <2> QED BY <1>4, <1>6, <1>11, <2>1
<1> QED BY <1>8, <1>9, <1>10, <1>11

\* A step keeps the manager to the files.
LEMMA DoneRuns ==
  ASSUME Kept, Marks, ManagerRuns, Work, NEW s \in todo, Effect(s)
  PROVE  ManagerRuns'
<1>1. todo \subseteq Step /\ file \in [Units -> Contents] /\ loaded \in [Units -> Contents] BY DEF Kept, TimersTypeOK
<1>2. PlanOK /\ FilesOK /\ LaunchdOK BY DEF Work
<1>3. IsNext(s, s.act) /\ Done(s) BY DEF Effect
<1>4. Systemd' = Systemd BY <1>1, <1>3, DoneLeaves
<1>5. s.act = "write" => s.unit \in Wanted /\ file' = [file EXCEPT ![s.unit] = declared[s.unit.job]]
                         /\ declared[s.unit.job] \in Versions /\ Left("write", s.unit)
  <2> SUFFICES ASSUME s.act = "write" PROVE s.unit \in Wanted /\ file' = [file EXCEPT ![s.unit] = declared[s.unit.job]]
                         /\ declared[s.unit.job] \in Versions /\ Left("write", s.unit)
    OBVIOUS
  <2>1. s.unit \in Wanted BY <1>2 DEF PlanOK
  <2>2. s = [act |-> s.act, unit |-> s.unit] BY <1>1, StepIs
  <2>3. Left("write", s.unit) BY <2>2 DEF Left
  <2>4. file' = [file EXCEPT ![s.unit] = declared[s.unit.job]] BY DEF Effect
  <2> QED BY <2>1, <2>3, <2>4, WantedIs
<1>6. ASSUME s.act = "remove"
      PROVE  /\ file' = [file EXCEPT ![s.unit] = "none"] /\ s.unit \in Units
             /\ s.unit.part \in {"timer", "plist"} => loaded[s.unit] = "none"
             /\ s.unit.part \in Artifacts
  <2>1. s = [act |-> s.act, unit |-> s.unit] BY <1>1, StepIs
  <2>2. Left("remove", s.unit) BY <1>6, <2>1 DEF Left
  <2>3. ~Left("stop", s.unit) /\ ~Left("bootout", s.unit) BY <1>2, <1>3, <1>6, Order
  <2>4. s.unit \in Units /\ s.unit.part \in Artifacts BY <1>2, <1>6 DEF PlanOK
  <2>5. s.unit.part \in {"timer", "plist"} => loaded[s.unit] = "none" BY <1>2, <2>2, <2>3, <2>4 DEF FilesOK, Halt
  <2>6. file' = [file EXCEPT ![s.unit] = "none"] BY <1>6 DEF Effect
  <2> QED BY <2>4, <2>5, <2>6
<1>7. "none" \notin Versions BY TimersAssumption DEF NotVersions
<1>8. ASSUME NEW t \in Units, t.part = "timer", Systemd PROVE TimerRuns(t)'
  <2>1. TimerRuns(t) /\ TimerOf(t) = t BY <1>8, UnitFacts DEF ManagerRuns
  <2>2. s.act \notin {"bootout", "bootstrap", "verify"} BY <1>2, <1>8 DEF PlanOK
  <2>3. CASE s.act = "write"
    <3>1. UNCHANGED <<loaded, strays>> BY <2>3 DEF Effect
    <3>2. file'[t] = file[t] \/ file'[t] \in Versions BY <1>1, <1>5, <1>8, <2>3
    <3> QED BY <1>7, <2>1, <3>1, <3>2 DEF TimerRuns
  <2>4. CASE s.act = "remove"
    <3>1. UNCHANGED <<loaded, strays>> BY <2>4 DEF Effect
    <3>2. file'[t] = file[t] \/ (file'[t] = "none" /\ loaded[t] = "none") BY <1>1, <1>6, <1>8, <2>4
    <3> QED BY <1>7, <2>1, <3>1, <3>2 DEF TimerRuns
  <2>5. CASE s.act = "stop"
    <3>1. UNCHANGED file /\ strays' = strays \ {s.unit} /\ loaded' = Stopped(s.unit) BY <2>5 DEF Effect
    <3>2. loaded'[t] = IF t = s.unit THEN "none" ELSE loaded[t] BY <1>8, <2>1, <3>1 DEF Stopped
    <3> QED BY <2>1, <3>1, <3>2 DEF TimerRuns
  <2>6. CASE s.act = "start"
    <3>1. UNCHANGED <<file, strays>> /\ loaded' = IF loaded[s.unit] = "none" THEN Started(s.unit) ELSE loaded
      BY <2>6 DEF Effect
    <3>2. loaded'[t] = loaded[t] \/ loaded'[t] = file[t] BY <1>8, <3>1 DEF Started
    <3> QED BY <2>1, <3>1, <3>2 DEF TimerRuns
  <2>7. CASE s.act = "reload"
    <3>1. UNCHANGED file /\ loaded' = Reread({u \in Units : loaded[u] # "none"}) BY <2>7 DEF Effect
    <3>2. loaded'[t] = "none" \/ (loaded'[t] = file[t] /\ file[t] # "none") BY <1>8, <2>1, <3>1 DEF Reread
    <3> QED BY <2>1, <3>1, <3>2 DEF TimerRuns
  <2>8. CASE s.act \in {"link", "unlink"}
    <3>1. UNCHANGED <<file, loaded, strays>> BY <2>8 DEF Effect
    <3> QED BY <2>1, <3>1 DEF TimerRuns
  <2> QED BY <2>2, <2>3, <2>4, <2>5, <2>6, <2>7, <2>8 DEF Effect
<1>9. ASSUME NEW u \in Units, ~Systemd PROVE AgentRuns(u)'
  <2>1. AgentRuns(u) BY <1>9 DEF ManagerRuns
  <2>2. s.act \in {"write", "remove", "bootout", "bootstrap", "verify"} BY <1>2, <1>9 DEF Effect, PlanOK
  <2>3. CASE s.act = "write"
    <3>1. UNCHANGED <<loaded, strays>> BY <2>3 DEF Effect
    <3>2. ~Left("bootout", s.unit) BY <1>2, <1>3, <1>9, <2>3, Order
    <3>3. loaded[s.unit] = "none" \/ s.unit \in strays BY <1>2, <1>5, <1>9, <2>3, <3>2 DEF LaunchdOK
    <3>4. u # s.unit => file'[u] = file[u] BY <1>1, <1>5, <1>9, <2>3
    <3> QED BY <2>1, <3>1, <3>3, <3>4 DEF AgentRuns
  <2>4. CASE s.act = "remove"
    <3>1. UNCHANGED <<loaded, strays>> BY <2>4 DEF Effect
    <3>2. loaded[s.unit] = "none" BY <1>6, <1>9, <2>4 DEF Artifacts
    <3>3. u # s.unit => file'[u] = file[u] BY <1>1, <1>6, <1>9, <2>4
    <3> QED BY <2>1, <3>1, <3>2, <3>3 DEF AgentRuns
  <2>5. CASE s.act = "bootout"
    <3>1. UNCHANGED file /\ strays' = strays \ {s.unit} /\ loaded' = [loaded EXCEPT ![s.unit] = "none"] BY <2>5 DEF Effect
    <3>2. loaded'[u] = IF u = s.unit THEN "none" ELSE loaded[u] BY <1>1, <1>9, <3>1
    <3> QED BY <2>1, <3>1, <3>2 DEF AgentRuns
  <2>6. CASE s.act = "bootstrap"
    <3>1. UNCHANGED <<file, strays>>
          /\ loaded' = IF loaded[s.unit] = "none" THEN [loaded EXCEPT ![s.unit] = file[s.unit]] ELSE loaded
      BY <2>6 DEF Effect
    <3>2. loaded'[u] = loaded[u] \/ loaded'[u] = file[u] BY <1>1, <1>9, <3>1
    <3> QED BY <2>1, <3>1, <3>2 DEF AgentRuns
  <2>7. CASE s.act = "verify"
    <3>1. UNCHANGED <<file, loaded, strays>> BY <2>7 DEF Effect
    <3> QED BY <2>1, <3>1 DEF AgentRuns
  <2> QED BY <2>2, <2>3, <2>4, <2>5, <2>6, <2>7
<1> QED BY <1>4, <1>8, <1>9 DEF ManagerRuns

\* Contents stay where they are by a move; only units of today are deleted by hand.
LEMMA MoveMarks ==
  ASSUME Kept, Marks, Couples, Move, strays' \subseteq strays \cup OwnedUnits
  PROVE  Marks' /\ Couples'
<1>1. \A u \in Units : file'[u] # file[u] =>
        /\ file'[u] \in Versions \cup {"none"}
        /\ u.legacy => file'[u] = "none"
        /\ file'[u] \in Versions => u \in Desired(declared)
        /\ file[u] # "other"
  BY DEF Move, FilesMove
<1>2. Artifacts' = Artifacts BY DEF Move, Artifacts, Systemd
<1>3. Versions \cap {"none", "old", "other"} = {} BY TimersAssumption DEF NotVersions
<1>4. \A u \in Desired(declared) : ~u.legacy /\ u.part \in Artifacts BY DEF Desired
<1>5. \A u \in OwnedUnits : ~u.legacy BY DEF OwnedUnits
<1>6. Marks' BY <1>1, <1>2, <1>3, <1>4, <1>5 DEF Marks
<1>7. ASSUME NEW j \in Jobs, file'[Legacy(j, "timer")] = "old" PROVE file'[Legacy(j, "service")] # "other"
  <2>1. Legacy(j, "timer") \in Units /\ Legacy(j, "service") \in Units BY UnitFacts DEF Parts
  <2>2. file[Legacy(j, "timer")] = "old" BY <1>1, <1>3, <1>7, <2>1
  <2>3. file[Legacy(j, "service")] # "other" BY <2>2 DEF Couples
  <2> QED BY <1>1, <1>3, <2>1, <2>3
<1> QED BY <1>6, <1>7 DEF Couples, Legacy

-----------------------------------------------------------------------------
(* What a command plans. *)

\* The steps of one kind.
LEMMA DoHas == \A a, b, u, units : [act |-> a, unit |-> u] \in Do(b, units) <=> a = b /\ u \in units
<1> SUFFICES ASSUME NEW a, NEW b, NEW u, NEW units
             PROVE  [act |-> a, unit |-> u] \in Do(b, units) <=> a = b /\ u \in units
  OBVIOUS
<1>1. Do(b, units) = {[act |-> b, unit |-> w] : w \in units} BY DEF Do
<1>2. ASSUME NEW w PROVE [act |-> a, unit |-> u] = [act |-> b, unit |-> w] <=> a = b /\ u = w
  <2>1. PICK r : r = [act |-> a, unit |-> u] OBVIOUS
  <2>2. PICK q : q = [act |-> b, unit |-> w] OBVIOUS
  <2>3. r.act = a /\ r.unit = u /\ q.act = b /\ q.unit = w BY <2>1, <2>2
  <2> QED BY <2>1, <2>2, <2>3
<1> QED BY <1>1, <1>2

\* The steps of each plan.
LEMMA PlanHas ==
  ASSUME NEW p
  PROVE  /\ \A a, u : [act |-> a, unit |-> u] \in SystemdInstall(p) <=>
              \/ a = "write" /\ u \in Desired(p)
              \/ a \in {"unlink", "stop"} /\ u \in Timers(Obsolete(p))
              \/ a = "remove" /\ u \in Obsolete(p)
              \/ a = "reload" /\ u = All
              \/ a \in {"link", "start"} /\ u \in Timers(Desired(p))
         /\ \A a, u : [act |-> a, unit |-> u] \in LaunchdInstall(p) <=>
              \/ a = "bootout" /\ u \in Differing(p) \cup Obsolete(p)
              \/ a = "remove" /\ u \in Obsolete(p)
              \/ a = "write" /\ u \in Missing(p) \cup Differing(p)
              \/ a = "bootstrap" /\ u \in Desired(p)
              \/ a = "verify" /\ u = All
         /\ \A a, u : [act |-> a, unit |-> u] \in SystemdUninstall(p) <=>
              \/ a \in {"unlink", "stop"} /\ u \in Timers(OwnedUnits \cup LegacyOwnedUnits(p))
              \/ a = "remove" /\ u \in OwnedUnits \cup LegacyOwnedUnits(p)
              \/ a = "reload" /\ u = All /\ OwnedUnits \cup LegacyOwnedUnits(p) # {}
         /\ \A a, u : [act |-> a, unit |-> u] \in LaunchdUninstall <=>
              a \in {"bootout", "remove"} /\ u \in OwnedUnits
<1>1. ASSUME NEW a, NEW u
      PROVE  [act |-> a, unit |-> u] \in SystemdInstall(p) <=>
              \/ a = "write" /\ u \in Desired(p)
              \/ a \in {"unlink", "stop"} /\ u \in Timers(Obsolete(p))
              \/ a = "remove" /\ u \in Obsolete(p)
              \/ a = "reload" /\ u = All
              \/ a \in {"link", "start"} /\ u \in Timers(Desired(p))
  BY DoHas DEF SystemdInstall
<1>2. ASSUME NEW a, NEW u
      PROVE  [act |-> a, unit |-> u] \in LaunchdInstall(p) <=>
              \/ a = "bootout" /\ u \in Differing(p) \cup Obsolete(p)
              \/ a = "remove" /\ u \in Obsolete(p)
              \/ a = "write" /\ u \in Missing(p) \cup Differing(p)
              \/ a = "bootstrap" /\ u \in Desired(p)
              \/ a = "verify" /\ u = All
  BY DoHas DEF LaunchdInstall
<1>3. ASSUME NEW a, NEW u
      PROVE  [act |-> a, unit |-> u] \in SystemdUninstall(p) <=>
              \/ a \in {"unlink", "stop"} /\ u \in Timers(OwnedUnits \cup LegacyOwnedUnits(p))
              \/ a = "remove" /\ u \in OwnedUnits \cup LegacyOwnedUnits(p)
              \/ a = "reload" /\ u = All /\ OwnedUnits \cup LegacyOwnedUnits(p) # {}
  BY DoHas DEF SystemdUninstall
<1>4. ASSUME NEW a, NEW u
      PROVE  [act |-> a, unit |-> u] \in LaunchdUninstall <=> a \in {"bootout", "remove"} /\ u \in OwnedUnits
  BY DoHas DEF LaunchdUninstall
<1> QED BY <1>1, <1>2, <1>3, <1>4

\* What belongs to the project.
LEMMA OwnedIs ==
  ASSUME Kept, Marks, NEW p
  PROVE  /\ \A u \in OwnedUnits : u \in Units /\ ~u.legacy /\ u.part \in Artifacts /\ file[u] \in Versions
         /\ \A u \in LegacyOwnedUnits(p) : u \in Units /\ u.legacy /\ u.part \in Artifacts /\ Systemd
         /\ \A u \in OwnedUnits \cup LegacyOwnedUnits(p) : file[u] # "none"
         /\ \A u \in Units : file[u] \in Versions => u \in OwnedUnits
         /\ \A j \in Jobs : p[j] # "gone" /\ file[Legacy(j, "service")] = "old" =>
              Legacy(j, "service") \in LegacyOwnedUnits(p) /\ Legacy(j, "service").legacy
<1>1. \A u \in OwnedUnits : u \in Units /\ ~u.legacy /\ u.part \in Artifacts /\ file[u] \in Versions BY DEF OwnedUnits
<1>2. ASSUME NEW u \in LegacyOwnedUnits(p)
      PROVE  u \in Units /\ u.legacy /\ u.part \in Artifacts /\ Systemd /\ file[u] # "none"
  <2>1. u \in Units /\ u.legacy /\ u.part \in {"service", "timer"} /\ file[u] \in {"old", "other"} BY DEF LegacyOwnedUnits
  <2>2. Systemd BY <2>1 DEF Kept, Strangers, NoLegacy
  <2> QED BY <2>1, <2>2 DEF Artifacts
<1>3. \A u \in OwnedUnits : file[u] # "none" BY <1>1, TimersAssumption DEF NotVersions
<1>4. \A u \in Units : file[u] \in Versions => u \in OwnedUnits BY DEF Marks, OwnedUnits
<1>5. ASSUME NEW j \in Jobs, p[j] # "gone", file[Legacy(j, "service")] = "old"
      PROVE  Legacy(j, "service") \in LegacyOwnedUnits(p) /\ Legacy(j, "service").legacy
  <2>1. Legacy(j, "service") \in Units BY UnitFacts DEF Parts
  <2>2. Legacy(j, "service").legacy /\ Legacy(j, "service").job = j /\ Legacy(j, "service").part = "service" BY DEF Legacy
  <2> QED BY <1>5, <2>1, <2>2 DEF LegacyOwnedUnits, LegacyOwnedForJob
<1> QED BY <1>1, <1>2, <1>3, <1>4, <1>5

\* What a plan leaves to be done is all there is to do.
LEMMA BeginWork ==
  ASSUME Kept, Marks, ManagerRuns, Install \/ Uninstall
  PROVE  Work' /\ outcome' = "none" /\ pc' = "working"
<1> DEFINE owned == OwnedUnits \cup LegacyOwnedUnits(policy)
           Here(act, u) == [act |-> act, unit |-> u] \in todo'
<1>1. /\ UNCHANGED <<backend, file, links, loaded, strays>> /\ declared' = policy
      /\ pc' = "working" /\ outcome' = "none" /\ ~troubled'
      /\ \/ command' = "install" /\ todo' = InstallSteps(policy)
         \/ command' = "uninstall" /\ todo' = UninstallSteps(policy)
  BY DEF Install, Uninstall, Begin, disk
<1>2. Systemd' = Systemd /\ Artifacts' = Artifacts /\ Halt' = Halt BY <1>1 DEF Systemd, Artifacts, Halt
<1>3. Desired(declared)' = Desired(policy) BY <1>1, <1>2 DEF Desired, Enabled
<1>4. Wanted' = IF command' = "install" THEN Desired(policy) ELSE {} BY <1>3 DEF Wanted
<1>5. \A act, u : Left(act, u)' <=> Here(act, u) BY DEF Left
<1>6. \A s \in todo' : Here(s.act, s.unit) /\ s \in Step
  <2>1. todo' \subseteq Step BY <1>1, StepsType
  <2> QED BY <2>1, StepIs
<1>7. /\ \A u \in Desired(policy) : u \in Units /\ ~u.legacy /\ u.part \in Artifacts
      /\ \A units, u : u \in Timers(units) <=> u \in units /\ u.part = "timer"
      /\ Obsolete(policy) = owned \ Desired(policy)
      /\ Missing(policy) = {u \in Desired(policy) : file[u] = "none"}
      /\ Differing(policy) = {u \in Desired(policy) : file[u] # "none" /\ file[u] # policy[u.job]}
      /\ Artifacts = IF Systemd THEN {"service", "timer"} ELSE {"plist"}
  BY DEF Desired, Timers, Obsolete, Missing, Differing, Artifacts
<1>8. /\ \A u \in owned : u \in Units /\ u.part \in Artifacts /\ file[u] # "none"
      /\ \A u \in Units : file[u] \in Versions => u \in owned
      /\ \A j \in Jobs : policy[j] # "gone" /\ file[Legacy(j, "service")] = "old" =>
           Legacy(j, "service") \in owned \ Desired(policy) /\ Systemd
      /\ ~Systemd => owned = OwnedUnits
  BY <1>7, OwnedIs
<1>9. \A u \in Units : u.part = "timer" \/ u.part = "plist" \/ u.part = "service" BY DEF Units, Parts
<1> HIDE DEF owned
<1>10. PlanOK' /\ FilesOK' /\ SystemdOK' /\ ReadLast' /\ LaunchdOK'
  <2>1. CASE Systemd /\ command' = "install"
    <3>1. todo' = SystemdInstall(policy) BY <1>1, <2>1 DEF InstallSteps
    <3>2. \A a, u : Here(a, u) <=>
              \/ a = "write" /\ u \in Desired(policy)
              \/ a \in {"unlink", "stop"} /\ u \in Timers(Obsolete(policy))
              \/ a = "remove" /\ u \in Obsolete(policy)
              \/ a = "reload" /\ u = All
              \/ a \in {"link", "start"} /\ u \in Timers(Desired(policy))
      BY <3>1, PlanHas
    <3> HIDE DEF Here
    <3>3. Wanted' = Desired(policy) BY <1>4, <2>1
    <3>4. PlanOK' BY <1>1, <1>2, <1>6, <1>7, <1>8, <2>1, <3>2, <3>3 DEF PlanOK
    <3>5. FilesOK' BY <1>1, <1>2, <1>5, <1>7, <1>8, <2>1, <3>2, <3>3 DEF FilesOK, Halt, Artifacts, Legacy
    <3>6. SystemdOK' BY <1>5, <1>7, <3>2, <3>3 DEF SystemdOK
    <3>7. ReadLast' BY <1>5, <3>2 DEF ReadLast
    <3> QED BY <1>2, <2>1, <3>4, <3>5, <3>6, <3>7 DEF LaunchdOK
  <2>2. CASE ~Systemd /\ command' = "install"
    <3>1. todo' = LaunchdInstall(policy) BY <1>1, <2>2 DEF InstallSteps
    <3>2. \A a, u : Here(a, u) <=>
              \/ a = "bootout" /\ u \in Differing(policy) \cup Obsolete(policy)
              \/ a = "remove" /\ u \in Obsolete(policy)
              \/ a = "write" /\ u \in Missing(policy) \cup Differing(policy)
              \/ a = "bootstrap" /\ u \in Desired(policy)
              \/ a = "verify" /\ u = All
      BY <3>1, PlanHas
    <3> HIDE DEF Here
    <3>3. Wanted' = Desired(policy) BY <1>4, <2>2
    <3>4. PlanOK' BY <1>1, <1>2, <1>6, <1>7, <1>8, <2>2, <3>2, <3>3 DEF PlanOK
    <3>5. FilesOK' BY <1>1, <1>2, <1>5, <1>7, <1>8, <2>2, <3>2, <3>3 DEF FilesOK, Halt, Artifacts, Legacy
    <3>6. \A u \in Missing(policy) : loaded[u] = "none" \/ u \in strays BY <1>7, <2>2 DEF ManagerRuns, AgentRuns
    <3>7. LaunchdOK' BY <1>1, <1>5, <1>7, <3>2, <3>3, <3>6 DEF LaunchdOK
    <3> QED BY <1>2, <2>2, <3>4, <3>5, <3>7 DEF SystemdOK, ReadLast
  <2>3. CASE Systemd /\ command' = "uninstall"
    <3>1. todo' = SystemdUninstall(policy) BY <1>1, <2>3 DEF UninstallSteps
    <3>2. \A a, u : Here(a, u) <=>
              \/ a \in {"unlink", "stop"} /\ u \in Timers(owned)
              \/ a = "remove" /\ u \in owned
              \/ a = "reload" /\ u = All /\ owned # {}
      BY <3>1, PlanHas DEF owned
    <3> HIDE DEF Here
    <3>3. Wanted' = {} BY <1>4, <2>3
    <3>4. PlanOK' BY <1>1, <1>2, <1>6, <1>7, <1>8, <2>3, <3>2, <3>3 DEF PlanOK
    <3>5. FilesOK' BY <1>1, <1>2, <1>5, <1>7, <1>8, <2>3, <3>2, <3>3 DEF FilesOK, Halt, Artifacts, Legacy
    <3> QED BY <1>2, <2>3, <3>3, <3>4, <3>5 DEF SystemdOK, LaunchdOK, ReadLast
  <2>4. CASE ~Systemd /\ command' = "uninstall"
    <3>1. todo' = LaunchdUninstall BY <1>1, <2>4 DEF UninstallSteps
    <3>2. \A a, u : Here(a, u) <=> a \in {"bootout", "remove"} /\ u \in owned BY <1>8, <2>4, <3>1, PlanHas
    <3> HIDE DEF Here
    <3>3. Wanted' = {} BY <1>4, <2>4
    <3>4. PlanOK' BY <1>1, <1>2, <1>6, <1>7, <1>8, <2>4, <3>2, <3>3 DEF PlanOK
    <3>5. FilesOK' BY <1>1, <1>2, <1>5, <1>7, <1>8, <2>4, <3>2, <3>3 DEF FilesOK, Halt, Artifacts, Legacy
    <3> QED BY <1>2, <2>4, <3>3, <3>4, <3>5 DEF SystemdOK, LaunchdOK, ReadLast
  <2> QED BY <1>1, <2>1, <2>2, <2>3, <2>4
<1> QED BY <1>1, <1>10 DEF Work

-----------------------------------------------------------------------------
(* The invariant of schedules. *)

\* The units a job has today.
LEMMA TodaysUnits ==
  /\ \A j \in Jobs, part \in Artifacts :
       /\ Unit(j, part) \in Units /\ Unit(j, part).job = j /\ Unit(j, part).part = part /\ ~Unit(j, part).legacy
       /\ Systemd => TimerOf(Unit(j, part)) = Unit(j, "timer")
  /\ \A u \in Units : ~u.legacy /\ u.part \in Artifacts => u = Unit(u.job, u.part) /\ u.job \in Jobs
  /\ \A j \in Jobs : Trigger(j) = Unit(j, IF Systemd THEN "timer" ELSE "plist")
  /\ Artifacts = IF Systemd THEN {"service", "timer"} ELSE {"plist"}
<1>1. Artifacts = IF Systemd THEN {"service", "timer"} ELSE {"plist"} BY DEF Artifacts
<1>2. \A j \in Jobs, part \in Parts :
       /\ Unit(j, part) \in Units /\ Unit(j, part).job = j /\ Unit(j, part).part = part /\ ~Unit(j, part).legacy
       /\ TimerOf(Unit(j, part)) = Unit(j, "timer")
  BY DEF Unit, Units, TimerOf
<1>3. \A u \in Units : ~u.legacy => u = Unit(u.job, u.part) /\ u.job \in Jobs BY DEF Unit, Units
<1>4. Artifacts \subseteq Parts BY <1>1 DEF Parts
<1> QED BY <1>1, <1>2, <1>3, <1>4 DEF Trigger

\* A job with one wanted unit has all of them wanted.
LEMMA WantedTogether ==
  ASSUME NEW u \in Wanted
  PROVE  \A part \in Artifacts : Unit(u.job, part) \in Wanted
BY WantedIs, TodaysUnits DEF Wanted, Desired, Enabled

\* It holds before anybody has run.
LEMMA InitSchedules == Init => Schedules
<1> SUFFICES ASSUME Init PROVE Schedules OBVIOUS
<1> DEFINE Before0 == IF Systemd THEN {"none", "old", "other"} ELSE {"none"}
<1>a. PICK foreign \in SUBSET {u \in Units : ~u.legacy /\ u.part \in Artifacts /\ u.job \in OldJobs} :
        \E special \in SUBSET foreign, service, timer \in [OldJobs -> Before0] :
          /\ \A j \in OldJobs : timer[j] \in {"none", service[j]}
          /\ file = OldFile(foreign, special, service, timer)
  BY DEF Init
<1>b. PICK special \in SUBSET foreign, service \in [OldJobs -> Before0], timer \in [OldJobs -> Before0] :
        /\ \A j \in OldJobs : timer[j] \in {"none", service[j]}
        /\ file = OldFile(foreign, special, service, timer)
  BY <1>a
<1>1. /\ foreign \in SUBSET {u \in Units : ~u.legacy /\ u.part \in Artifacts /\ u.job \in OldJobs}
      /\ service \in [OldJobs -> Before0] /\ timer \in [OldJobs -> Before0]
      /\ \A j \in OldJobs : timer[j] \in {"none", service[j]}
      /\ file = OldFile(foreign, special, service, timer)
  BY <1>b
<1>2. \A j \in OldJobs : service[j] \in {"none", "old", "other"} /\ timer[j] \in {"none", "old", "other"}
  OBVIOUS
<1>3. \A u \in Units : IF u \in foreign THEN file[u] \in {"foreign", "special"}
                       ELSE /\ file[u] \in {"none", "old", "other"}
                            /\ ~u.legacy => file[u] = "none"
  BY <1>1, <1>2 DEF OldFile
<1>4. \A u \in foreign : ~u.legacy BY <1>1
<1>5. strays = {} /\ pc = "idle" /\ outcome = "none" BY DEF Init
<1>6. Marks BY <1>3, <1>4, <1>5, TimersAssumption DEF Marks, NotVersions
<1>7. Couples
  <2> SUFFICES ASSUME NEW j \in Jobs, file[Legacy(j, "timer")] = "old" PROVE file[Legacy(j, "service")] # "other"
    BY DEF Couples
  <2>1. \A part \in {"service", "timer"} : /\ Legacy(j, part) \in Units /\ Legacy(j, part).legacy
                                           /\ Legacy(j, part).job = j /\ Legacy(j, part).part = part
    BY DEF Legacy, Units, Parts
  <2>2. \A part \in {"service", "timer"} : Legacy(j, part) \notin foreign BY <1>4, <2>1
  <2>3. j \in OldJobs /\ timer[j] = "old" BY <1>1, <2>1, <2>2 DEF OldFile
  <2>4. file[Legacy(j, "service")] = service[j] BY <1>1, <2>1, <2>2, <2>3 DEF OldFile
  <2> QED BY <1>1, <2>3, <2>4
<1>8. loaded = [u \in Units |-> IF ~Systemd \/ file[TimerOf(u)] # "none" THEN file[u] ELSE "none"] BY DEF Init
<1>9. ManagerRuns BY <1>8, UnitFacts DEF ManagerRuns, TimerRuns, AgentRuns
<1> QED BY <1>5, <1>6, <1>7, <1>9, InitKept DEF Schedules, Far

\* A command that has done all its steps has made everything so.
LEMMA FinishSettles ==
  ASSUME Schedules, Finish
  PROVE  Settled /\ (Systemd => InSync)
<1>1. Work /\ todo = {} /\ (\A act, u : ~Left(act, u)) BY DEF Schedules, Far, Finish, Left
<1>2. \A u \in Wanted : file[u] = declared[u.job] BY <1>1 DEF Work, FilesOK
<1>3. \A u \in Units \ Wanted : file[u] \notin Versions BY <1>1 DEF Work, FilesOK
<1>4. \A j \in Jobs : declared[j] # "gone" => file[Legacy(j, "service")] # "old" BY <1>1 DEF Work, FilesOK
<1>5. Systemd => \A t \in Wanted : t.part = "timer" => t \in links /\ Synced(t)
  BY <1>1 DEF Work, SystemdOK
<1>6. Systemd => \A u \in Wanted : Unit(u.job, "timer") \in Wanted /\ Synced(Unit(u.job, "timer"))
  BY <1>5, WantedIs, WantedTogether, TodaysUnits
<1>7. ASSUME NEW u \in Wanted PROVE loaded[u] = file[u] \/ Trigger(u.job) \in strays
  <2>1. u \in Units /\ u = Unit(u.job, u.part) /\ u.job \in Jobs /\ u.part \in Artifacts BY WantedIs, TodaysUnits
  <2>2. CASE Systemd
    <3>1. TimerOf(u) = Unit(u.job, "timer") BY <2>1, <2>2, TodaysUnits
    <3> QED BY <1>6, <2>1, <2>2, <3>1 DEF Synced
  <2>3. CASE ~Systemd
    <3>1. u = Trigger(u.job) BY <2>1, <2>3, TodaysUnits
    <3>2. loaded[u] # "none" BY <1>1, <2>3 DEF Work, LaunchdOK
    <3>3. AgentRuns(u) BY <2>1, <2>3 DEF Schedules, ManagerRuns
    <3> QED BY <3>1, <3>2, <3>3 DEF AgentRuns
  <2> QED BY <2>2, <2>3
<1>8. \A u \in Wanted : u.part = "timer" => u \in links
  <2>1. \A u \in Wanted : u.part = "timer" => Systemd BY WantedIs DEF Artifacts
  <2> QED BY <1>5, <2>1
<1>9. ASSUME Systemd, NEW j \in Jobs, \A part \in Artifacts : file[Unit(j, part)] \in Versions, NEW part \in Artifacts
      PROVE  loaded[Unit(j, part)] = file[Unit(j, part)]
  <2>1. Unit(j, part) \in Units /\ Unit(j, part).job = j /\ TimerOf(Unit(j, part)) = Unit(j, "timer")
    BY <1>9, TodaysUnits
  <2>2. Unit(j, part) \in Wanted BY <1>3, <1>9, <2>1
  <2>3. Synced(Unit(j, "timer")) BY <1>6, <1>9, <2>1, <2>2
  <2> QED BY <2>1, <2>3 DEF Synced
<1> QED BY <1>2, <1>3, <1>4, <1>7, <1>8, <1>9 DEF Settled, InSync

\* A login starts what the files and links say.
LEMMA LoginRuns ==
  ASSUME Schedules, Login
  PROVE  ManagerRuns' /\ Far'
<1>1. /\ UNCHANGED <<backend, file, links, pc, command, declared, outcome, todo, troubled>> /\ pc = "idle"
      /\ loaded' = (IF Systemd THEN Reread(links) ELSE file) /\ strays' = {}
  BY DEF Login, disk, run
<1>2. Systemd' = Systemd /\ Artifacts' = Artifacts BY <1>1 DEF Systemd, Artifacts
<1>3. Wanted' = Wanted BY <1>1, <1>2 DEF Wanted, Desired, Enabled
<1>4. \A u \in Units : IF Systemd
                       THEN loaded'[u] = IF TimerOf(u) \in links /\ file[TimerOf(u)] # "none" THEN file[u] ELSE "none"
                       ELSE loaded'[u] = file[u]
  BY <1>1 DEF Reread
<1>5. ManagerRuns'
  <2>1. ASSUME Systemd, NEW t \in Units, t.part = "timer" PROVE TimerRuns(t)'
    <3>1. TimerOf(t) = t BY <2>1, UnitFacts
    <3> QED BY <1>1, <1>4, <2>1, <3>1 DEF TimerRuns
  <2>2. ASSUME ~Systemd, NEW u \in Units PROVE AgentRuns(u)' BY <1>1, <1>4, <2>2 DEF AgentRuns
  <2> QED BY <1>2, <2>1, <2>2 DEF ManagerRuns
<1>6. ASSUME Settled PROVE Settled'
  <2>1. ASSUME NEW u \in Wanted PROVE loaded'[u] = file[u]
    <3>1. u \in Units /\ u = Unit(u.job, u.part) /\ u.job \in Jobs /\ u.part \in Artifacts BY WantedIs, TodaysUnits
    <3>2. CASE Systemd
      <4>1. TimerOf(u) = Unit(u.job, "timer") /\ Unit(u.job, "timer") \in Wanted /\ Unit(u.job, "timer").part = "timer"
            /\ Unit(u.job, "timer").job = u.job
        BY <3>1, <3>2, WantedTogether, TodaysUnits
      <4>2. TimerOf(u) \in links /\ file[TimerOf(u)] # "none" BY <1>6, <4>1, WantedIs DEF Settled
      <4> QED BY <1>4, <3>1, <3>2, <4>2
    <3>3. CASE ~Systemd BY <1>4, <3>1, <3>3
    <3> QED BY <3>2, <3>3
  <2> QED BY <1>1, <1>2, <1>3, <1>6, <2>1 DEF Settled, Trigger, Legacy
<1>7. ASSUME Systemd PROVE InSync'
  <2> SUFFICES ASSUME NEW j \in Jobs, loaded'[Unit(j, "timer")] # "none", NEW part \in Artifacts
               PROVE  loaded'[Unit(j, part)] = file[Unit(j, part)]
    BY <1>1, <1>2 DEF InSync, Unit
  <2>1. "timer" \in Artifacts BY <1>7 DEF Artifacts
  <2>2. /\ Unit(j, part) \in Units /\ TimerOf(Unit(j, part)) = Unit(j, "timer")
        /\ Unit(j, "timer") \in Units /\ TimerOf(Unit(j, "timer")) = Unit(j, "timer")
    BY <1>7, <2>1, TodaysUnits
  <2> QED BY <1>4, <1>7, <2>2
<1> QED BY <1>1, <1>2, <1>5, <1>6, <1>7 DEF Schedules, Far

\* Whatever the user stops, disables or deletes, the rest runs on.
LEMMA HandRuns ==
  ASSUME Schedules, ByHand
  PROVE  ManagerRuns' /\ Far'
<1>1. file \in [Units -> Contents] /\ loaded \in [Units -> Contents] BY DEF Schedules, Kept, TimersTypeOK
<1>2. PICK u \in OwnedUnits :
        \/ /\ u = Trigger(u.job)
           /\ loaded' = IF Systemd THEN Stopped(u) ELSE [loaded EXCEPT ![u] = "none"]
           /\ strays' = strays \ {u} /\ UNCHANGED <<file, links>>
        \/ links' = links \ {u} /\ UNCHANGED <<file, loaded, strays>>
        \/ /\ file' = [file EXCEPT ![u] = "none"]
           /\ strays' = IF u = Trigger(u.job) /\ loaded[u] # "none" THEN strays \cup {u} ELSE strays
           /\ UNCHANGED <<links, loaded>>
  BY DEF ByHand, disk
<1>3. UNCHANGED <<backend, pc, outcome>> /\ pc = "idle" /\ troubled' BY DEF ByHand, run
<1>4. Systemd' = Systemd /\ Artifacts' = Artifacts BY <1>3 DEF Systemd, Artifacts
<1>5. /\ u \in Units /\ ~u.legacy /\ u.part \in Artifacts /\ u = Unit(u.job, u.part) /\ u.job \in Jobs
      /\ u.part \in {"timer", "plist"} => u = Trigger(u.job)
  BY TodaysUnits DEF OwnedUnits
<1>6. "none" \notin Versions BY TimersAssumption DEF NotVersions
<1>7. ASSUME Systemd, NEW t \in Units, t.part = "timer" PROVE TimerRuns(t)'
  <2>1. TimerRuns(t) /\ TimerOf(t) = t BY <1>7, UnitFacts DEF Schedules, ManagerRuns
  <2>2. CASE loaded' = Stopped(u) /\ strays' = strays \ {u} /\ UNCHANGED <<file, links>>
    <3>1. loaded'[t] = IF t = u THEN "none" ELSE loaded[t] BY <1>7, <2>1, <2>2 DEF Stopped
    <3> QED BY <2>1, <2>2, <3>1 DEF TimerRuns
  <2>3. CASE UNCHANGED <<file, loaded, strays>> BY <2>1, <2>3 DEF TimerRuns
  <2>4. CASE /\ file' = [file EXCEPT ![u] = "none"] /\ UNCHANGED <<links, loaded>>
             /\ strays' = IF u = Trigger(u.job) /\ loaded[u] # "none" THEN strays \cup {u} ELSE strays
    <3>1. file'[t] = IF t = u THEN "none" ELSE file[t] BY <1>1, <1>7, <2>4
    <3>2. t = u => u = Trigger(u.job) BY <1>5, <1>7
    <3>3. t = u => loaded[t] = "none" \/ t \in strays' BY <2>4, <3>2
    <3>4. t \in strays => t \in strays' BY <2>4
    <3> QED BY <1>6, <2>1, <2>4, <3>1, <3>3, <3>4 DEF TimerRuns
  <2> QED BY <1>2, <1>7, <2>2, <2>3, <2>4
<1>8. ASSUME ~Systemd, NEW w \in Units PROVE AgentRuns(w)'
  <2>1. AgentRuns(w) BY <1>8 DEF Schedules, ManagerRuns
  <2>2. CASE loaded' = [loaded EXCEPT ![u] = "none"] /\ strays' = strays \ {u} /\ UNCHANGED <<file, links>>
    <3>1. loaded'[w] = IF w = u THEN "none" ELSE loaded[w] BY <1>1, <1>8, <2>2
    <3> QED BY <2>1, <2>2, <3>1 DEF AgentRuns
  <2>3. CASE UNCHANGED <<file, loaded, strays>> BY <2>1, <2>3 DEF AgentRuns
  <2>4. CASE /\ file' = [file EXCEPT ![u] = "none"] /\ UNCHANGED <<links, loaded>>
             /\ strays' = IF u = Trigger(u.job) /\ loaded[u] # "none" THEN strays \cup {u} ELSE strays
    <3>1. file'[w] = IF w = u THEN "none" ELSE file[w] BY <1>1, <1>8, <2>4
    <3>2. u = Trigger(u.job) BY <1>5, <1>8 DEF Artifacts
    <3> QED BY <2>1, <2>4, <3>1, <3>2 DEF AgentRuns
  <2> QED BY <1>2, <1>8, <2>2, <2>3, <2>4
<1>9. ASSUME Systemd, InSync PROVE InSync'
  <2> SUFFICES ASSUME NEW j \in Jobs, \A part \in Artifacts : file'[Unit(j, part)] \in Versions,
                      loaded'[Unit(j, "timer")] # "none", NEW part \in Artifacts
               PROVE  loaded'[Unit(j, part)] = file'[Unit(j, part)]
    BY <1>4 DEF InSync, Unit
  <2>1. "timer" \in Artifacts BY <1>9 DEF Artifacts
  <2>2. \A q \in Artifacts : Unit(j, q) \in Units /\ Unit(j, q).job = j /\ TimerOf(Unit(j, q)) = Unit(j, "timer")
    BY <1>9, TodaysUnits
  <2>3. CASE loaded' = Stopped(u) /\ UNCHANGED file
    <3>1. \A q \in Artifacts : loaded'[Unit(j, q)] = IF Unit(j, "timer") = u THEN "none" ELSE loaded[Unit(j, q)]
      BY <2>2, <2>3 DEF Stopped
    <3>2. Unit(j, "timer") # u BY <2>1, <3>1
    <3> QED BY <1>9, <2>1, <2>3, <3>1, <3>2 DEF InSync
  <2>4. CASE UNCHANGED <<file, loaded>> BY <1>9, <2>4 DEF InSync
  <2>5. CASE file' = [file EXCEPT ![u] = "none"] /\ UNCHANGED loaded
    <3>1. \A q \in Artifacts : Unit(j, q) # u BY <1>1, <1>5, <1>6, <2>2, <2>5
    <3>2. \A q \in Artifacts : file'[Unit(j, q)] = file[Unit(j, q)] BY <1>1, <2>2, <2>5, <3>1
    <3> QED BY <1>9, <2>1, <2>5, <3>2 DEF InSync
  <2> QED BY <1>2, <1>9, <2>3, <2>4, <2>5
<1>10. ManagerRuns' BY <1>4, <1>7, <1>8 DEF ManagerRuns
<1> QED BY <1>3, <1>4, <1>9, <1>10 DEF Schedules, Far

\* What neither files nor manager nor command see changes nothing.
LEMMA QuietRuns ==
  ASSUME Schedules, UNCHANGED <<backend, file, links, loaded, strays>>
  PROVE  /\ ManagerRuns'
         /\ UNCHANGED <<pc, command, declared, todo, outcome, troubled>> => Far'
<1>1. Systemd' = Systemd /\ Artifacts' = Artifacts BY DEF Systemd, Artifacts
<1>2. ManagerRuns' BY <1>1 DEF Schedules, ManagerRuns, TimerRuns, AgentRuns
<1>3. ASSUME UNCHANGED <<pc, command, declared, todo, outcome, troubled>> PROVE Far'
  <2>1. Wanted' = Wanted /\ Halt' = Halt BY <1>1, <1>3 DEF Wanted, Desired, Enabled, Halt
  <2>2. \A act, u : Left(act, u)' <=> Left(act, u) BY <1>3 DEF Left
  <2>3. PlanOK => PlanOK' BY <1>1, <1>3, <2>1 DEF PlanOK
  <2>4. FilesOK => FilesOK' BY <1>1, <1>3, <2>1, <2>2 DEF FilesOK, Legacy
  <2>5. \A t \in Wanted : Synced(t) => Synced(t)' BY DEF Synced, TimerOf
  <2>6. SystemdOK => SystemdOK' BY <1>1, <1>3, <2>1, <2>2, <2>5 DEF SystemdOK
  <2>7. ReadLast => ReadLast' BY <1>1, <1>3, <2>2 DEF ReadLast
  <2>8. LaunchdOK => LaunchdOK' BY <1>1, <1>3, <2>1, <2>2 DEF LaunchdOK
  <2>9. Settled => Settled' BY <1>1, <1>3, <2>1 DEF Settled, Trigger, Legacy
  <2>10. InSync => InSync' BY <1>1 DEF InSync, Unit
  <2> QED BY <1>1, <1>3, <2>3, <2>4, <2>6, <2>7, <2>8, <2>9, <2>10 DEF Schedules, Far, Work
<1> QED BY <1>2, <1>3

\* A command that gives up leaves no steps and promises nothing.
LEMMA GivenUp == GiveUp => Far'
BY DEF GiveUp, Far

\* The invariant is inductive.
LEMMA NextSchedules == Schedules /\ [Next]_vars => Schedules'
<1> SUFFICES ASSUME Schedules, [Next]_vars PROVE Schedules' OBVIOUS
<1>1. Kept' BY NextKept DEF Schedules
<1>2. strays' \subseteq strays \cup OwnedUnits
  <2>1. ASSUME NEW s \in todo, Effect(s) \/ Refused PROVE strays' \subseteq strays BY <2>1 DEF Effect, Refused
  <2>2. CASE DoStep BY <2>1, <2>2, StepEffect DEF DoStep
  <2>3. CASE ByHand BY <2>3 DEF ByHand
  <2>4. CASE Login BY <2>4 DEF Login
  <2>5. CASE ~DoStep /\ ~ByHand /\ ~Login
    BY <2>5 DEF Next, Install, RefuseInstall, Uninstall, Begin, Finish, Fail, Edit, vars
  <2> QED BY <2>2, <2>3, <2>4, <2>5
<1>3. Marks' /\ Couples' BY <1>2, NextMove, MoveMarks DEF Schedules
<1>4. ManagerRuns' /\ Far'
  <2>1. CASE Install \/ Uninstall
    <3>1. UNCHANGED <<backend, file, links, loaded, strays>> BY <2>1 DEF Install, Uninstall, Begin, disk
    <3> QED BY <2>1, <3>1, BeginWork, QuietRuns DEF Schedules, Far
  <2>2. CASE DoStep
    <3>1. PICK s \in todo : Effect(s) \/ Refused BY <2>2, StepEffect DEF DoStep
    <3>2. CASE Effect(s)
      <4>1. pc = "working" /\ Work /\ todo \subseteq Step BY <3>2 DEF Schedules, Far, Effect, Kept, TimersTypeOK
      <4>2. IsNext(s, s.act) /\ Done(s) BY <3>2 DEF Effect
      <4>3. Work'
        <5>1. PlanOK' /\ ReadLast' BY <4>1, <4>2, DonePlan DEF Work, Schedules
        <5> QED BY <3>2, <4>1, <5>1, DoneFiles, DoneSystemd, DoneLaunchd DEF Work, Schedules
      <4>4. ManagerRuns' BY <3>2, <4>1, DoneRuns DEF Schedules
      <4>5. outcome' = "none" BY <4>1, <4>2 DEF Done, run, Work, PlanOK
      <4> QED BY <4>3, <4>4, <4>5 DEF Far
    <3>3. CASE Refused
      BY <3>3, QuietRuns, GivenUp DEF Refused, GiveUp, disk
    <3> QED BY <3>1, <3>2, <3>3
  <2>3. CASE Finish
    <3>1. /\ UNCHANGED <<backend, file, links, loaded, strays, command, declared>>
          /\ pc' = "idle"
      BY <2>3 DEF Finish, disk
    <3>2. Settled /\ (Systemd => InSync) BY <2>3, FinishSettles
    <3>3. Systemd' = Systemd /\ Artifacts' = Artifacts BY <3>1 DEF Systemd, Artifacts
    <3>4. Wanted' = Wanted BY <3>1, <3>3 DEF Wanted, Desired, Enabled
    <3>5. Settled' BY <3>1, <3>2, <3>3, <3>4 DEF Settled, Trigger, Legacy
    <3>6. Systemd => InSync' BY <3>1, <3>2, <3>3 DEF InSync, Unit
    <3> QED BY <3>1, <3>3, <3>5, <3>6, QuietRuns DEF Far
  <2>4. CASE RefuseInstall \/ Fail BY <2>4, QuietRuns, GivenUp DEF RefuseInstall, Fail, GiveUp, disk
  <2>5. CASE Edit BY <2>5, QuietRuns DEF Edit, disk, run
  <2>6. CASE Login BY <2>6, LoginRuns
  <2>7. CASE ByHand BY <2>7, HandRuns
  <2>8. CASE UNCHANGED vars BY <2>8, QuietRuns DEF vars, disk, run
  <2> QED BY <2>1, <2>2, <2>3, <2>4, <2>5, <2>6, <2>7, <2>8 DEF Next
<1> QED BY <1>1, <1>3, <1>4 DEF Schedules

\* So every reachable state satisfies it.
LEMMA SchedulesAlways == Spec => []Schedules
BY InitSchedules, NextSchedules, PTL DEF Spec

-----------------------------------------------------------------------------
(* What the scheduler promises. *)

\* A wanted unit that is no stray fires as the policy the command read says.
LEMMA SettledFires ==
  ASSUME Schedules, Settled, NEW j \in Jobs, Trigger(j) \notin strays
  PROVE  Fires(j) = Goal(j) /\ WillFire(j) = Goal(j)
<1>1. Trigger(j) \in Units /\ Trigger(j).job = j /\ Trigger(j).part \in Artifacts /\ ~Trigger(j).legacy
      /\ (Systemd => Trigger(j).part = "timer") /\ Trigger(j) = Unit(j, Trigger(j).part)
  BY TodaysUnits
<1>2. "none" \notin Versions BY TimersAssumption DEF NotVersions
<1>3. CASE command = "install" /\ Enabled(declared, j)
  <2>1. \A part \in Artifacts : Unit(j, part) \in Wanted /\ Unit(j, part).job = j
    BY <1>3, TodaysUnits DEF Wanted, Desired
  <2>2. \A part \in Artifacts : file[Unit(j, part)] = declared[j] /\ loaded[Unit(j, part)] = declared[j]
    BY <2>1 DEF Settled
  <2>3. declared[j] \in Versions BY <1>3 DEF Enabled
  <2>4. Systemd => Trigger(j) \in links BY <1>1, <2>1 DEF Settled
  <2>5. file[Trigger(j)] = declared[j] /\ loaded[Trigger(j)] = declared[j] BY <1>1, <2>2
  <2> QED BY <1>3, <2>2, <2>3, <2>4, <2>5 DEF Fires, WillFire, Goal
<1>4. CASE ~(command = "install" /\ Enabled(declared, j))
  <2>1. Trigger(j) \notin Wanted BY <1>1, <1>4 DEF Wanted, Desired
  <2>2. file[Trigger(j)] \notin Versions BY <1>1, <2>1 DEF Settled
  <2>3. loaded[Trigger(j)] \notin Versions
    <3>1. CASE Systemd
      <4>1. TimerRuns(Trigger(j)) BY <1>1, <3>1 DEF Schedules, ManagerRuns
      <4> QED BY <1>2, <2>2, <4>1 DEF TimerRuns
    <3>2. CASE ~Systemd
      <4>1. AgentRuns(Trigger(j)) BY <1>1, <3>2 DEF Schedules, ManagerRuns
      <4> QED BY <1>2, <2>2, <4>1 DEF AgentRuns
    <3> QED BY <3>1, <3>2
  <2> QED BY <1>4, <2>2, <2>3 DEF Fires, WillFire, Goal
<1> QED BY <1>3, <1>4

\* A legacy timer of this project that still runs is one the command could not know.
LEMMA SettledForgets ==
  ASSUME Schedules, Settled, NEW j \in Jobs, loaded[Legacy(j, "timer")] = "old"
  PROVE  Forgotten(j)
<1>1. /\ Legacy(j, "timer") \in Units /\ Legacy(j, "timer").legacy /\ Legacy(j, "timer").part = "timer"
      /\ Legacy(j, "service") \in Units /\ Legacy(j, "service").legacy
  BY DEF Legacy, Units, Parts
<1>2. Legacy(j, "timer") \notin strays /\ file[Legacy(j, "timer")] \in {"none", "old", "other"}
      /\ file[Legacy(j, "service")] \in {"none", "old", "other"}
  BY <1>1 DEF Schedules, Marks
<1>3. {"old", "other"} \cap Versions = {} BY TimersAssumption DEF NotVersions
<1>4. file[Legacy(j, "timer")] = "old"
  <2>1. CASE Systemd
    <3>1. TimerRuns(Legacy(j, "timer")) BY <1>1, <2>1 DEF Schedules, ManagerRuns
    <3> QED BY <1>2, <1>3, <3>1 DEF TimerRuns
  <2>2. CASE ~Systemd
    <3>1. AgentRuns(Legacy(j, "timer")) BY <1>1, <2>2 DEF Schedules, ManagerRuns
    <3> QED BY <1>2, <3>1 DEF AgentRuns
  <2> QED BY <2>1, <2>2
<1>5. file[Legacy(j, "service")] # "other" BY <1>4 DEF Schedules, Couples
<1>6. declared[j] # "gone" => file[Legacy(j, "service")] # "old" BY DEF Settled
<1> QED BY <1>2, <1>5, <1>6 DEF Forgotten

\* A command that reports success has made everything so, whatever commands that failed or died before it left half
\* done: each job fires as the policy says, now and after the next login, and no other job of the project does.
THEOREM SuccessSchedules == Spec => []SuccessIsScheduled
<1>1. Schedules => SuccessIsScheduled
  BY SettledFires, SettledForgets DEF Schedules, Far, SuccessIsScheduled
<1> QED BY <1>1, SchedulesAlways, PTL

\* A job that status reports as current fires as the policy says: over launchd always, over systemd after a command
\* that succeeded, whatever was stopped or deleted by hand since.
THEOREM CurrentSchedules == Spec => []CurrentIsScheduled
<1>1. ASSUME Schedules, pc = "idle", Systemd => outcome = "success", NEW j \in Jobs, Trigger(j) \notin strays,
             State(policy, j) = "current"
      PROVE  Fires(j) = policy[j] /\ WillFire(j) = policy[j]
  <2>1. CASE Systemd
    <3>1. State(policy, j) = SystemdState(policy, j) /\ Artifacts = {"service", "timer"} /\ Trigger(j) = Unit(j, "timer")
      BY <2>1, TodaysUnits DEF State
    <3>2. PICK present : present = {part \in {"service", "timer"} : file[Unit(j, part)] # "none"} OBVIOUS
    <3>3. /\ Enabled(policy, j) /\ present = {"service", "timer"}
          /\ \A part \in present : file[Unit(j, part)] = policy[j]
          /\ Trigger(j) \in links /\ loaded[Trigger(j)] # "none"
      BY <1>1, <3>1, <3>2 DEF SystemdState
    <3>4. \A part \in Artifacts : file[Unit(j, part)] = policy[j] /\ policy[j] \in Versions
      BY <3>1, <3>3 DEF Enabled
    <3>5. \A part \in Artifacts : loaded[Unit(j, part)] = policy[j]
      BY <1>1, <2>1, <3>1, <3>3, <3>4 DEF Schedules, Far, InSync
    <3> QED BY <2>1, <3>1, <3>3, <3>4, <3>5 DEF Fires, WillFire
  <2>2. CASE ~Systemd
    <3>1. State(policy, j) = LaunchdState(policy, j) /\ Artifacts = {"plist"} /\ Trigger(j) = Unit(j, "plist")
          /\ Trigger(j) \in Units
      BY <2>2, TodaysUnits DEF State
    <3>2. Enabled(policy, j) /\ file[Trigger(j)] = policy[j] /\ loaded[Trigger(j)] # "none"
      BY <1>1, <3>1 DEF LaunchdState
    <3>3. loaded[Trigger(j)] = policy[j] BY <1>1, <2>2, <3>1, <3>2 DEF Schedules, ManagerRuns, AgentRuns
    <3> QED BY <2>2, <3>1, <3>2, <3>3 DEF Fires, WillFire, Enabled
  <2> QED BY <2>1, <2>2
<1>2. Schedules => CurrentIsScheduled BY <1>1 DEF CurrentIsScheduled
<1> QED BY <1>2, SchedulesAlways, PTL

\* A step is refused only when launchd's last look finds what a stray or a foreign plist or a link makes of a disabled job.
LEMMA RefusedIsExcused ==
  ASSUME Schedules, pc = "working", NEW s \in todo, Refused,
         Unlink(s) \/ Link(s) \/ Start(s) \/ Bootstrap(s) \/ Check(s),
         s.act \in {"unlink", "link", "start", "bootstrap"} => file[s.unit] = "none",
         s.act = "verify" => ~Reconciled(declared)
  PROVE  strays # {} \/ Unreconcilable
<1>1. PlanOK /\ FilesOK /\ LaunchdOK /\ todo \subseteq Step BY DEF Schedules, Far, Work, Kept, TimersTypeOK
<1>2. IsNext(s, s.act) /\ s.act \in {"unlink", "link", "start", "bootstrap", "verify"}
  BY DEF Unlink, Link, Start, Bootstrap, Check, IsNext
<1>3. s = [act |-> s.act, unit |-> s.unit] BY <1>1, StepIs
<1>4. s.act # "unlink"
  <2> SUFFICES ASSUME s.act = "unlink" PROVE FALSE OBVIOUS
  <2>1. Left("unlink", s.unit) BY <1>3 DEF Left
  <2>2. s.unit \in Units BY <1>2 DEF Schedules, Kept, Targets
  <2> QED BY <1>1, <2>1, <2>2 DEF FilesOK
<1>5. s.act \notin {"link", "start", "bootstrap"}
  <2> SUFFICES ASSUME s.act \in {"link", "start", "bootstrap"} PROVE FALSE OBVIOUS
  <2>1. s.unit \in Wanted BY <1>1 DEF PlanOK
  <2>2. command = "install" BY <2>1, WantedIs
  <2>3. ~Left("write", s.unit) BY <1>1, <1>2, <2>2, Order, LeftIs DEF Schedules
  <2>4. file[s.unit] = declared[s.unit.job] BY <1>1, <2>1, <2>3 DEF FilesOK
  <2> QED BY <2>1, <2>4, WantedIs
<1>6. CASE s.act = "verify"
  <2>1. ~Systemd /\ command = "install" /\ todo = {s} BY <1>1, <1>2, <1>6, Order DEF PlanOK, Schedules
  <2>2. \A act, u : act # "verify" => ~Left(act, u) BY <1>6, <2>1, LeftIs
  <2>3. PICK j \in Jobs : declared[j] # "gone" /\ State(declared, j) # IF Enabled(declared, j) THEN "current" ELSE "disabled"
    BY <1>6 DEF Reconciled
  <2>4. State(declared, j) = LaunchdState(declared, j) /\ Trigger(j) \in Units /\ ~Trigger(j).legacy
        /\ Trigger(j).job = j /\ Trigger(j).part \in Artifacts
    BY <2>1, TodaysUnits DEF State
  <2>5. CASE Enabled(declared, j)
    <3>1. Trigger(j) \in Wanted BY <2>1, <2>4, <2>5 DEF Wanted, Desired
    <3>2. file[Trigger(j)] = declared[j] BY <1>1, <2>2, <2>4, <3>1 DEF FilesOK
    <3>3. loaded[Trigger(j)] # "none" BY <1>1, <2>1, <2>2, <3>1 DEF LaunchdOK
    <3>4. declared[j] \notin {"none", "special"} BY <2>5, TimersAssumption DEF Enabled, NotVersions
    <3> QED BY <2>3, <2>4, <2>5, <3>2, <3>3, <3>4 DEF LaunchdState
  <2>6. CASE ~Enabled(declared, j)
    <3>1. Trigger(j) \notin Wanted BY <2>4, <2>6 DEF Wanted, Desired
    <3>2. file[Trigger(j)] \notin Versions BY <1>1, <2>2, <2>4, <3>1 DEF FilesOK
    <3>3. file[Trigger(j)] \notin {"old", "other"} BY <2>4 DEF Schedules, Marks
    <3>4. file[Trigger(j)] \in {"none", "foreign", "special"} BY <2>4, <3>2, <3>3 DEF Schedules, Kept, TimersTypeOK, Contents
    <3>5. declared \in Policies \cup {NoPolicy} BY DEF Schedules, Kept, TimersTypeOK
    <3>6. declared[j] = "off" BY <2>3, <2>6, <3>5 DEF Policies, NoPolicy, Enabled
    <3>7. CASE file[Trigger(j)] \in {"foreign", "special"} BY <2>1, <3>6, <3>7 DEF Unreconcilable
    <3>8. CASE file[Trigger(j)] = "none"
      <4>1. AgentRuns(Trigger(j)) BY <2>1, <2>4 DEF Schedules, ManagerRuns
      <4>2. CASE loaded[Trigger(j)] = "none" BY <2>3, <2>4, <2>6, <3>8, <4>2 DEF LaunchdState
      <4> QED BY <3>8, <4>1, <4>2 DEF AgentRuns
    <3> QED BY <3>4, <3>7, <3>8
  <2> QED BY <2>5, <2>6
<1> QED BY <1>2, <1>4, <1>5, <1>6

\* Nothing an interrupted command leaves makes a later one fail, however often commands were interrupted.
THEOREM NothingLeftFails == Spec => UntroubledSucceeds
<1>1. Schedules /\ [Next]_vars =>
        [pc = "working" /\ outcome' = "failed" => troubled' \/ strays # {} \/ Unreconcilable]_vars
  <2> SUFFICES ASSUME Schedules, Next, pc = "working", outcome' = "failed", ~troubled'
               PROVE  strays # {} \/ Unreconcilable
    BY DEF vars
  <2>1. outcome = "none" BY DEF Schedules, Far, Work, PlanOK
  <2>2. DoStep BY <2>1 DEF Next, Install, RefuseInstall, Uninstall, Begin, Finish, Fail, Edit, Login, ByHand
  <2>3. PICK s \in todo :
          \/ Write(s) \/ Remove(s)
          \/ Unlink(s) \/ Stop(s) \/ Reload(s) \/ Link(s) \/ Start(s)
          \/ Bootout(s) \/ Bootstrap(s) \/ Check(s)
    BY <2>2 DEF DoStep
  <2>4. ~Done(s) BY <2>1 DEF Done, run
  <2>5. /\ Refused /\ (Unlink(s) \/ Link(s) \/ Start(s) \/ Bootstrap(s) \/ Check(s))
        /\ s.act \in {"unlink", "link", "start", "bootstrap"} => file[s.unit] = "none"
        /\ s.act = "verify" => ~Reconciled(declared)
    BY <2>3, <2>4 DEF Write, Remove, Unlink, Stop, Reload, Link, Start, Bootout, Bootstrap, Check, IsNext
  <2> QED BY <2>5, RefusedIsExcused
<1> QED BY <1>1, SchedulesAlways, PTL DEF Spec, UntroubledSucceeds

=============================================================================
