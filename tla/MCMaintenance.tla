--------------------------- MODULE MCMaintenance ---------------------------
(***************************************************************************)
(* Instances of Maintenance for TLC.                                       *)
(***************************************************************************)
EXTENDS Maintenance

ASSUME CodesAreApart == CodesApart

\* A backup job and a doctor job that looks at one service.
Kinds == [nightly |-> "backup", check |-> "doctor"]
JobNames == DOMAIN Kinds
ServiceCheck == [app |-> [domain |-> "service", pass |-> "service.app", fail |-> "service.app"]]
CheckNames == DOMAIN ServiceCheck

\* The first route hears everything, and of active issues again after a
\* cooldown; the second hears only of a service that fails.
TwoRoutes == {1, 2}
AllTypes == {"backup.succeeded", "backup.failed", "service.unhealthy", "maintenance.skipped"}
TwoPolicies ==
  <<[events |-> AllTypes, severities |-> {}, recoveries |-> TRUE, cooldown |-> TRUE],
    [events |-> {"service.unhealthy"}, severities |-> {"error"},
     recoveries |-> TRUE, cooldown |-> FALSE]>>

ThreeRuns == 1..3
Scheduled == {<<"nightly", "scheduled">>, <<"check", "scheduled">>}
Started == <<Scheduled, Scheduled, {<<"nightly", "manual">>}>>
FirstFaults == <<{"disk", "crash", "sink"}, {"sink"}, {}>>

\* A doctor job that looks at Docker, whose findings have a code of their own
\* for each status, and an update check.
DockerCheck == [docker |-> [domain |-> "doctor", pass |-> "docker.healthy", fail |-> "docker.unhealthy"]]
DockerChecks == DOMAIN DockerCheck
OtherKinds == [check |-> "doctor", updates |-> "update-check"]
OtherJobs == DOMAIN OtherKinds
OneRoute == {1}
OnePolicy ==
  <<[events |-> {"doctor.warning", "doctor.failed", "maintenance.failed"}, severities |-> {},
     recoveries |-> TRUE, cooldown |-> FALSE]>>
TwoRuns == 1..2
TwoStarted == [n \in TwoRuns |-> OtherJobs \X {"scheduled"}]
NoFaults == [n \in TwoRuns |-> {}]
=============================================================================
