---------------------------- MODULE Notification ----------------------------
(***************************************************************************)
(* The pure part of internal/notification: the events an operation's        *)
(* outcome gives (Derive), the routes that want them (routeMatches), and    *)
(* what an event does to the remembered issues (processEvent).              *)
(*                                                                         *)
(* An event has a type, a severity and the issue it is about; an issue is   *)
(* what the fingerprint stands for: the job, a domain and a category.       *)
(***************************************************************************)
EXTENDS Naturals

CONSTANTS
  Jobs,          \* maintenance jobs
  Operation,     \* per job: "backup", "doctor" or "update-check"
  Checks,        \* what doctor looks at
  Check,         \* per check: its domain and the codes of a passing and a failing finding
  Routes,        \* notification routes, numbered in policy order
  Policy         \* per route: events, severities, recoveries and whether it has a cooldown

ASSUME JobsAssumption == Operation \in [Jobs -> {"backup", "doctor", "update-check"}]

ASSUME ChecksAssumption ==
  \A c \in Checks : Check[c].domain \in {"doctor", "storage", "service"}

\* No two checks share a code: an issue is about one of them. A configuration
\* may break this (a storage resource named "unconfigured"), so it is no
\* assumption of the module; the theorems that need it say so.
CodesApart ==
  \A c, d \in Checks :
    ( /\ Check[c].domain = Check[d].domain
      /\ {Check[c].pass, Check[c].fail} \cap {Check[d].pass, Check[d].fail} # {} ) => c = d

ASSUME RoutesAssumption ==
  /\ Routes \subseteq Nat
  /\ \A r \in Routes : Policy[r].recoveries \in BOOLEAN /\ Policy[r].cooldown \in BOOLEAN

-----------------------------------------------------------------------------
(* What Executor.Execute returns. *)

NoFindings == [c \in Checks |-> "none"]

Outcome(result) ==
  [result |-> result, retention |-> FALSE, updates |-> FALSE, findings |-> NoFindings]

\* A check that was not reached has no finding.
Findings == [Checks -> {"none", "pass", "warn", "fail"}]

DoctorResult(findings) ==
  IF \E c \in Checks : findings[c] = "fail" THEN "failure"
  ELSE IF \E c \in Checks : findings[c] = "warn" THEN "warning" ELSE "success"

Outcomes(job) ==
  {Outcome("failure")} \cup
  (IF Operation[job] = "backup"
   THEN {Outcome("success"),
         [result |-> "warning", retention |-> TRUE, updates |-> FALSE, findings |-> NoFindings]}
   ELSE IF Operation[job] = "doctor"
   THEN {[result |-> DoctorResult(f), retention |-> FALSE, updates |-> FALSE, findings |-> f] :
           f \in Findings \ {NoFindings}}
   ELSE {Outcome("success"),
         [result |-> "success", retention |-> FALSE, updates |-> TRUE, findings |-> NoFindings]})

-----------------------------------------------------------------------------
(* Derive. *)

IssueFingerprint(job, domain, category) == <<job, domain, category>>

Event(type, severity, issue) == [type |-> type, severity |-> severity, issue |-> issue]

BackupEvents(job, outcome) ==
  LET failure == IssueFingerprint(job, "backup", "failure") IN
  IF outcome.result = "success"
  THEN {Event("backup.succeeded", "info", IssueFingerprint(job, "backup", "success")),
        Event("maintenance.recovered", "recovery", failure)}
  ELSE {Event(IF outcome.retention THEN "backup.retention_failed" ELSE "backup.failed",
              "error", failure)}

RecoveryType ==
  [doctor |-> "doctor.recovered", storage |-> "storage.recovered", service |-> "service.recovered"]
FailureType ==
  [warn |-> [doctor |-> "doctor.warning", storage |-> "storage.failed", service |-> "service.unhealthy"],
   fail |-> [doctor |-> "doctor.failed", storage |-> "storage.failed", service |-> "service.unhealthy"]]

\* The code of the finding, not the check, is in the fingerprint.
EventForFinding(job, c, status) ==
  LET domain == Check[c].domain IN
  IF status = "pass"
  THEN Event(RecoveryType[domain], "recovery", IssueFingerprint(job, domain, Check[c].pass))
  ELSE Event(FailureType[status][domain], IF status = "fail" THEN "error" ELSE "warning",
             IssueFingerprint(job, domain, Check[c].fail))

DoctorEvents(job, outcome) ==
  {EventForFinding(job, c, outcome.findings[c]) : c \in {d \in Checks : outcome.findings[d] # "none"}}
  \cup (IF outcome.findings = NoFindings /\ outcome.result # "success"
        THEN {Event("doctor.failed", "error", IssueFingerprint(job, "doctor", "failure"))}
        ELSE {})

UpdateEvents(job, outcome) ==
  LET available == IssueFingerprint(job, "updates", "available") IN
  IF outcome.result # "success"
  THEN {Event("maintenance.failed", "error", IssueFingerprint(job, "maintenance", "failure"))}
  ELSE IF outcome.updates
  THEN {Event("updates.available", "info", available)}
  ELSE {Event("updates.cleared", "recovery", available)}

Derive(job, outcome) ==
  IF outcome.result = "skipped"
  THEN {Event("maintenance.skipped", "info", IssueFingerprint(job, "maintenance", "skipped"))}
  ELSE IF Operation[job] = "backup" THEN BackupEvents(job, outcome)
  ELSE IF Operation[job] = "doctor" THEN DoctorEvents(job, outcome)
  ELSE UpdateEvents(job, outcome)

\* The issues a job can raise.
IssuesOf(job) ==
  IF Operation[job] = "backup" THEN {IssueFingerprint(job, "backup", "failure")}
  ELSE IF Operation[job] = "doctor"
  THEN {IssueFingerprint(job, "doctor", "failure")}
       \cup {IssueFingerprint(job, Check[c].domain, Check[c].fail) : c \in Checks}
  ELSE {IssueFingerprint(job, "maintenance", "failure")}
Issues == UNION {IssuesOf(job) : job \in Jobs}

-----------------------------------------------------------------------------
(* Routes. *)

RecoveryMatches ==
  {<<"backup.failed", "maintenance.recovered">>, <<"doctor.warning", "doctor.recovered">>,
   <<"doctor.failed", "doctor.recovered">>, <<"updates.available", "updates.cleared">>,
   <<"maintenance.failed", "maintenance.recovered">>, <<"storage.failed", "storage.recovered">>,
   <<"service.unhealthy", "service.recovered">>}

IsRecovery(event) == event.severity = "recovery"

RouteMatches(route, event) ==
  IF IsRecovery(event)
  THEN /\ route.recoveries
       /\ \E selected \in route.events :
            selected = event.type \/ <<selected, event.type>> \in RecoveryMatches
  ELSE /\ route.severities = {} \/ event.severity \in route.severities
       /\ event.type \in route.events

Matching(event) == {r \in Routes : RouteMatches(Policy[r], event)}

-----------------------------------------------------------------------------
(* The remembered issues: per issue the severity it was last observed with   *)
(* ("none": not remembered), and per route whether the issue was delivered   *)
(* and, if so, whether the cooldown since then has elapsed ("due").          *)

NoIssue == [severity |-> "none", told |-> [r \in Routes |-> "no"]]

\* SeverityRank, 0 for an issue that is not remembered yet.
Rank == [none |-> 0, warning |-> 2, error |-> 3]

\* An issue that is new has no delivery to compare with.
Escalated(memory, event) == Rank[event.severity] > Rank[memory[event.issue].severity]

\* Mutant: the cooldown's test is inverted, so that within it nothing is suppressed.
MutSuppressed(memory, event, r) ==
  /\ memory[event.issue].told[r] = "due"
  /\ ~Escalated(memory, event)

\* Delivered before, with a cooldown that has not elapsed, and no worse now.
Suppressed(memory, event, r) ==
  /\ memory[event.issue].told[r] = "recent"
  /\ ~Escalated(memory, event)

\* Mutant: a recovery is delivered like any event.
MutRecipients(memory, event) ==
  IF IsRecovery(event) \/ event.severity = "info" THEN Matching(event)
  ELSE {r \in Matching(event) : ~Suppressed(memory, event, r)}

\* The routes an event is delivered to.
Recipients(memory, event) ==
  IF IsRecovery(event)
  THEN {r \in Matching(event) : event.issue \in Issues /\ memory[event.issue].told[r] # "no"}
  ELSE IF event.severity = "info" THEN Matching(event)
  ELSE {r \in Matching(event) : ~Suppressed(memory, event, r)}

\* Mutant: a recovery is remembered like an alert.
MutRemembered(memory, event) ==
  [i \in Issues |->
     IF i # event.issue \/ event.severity = "info" THEN memory[i]
     ELSE [severity |-> event.severity, told |-> memory[i].told]]

\* What is remembered after an event, apart from its deliveries.
Remembered(memory, event) ==
  [i \in Issues |->
     IF i # event.issue \/ event.severity = "info" THEN memory[i]
     ELSE IF IsRecovery(event) THEN NoIssue
     ELSE [severity |-> event.severity, told |-> memory[i].told]]

Delivered(memory, issue, r) ==
  [i \in Issues |->
     IF i # issue THEN memory[i]
     ELSE [severity |-> memory[i].severity,
           told |-> [memory[i].told EXCEPT ![r] = "recent"]]]
=============================================================================
