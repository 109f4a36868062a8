---------------------------- MODULE Maintenance ----------------------------
(***************************************************************************)
(* `bebop maintenance run JOB` on one controller: Runner.RunDetailed        *)
(* (internal/maintenance/model.go), the lease of a job, the history of runs *)
(* and the alerts that are derived from each run (internal/notification).   *)
(* Timers and users start runs as they please; each run is a process.       *)
(***************************************************************************)
EXTENDS Notification, FiniteSets

CONSTANTS
  Runs,          \* invocations, numbered by StartedAt
  Invocations,   \* per run: the jobs and origins it may be started with
  HistoryMax,    \* history_max_entries
  NotifyManual,  \* notify_manual
  Nobody,        \* a lease is free
  NoJob,         \* the job of a run that is not there
  Faults         \* per run: which faults it may meet

ASSUME RunsAssumption ==
  /\ Runs \subseteq Nat
  /\ Invocations \in [Runs -> SUBSET (Jobs \X {"manual", "scheduled"})]
  /\ Nobody \notin Runs /\ NoJob \notin Jobs

ASSUME PolicyAssumption ==
  /\ HistoryMax \in Nat \ {0}
  /\ NotifyManual \in BOOLEAN

\* "disk":  a file operation of the run fails   "crash": its process dies
\* "sink":  a delivery fails
ASSUME FaultsAssumption == Faults \in [Runs -> SUBSET {"disk", "crash", "sink"}]

VARIABLES
  pc,           \* where each run stands in RunDetailed
  job,          \* the job it is of
  origin,       \* "manual" or "scheduled"
  outcome,      \* what finish was called with
  lease,        \* per job: which run owns locks/<job>.lock
  historyLock,  \* who owns .history.lock
  history,      \* runs whose record is in the history directory
  stateLock,    \* who owns .state.lock
  issues,       \* state.json
  memory,       \* per run: the state it has loaded
  events,       \* events it has yet to process
  event,        \* the event it processes
  recipients,   \* routes this event has yet to be delivered to
  appended,     \* observed by properties: runs whose record was ever written
  last,         \* observed: per job, the outcome alerts were last derived from
  lost,         \* observed: jobs with a run that ended before it saved its alerts
  heard         \* observed: per issue and route, what its receiver knows

runVars == <<job, origin, outcome>>
historyVars == <<historyLock, history, appended>>
alertVars == <<stateLock, issues, memory, events, event, recipients, heard>>
vars == <<pc, runVars, lease, historyVars, alertVars, last, lost>>

NoOutcome == Outcome("none")
Skipped == Outcome("skipped")
NoEvent == Event("none", "info", <<NoJob, "none", "none">>)
NoIssues == [i \in Issues |-> NoIssue]

PCs == {"idle", "admit", "execute", "record", "prune", "notify", "events", "deliver",
        "release", "done"}

AllOutcomes == {NoOutcome, Skipped} \cup UNION {Outcomes(j) : j \in Jobs}
Events == {NoEvent} \cup UNION {Derive(j, o) : j \in Jobs, o \in AllOutcomes \ {NoOutcome}}
IssueStates == [severity : {"none", "warning", "error"}, told : [Routes -> {"no", "recent", "due"}]]

TypeOK ==
  /\ pc \in [Runs -> PCs]
  /\ job \in [Runs -> Jobs \cup {NoJob}]
  /\ origin \in [Runs -> {"manual", "scheduled"}]
  /\ outcome \in [Runs -> AllOutcomes]
  /\ lease \in [Jobs -> Runs \cup {Nobody}]
  /\ historyLock \in Runs \cup {Nobody}
  /\ history \subseteq appended /\ appended \subseteq Runs
  /\ stateLock \in Runs \cup {Nobody}
  /\ issues \in [Issues -> IssueStates]
  /\ memory \in [Runs -> [Issues -> IssueStates]]
  /\ events \in [Runs -> SUBSET Events] /\ event \in [Runs -> Events]
  /\ recipients \in [Runs -> SUBSET Routes]
  /\ last \in [Jobs -> AllOutcomes]
  /\ lost \subseteq Jobs
  /\ heard \in [Issues -> [Routes -> {"never", "told", "may repeat", "repeated"}]]

Init ==
  /\ pc = [n \in Runs |-> "idle"]
  /\ job = [n \in Runs |-> NoJob]
  /\ origin = [n \in Runs |-> "manual"]
  /\ outcome = [n \in Runs |-> NoOutcome]
  /\ lease = [j \in Jobs |-> Nobody]
  /\ historyLock = Nobody /\ history = {} /\ appended = {}
  /\ stateLock = Nobody
  /\ issues = NoIssues
  /\ memory = [n \in Runs |-> NoIssues]
  /\ events = [n \in Runs |-> {}]
  /\ event = [n \in Runs |-> NoEvent]
  /\ recipients = [n \in Runs |-> {}]
  /\ last = [j \in Jobs |-> NoOutcome]
  /\ lost = {}
  /\ heard = [i \in Issues |-> [r \in Routes |-> "never"]]

-----------------------------------------------------------------------------
(* A run before it calls finish. *)

Goto(n, label) == pc' = [pc EXCEPT ![n] = label]
Set(f, n, value) == [f EXCEPT ![n] = value]
LeastOf(set) == CHOOSE x \in set : \A y \in set : x <= y

Notified(n) == origin[n] = "scheduled" \/ NotifyManual

\* It did something, or failed to, and its alerts are not saved yet.
Unsaved(n) == Notified(n) /\ outcome[n].result \notin {"none", "skipped"} /\ pc[n] # "release"

\* The process is over: what it owned is free, its memory is gone.
EndWith(n, records) ==
  /\ history' = records
  /\ Goto(n, "done")
  /\ job' = Set(job, n, NoJob)
  /\ origin' = Set(origin, n, "manual")
  /\ outcome' = Set(outcome, n, NoOutcome)
  /\ lease' = [j \in Jobs |-> IF lease[j] = n THEN Nobody ELSE lease[j]]
  /\ historyLock' = IF historyLock = n THEN Nobody ELSE historyLock
  /\ stateLock' = IF stateLock = n THEN Nobody ELSE stateLock
  /\ memory' = Set(memory, n, NoIssues)
  /\ events' = Set(events, n, {})
  /\ event' = Set(event, n, NoEvent)
  /\ recipients' = Set(recipients, n, {})
  /\ lost' = IF Unsaved(n) THEN lost \cup {job[n]} ELSE lost
  /\ UNCHANGED <<appended, issues, heard, last>>

End(n) == EndWith(n, history)

StartRun(n) ==
  /\ pc[n] = "idle" /\ \A m \in Runs : m < n => pc[m] # "idle"
  /\ \E invocation \in Invocations[n] :
       /\ job' = Set(job, n, invocation[1])
       /\ origin' = Set(origin, n, invocation[2])
  /\ Goto(n, "admit")
  /\ UNCHANGED <<outcome, lease, historyVars, alertVars, last, lost>>

\* A disabled job, a time outside its window, or another run of the job.
Skip(n) ==
  /\ pc[n] = "admit"
  /\ outcome' = Set(outcome, n, Skipped)
  /\ Goto(n, "record")
  /\ UNCHANGED <<job, origin, lease, historyVars, alertVars, last, lost>>

AcquireLease(n) ==
  /\ pc[n] = "admit" /\ lease[job[n]] = Nobody
  /\ lease' = [lease EXCEPT ![job[n]] = n]
  /\ Goto(n, "execute")
  /\ UNCHANGED <<runVars, historyVars, alertVars, last, lost>>

\* The lock file cannot be opened: the run fails, without the lease.
LeaseFails(n) ==
  /\ pc[n] = "admit" /\ "disk" \in Faults[n]
  /\ outcome' = Set(outcome, n, Outcome("failure"))
  /\ lost' = lost \cup {job[n]}
  /\ Goto(n, "record")
  /\ UNCHANGED <<job, origin, lease, historyVars, alertVars, last>>

\* Mutant: the lease is released before finish.
MutExecute(n) ==
  /\ pc[n] = "execute"
  /\ \E o \in Outcomes(job[n]) :
       /\ outcome' = Set(outcome, n, o)
       /\ last' = IF Notified(n) THEN Set(last, job[n], o) ELSE last
  /\ lease' = [lease EXCEPT ![job[n]] = Nobody]
  /\ Goto(n, "record")
  /\ UNCHANGED <<job, origin, historyVars, alertVars, lost>>

Execute(n) ==
  /\ pc[n] = "execute"
  /\ \E o \in Outcomes(job[n]) :
       /\ outcome' = Set(outcome, n, o)
       /\ last' = IF Notified(n) THEN Set(last, job[n], o) ELSE last
  /\ Goto(n, "record")
  /\ UNCHANGED <<job, origin, lease, historyVars, alertVars, lost>>

-----------------------------------------------------------------------------
(* finish: History.Append. *)

\* Append failed: the run ends and no alert is derived from it.
AppendFails(n) ==
  /\ "disk" \in Faults[n]
  /\ End(n)

\* Under the history's lock the record appears by a rename.
WriteRecord(n) ==
  /\ pc[n] = "record" /\ historyLock = Nobody
  /\ \/ /\ historyLock' = n
        /\ history' = history \cup {n}
        /\ appended' = appended \cup {n}
        /\ Goto(n, "prune")
        /\ UNCHANGED <<runVars, lease, alertVars, last, lost>>
     \/ AppendFails(n)

\* Mutant: pruning keeps one record too few.
MutNewest(records) == {n \in records : Cardinality({m \in records : m > n}) + 1 < HistoryMax}

\* The records pruneLocked keeps, by StartedAt.
Newest(records) == {n \in records : Cardinality({m \in records : m > n}) < HistoryMax}

\* Mutant: pruneLocked locks the history again.
MutPrune(n) ==
  /\ pc[n] = "prune" /\ historyLock = Nobody
  /\ history' = Newest(history)
  /\ Goto(n, "notify")
  /\ UNCHANGED <<runVars, lease, historyLock, appended, alertVars, last, lost>>

\* pruneLocked, which a failing removal may stop half way.
Prune(n) ==
  /\ pc[n] = "prune"
  /\ \/ /\ history' = Newest(history)
        /\ historyLock' = Nobody
        /\ Goto(n, "notify")
        /\ UNCHANGED <<runVars, lease, appended, alertVars, last, lost>>
     \/ /\ \E kept \in SUBSET history : Newest(history) \subseteq kept /\ EndWith(n, kept)
        /\ "disk" \in Faults[n]

-----------------------------------------------------------------------------
(* finish: Derive and Process. *)

\* Nothing to process: no event, or the origin is filtered.
NothingToNotify(n) ==
  /\ pc[n] = "notify"
  /\ ~Notified(n) \/ Derive(job[n], outcome[n]) = {}
  /\ Goto(n, "release")
  /\ UNCHANGED <<runVars, lease, historyVars, alertVars, last, lost>>

\* Process returned an error, which changes no result: what was loaded and
\* decided is dropped, what was delivered is not.
ProcessFails(n) ==
  /\ "disk" \in Faults[n]
  /\ End(n)

\* state.json is read under its lock.
LoadState(n) ==
  /\ pc[n] = "notify" /\ stateLock = Nobody
  /\ Notified(n) /\ Derive(job[n], outcome[n]) # {}
  /\ \/ /\ stateLock' = n
        /\ memory' = Set(memory, n, issues)
        /\ events' = Set(events, n, Derive(job[n], outcome[n]))
        /\ Goto(n, "events")
        /\ UNCHANGED <<runVars, lease, historyVars, issues, event, recipients, heard,
                       last, lost>>
     \/ ProcessFails(n)

\* What receivers are promised, whatever is delivered: of an active issue a route
\* is told again once its cooldown has elapsed, or when the severity rises.
MayRepeat(n, e) ==
  LET issue == memory[n][e.issue] IN
  [heard EXCEPT ![e.issue] = [r \in Routes |->
     IF /\ heard[e.issue][r] = "told" /\ r \in Matching(e)
        /\ \/ issue.told[r] = "due"
           \/ issue.severity # "none" /\ Rank[e.severity] > Rank[issue.severity]
     THEN "may repeat" ELSE heard[e.issue][r]]]

\* The next of the routes, if any is left.
Continue(n, e, routes) ==
  /\ recipients' = Set(recipients, n, routes)
  /\ event' = Set(event, n, IF routes = {} THEN NoEvent ELSE e)
  /\ Goto(n, IF routes = {} THEN "events" ELSE "deliver")

\* processEvent decides for every route before anything is delivered.
ProcessEvent(n) ==
  /\ pc[n] = "events" /\ events[n] # {}
  /\ \E e \in events[n] :
       /\ events' = Set(events, n, events[n] \ {e})
       /\ Continue(n, e, Recipients(memory[n], e))
       /\ memory' = Set(memory, n, Remembered(memory[n], e))
       /\ heard' = IF e.severity \in {"warning", "error"} THEN MayRepeat(n, e) ELSE heard
  /\ UNCHANGED <<runVars, lease, historyVars, stateLock, issues, last, lost>>

\* The receiver has the event.
Hears(e, r) ==
  IF e.severity \in {"warning", "error"}
  THEN [heard EXCEPT ![e.issue][r] =
          IF heard[e.issue][r] \in {"never", "may repeat"} THEN "told" ELSE "repeated"]
  ELSE heard

Remember(n, e, r) ==
  IF e.severity \in {"warning", "error"} THEN Delivered(memory[n], e.issue, r) ELSE memory[n]

\* deliverOne for the next route: the sink, then appendDelivery.
Deliver(n) ==
  /\ pc[n] = "deliver"
  /\ LET r == LeastOf(recipients[n])  e == event[n] IN
     /\ \/ /\ memory' = Set(memory, n, Remember(n, e, r))
           /\ heard' = Hears(e, r)
        \/ /\ "sink" \in Faults[n]
           /\ UNCHANGED <<memory, heard>>
     /\ Continue(n, e, recipients[n] \ {r})
  /\ UNCHANGED <<runVars, lease, historyVars, stateLock, issues, events, last, lost>>

\* appendDelivery fails, after a delivery or for one that was suppressed.
DeliveryNotRecorded(n) == pc[n] \in {"events", "deliver"} /\ ProcessFails(n)

\* The alerts of its job are known again if no other run has some unsaved.
Known(n) ==
  IF lease[job[n]] = n /\ \A m \in Runs \ {n} : job[m] = job[n] => ~Unsaved(m)
  THEN {job[n]} ELSE {}

\* What a receiver knows once the alerts of run n are saved.  Of an issue that
\* is no longer remembered it knows nothing, and what an earlier run told but
\* did not save may be told again.
HeardAfter(n, i, r) ==
  IF memory[n][i].severity = "none" THEN "never"
  ELSE IF heard[i][r] = "never" \/ i \notin IssuesOf(job[n]) \/ Known(n) \cap lost = {}
  THEN heard[i][r]
  ELSE IF memory[n][i].told[r] = "no" THEN "may repeat" ELSE "told"

\* state.json is replaced.
Save(n) ==
  /\ pc[n] = "events" /\ events[n] = {}
  /\ issues' = memory[n]
  /\ heard' = [i \in Issues |-> [r \in Routes |-> HeardAfter(n, i, r)]]
  /\ lost' = lost \ Known(n)
  /\ stateLock' = Nobody
  /\ memory' = Set(memory, n, NoIssues)
  /\ Goto(n, "release")
  /\ UNCHANGED <<runVars, lease, historyVars, events, event, recipients, last>>

\* The deferred Release of the lease, after everything else.
Release(n) == pc[n] = "release" /\ End(n)

-----------------------------------------------------------------------------
\* The cooldown of a route elapses.  A run compares with the time it finished
\* its operation at, so this does not happen while it processes its alerts.
CooldownElapses(j, i, r) ==
  /\ i \in IssuesOf(j)
  /\ Policy[r].cooldown /\ issues[i].told[r] = "recent" /\ stateLock = Nobody
  /\ \A n \in Runs : job[n] = j => outcome[n] \in {NoOutcome, Skipped}
  /\ issues' = [issues EXCEPT ![i] =
       [severity |-> issues[i].severity, told |-> [issues[i].told EXCEPT ![r] = "due"]]]
  /\ UNCHANGED <<pc, runVars, lease, historyVars, stateLock, memory, events, event, recipients,
                 heard, last, lost>>

Crash(n) ==
  /\ "crash" \in Faults[n]
  /\ pc[n] \notin {"idle", "done"}
  /\ End(n)

Process(n) ==
  \/ Skip(n) \/ AcquireLease(n) \/ Execute(n)
  \/ WriteRecord(n) \/ Prune(n)
  \/ NothingToNotify(n) \/ LoadState(n) \/ ProcessEvent(n) \/ Deliver(n) \/ Save(n)
  \/ Release(n)

Next ==
  \/ \E n \in Runs :
       StartRun(n) \/ Process(n) \/ LeaseFails(n) \/ DeliveryNotRecorded(n) \/ Crash(n)
  \/ \E j \in Jobs, i \in Issues, r \in Routes : CooldownElapses(j, i, r)

Spec == Init /\ [][Next]_vars

\* A process is scheduled while it lives.  An operation ends with its
\* context, which has a deadline, and a delivery with the client's timeout.
Fairness == \A n \in Runs : WF_vars(Process(n))

FairSpec == Spec /\ Fairness

-----------------------------------------------------------------------------
(* Properties. *)

\* A record is missing from the history only if history_max_entries newer ones
\* were written, however runs overlap, fail or die.
HistoryKeepsNewest ==
  \A n \in appended \ history : Cardinality({m \in appended : m > n}) >= HistoryMax

\* Between runs, state.json says of each issue what the last run of its job
\* observed, unless a run could not save its alerts.
AlertIsCurrent ==
  \A j \in Jobs : lease[j] = Nobody /\ j \notin lost /\ last[j] # NoOutcome =>
    \A e \in Derive(j, last[j]) : e.issue \in Issues =>
      issues[e.issue].severity = IF IsRecovery(e) THEN "none" ELSE e.severity

\* A receiver is told of an issue once, and again only when it escalates,
\* after the cooldown, or when a run could not save what it had told.
ToldOnce ==
  \A j \in Jobs \ lost : \A i \in IssuesOf(j), r \in Routes :
    heard[i][r] # "repeated"

\* A recovery goes to receivers that were told of the issue.
RecoveryWasTold ==
  \A n \in Runs : pc[n] = "deliver" /\ IsRecovery(event[n]) =>
    \A r \in recipients[n] : heard[event[n].issue][r] # "never"

\* A healthy run of a job leaves no issue of it remembered.
HealthyClears ==
  \A j \in Jobs : lease[j] = Nobody /\ j \notin lost /\ last[j].result = "success" =>
    \A i \in IssuesOf(j) : issues[i].severity = "none"

\* A run that was started ends.
RunEnds == \A n \in Runs : pc[n] = "admit" ~> pc[n] = "done"
=============================================================================
