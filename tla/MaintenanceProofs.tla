-------------------------- MODULE MaintenanceProofs --------------------------
(* Theorems about the runs of maintenance jobs: the history they leave and    *)
(* the alerts they derive and deliver, for any runs, jobs, routes and faults. *)
EXTENDS Maintenance, LeastNumber

-----------------------------------------------------------------------------
(* Outcomes and the events derived from them. *)

Alarm(e) == e.severity \in {"warning", "error"}

\* An operation that was executed never ends as "none" or "skipped".
LEMMA OutcomeResults ==
  ASSUME NEW j \in Jobs, NEW o \in Outcomes(j)
  PROVE  o.result \in {"failure", "success", "warning"}
  BY DEF Outcomes, Outcome, DoctorResult

\* The two outcomes of runs without an execution are told by their results.
LEMMA OutcomeKinds ==
  ASSUME NEW o \in AllOutcomes
  PROVE  (o.result = "none" <=> o = NoOutcome) /\ (o.result = "skipped" <=> o = Skipped)
<1>1. CASE o \in {NoOutcome, Skipped} BY <1>1 DEF NoOutcome, Skipped, Outcome
<1>2. ASSUME NEW j \in Jobs, o \in Outcomes(j) PROVE o.result \notin {"none", "skipped"}
  BY <1>2, OutcomeResults
<1>3. NoOutcome.result = "none" /\ Skipped.result = "skipped" BY DEF NoOutcome, Skipped, Outcome
<1> QED BY <1>1, <1>2, <1>3 DEF AllOutcomes

\* The fields of an event.
LEMMA EventFields ==
  ASSUME NEW type, NEW severity, NEW issue
  PROVE  LET e == Event(type, severity, issue) IN
           e.type = type /\ e.severity = severity /\ e.issue = issue
  BY DEF Event

\* The issue of an event of a job, as far as it matters: an alarm and a
\* recovery may be about any issue, news are about none that can be raised.
AboutJob(j, e) ==
  /\ e.severity \in {"info", "warning", "error", "recovery"}
  /\ \E domain, category : e.issue = <<j, domain, category>>
  /\ Alarm(e) => e.issue \in IssuesOf(j)
  /\ e.severity = "info" => e.issue \notin IssuesOf(j)

\* What a doctor's finding is reported as.
LEMMA FindingIsAboutJob ==
  ASSUME NEW j \in Jobs, Operation[j] = "doctor", NEW c \in Checks, NEW status
  PROVE  AboutJob(j, EventForFinding(j, c, status))
<1>1. PICK e : e = EventForFinding(j, c, status) OBVIOUS
<1>2. CASE status = "pass"
  <2>1. e.severity = "recovery" /\ e.issue = <<j, Check[c].domain, Check[c].pass>>
    BY <1>1, <1>2, EventFields DEF EventForFinding, IssueFingerprint
  <2> QED BY <1>1, <2>1 DEF AboutJob, Alarm
<1>3. CASE status # "pass"
  <2>1. e.severity \in {"warning", "error"} /\ e.issue = <<j, Check[c].domain, Check[c].fail>>
    BY <1>1, <1>3, EventFields DEF EventForFinding, IssueFingerprint
  <2>2. e.issue \in IssuesOf(j) BY <2>1 DEF IssuesOf, IssueFingerprint
  <2> QED BY <1>1, <2>1, <2>2 DEF AboutJob, Alarm
<1> QED BY <1>2, <1>3

\* Whatever an outcome gives rise to is about its job.
LEMMA DerivedIsAboutJob ==
  ASSUME NEW j \in Jobs, NEW o, NEW e \in Derive(j, o)
  PROVE  AboutJob(j, e) /\ (o.result = "skipped" => e.severity = "info")
<1>1. CASE o.result = "skipped"
  <2>1. e = Event("maintenance.skipped", "info", <<j, "maintenance", "skipped">>)
    BY <1>1 DEF Derive, IssueFingerprint
  <2>2. e.severity = "info" /\ e.issue = <<j, "maintenance", "skipped">> BY <2>1, EventFields
  <2>3. <<j, "maintenance", "skipped">> \notin IssuesOf(j)
    BY ChecksAssumption DEF IssuesOf, IssueFingerprint
  <2> QED BY <2>2, <2>3 DEF AboutJob, Alarm
<1>2. CASE o.result # "skipped" /\ Operation[j] = "backup"
  <2>1. e \in BackupEvents(j, o) BY <1>2 DEF Derive
  <2>2. IssuesOf(j) = {<<j, "backup", "failure">>} BY <1>2 DEF IssuesOf, IssueFingerprint
  <2>3. \/ e.severity = "info" /\ e.issue = <<j, "backup", "success">>
        \/ e.severity \in {"recovery", "error"} /\ e.issue = <<j, "backup", "failure">>
    BY <2>1, EventFields DEF BackupEvents, IssueFingerprint
  <2> QED BY <1>2, <2>2, <2>3 DEF AboutJob, Alarm
<1>3. CASE o.result # "skipped" /\ Operation[j] = "doctor"
  <2>1. e \in DoctorEvents(j, o) BY <1>3 DEF Derive
  <2>2. CASE \E c \in Checks : e = EventForFinding(j, c, o.findings[c])
    BY <1>3, <2>2, FindingIsAboutJob
  <2>3. CASE e = Event("doctor.failed", "error", <<j, "doctor", "failure">>)
    <3>1. e.severity = "error" /\ e.issue = <<j, "doctor", "failure">> BY <2>3, EventFields
    <3>2. e.issue \in IssuesOf(j) BY <1>3, <3>1 DEF IssuesOf, IssueFingerprint
    <3> QED BY <1>3, <3>1, <3>2 DEF AboutJob, Alarm
  <2> QED BY <1>3, <2>1, <2>2, <2>3 DEF DoctorEvents, IssueFingerprint
<1>4. CASE o.result # "skipped" /\ Operation[j] \notin {"backup", "doctor"}
  <2>1. e \in UpdateEvents(j, o) BY <1>4 DEF Derive
  <2>2. IssuesOf(j) = {<<j, "maintenance", "failure">>} BY <1>4 DEF IssuesOf, IssueFingerprint
  <2>3. \/ e.severity = "error" /\ e.issue = <<j, "maintenance", "failure">>
        \/ e.severity \in {"info", "recovery"} /\ e.issue = <<j, "updates", "available">>
    BY <2>1, EventFields DEF UpdateEvents, IssueFingerprint
  <2> QED BY <1>4, <2>2, <2>3 DEF AboutJob, Alarm
<1> QED BY <1>1, <1>2, <1>3, <1>4

\* Issues name their job: the issues of two jobs have nothing in common.
LEMMA IssuesNameJob ==
  ASSUME NEW j \in Jobs, NEW i \in IssuesOf(j)
  PROVE  i \in Issues /\ i = <<j, i[2], i[3]>>
  BY DEF IssuesOf, IssueFingerprint, Issues

\* So an event that is about an issue raises it or takes it back.
LEMMA DerivedIssue ==
  ASSUME NEW j \in Jobs, NEW o, NEW e \in Derive(j, o)
  PROVE  /\ e.severity \in {"info", "warning", "error", "recovery"}
         /\ Alarm(e) => e.issue \in IssuesOf(j) /\ e.issue \in Issues
         /\ e.issue \in Issues => e.issue \in IssuesOf(j) /\ (Alarm(e) \/ IsRecovery(e))
         /\ o.result = "skipped" => e.issue \notin Issues /\ ~Alarm(e) /\ ~IsRecovery(e)
<1>1. AboutJob(j, e) /\ (o.result = "skipped" => e.severity = "info") BY DerivedIsAboutJob
<1>2. ASSUME e.issue \in Issues PROVE e.issue \in IssuesOf(j)
  <2>1. PICK k \in Jobs : e.issue \in IssuesOf(k) BY <1>2 DEF Issues
  <2>2. e.issue = <<k, e.issue[2], e.issue[3]>> BY <2>1, IssuesNameJob
  <2>3. PICK domain, category : e.issue = <<j, domain, category>> BY <1>1 DEF AboutJob
  <2>4. k = j BY <2>2, <2>3
  <2> QED BY <2>1, <2>4
<1> QED BY <1>1, <1>2, IssuesNameJob DEF AboutJob, Alarm, IsRecovery

-----------------------------------------------------------------------------
(* Types. *)

\* Whatever is derived for a run is an event.
LEMMA DerivedIsEvent ==
  ASSUME NEW j \in Jobs, NEW o \in AllOutcomes \ {NoOutcome}
  PROVE  Derive(j, o) \subseteq Events
  BY DEF Events

\* A state of the issues stays one through an event and its deliveries.
LEMMA StateTypes ==
  ASSUME NEW state \in [Issues -> IssueStates], NEW e,
         e.severity \in {"info", "warning", "error", "recovery"}
  PROVE  /\ Remembered(state, e) \in [Issues -> IssueStates]
         /\ NoIssues \in [Issues -> IssueStates]
         /\ \A i, r : Delivered(state, i, r) \in [Issues -> IssueStates]
<1>1. NoIssue \in IssueStates BY DEF NoIssue, IssueStates
<1>2. Remembered(state, e) \in [Issues -> IssueStates]
  <2>1. ASSUME NEW i \in Issues, NEW s \in {"warning", "error"}
        PROVE  [severity |-> s, told |-> state[i].told] \in IssueStates
    BY DEF IssueStates
  <2> QED BY <1>1, <2>1 DEF Remembered, IsRecovery
<1>3. ASSUME NEW i, NEW r PROVE Delivered(state, i, r) \in [Issues -> IssueStates]
  <2>1. ASSUME NEW k \in Issues
        PROVE  [severity |-> state[k].severity, told |-> [state[k].told EXCEPT ![r] = "recent"]]
                 \in IssueStates
    BY DEF IssueStates
  <2> QED BY <2>1 DEF Delivered
<1> QED BY <1>1, <1>2, <1>3 DEF NoIssues

\* The severities of the events there are.
LEMMA EventSeverity ==
  ASSUME NEW e \in Events PROVE e.severity \in {"info", "warning", "error", "recovery"}
<1>1. CASE e = NoEvent BY <1>1, EventFields DEF NoEvent
<1>2. ASSUME NEW j \in Jobs, NEW o, e \in Derive(j, o)
      PROVE  e.severity \in {"info", "warning", "error", "recovery"}
  BY <1>2, DerivedIssue
<1>3. e = NoEvent \/ \E d \in {Derive(j, o) : j \in Jobs, o \in AllOutcomes \ {NoOutcome}} : e \in d
  BY DEF Events
<1> QED BY <1>1, <1>2, <1>3

\* The words for what receivers know.
Knowledge == {"never", "told", "may repeat", "repeated"}

\* Where a run stands, which lease and which lock are its own.
RunOK(n) ==
  /\ pc[n] \in {"idle", "done"} <=> job[n] = NoJob
  /\ pc[n] \in {"idle", "done", "admit", "execute"} <=> outcome[n] = NoOutcome
  /\ pc[n] \in {"events", "deliver"} <=> stateLock = n
  /\ pc[n] \in {"events", "deliver"} => Notified(n)
  /\ pc[n] = "execute" => lease[job[n]] = n
  /\ \A j \in Jobs : lease[j] = n => job[n] = j /\ pc[n] # "admit" /\ outcome[n] # Skipped

RunInv == \A n \in Runs : RunOK(n)

\* A process that is over leaves what it held, and what it knew is gone.
Over(n) == \E records : EndWith(n, records) /\ Newest(history) \subseteq records /\ records \subseteq history

\* The ends of a run, however it ends.
LEMMA EndIsOver ==
  ASSUME TypeOK, NEW n \in Runs, End(n) PROVE Over(n)
<1>1. Newest(history) \subseteq history BY DEF Newest
<1> QED BY <1>1 DEF Over, End

\* The record of a run is in the history.
Recorded(n) ==
  /\ pc[n] = "record"
  /\ historyLock' = n
  /\ history' = history \cup {n} /\ appended' = appended \cup {n}
  /\ Goto(n, "prune")
  /\ UNCHANGED <<runVars, lease, alertVars, last, lost>>

\* The history has been pruned.
Pruned(n) ==
  /\ pc[n] = "prune"
  /\ history' = Newest(history) /\ historyLock' = Nobody
  /\ Goto(n, "notify")
  /\ UNCHANGED <<runVars, lease, appended, alertVars, last, lost>>

\* The state has been loaded.
Loaded(n) ==
  /\ pc[n] = "notify" /\ stateLock = Nobody
  /\ Notified(n) /\ Derive(job[n], outcome[n]) # {}
  /\ stateLock' = n
  /\ memory' = Set(memory, n, issues)
  /\ events' = Set(events, n, Derive(job[n], outcome[n]))
  /\ Goto(n, "events")
  /\ UNCHANGED <<runVars, lease, historyVars, issues, event, recipients, heard, last, lost>>

\* The steps of one run that do not end it.
Advances(n) ==
  \/ StartRun(n) \/ Skip(n) \/ AcquireLease(n) \/ LeaseFails(n) \/ Execute(n)
  \/ Recorded(n) \/ Pruned(n)
  \/ NothingToNotify(n) \/ Loaded(n) \/ ProcessEvent(n) \/ Deliver(n) \/ Save(n)

\* Each step advances a run or ends one, unless a cooldown elapses.
LEMMA Steps ==
  ASSUME TypeOK, [Next]_vars
  PROVE  \/ \E n \in Runs : Advances(n)
         \/ \E n \in Runs : Over(n) /\ pc[n] \notin {"idle", "done"}
         \/ \E j \in Jobs, i \in Issues, r \in Routes : CooldownElapses(j, i, r)
         \/ UNCHANGED vars
<1>1. ASSUME NEW n \in Runs, WriteRecord(n)
      PROVE  Recorded(n) \/ (Over(n) /\ pc[n] = "record")
  BY <1>1, EndIsOver DEF WriteRecord, Recorded, AppendFails
<1>2. ASSUME NEW n \in Runs, Prune(n) PROVE Pruned(n) \/ (Over(n) /\ pc[n] = "prune")
  BY <1>2 DEF Prune, Pruned, Over
<1>3. ASSUME NEW n \in Runs, LoadState(n) PROVE Loaded(n) \/ (Over(n) /\ pc[n] = "notify")
  BY <1>3, EndIsOver DEF LoadState, Loaded, ProcessFails
<1>4. ASSUME NEW n \in Runs, Release(n) \/ DeliveryNotRecorded(n) \/ Crash(n)
      PROVE  Over(n) /\ pc[n] \notin {"idle", "done"}
  BY <1>4, EndIsOver DEF Release, DeliveryNotRecorded, ProcessFails, Crash
<1>5. ASSUME NEW n \in Runs, Process(n)
      PROVE  Advances(n) \/ (Over(n) /\ pc[n] \notin {"idle", "done"})
  BY <1>1, <1>2, <1>3, <1>4, <1>5 DEF Process, Advances
<1> QED BY <1>4, <1>5 DEF Next, Advances

\* The initial state is typed, and no run has begun.
LEMMA InitTypes == Init => TypeOK /\ RunInv
<1> SUFFICES ASSUME Init PROVE TypeOK /\ RunInv OBVIOUS
<1>1. NoIssues \in [Issues -> IssueStates] BY DEF NoIssues, NoIssue, IssueStates
<1>2. NoEvent \in Events BY DEF Events
<1>3. NoOutcome \in AllOutcomes BY DEF AllOutcomes
<1>4. TypeOK BY <1>1, <1>2, <1>3 DEF Init, TypeOK, PCs
<1>5. RunInv BY RunsAssumption DEF Init, RunInv, RunOK
<1> QED BY <1>4, <1>5

\* The end of a run frees its own and forgets it.
LEMMA OverTypes ==
  ASSUME TypeOK, RunInv, NEW n \in Runs, Over(n)
  PROVE  TypeOK' /\ RunInv'
<1> USE RunsAssumption
<1>1. PICK records : EndWith(n, records) /\ records \subseteq history BY DEF Over
<1>2. NoIssues \in [Issues -> IssueStates] BY DEF NoIssues, NoIssue, IssueStates
<1>3. NoEvent \in Events BY DEF Events
<1>4. NoOutcome \in AllOutcomes BY DEF AllOutcomes
<1>5. TypeOK'
  <2>1. /\ pc' \in [Runs -> PCs] /\ job' \in [Runs -> Jobs \cup {NoJob}]
        /\ origin' \in [Runs -> {"manual", "scheduled"}] /\ outcome' \in [Runs -> AllOutcomes]
    BY <1>1, <1>4 DEF TypeOK, EndWith, Goto, Set, PCs
  <2>2. /\ lease' \in [Jobs -> Runs \cup {Nobody}] /\ historyLock' \in Runs \cup {Nobody}
        /\ stateLock' \in Runs \cup {Nobody}
    BY <1>1 DEF TypeOK, EndWith
  <2>3. history' \subseteq appended' /\ appended' \subseteq Runs /\ issues' = issues /\ heard' = heard
        /\ last' = last
    BY <1>1 DEF TypeOK, EndWith
  <2>4. memory' \in [Runs -> [Issues -> IssueStates]] BY <1>1, <1>2 DEF TypeOK, EndWith, Set
  <2>5. /\ events' \in [Runs -> SUBSET Events] /\ event' \in [Runs -> Events]
        /\ recipients' \in [Runs -> SUBSET Routes]
    BY <1>1, <1>3 DEF TypeOK, EndWith, Set
  <2>6. lost' \subseteq Jobs
    <3>1. outcome[n] = NoOutcome => ~Unsaved(n) BY <1>4, OutcomeKinds DEF Unsaved
    <3>2. RunOK(n) BY DEF RunInv
    <3>3. Unsaved(n) => job[n] # NoJob BY <3>1, <3>2 DEF RunOK
    <3>4. job[n] \in Jobs \cup {NoJob} BY DEF TypeOK
    <3> QED BY <1>1, <3>3, <3>4 DEF TypeOK, EndWith
  <2> QED BY <2>1, <2>2, <2>3, <2>4, <2>5, <2>6 DEF TypeOK
<1>6. ASSUME NEW m \in Runs PROVE RunOK(m)'
  <2>1. RunOK(m) BY DEF RunInv
  <2>2. /\ pc'[m] = IF m = n THEN "done" ELSE pc[m]
        /\ job'[m] = IF m = n THEN NoJob ELSE job[m]
        /\ origin'[m] = IF m = n THEN "manual" ELSE origin[m]
        /\ outcome'[m] = IF m = n THEN NoOutcome ELSE outcome[m]
    BY <1>1 DEF TypeOK, EndWith, Goto, Set
  <2>3. \A j \in Jobs : lease'[j] = IF lease[j] = n THEN Nobody ELSE lease[j] BY <1>1 DEF EndWith
  <2>4. stateLock' = IF stateLock = n THEN Nobody ELSE stateLock BY <1>1 DEF EndWith
  <2>5. CASE m = n BY <2>1, <2>2, <2>3, <2>4, <2>5 DEF RunOK
  <2>6. CASE m # n
    <3>1. pc[m] = "execute" => job[m] \in Jobs BY <2>1 DEF RunOK, TypeOK
    <3> QED BY <2>1, <2>2, <2>3, <2>4, <2>6, <3>1 DEF RunOK, Notified
  <2> QED BY <2>5, <2>6
<1> QED BY <1>5, <1>6 DEF RunInv

\* A run that is at work has a job.
LEMMA HasJob ==
  ASSUME TypeOK, RunInv, NEW n \in Runs, pc[n] \notin {"idle", "done"}
  PROVE  job[n] \in Jobs
<1>1. RunOK(n) BY DEF RunInv
<1>2. job[n] \in Jobs \cup {NoJob} BY DEF TypeOK
<1> QED BY <1>1, <1>2 DEF RunOK

\* The types survive a run's steps.
LEMMA AdvanceTypes == ASSUME TypeOK, RunInv, NEW n \in Runs, Advances(n) PROVE TypeOK'
<1> USE RunsAssumption
<1>k. \A m \in Runs : issues \in [Issues -> IssueStates] /\ memory[m] \in [Issues -> IssueStates]
  BY DEF TypeOK
<1>1. CASE StartRun(n)
  <2>1. ASSUME NEW invocation \in Invocations[n]
        PROVE  invocation[1] \in Jobs /\ invocation[2] \in {"manual", "scheduled"}
    OBVIOUS
  <2> QED BY <1>1, <2>1 DEF StartRun, TypeOK, Goto, Set, PCs, historyVars, alertVars
<1>2. CASE Skip(n)
  BY <1>2 DEF Skip, TypeOK, Goto, Set, PCs, historyVars, alertVars, AllOutcomes
<1>3. CASE AcquireLease(n)
  BY <1>3 DEF AcquireLease, TypeOK, Goto, Set, PCs, runVars, historyVars, alertVars
<1>4. CASE LeaseFails(n)
  <2>1. job[n] \in Jobs BY <1>4, HasJob DEF LeaseFails
  <2>2. Outcome("failure") \in Outcomes(job[n]) BY DEF Outcomes
  <2>3. Outcome("failure") \in AllOutcomes BY <2>1, <2>2 DEF AllOutcomes
  <2> QED BY <1>4, <2>1, <2>3 DEF LeaseFails, TypeOK, Goto, Set, PCs, historyVars, alertVars
<1>5. CASE Execute(n)
  <2>1. job[n] \in Jobs BY <1>5, HasJob DEF Execute
  <2>2. Outcomes(job[n]) \subseteq AllOutcomes BY <2>1 DEF AllOutcomes
  <2> QED BY <1>5, <2>1, <2>2 DEF Execute, TypeOK, Goto, Set, PCs, historyVars, alertVars
<1>6. CASE Recorded(n) BY <1>6 DEF Recorded, TypeOK, Goto, PCs, runVars, alertVars
<1>7. CASE Pruned(n) BY <1>7 DEF Pruned, TypeOK, Newest, Goto, PCs, runVars, alertVars
<1>8. CASE NothingToNotify(n)
  BY <1>8 DEF NothingToNotify, TypeOK, Goto, PCs, runVars, historyVars, alertVars
<1>9. CASE Loaded(n)
  <2>1. Derive(job[n], outcome[n]) \subseteq Events
    BY <1>9, HasJob, DerivedIsEvent DEF Loaded, RunInv, RunOK, TypeOK
  <2> QED BY <1>9, <2>1 DEF Loaded, TypeOK, Goto, Set, PCs, runVars, historyVars
<1>10. CASE ProcessEvent(n)
  <2>1. PICK e \in events[n] :
          /\ events' = Set(events, n, events[n] \ {e})
          /\ Continue(n, e, Recipients(memory[n], e))
          /\ memory' = Set(memory, n, Remembered(memory[n], e))
          /\ heard' = IF e.severity \in {"warning", "error"} THEN MayRepeat(n, e) ELSE heard
    BY <1>10 DEF ProcessEvent
  <2>n. NoEvent \in Events BY DEF Events
  <2>2. e \in Events /\ NoEvent \in Events BY <2>n DEF TypeOK
  <2>3. Remembered(memory[n], e) \in [Issues -> IssueStates]
    BY <1>k, <2>2, EventSeverity, StateTypes
  <2>4. Recipients(memory[n], e) \subseteq Routes BY DEF Recipients, Matching
  <2>5. /\ events' \in [Runs -> SUBSET Events] /\ memory' \in [Runs -> [Issues -> IssueStates]]
    BY <2>1, <2>2, <2>3 DEF TypeOK, Set
  <2>6. /\ pc' \in [Runs -> PCs] /\ event' \in [Runs -> Events] /\ recipients' \in [Runs -> SUBSET Routes]
    BY <2>1, <2>2, <2>4 DEF TypeOK, Continue, Set, Goto, PCs
  <2>7. heard' \in [Issues -> [Routes -> Knowledge]]
    <3>1. heard \in [Issues -> [Routes -> Knowledge]] BY DEF TypeOK, Knowledge
    <3> QED BY <2>1, <3>1 DEF MayRepeat, Knowledge
  <2>8. UNCHANGED <<runVars, lease, historyVars, stateLock, issues, last, lost>> BY <1>10 DEF ProcessEvent
  <2> QED BY <2>5, <2>6, <2>7, <2>8 DEF TypeOK, Knowledge, runVars, historyVars
<1>11. CASE Deliver(n)
  <2>1. PICK r : r = LeastOf(recipients[n]) OBVIOUS
  <2>2. /\ \/ memory' = Set(memory, n, Remember(n, event[n], r)) /\ heard' = Hears(event[n], r)
           \/ UNCHANGED <<memory, heard>>
        /\ Continue(n, event[n], recipients[n] \ {r})
        /\ UNCHANGED <<runVars, lease, historyVars, stateLock, issues, events, last, lost>>
    BY <1>11, <2>1 DEF Deliver
  <2>n. NoEvent \in Events BY DEF Events
  <2>3. event[n] \in Events /\ NoEvent \in Events BY <2>n DEF TypeOK
  <2>4. Remember(n, event[n], r) \in [Issues -> IssueStates]
    BY <1>k, <2>3, EventSeverity, StateTypes DEF Remember
  <2>5. memory' \in [Runs -> [Issues -> IssueStates]] BY <2>2, <2>4 DEF TypeOK, Set
  <2>6. /\ pc' \in [Runs -> PCs] /\ event' \in [Runs -> Events] /\ recipients' \in [Runs -> SUBSET Routes]
    BY <2>2, <2>3 DEF TypeOK, Continue, Set, Goto, PCs
  <2>7. heard' \in [Issues -> [Routes -> Knowledge]]
    <3>1. heard \in [Issues -> [Routes -> Knowledge]] BY DEF TypeOK, Knowledge
    <3>2. Hears(event[n], r) \in [Issues -> [Routes -> Knowledge]] BY <3>1 DEF Hears, Knowledge
    <3> QED BY <2>2, <3>1, <3>2
  <2> QED BY <2>2, <2>5, <2>6, <2>7 DEF TypeOK, Knowledge, runVars, historyVars
<1>12. CASE Save(n)
  <2>1. NoIssues \in [Issues -> IssueStates] BY DEF NoIssues, NoIssue, IssueStates
  <2>2. heard' \in [Issues -> [Routes -> Knowledge]]
    <3>1. ASSUME NEW i \in Issues, NEW r \in Routes PROVE HeardAfter(n, i, r) \in Knowledge
      <4>1. heard \in [Issues -> [Routes -> Knowledge]] BY DEF TypeOK, Knowledge
      <4> QED BY <4>1 DEF HeardAfter, Knowledge
    <3>2. heard' = [i \in Issues |-> [r \in Routes |-> HeardAfter(n, i, r)]] BY <1>12 DEF Save
    <3> QED BY <3>1, <3>2
  <2>3. /\ pc' \in [Runs -> PCs] /\ issues' \in [Issues -> IssueStates]
        /\ memory' \in [Runs -> [Issues -> IssueStates]] /\ lost' \subseteq Jobs
    BY <1>12, <1>k, <2>1 DEF Save, TypeOK, Set, Goto, PCs
  <2> QED BY <1>12, <2>2, <2>3 DEF Save, TypeOK, Knowledge, runVars, historyVars
<1> QED BY <1>1, <1>2, <1>3, <1>4, <1>5, <1>6, <1>7, <1>8, <1>9, <1>10, <1>11, <1>12 DEF Advances

-----------------------------------------------------------------------------
(* What a step of one run leaves of another. *)

Kept(m) ==
  /\ pc'[m] = pc[m] /\ job'[m] = job[m] /\ origin'[m] = origin[m] /\ outcome'[m] = outcome[m]
  /\ memory'[m] = memory[m] /\ events'[m] = events[m] /\ event'[m] = event[m]
  /\ recipients'[m] = recipients[m]
  /\ \A j \in Jobs : lease'[j] = m <=> lease[j] = m
  /\ stateLock' = m <=> stateLock = m

\* A step changes the record of its own run only.
LEMMA OthersAreKept ==
  ASSUME TypeOK, RunInv, NEW n \in Runs, Advances(n) \/ Over(n), NEW m \in Runs \ {n}
  PROVE  Kept(m)
<1> USE RunsAssumption
<1>r. RunOK(n) BY DEF RunInv
<1>1. ASSUME UNCHANGED <<memory, events, event, recipients, stateLock, lease>>,
             \E label : Goto(n, label), UNCHANGED <<job, origin>>,
             (UNCHANGED outcome) \/ \E o : outcome' = Set(outcome, n, o)
      PROVE  Kept(m)
  BY <1>1 DEF Kept, TypeOK, Goto, Set
<1>2. CASE StartRun(n) BY <1>2 DEF StartRun, Kept, TypeOK, Goto, Set, alertVars
<1>3. CASE Skip(n) BY <1>1, <1>3 DEF Skip, alertVars
<1>4. CASE AcquireLease(n)
  <2>1. \A j \in Jobs : lease'[j] = m <=> lease[j] = m
    BY <1>4, HasJob DEF AcquireLease, TypeOK
  <2> QED BY <1>4, <2>1 DEF AcquireLease, Kept, TypeOK, Goto, runVars, alertVars
<1>5. CASE LeaseFails(n) BY <1>1, <1>5 DEF LeaseFails, alertVars
<1>6. CASE Execute(n) BY <1>1, <1>6 DEF Execute, alertVars
<1>7. CASE Recorded(n) \/ Pruned(n)
  <2>1. \E label : Goto(n, label) BY <1>7 DEF Recorded, Pruned
  <2> QED BY <1>1, <1>7, <2>1 DEF Recorded, Pruned, runVars, alertVars
<1>8. CASE NothingToNotify(n) BY <1>1, <1>8 DEF NothingToNotify, runVars, alertVars
<1>9. CASE Loaded(n) BY <1>9 DEF Loaded, Kept, TypeOK, Goto, Set, runVars
<1>10. CASE ProcessEvent(n)
  <2>1. PICK e \in events[n] :
          /\ events' = Set(events, n, events[n] \ {e})
          /\ Continue(n, e, Recipients(memory[n], e))
          /\ memory' = Set(memory, n, Remembered(memory[n], e))
    BY <1>10 DEF ProcessEvent
  <2> QED BY <1>10, <2>1 DEF ProcessEvent, Continue, Kept, TypeOK, Goto, Set, runVars
<1>11. CASE Deliver(n)
  <2>1. /\ UNCHANGED memory \/ \E state : memory' = Set(memory, n, state)
        /\ \E routes : Continue(n, event[n], routes)
        /\ UNCHANGED <<runVars, lease, stateLock, events>>
    BY <1>11 DEF Deliver
  <2> QED BY <2>1 DEF Continue, Kept, TypeOK, Goto, Set, runVars
<1>12. CASE Save(n)
  <2>1. stateLock = n BY <1>12, <1>r DEF Save, RunOK
  <2> QED BY <1>12, <2>1 DEF Save, Kept, TypeOK, Goto, Set, runVars
<1>13. CASE Over(n)
  <2>1. PICK records : EndWith(n, records) BY <1>13 DEF Over
  <2>2. /\ pc'[m] = pc[m] /\ job'[m] = job[m] /\ origin'[m] = origin[m] /\ outcome'[m] = outcome[m]
        /\ memory'[m] = memory[m] /\ events'[m] = events[m] /\ event'[m] = event[m]
        /\ recipients'[m] = recipients[m]
    BY <2>1 DEF EndWith, TypeOK, Goto, Set
  <2>3. /\ \A j \in Jobs : lease'[j] = m <=> lease[j] = m
        /\ stateLock' = m <=> stateLock = m
    BY <2>1 DEF EndWith
  <2> QED BY <2>2, <2>3 DEF Kept
<1> QED BY <1>2, <1>3, <1>4, <1>5, <1>6, <1>7, <1>8, <1>9, <1>10, <1>11, <1>12, <1>13 DEF Advances

\* So what a run knows of its own position stays true.
LEMMA KeptIsOK ==
  ASSUME TypeOK, RunInv, NEW m \in Runs, Kept(m) PROVE RunOK(m)'
<1>1. RunOK(m) BY DEF RunInv
<1>2. pc[m] = "execute" => job[m] \in Jobs BY HasJob
<1> QED BY <1>1, <1>2 DEF RunOK, Kept, Notified

\* The run that takes the step stands where it should.
LEMMA AdvanceRuns == ASSUME TypeOK, RunInv, NEW n \in Runs, Advances(n) PROVE RunInv'
<1>a. NoJob \notin Jobs /\ Nobody \notin Runs BY RunsAssumption
<1> SUFFICES RunOK(n)'
  <2>1. \A m \in Runs \ {n} : RunOK(m)' BY OthersAreKept, KeptIsOK
  <2> QED BY <2>1 DEF RunInv
<1>r. RunOK(n) BY DEF RunInv
<1>t. /\ pc \in [Runs -> PCs] /\ job \in [Runs -> Jobs \cup {NoJob}]
      /\ origin \in [Runs -> {"manual", "scheduled"}] /\ outcome \in [Runs -> AllOutcomes]
      /\ lease \in [Jobs -> Runs \cup {Nobody}]
  BY DEF TypeOK
<1>j. pc[n] \notin {"idle", "done"} => job[n] \in Jobs BY HasJob
<1>o. Skipped # NoOutcome /\ \A o \in Outcomes(job[n]) : pc[n] \notin {"idle", "done"} => o \notin {Skipped, NoOutcome}
  <2>1. Skipped.result = "skipped" /\ NoOutcome.result = "none" BY DEF Skipped, NoOutcome, Outcome
  <2> QED BY <1>j, <2>1, OutcomeResults
\* Only the label changes, from one with an outcome to another.
<1>g. ASSUME NEW from \in PCs, NEW to \in PCs, pc[n] = from, Goto(n, to),
             UNCHANGED <<runVars, lease>>,
             {from, to} \cap {"idle", "done", "admit", "execute"} = {},
             (to \in {"events", "deliver"}) <=> (stateLock' = n),
             to \in {"events", "deliver"} => Notified(n)
      PROVE  RunOK(n)'
  <2>1. pc'[n] = to BY <1>g, <1>t DEF Goto
  <2> QED BY <1>r, <1>a, <1>g, <2>1 DEF RunOK, Notified, runVars
<1>2. CASE StartRun(n)
  <2>1. PICK invocation \in Invocations[n] :
          job' = Set(job, n, invocation[1]) /\ origin' = Set(origin, n, invocation[2])
    BY <1>2 DEF StartRun
  <2>2. invocation[1] \in Jobs BY RunsAssumption
  <2>3. pc[n] = "idle" /\ pc'[n] = "admit" /\ job'[n] \in Jobs /\ job[n] = NoJob
    BY <1>2, <1>r, <1>t, <2>1, <2>2 DEF StartRun, Goto, Set, RunOK
  <2>4. UNCHANGED <<outcome, lease, stateLock>> BY <1>2 DEF StartRun, alertVars
  <2> QED BY <1>r, <1>a, <2>3, <2>4 DEF RunOK
<1>3. CASE Skip(n)
  <2>1. pc[n] = "admit" /\ pc'[n] = "record" /\ outcome'[n] = Skipped
        /\ UNCHANGED <<job, origin, lease, stateLock>>
    BY <1>3, <1>t DEF Skip, Goto, Set, alertVars
  <2> QED BY <1>r, <1>a, <1>o, <2>1 DEF RunOK, Notified
<1>4. CASE AcquireLease(n)
  <2>1. pc[n] = "admit" /\ pc'[n] = "execute" /\ UNCHANGED <<job, origin, outcome, stateLock>>
        /\ \A j \in Jobs : lease'[j] = IF j = job[n] THEN n ELSE lease[j]
    BY <1>4, <1>t DEF AcquireLease, Goto, runVars, alertVars
  <2> QED BY <1>r, <1>a, <1>o, <1>j, <2>1 DEF RunOK, Notified
<1>5. CASE LeaseFails(n)
  <2>1. pc[n] = "admit" /\ pc'[n] = "record" /\ outcome'[n] = Outcome("failure")
        /\ UNCHANGED <<job, origin, lease, stateLock>>
    BY <1>5, <1>t DEF LeaseFails, Goto, Set, alertVars
  <2>2. Outcome("failure") \in Outcomes(job[n]) BY DEF Outcomes
  <2> QED BY <1>r, <1>a, <1>o, <2>1, <2>2 DEF RunOK, Notified
<1>6. CASE Execute(n)
  <2>1. pc[n] = "execute" /\ pc'[n] = "record" /\ outcome'[n] \in Outcomes(job[n])
        /\ UNCHANGED <<job, origin, lease, stateLock>>
    BY <1>6, <1>t DEF Execute, Goto, Set, alertVars
  <2> QED BY <1>r, <1>a, <1>o, <2>1 DEF RunOK, Notified
<1>7. CASE Recorded(n)
  BY <1>7, <1>g, <1>r, <1>a DEF Recorded, alertVars, RunOK, PCs
<1>8. CASE Pruned(n)
  BY <1>8, <1>g, <1>r, <1>a DEF Pruned, alertVars, RunOK, PCs
<1>9. CASE NothingToNotify(n)
  BY <1>9, <1>g, <1>r, <1>a DEF NothingToNotify, alertVars, RunOK, PCs
<1>10. CASE Loaded(n)
  BY <1>10, <1>g DEF Loaded, PCs
<1>11. CASE ProcessEvent(n) \/ Deliver(n)
  <2>1. pc[n] \in {"events", "deliver"} /\ UNCHANGED <<runVars, lease, stateLock>>
        /\ \E to \in {"events", "deliver"} : Goto(n, to)
    BY <1>11 DEF ProcessEvent, Deliver, Continue
  <2>2. stateLock = n /\ Notified(n) BY <1>r, <1>a, <2>1 DEF RunOK
  <2> QED BY <1>g, <2>1, <2>2 DEF PCs
<1>12. CASE Save(n)
  BY <1>12, <1>g, <1>a DEF Save, PCs
<1> QED BY <1>2, <1>3, <1>4, <1>5, <1>6, <1>7, <1>8, <1>9, <1>10, <1>11, <1>12 DEF Advances

\* A cooldown that elapses changes a delivery only.
LEMMA CooldownTypes ==
  ASSUME TypeOK, RunInv, \E j \in Jobs, i \in Issues, r \in Routes : CooldownElapses(j, i, r)
  PROVE  TypeOK' /\ RunInv'
<1>1. PICK i \in Issues, r \in Routes :
        issues' = [issues EXCEPT ![i] =
          [severity |-> issues[i].severity, told |-> [issues[i].told EXCEPT ![r] = "due"]]]
  BY DEF CooldownElapses
<1>2. UNCHANGED <<pc, runVars, lease, historyVars, stateLock, memory, events, event, recipients,
                  heard, last, lost>>
  BY DEF CooldownElapses
<1>3. issues' \in [Issues -> IssueStates]
  <2>1. [severity |-> issues[i].severity, told |-> [issues[i].told EXCEPT ![r] = "due"]] \in IssueStates
    BY DEF TypeOK, IssueStates
  <2> QED BY <1>1, <2>1 DEF TypeOK
<1>4. TypeOK' BY <1>2, <1>3 DEF TypeOK, runVars, historyVars
<1>5. RunInv' BY <1>2 DEF RunInv, RunOK, Notified, runVars
<1> QED BY <1>4, <1>5

\* Types and positions are kept by every step.
LEMMA TypesStep == TypeOK /\ RunInv /\ [Next]_vars => TypeOK' /\ RunInv'
<1> SUFFICES ASSUME TypeOK, RunInv, [Next]_vars PROVE TypeOK' /\ RunInv' OBVIOUS
<1>1. CASE UNCHANGED vars
  <2>1. TypeOK' BY <1>1 DEF TypeOK, vars, runVars, historyVars, alertVars
  <2>2. RunInv' BY <1>1 DEF RunInv, RunOK, Notified, vars, runVars, alertVars
  <2> QED BY <2>1, <2>2
<1> QED BY <1>1, Steps, AdvanceTypes, AdvanceRuns, OverTypes, CooldownTypes

-----------------------------------------------------------------------------
(* The history. *)

Newer(records, n) == {m \in records : m > n}

HistoryInv == IsFiniteSet(appended) /\ HistoryKeepsNewest

\* The more records there are, the more of them are newer than a given one.
LEMMA NewerGrows ==
  ASSUME NEW T, IsFiniteSet(T), NEW S \in SUBSET T, NEW n
  PROVE  /\ Cardinality(Newer(S, n)) \in Nat /\ Cardinality(Newer(T, n)) \in Nat
         /\ Cardinality(Newer(S, n)) <= Cardinality(Newer(T, n))
<1>1. Newer(S, n) \subseteq Newer(T, n) /\ Newer(T, n) \subseteq T BY DEF Newer
<1>2. IsFiniteSet(Newer(T, n)) BY <1>1, FS_Subset
<1>3. IsFiniteSet(Newer(S, n)) /\ Cardinality(Newer(S, n)) <= Cardinality(Newer(T, n))
  BY <1>1, <1>2, FS_Subset
<1> QED BY <1>2, <1>3, FS_CardinalityType

\* Pruning, complete or not, removes only what enough newer records outlive.
LEMMA PruningKeepsNewest ==
  ASSUME TypeOK, HistoryInv, UNCHANGED appended, Newest(history) \subseteq history'
  PROVE  HistoryInv'
<1>1. ASSUME NEW n \in appended \ history'
      PROVE  Cardinality(Newer(appended, n)) >= HistoryMax
  <2>1. CASE n \notin history BY <1>1, <2>1 DEF HistoryInv, HistoryKeepsNewest, Newer
  <2>2. CASE n \in history
    <3>1. ~(Cardinality(Newer(history, n)) < HistoryMax) BY <1>1, <2>2 DEF Newest, Newer
    <3>2. history \in SUBSET appended /\ IsFiniteSet(appended) BY DEF TypeOK, HistoryInv
    <3>3. /\ Cardinality(Newer(history, n)) \in Nat /\ Cardinality(Newer(appended, n)) \in Nat
          /\ Cardinality(Newer(history, n)) <= Cardinality(Newer(appended, n))
      BY <3>2, NewerGrows
    <3> QED BY <3>1, <3>3, PolicyAssumption
  <2> QED BY <2>1, <2>2
<1> QED BY <1>1 DEF HistoryInv, HistoryKeepsNewest, Newer

\* Every step keeps the newest records.
LEMMA HistoryStep == TypeOK /\ RunInv /\ HistoryInv /\ [Next]_vars => HistoryInv'
<1> SUFFICES ASSUME TypeOK, RunInv, HistoryInv, [Next]_vars PROVE HistoryInv' OBVIOUS
<1>n. Newest(history) \subseteq history BY DEF Newest
<1>1. ASSUME UNCHANGED <<history, appended>> PROVE HistoryInv'
  BY <1>1 DEF HistoryInv, HistoryKeepsNewest
<1>2. ASSUME NEW n \in Runs, Advances(n) PROVE HistoryInv'
  <2>1. CASE Recorded(n)
    <3>1. history' = history \cup {n} /\ appended' = appended \cup {n} BY <2>1 DEF Recorded
    <3>2. IsFiniteSet(appended') BY <3>1, FS_AddElement DEF HistoryInv
    <3>3. ASSUME NEW m \in appended' \ history' PROVE Cardinality(Newer(appended', m)) >= HistoryMax
      <4>1. Cardinality(Newer(appended, m)) >= HistoryMax
        BY <3>1, <3>3 DEF HistoryInv, HistoryKeepsNewest, Newer
      <4>2. /\ Cardinality(Newer(appended, m)) \in Nat /\ Cardinality(Newer(appended', m)) \in Nat
            /\ Cardinality(Newer(appended, m)) <= Cardinality(Newer(appended', m))
        BY <3>1, <3>2, NewerGrows
      <4> QED BY <4>1, <4>2, PolicyAssumption
    <3> QED BY <3>2, <3>3 DEF HistoryInv, HistoryKeepsNewest, Newer
  <2>2. CASE Pruned(n) BY <2>2, PruningKeepsNewest DEF Pruned
  <2>3. CASE ~Recorded(n) /\ ~Pruned(n)
    <3>1. UNCHANGED <<history, appended>>
      BY <1>2, <2>3 DEF Advances, StartRun, Skip, AcquireLease, LeaseFails, Execute, NothingToNotify,
                        Loaded, ProcessEvent, Deliver, Save, historyVars
    <3> QED BY <1>1, <3>1
  <2> QED BY <2>1, <2>2, <2>3
<1>3. ASSUME NEW n \in Runs, Over(n) PROVE HistoryInv'
  <2>1. UNCHANGED appended /\ Newest(history) \subseteq history' BY <1>3 DEF Over, EndWith
  <2> QED BY <2>1, PruningKeepsNewest
<1>4. ASSUME NEW j \in Jobs, NEW i \in Issues, NEW r \in Routes, CooldownElapses(j, i, r)
      PROVE  HistoryInv'
  BY <1>1, <1>4 DEF CooldownElapses, historyVars
<1>5. CASE UNCHANGED vars BY <1>1, <1>5 DEF vars, historyVars
<1> QED BY <1>2, <1>3, <1>4, <1>5, Steps

\* The types of all reachable states, and where their runs stand.
LEMMA Positions == Spec => [](TypeOK /\ RunInv)
<1>1. Init => TypeOK /\ RunInv BY InitTypes
<1>2. TypeOK /\ RunInv /\ [Next]_vars => (TypeOK /\ RunInv)' BY TypesStep
<1> QED BY <1>1, <1>2, PTL DEF Spec

\* Maintenance keeps its types: in every reachable state the variables have the
\* shapes the code's structures give them.
THEOREM TypeCorrect == Spec => []TypeOK
<1>1. TypeOK /\ RunInv => TypeOK OBVIOUS
<1> QED BY <1>1, Positions, PTL

\* However runs overlap, fail while they prune or die: a record is missing from
\* the history only if history_max_entries newer ones were written.
THEOREM NewestAreKept == Spec => []HistoryKeepsNewest
<1>1. Init => HistoryInv
  <2>1. appended = {} => IsFiniteSet(appended) BY FS_EmptySet
  <2> QED BY <2>1 DEF Init, HistoryInv, HistoryKeepsNewest
<1>2. TypeOK /\ RunInv /\ HistoryInv /\ [Next]_vars => HistoryInv' BY HistoryStep
<1>3. HistoryInv => HistoryKeepsNewest BY DEF HistoryInv
<1> QED BY <1>1, <1>2, <1>3, Positions, PTL DEF Spec

-----------------------------------------------------------------------------
(* The events a run processes. *)

Processing(n) == pc[n] \in {"events", "deliver"}
Due(n) == Derive(job[n], outcome[n])

EventsOK(n) ==
  /\ Processing(n) => events[n] \subseteq Due(n)
  /\ pc[n] = "deliver" => event[n] \in Due(n) /\ recipients[n] # {}

EventsInv == \A n \in Runs : EventsOK(n)

\* Whoever processes alerts owns the lock of state.json, so nobody else does.
LEMMA ProcessesAlone ==
  ASSUME RunInv, NEW n \in Runs, Processing(n)
  PROVE  stateLock = n /\ Notified(n) /\ \A m \in Runs \ {n} : ~Processing(m)
  BY DEF RunInv, RunOK, Processing

\* The steps of a run that do not touch alerts.
Before(n) ==
  /\ ~Processing(n) /\ ~Processing(n)'
  /\ UNCHANGED alertVars
  /\ lost \subseteq lost'

\* A step of a run is one of those or one of the four that process alerts.
LEMMA StepsBefore ==
  ASSUME TypeOK, NEW n \in Runs, Advances(n)
  PROVE  Before(n) \/ Loaded(n) \/ ProcessEvent(n) \/ Deliver(n) \/ Save(n)
<1>1. ASSUME NEW label \in {"admit", "record", "execute", "prune", "notify", "release"}, Goto(n, label)
      PROVE  ~Processing(n)'
  BY <1>1 DEF Goto, Processing, TypeOK
<1>2. CASE StartRun(n) BY <1>1, <1>2 DEF StartRun, Before, Processing
<1>3. CASE Skip(n) BY <1>1, <1>3 DEF Skip, Before, Processing
<1>4. CASE AcquireLease(n) BY <1>1, <1>4 DEF AcquireLease, Before, Processing
<1>5. CASE LeaseFails(n) BY <1>1, <1>5 DEF LeaseFails, Before, Processing
<1>6. CASE Execute(n) BY <1>1, <1>6 DEF Execute, Before, Processing
<1>7. CASE Recorded(n) BY <1>1, <1>7 DEF Recorded, Before, Processing
<1>8. CASE Pruned(n) BY <1>1, <1>8 DEF Pruned, Before, Processing
<1>9. CASE NothingToNotify(n) BY <1>1, <1>9 DEF NothingToNotify, Before, Processing
<1> QED BY <1>2, <1>3, <1>4, <1>5, <1>6, <1>7, <1>8, <1>9 DEF Advances

\* The end of a run, and whatever happens to a run that is not processing.
LEMMA AfterOver ==
  ASSUME TypeOK, NEW n \in Runs, Over(n)
  PROVE  /\ ~Processing(n)' /\ UNCHANGED <<issues, heard, last>>
         /\ lost' = IF Unsaved(n) THEN lost \cup {job[n]} ELSE lost
  BY DEF Over, EndWith, Goto, Processing, TypeOK

\* The run that processes alerts: what it does to its own variables.
LEMMA ProcessEventDoes ==
  ASSUME TypeOK, RunInv, EventsInv, NEW n \in Runs, ProcessEvent(n)
  PROVE  \E e \in events[n] :
           /\ e \in Due(n) /\ Due(n)' = Due(n)
           /\ events'[n] = events[n] \ {e}
           /\ memory'[n] = Remembered(memory[n], e)
           /\ heard' = IF Alarm(e) THEN MayRepeat(n, e) ELSE heard
           /\ Processing(n) /\ Processing(n)'
           /\ pc'[n] = "deliver" =>
                event'[n] = e /\ recipients'[n] = Recipients(memory[n], e) /\ recipients'[n] # {}
           /\ UNCHANGED <<runVars, lease, issues, last, lost>>
<1>1. PICK e \in events[n] :
        /\ events' = Set(events, n, events[n] \ {e})
        /\ Continue(n, e, Recipients(memory[n], e))
        /\ memory' = Set(memory, n, Remembered(memory[n], e))
        /\ heard' = IF e.severity \in {"warning", "error"} THEN MayRepeat(n, e) ELSE heard
  BY DEF ProcessEvent
<1>2. pc[n] = "events" /\ UNCHANGED <<runVars, lease, issues, last, lost>> BY DEF ProcessEvent
<1>3. e \in Due(n) BY <1>1, <1>2 DEF EventsInv, EventsOK, Processing
<1>4. Due(n)' = Due(n) BY <1>2 DEF Due, runVars
<1>5. events'[n] = events[n] \ {e} /\ memory'[n] = Remembered(memory[n], e)
  BY <1>1 DEF Set, TypeOK
<1>6. /\ pc'[n] \in {"events", "deliver"}
      /\ pc'[n] = "deliver" =>
           event'[n] = e /\ recipients'[n] = Recipients(memory[n], e) /\ recipients'[n] # {}
  BY <1>1 DEF Continue, Set, Goto, TypeOK
<1> QED BY <1>1, <1>2, <1>3, <1>4, <1>5, <1>6 DEF Processing, Alarm

\* Deliver tries the least recipient left; the alert arrives and is remembered, or neither.
LEMMA DeliverDoes ==
  ASSUME TypeOK, RunInv, EventsInv, NEW n \in Runs, Deliver(n)
  PROVE  \E r \in recipients[n] :
           /\ event[n] \in Due(n) /\ Due(n)' = Due(n)
           /\ \/ memory'[n] = Remember(n, event[n], r) /\ heard' = Hears(event[n], r)
              \/ memory'[n] = memory[n] /\ heard' = heard
           /\ pc[n] = "deliver" /\ Processing(n) /\ Processing(n)'
           /\ pc'[n] = "deliver" =>
                event'[n] = event[n] /\ recipients'[n] = recipients[n] \ {r} /\ recipients'[n] # {}
           /\ UNCHANGED <<runVars, lease, issues, events, last, lost>>
<1>1. PICK r : r = LeastOf(recipients[n]) OBVIOUS
<1>2. /\ pc[n] = "deliver"
      /\ \/ memory' = Set(memory, n, Remember(n, event[n], r)) /\ heard' = Hears(event[n], r)
         \/ UNCHANGED <<memory, heard>>
      /\ Continue(n, event[n], recipients[n] \ {r})
      /\ UNCHANGED <<runVars, lease, issues, events, last, lost>>
  BY <1>1 DEF Deliver
<1>3. event[n] \in Due(n) /\ recipients[n] # {} BY <1>2 DEF EventsInv, EventsOK
<1>4. recipients[n] \in SUBSET Nat BY RoutesAssumption DEF TypeOK
<1>5. r \in recipients[n]
  <2>1. \E x \in recipients[n] : \A y \in recipients[n] : x <= y BY <1>3, <1>4, LeastNumberExists
  <2> QED BY <1>1, <2>1 DEF LeastOf
<1>6. Due(n)' = Due(n) BY <1>2 DEF Due, runVars
<1>7. \/ memory'[n] = Remember(n, event[n], r) /\ heard' = Hears(event[n], r)
      \/ memory'[n] = memory[n] /\ heard' = heard
  BY <1>2 DEF Set, TypeOK
<1>8. /\ pc'[n] \in {"events", "deliver"}
      /\ pc'[n] = "deliver" =>
           event'[n] = event[n] /\ recipients'[n] = recipients[n] \ {r} /\ recipients'[n] # {}
  BY <1>2 DEF Continue, Set, Goto, TypeOK
<1> QED BY <1>2, <1>3, <1>5, <1>6, <1>7, <1>8 DEF Processing

\* Save replaces the file by the memory and ends the processing.
LEMMA SaveDoes ==
  ASSUME TypeOK, RunInv, NEW n \in Runs, Save(n)
  PROVE  /\ Processing(n) /\ pc[n] = "events" /\ events[n] = {} /\ pc'[n] = "release" /\ ~Processing(n)'
         /\ issues' = memory[n]
         /\ heard' = [i \in Issues |-> [r \in Routes |-> HeardAfter(n, i, r)]]
         /\ lost' = lost \ Known(n)
         /\ UNCHANGED <<runVars, lease, last>>
  BY DEF Save, Processing, Goto, TypeOK

\* Loaded starts the processing with what the file says and every event still due.
LEMMA LoadedDoes ==
  ASSUME TypeOK, RunInv, NEW n \in Runs, Loaded(n)
  PROVE  /\ \A m \in Runs : ~Processing(m)
         /\ Processing(n)' /\ pc'[n] = "events"
         /\ memory'[n] = issues /\ events'[n] = Due(n) /\ Due(n)' = Due(n)
         /\ UNCHANGED <<runVars, lease, issues, heard, last, lost>>
<1>1. stateLock = Nobody BY DEF Loaded
<1>2. \A m \in Runs : ~Processing(m) BY <1>1, RunsAssumption DEF RunInv, RunOK, Processing
<1> QED BY <1>2 DEF Loaded, Goto, Set, TypeOK, Processing, Due, runVars

\* What a run that is kept does about alerts is kept.
LEMMA KeptEvents ==
  ASSUME NEW m \in Runs, Kept(m)
  PROVE  (Processing(m)' <=> Processing(m)) /\ Due(m)' = Due(m) /\ (EventsOK(m) => EventsOK(m)')
  BY DEF Kept, Processing, Due, EventsOK

\* Nothing but what was derived for a run is processed by it.
LEMMA EventsStep == TypeOK /\ RunInv /\ EventsInv /\ [Next]_vars => EventsInv'
<1> SUFFICES ASSUME TypeOK, RunInv, EventsInv, [Next]_vars PROVE EventsInv' OBVIOUS
<1>1. ASSUME NEW n \in Runs, Advances(n) \/ Over(n), EventsOK(n)' PROVE EventsInv'
  <2>1. \A m \in Runs \ {n} : EventsOK(m)' BY <1>1, OthersAreKept, KeptEvents DEF EventsInv
  <2> QED BY <1>1, <2>1 DEF EventsInv
<1>2. ASSUME NEW n \in Runs, Advances(n) PROVE EventsOK(n)'
  <2>1. CASE Before(n) BY <2>1 DEF Before, EventsOK, Processing
  <2>2. CASE Loaded(n) BY <2>2, LoadedDoes DEF EventsOK
  <2>3. CASE ProcessEvent(n) BY <2>3, ProcessEventDoes DEF EventsOK, EventsInv
  <2>4. CASE Deliver(n) BY <2>4, DeliverDoes DEF EventsOK, EventsInv
  <2>5. CASE Save(n) BY <2>5, SaveDoes DEF EventsOK
  <2> QED BY <1>2, <2>1, <2>2, <2>3, <2>4, <2>5, StepsBefore
<1>3. ASSUME NEW n \in Runs, Over(n) PROVE EventsOK(n)' BY <1>3, AfterOver DEF EventsOK, Processing
<1>4. ASSUME UNCHANGED <<pc, runVars, events, event, recipients>> PROVE EventsInv'
  BY <1>4 DEF EventsInv, EventsOK, Processing, Due, runVars
<1>5. CASE UNCHANGED vars BY <1>4, <1>5 DEF vars, alertVars
<1>6. ASSUME NEW j \in Jobs, NEW i \in Issues, NEW r \in Routes, CooldownElapses(j, i, r)
      PROVE  EventsInv'
  BY <1>4, <1>6 DEF CooldownElapses
<1> QED BY <1>1, <1>2, <1>3, <1>5, <1>6, Steps

-----------------------------------------------------------------------------
(* Who was told of an issue. *)

\* What is remembered as delivered was delivered, of an issue that is active.
ToldSound(state) ==
  \A i \in Issues, r \in Routes :
    state[i].told[r] # "no" => state[i].severity # "none" /\ heard[i][r] # "never"

\* The state a run works on differs from state.json in its own issues only.
MemoryOK(n) ==
  /\ Processing(n) =>
       /\ ToldSound(memory[n])
       /\ \A i \in Issues :
            i \notin IssuesOf(job[n]) \/ outcome[n] = Skipped => memory[n][i] = issues[i]
  /\ pc[n] = "deliver" /\ Alarm(event[n]) => memory[n][event[n].issue].severity # "none"

RecoveryOK(n) ==
  pc[n] = "deliver" /\ IsRecovery(event[n]) =>
    \A r \in recipients[n] : heard[event[n].issue][r] # "never"

ToldInv == ToldSound(issues) /\ \A n \in Runs : MemoryOK(n) /\ RecoveryOK(n)

\* What an event does to the issue it is about and to the others.
LEMMA RememberedAfter ==
  ASSUME NEW state, NEW e, NEW i \in Issues
  PROVE  /\ i # e.issue \/ e.severity = "info" => Remembered(state, e)[i] = state[i]
         /\ i = e.issue /\ IsRecovery(e) =>
              Remembered(state, e)[i].severity = "none" /\ \A r \in Routes : Remembered(state, e)[i].told[r] = "no"
         /\ i = e.issue /\ Alarm(e) =>
              Remembered(state, e)[i].severity = e.severity /\ Remembered(state, e)[i].told = state[i].told
  BY DEF Remembered, IsRecovery, Alarm, NoIssue

\* A delivery changes only whether its route was told.
LEMMA DeliveredAfter ==
  ASSUME NEW state \in [Issues -> IssueStates], NEW issue, NEW q, NEW i \in Issues, NEW r \in Routes
  PROVE  /\ Delivered(state, issue, q)[i].severity = state[i].severity
         /\ Delivered(state, issue, q)[i].told[r] =
              IF i = issue /\ r = q THEN "recent" ELSE state[i].told[r]
  BY DEF Delivered, IssueStates

\* What a run processes is about issues of its own job.
LEMMA DueIssue ==
  ASSUME TypeOK, RunInv, NEW n \in Runs, Processing(n), NEW e \in Due(n)
  PROVE  /\ job[n] \in Jobs /\ outcome[n] \in AllOutcomes \ {NoOutcome}
         /\ e.severity \in {"info", "warning", "error", "recovery"}
         /\ Alarm(e) => e.issue \in IssuesOf(job[n]) /\ e.issue \in Issues
         /\ e.issue \in Issues => e.issue \in IssuesOf(job[n]) /\ (Alarm(e) \/ IsRecovery(e))
         /\ outcome[n] = Skipped => e.issue \notin Issues /\ ~Alarm(e) /\ ~IsRecovery(e)
<1>1. job[n] \in Jobs BY HasJob DEF Processing
<1>2. outcome[n] \in AllOutcomes \ {NoOutcome} BY DEF Processing, RunInv, RunOK, TypeOK
<1>3. outcome[n] = Skipped => outcome[n].result = "skipped" BY <1>2, OutcomeKinds
<1> QED BY <1>1, <1>2, <1>3, DerivedIssue DEF Due

\* Nobody forgets but by a save: until then receivers only get to know more.
LEMMA ToldSoundKept ==
  ASSUME NEW state, ToldSound(state),
         \A i \in Issues, r \in Routes : heard[i][r] # "never" => heard'[i][r] # "never"
  PROVE  \A i \in Issues, r \in Routes :
           state[i].told[r] # "no" => state[i].severity # "none" /\ heard'[i][r] # "never"
  BY DEF ToldSound

\* A step of a run, the other runs apart.
LEMMA OthersMemory ==
  ASSUME TypeOK, RunInv, ToldInv, NEW n \in Runs, Advances(n) \/ Over(n), NEW m \in Runs \ {n},
         (issues' = issues /\ heard' = heard) \/ Processing(n)
  PROVE  MemoryOK(m)' /\ RecoveryOK(m)'
<1>1. Kept(m) BY OthersAreKept
<1>2. (Processing(m)' <=> Processing(m)) /\ Due(m)' = Due(m) BY <1>1, KeptEvents
<1>3. CASE Processing(n)
  <2>1. ~Processing(m) BY <1>3, ProcessesAlone
  <2> QED BY <1>2, <2>1 DEF MemoryOK, RecoveryOK, Processing
<1>4. CASE issues' = issues /\ heard' = heard
  BY <1>1, <1>2, <1>4 DEF MemoryOK, RecoveryOK, ToldInv, ToldSound, Kept
<1> QED BY <1>3, <1>4

\* The run that processes an event.
LEMMA ToldByProcessEvent ==
  ASSUME TypeOK, RunInv, EventsInv, ToldInv, NEW n \in Runs, ProcessEvent(n)
  PROVE  ToldSound(issues)' /\ MemoryOK(n)' /\ RecoveryOK(n)'
<1>1. PICK e \in events[n] :
        /\ e \in Due(n)
        /\ memory'[n] = Remembered(memory[n], e)
        /\ heard' = IF Alarm(e) THEN MayRepeat(n, e) ELSE heard
        /\ Processing(n) /\ Processing(n)'
        /\ pc'[n] = "deliver" =>
             event'[n] = e /\ recipients'[n] = Recipients(memory[n], e) /\ recipients'[n] # {}
        /\ UNCHANGED <<runVars, issues>>
  BY ProcessEventDoes
<1>t. heard \in [Issues -> [Routes -> Knowledge]] BY DEF TypeOK, Knowledge
<1>2. /\ e.severity \in {"info", "warning", "error", "recovery"}
      /\ Alarm(e) => e.issue \in IssuesOf(job[n]) /\ e.issue \in Issues
      /\ e.issue \in Issues => e.issue \in IssuesOf(job[n])
      /\ outcome[n] = Skipped => e.issue \notin Issues
  BY <1>1, DueIssue
<1>3. \A i \in Issues, r \in Routes : heard[i][r] # "never" => heard'[i][r] # "never"
  BY <1>1, <1>t DEF MayRepeat
<1>4. ToldSound(issues)' BY <1>1, <1>3 DEF ToldSound, ToldInv
<1>5. ToldSound(memory[n]) BY <1>1 DEF ToldInv, MemoryOK
<1>6. ToldSound(memory[n])'
  <2>1. ASSUME NEW i \in Issues, NEW r \in Routes, memory'[n][i].told[r] # "no"
        PROVE  memory'[n][i].severity # "none" /\ heard'[i][r] # "never"
    <3>1. CASE i # e.issue \/ e.severity = "info"
      <4>1. memory'[n][i] = memory[n][i] BY <1>1, <3>1, RememberedAfter
      <4> QED BY <1>3, <1>5, <2>1, <4>1 DEF ToldSound
    <3>2. CASE i = e.issue /\ Alarm(e)
      <4>1. memory'[n][i].severity = e.severity /\ memory'[n][i].told = memory[n][i].told
        BY <1>1, <3>2, RememberedAfter
      <4> QED BY <1>3, <1>5, <2>1, <3>2, <4>1 DEF ToldSound, Alarm
    <3>3. CASE i = e.issue /\ IsRecovery(e) BY <1>1, <2>1, <3>3, RememberedAfter
    <3> QED BY <1>2, <3>1, <3>2, <3>3 DEF Alarm, IsRecovery
  <2> QED BY <2>1 DEF ToldSound
<1>7. \A i \in Issues :
        i \notin IssuesOf(job[n]) \/ outcome[n] = Skipped => memory'[n][i] = issues[i]
  <2>1. ASSUME NEW i \in Issues, i \notin IssuesOf(job[n]) \/ outcome[n] = Skipped
        PROVE  memory'[n][i] = memory[n][i]
    BY <1>1, <1>2, <2>1, RememberedAfter
  <2> QED BY <1>1, <2>1 DEF ToldInv, MemoryOK
<1>8. pc'[n] = "deliver" /\ Alarm(e) => memory'[n][e.issue].severity # "none"
  BY <1>1, <1>2, RememberedAfter DEF Alarm
<1>9. MemoryOK(n)' BY <1>1, <1>6, <1>7, <1>8 DEF MemoryOK, runVars, Alarm, Processing
<1>10. RecoveryOK(n)'
  <2>1. ASSUME pc'[n] = "deliver", IsRecovery(e), NEW r \in Recipients(memory[n], e)
        PROVE  heard[e.issue][r] # "never"
    <3>1. e.issue \in Issues /\ r \in Routes /\ memory[n][e.issue].told[r] # "no"
      BY <2>1 DEF Recipients, Matching
    <3> QED BY <1>5, <3>1 DEF ToldSound
  <2>2. IsRecovery(e) => heard' = heard BY <1>1 DEF IsRecovery, Alarm
  <2> QED BY <1>1, <2>1, <2>2 DEF RecoveryOK, IsRecovery
<1> QED BY <1>4, <1>9, <1>10

\* The run that delivers an event.
LEMMA ToldByDeliver ==
  ASSUME TypeOK, RunInv, EventsInv, ToldInv, NEW n \in Runs, Deliver(n)
  PROVE  ToldSound(issues)' /\ MemoryOK(n)' /\ RecoveryOK(n)'
<1>1. PICK q \in recipients[n] :
        /\ event[n] \in Due(n)
        /\ \/ memory'[n] = Remember(n, event[n], q) /\ heard' = Hears(event[n], q)
           \/ memory'[n] = memory[n] /\ heard' = heard
        /\ pc[n] = "deliver" /\ Processing(n) /\ Processing(n)'
        /\ pc'[n] = "deliver" =>
             event'[n] = event[n] /\ recipients'[n] = recipients[n] \ {q} /\ recipients'[n] # {}
        /\ UNCHANGED <<runVars, issues>>
  BY DeliverDoes
<1>e. PICK e : e = event[n] OBVIOUS
<1>t. heard \in [Issues -> [Routes -> Knowledge]] /\ memory[n] \in [Issues -> IssueStates]
  BY DEF TypeOK, Knowledge
<1>2. /\ Alarm(e) => e.issue \in IssuesOf(job[n]) /\ e.issue \in Issues
      /\ outcome[n] = Skipped => ~Alarm(e)
  BY <1>1, <1>e, DueIssue
<1>3. \A i \in Issues, r \in Routes : heard[i][r] # "never" => heard'[i][r] # "never"
  <2>1. \A i \in Issues, r \in Routes : heard[i][r] # "never" => Hears(event[n], q)[i][r] # "never"
    BY <1>t DEF Hears
  <2> QED BY <1>1, <2>1
<1>4. ToldSound(issues)' BY <1>1, <1>3 DEF ToldSound, ToldInv
<1>5. ToldSound(memory[n]) BY <1>1 DEF ToldInv, MemoryOK
<1>6. CASE (memory'[n] = memory[n] /\ heard' = heard) \/ ~Alarm(e)
  <2>1. memory'[n] = memory[n] /\ heard' = heard
    BY <1>1, <1>e, <1>6 DEF Remember, Hears, Alarm
  <2>2. MemoryOK(n)' BY <1>1, <2>1 DEF MemoryOK, ToldInv, ToldSound, runVars
  <2>3. RecoveryOK(n)' BY <1>1, <2>1 DEF RecoveryOK, ToldInv
  <2> QED BY <1>4, <2>2, <2>3
<1>7. CASE memory'[n] = Remember(n, e, q) /\ heard' = Hears(e, q) /\ Alarm(e)
  <2>1. memory'[n] = Delivered(memory[n], e.issue, q) BY <1>7 DEF Remember, Alarm
  <2>2. \A i \in Issues : memory'[n][i] = memory[n][i] \/ i = e.issue BY <2>1 DEF Delivered
  <2>3. \A i \in Issues, r \in Routes :
          /\ memory'[n][i].severity = memory[n][i].severity
          /\ memory'[n][i].told[r] = IF i = e.issue /\ r = q THEN "recent" ELSE memory[n][i].told[r]
    BY <1>t, <2>1, DeliveredAfter
  <2>4. memory[n][e.issue].severity # "none" BY <1>1, <1>e, <1>7 DEF ToldInv, MemoryOK
  <2>5. q \in Routes BY DEF TypeOK
  <2>6. heard'[e.issue][q] # "never" BY <1>2, <1>7, <1>t, <2>5 DEF Hears, Alarm
  <2>7. ToldSound(memory[n])' BY <1>3, <1>5, <2>3, <2>4, <2>6 DEF ToldSound
  <2>8. \A i \in Issues :
          i \notin IssuesOf(job[n]) \/ outcome[n] = Skipped => memory'[n][i] = issues[i]
    BY <1>1, <1>2, <1>7, <2>2 DEF ToldInv, MemoryOK
  <2>9. memory'[n][e.issue].severity # "none" BY <1>2, <1>7, <2>1, <2>4 DEF Delivered
  <2>10. MemoryOK(n)' BY <1>1, <1>e, <2>7, <2>8, <2>9 DEF MemoryOK, runVars, Processing
  <2>11. RecoveryOK(n)' BY <1>1, <1>e, <1>7 DEF RecoveryOK, IsRecovery, Alarm
  <2> QED BY <1>4, <2>10, <2>11
<1> QED BY <1>1, <1>e, <1>6, <1>7

\* The run that saves its alerts.
LEMMA ToldBySave ==
  ASSUME TypeOK, RunInv, ToldInv, NEW n \in Runs, Save(n)
  PROVE  ToldSound(issues)' /\ MemoryOK(n)' /\ RecoveryOK(n)'
<1>1. /\ Processing(n) /\ pc'[n] = "release" /\ ~Processing(n)' /\ issues' = memory[n]
      /\ heard' = [i \in Issues |-> [r \in Routes |-> HeardAfter(n, i, r)]]
  BY SaveDoes
<1>2. ToldSound(memory[n]) BY <1>1 DEF ToldInv, MemoryOK
<1>3. ASSUME NEW i \in Issues, NEW r \in Routes, memory[n][i].told[r] # "no"
      PROVE  memory[n][i].severity # "none" /\ HeardAfter(n, i, r) # "never"
  <2>1. memory[n][i].severity # "none" /\ heard[i][r] # "never" BY <1>2, <1>3 DEF ToldSound
  <2> QED BY <2>1 DEF HeardAfter
<1>4. ToldSound(issues)' BY <1>1, <1>3 DEF ToldSound
<1> QED BY <1>1, <1>4 DEF MemoryOK, RecoveryOK

\* What is remembered stays sound.
LEMMA ToldStep == TypeOK /\ RunInv /\ EventsInv /\ ToldInv /\ [Next]_vars => ToldInv'
<1> SUFFICES ASSUME TypeOK, RunInv, EventsInv, ToldInv, [Next]_vars PROVE ToldInv' OBVIOUS
<1>1. ASSUME NEW n \in Runs, Advances(n) \/ Over(n), (issues' = issues /\ heard' = heard) \/ Processing(n),
             ToldSound(issues)', MemoryOK(n)', RecoveryOK(n)'
      PROVE  ToldInv'
  <2>1. \A m \in Runs \ {n} : MemoryOK(m)' /\ RecoveryOK(m)' BY <1>1, OthersMemory
  <2> QED BY <1>1, <2>1 DEF ToldInv
<1>2. ASSUME issues' = issues, heard' = heard PROVE ToldSound(issues)' BY <1>2 DEF ToldInv, ToldSound
<1>3. ASSUME NEW n \in Runs, Advances(n) PROVE ToldInv'
  <2>1. CASE Before(n)
    BY <1>1, <1>2, <1>3, <2>1 DEF Before, alertVars, MemoryOK, RecoveryOK, Processing
  <2>2. CASE Loaded(n)
    <3>1. /\ Processing(n)' /\ pc'[n] = "events" /\ memory'[n] = issues
          /\ issues' = issues /\ heard' = heard
      BY <2>2, LoadedDoes
    <3>2. MemoryOK(n)' /\ RecoveryOK(n)' BY <3>1 DEF MemoryOK, RecoveryOK, ToldInv, ToldSound
    <3> QED BY <1>1, <1>2, <1>3, <3>1, <3>2
  <2>3. CASE ProcessEvent(n)
    BY <1>1, <1>3, <2>3, ToldByProcessEvent, ProcessEventDoes
  <2>4. CASE Deliver(n) BY <1>1, <1>3, <2>4, ToldByDeliver, DeliverDoes
  <2>5. CASE Save(n) BY <1>1, <1>3, <2>5, ToldBySave, SaveDoes
  <2> QED BY <1>3, <2>1, <2>2, <2>3, <2>4, <2>5, StepsBefore
<1>4. ASSUME NEW n \in Runs, Over(n) PROVE ToldInv'
  <2>1. ~Processing(n)' /\ issues' = issues /\ heard' = heard BY <1>4, AfterOver
  <2> QED BY <1>1, <1>2, <1>4, <2>1 DEF MemoryOK, RecoveryOK, Processing
<1>5. CASE UNCHANGED vars
  BY <1>5 DEF vars, runVars, alertVars, ToldInv, ToldSound, MemoryOK, RecoveryOK, Processing
<1>6. ASSUME NEW j \in Jobs, NEW i \in Issues, NEW r \in Routes, CooldownElapses(j, i, r)
      PROVE  ToldInv'
  <2>1. /\ issues[i].told[r] = "recent" /\ stateLock = Nobody
        /\ issues' = [issues EXCEPT ![i] =
             [severity |-> issues[i].severity, told |-> [issues[i].told EXCEPT ![r] = "due"]]]
        /\ UNCHANGED <<pc, heard>>
    BY <1>6 DEF CooldownElapses
  <2>2. \A m \in Runs : ~Processing(m)
    BY <2>1, RunsAssumption DEF RunInv, RunOK, Processing
  <2>3. ASSUME NEW k \in Issues, NEW q \in Routes
        PROVE  /\ issues'[k].severity = issues[k].severity
               /\ issues'[k].told[q] # "no" => issues[k].told[q] # "no"
    BY <2>1 DEF TypeOK, IssueStates
  <2>4. ToldSound(issues)' BY <2>1, <2>3 DEF ToldSound, ToldInv
  <2> QED BY <2>1, <2>2, <2>4 DEF ToldInv, MemoryOK, RecoveryOK, Processing
<1> QED BY <1>3, <1>4, <1>5, <1>6, Steps

\* The positions, the events and what was told, in every reachable state.
LEMMA Telling == Spec => [](TypeOK /\ RunInv /\ EventsInv /\ ToldInv)
<1>1. Init => EventsInv /\ ToldInv
  BY DEF Init, EventsInv, EventsOK, ToldInv, ToldSound, MemoryOK, RecoveryOK, Processing, NoIssues, NoIssue
<1>2. TypeOK /\ RunInv /\ EventsInv /\ ToldInv /\ [Next]_vars => (EventsInv /\ ToldInv)'
  BY EventsStep, ToldStep
<1> QED BY <1>1, <1>2, Positions, PTL DEF Spec

\* Deliver sends a recovery only to receivers that were told of its issue,
\* whatever failed to be delivered, recorded or saved before.
THEOREM RecoveriesWereTold == Spec => []RecoveryWasTold
<1>1. TypeOK /\ RunInv /\ EventsInv /\ ToldInv => RecoveryWasTold
  BY DEF ToldInv, RecoveryOK, RecoveryWasTold
<1> QED BY <1>1, Telling, PTL

-----------------------------------------------------------------------------
(* Being told once. *)

\* With codes apart, no two events of a run are about one issue.
LEMMA EventsApart ==
  ASSUME CodesApart, NEW j \in Jobs, NEW o, NEW e \in Derive(j, o), NEW f \in Derive(j, o),
         e.issue = f.issue
  PROVE  e = f
<1>1. CASE o.result = "skipped" BY <1>1 DEF Derive
<1>2. CASE o.result # "skipped" /\ Operation[j] = "backup"
  <2>1. e \in BackupEvents(j, o) /\ f \in BackupEvents(j, o) BY <1>2 DEF Derive
  <2> QED BY <2>1, EventFields DEF BackupEvents, IssueFingerprint
<1>3. CASE o.result # "skipped" /\ Operation[j] = "doctor"
  <2>1. e \in DoctorEvents(j, o) /\ f \in DoctorEvents(j, o) BY <1>3 DEF Derive
  <2>2. CASE o.findings = NoFindings
    <3>1. \A c \in Checks : o.findings[c] = "none" BY <2>2 DEF NoFindings
    <3>2. DoctorEvents(j, o) \subseteq {Event("doctor.failed", "error", IssueFingerprint(j, "doctor", "failure"))}
      BY <2>2, <3>1 DEF DoctorEvents
    <3> QED BY <2>1, <3>2
  <2>3. CASE o.findings # NoFindings
    <3>1. PICK c \in Checks : e = EventForFinding(j, c, o.findings[c]) BY <2>1, <2>3 DEF DoctorEvents
    <3>2. PICK d \in Checks : f = EventForFinding(j, d, o.findings[d]) BY <2>1, <2>3 DEF DoctorEvents
    <3>3. ASSUME NEW k \in Checks, NEW status
          PROVE  \E code \in {Check[k].pass, Check[k].fail} :
                   EventForFinding(j, k, status).issue = <<j, Check[k].domain, code>>
      <4>1. CASE status = "pass" BY <4>1, EventFields DEF EventForFinding, IssueFingerprint
      <4>2. CASE status # "pass" BY <4>2, EventFields DEF EventForFinding, IssueFingerprint
      <4> QED BY <4>1, <4>2
    <3>4. PICK x \in {Check[c].pass, Check[c].fail} : e.issue = <<j, Check[c].domain, x>> BY <3>1, <3>3
    <3>5. PICK y \in {Check[d].pass, Check[d].fail} : f.issue = <<j, Check[d].domain, y>> BY <3>2, <3>3
    <3>i. <<j, Check[c].domain, x>> = <<j, Check[d].domain, y>> BY <3>4, <3>5
    <3>6. Check[c].domain = Check[d].domain /\ x = y BY <3>i
    <3>7. c = d BY <3>6 DEF CodesApart
    <3> QED BY <3>1, <3>2, <3>7
  <2> QED BY <2>2, <2>3
<1>4. CASE o.result # "skipped" /\ Operation[j] \notin {"backup", "doctor"}
  <2>1. e \in UpdateEvents(j, o) /\ f \in UpdateEvents(j, o) BY <1>4 DEF Derive
  <2> QED BY <2>1 DEF UpdateEvents
<1> QED BY <1>1, <1>2, <1>3, <1>4

\* Whoever knows of an issue is remembered, so that it is not told again.
HeardOnce(j) ==
  \A i \in IssuesOf(j), r \in Routes :
    heard[i][r] # "repeated" /\ (heard[i][r] = "told" => issues[i].told[r] # "no")

\* The same of the run that processes alerts of the job; an issue it takes back
\* will be forgotten when it saves.
HeardByRun(n) ==
  \A i \in IssuesOf(job[n]), r \in Routes :
    /\ heard[i][r] # "repeated"
    /\ heard[i][r] = "told" =>
         \/ memory[n][i].told[r] # "no"
         \/ /\ outcome[n] # Skipped /\ memory[n][i].severity = "none"
            /\ \A e \in events[n] : e.issue # i

\* Who is to get the event it delivers does not know it.
News(n) ==
  pc[n] = "deliver" /\ Alarm(event[n]) =>
    \A r \in recipients[n] : heard[event[n].issue][r] \in {"never", "may repeat"}

OnceOK(j) ==
  /\ (\A n \in Runs : Processing(n) => job[n] # j) => HeardOnce(j)
  /\ \A n \in Runs : Processing(n) /\ job[n] = j => HeardByRun(n) /\ News(n)

OnceInv == \A j \in Jobs \ lost : OnceOK(j)

\* A step that does not touch what was heard and remembered, whoever ends by it.
LEMMA OnceKept ==
  ASSUME OnceInv, UNCHANGED <<issues, heard>>, lost \subseteq lost',
         \A m \in Runs : Processing(m)' => Kept(m) \/ (UNCHANGED <<pc, job, outcome, memory, events, event, recipients>>),
         \A m \in Runs : Processing(m) /\ ~Processing(m)' => job[m] \in lost' \/ HeardOnce(job[m])
  PROVE  OnceInv'
<1> SUFFICES ASSUME NEW j \in Jobs \ lost' PROVE OnceOK(j)'
  BY DEF OnceInv
<1>1. OnceOK(j) BY DEF OnceInv
<1>2. HeardOnce(j) => HeardOnce(j)' BY DEF HeardOnce
<1>3. ASSUME NEW m \in Runs, Processing(m)'
      PROVE  /\ Processing(m) /\ job'[m] = job[m] /\ outcome'[m] = outcome[m] /\ pc'[m] = pc[m]
             /\ memory'[m] = memory[m] /\ events'[m] = events[m] /\ event'[m] = event[m]
             /\ recipients'[m] = recipients[m]
  BY <1>3 DEF Kept, Processing
<1>4. ASSUME NEW m \in Runs, Processing(m)', job'[m] = j PROVE HeardByRun(m)' /\ News(m)'
  <2>1. HeardByRun(m) /\ News(m) BY <1>1, <1>3, <1>4 DEF OnceOK
  <2>2. HeardByRun(m)' BY <1>3, <1>4, <2>1 DEF HeardByRun
  <2>3. News(m)' BY <1>3, <1>4, <2>1 DEF News
  <2> QED BY <2>2, <2>3
<1>5. ASSUME \A m \in Runs : Processing(m)' => job'[m] # j PROVE HeardOnce(j)'
  <2>1. CASE \E m \in Runs : Processing(m) /\ job[m] = j
    <3>1. PICK m \in Runs : Processing(m) /\ job[m] = j BY <2>1
    <3>2. ~Processing(m)' BY <1>3, <1>5, <3>1
    <3>3. HeardOnce(j) BY <3>1, <3>2
    <3> QED BY <1>2, <3>3
  <2>2. CASE ~ \E m \in Runs : Processing(m) /\ job[m] = j BY <1>1, <1>2, <2>2 DEF OnceOK
  <2> QED BY <2>1, <2>2
<1> QED BY <1>4, <1>5 DEF OnceOK

\* One run processes alerts before and after the step: its own job and the others.
LEMMA OnceByRun ==
  ASSUME TypeOK, RunInv, OnceInv, NEW n \in Runs, Advances(n), Processing(n)',
         job' = job, issues' = issues, lost' = lost,
         Processing(n) \/ \A m \in Runs : ~Processing(m),
         job[n] \notin lost => HeardByRun(n)' /\ News(n)',
         \A j \in Jobs \ {job[n]} : \A i \in IssuesOf(j), r \in Routes :
           heard'[i][r] = heard[i][r] \/ heard'[i][r] = "may repeat"
  PROVE  OnceInv'
<1> SUFFICES ASSUME NEW j \in Jobs \ lost PROVE OnceOK(j)' BY DEF OnceInv
<1>1. OnceOK(j) BY DEF OnceInv
<1>2. \A m \in Runs \ {n} : ~Processing(m) BY ProcessesAlone
<1>3. \A m \in Runs \ {n} : ~Processing(m)' BY <1>2, OthersAreKept, KeptEvents
<1>4. CASE job[n] = j BY <1>3, <1>4 DEF OnceOK
<1>5. CASE job[n] # j
  <2>1. HeardOnce(j) BY <1>1, <1>2, <1>5 DEF OnceOK
  <2>2. HeardOnce(j)' BY <1>5, <2>1 DEF HeardOnce
  <2> QED BY <1>3, <1>5, <2>2 DEF OnceOK
<1> QED BY <1>4, <1>5


\* The issues of two jobs differ.
LEMMA IssuesApart ==
  ASSUME NEW j \in Jobs, NEW k \in Jobs, j # k, NEW i \in IssuesOf(j)
  PROVE  i \notin IssuesOf(k)
<1>1. i = <<j, i[2], i[3]>> BY IssuesNameJob
<1>2. i \in IssuesOf(k) => i = <<k, i[2], i[3]>> BY IssuesNameJob
<1> QED BY <1>1, <1>2

\* The run that processes an event.
LEMMA OnceByProcessEvent ==
  ASSUME TypeOK, RunInv, EventsInv, ToldInv, OnceInv, CodesApart, NEW n \in Runs, ProcessEvent(n)
  PROVE  OnceInv'
<1>1. PICK e \in events[n] :
        /\ e \in Due(n)
        /\ events'[n] = events[n] \ {e}
        /\ memory'[n] = Remembered(memory[n], e)
        /\ heard' = IF Alarm(e) THEN MayRepeat(n, e) ELSE heard
        /\ Processing(n) /\ Processing(n)'
        /\ pc'[n] = "deliver" =>
             event'[n] = e /\ recipients'[n] = Recipients(memory[n], e) /\ recipients'[n] # {}
        /\ UNCHANGED <<runVars, issues, lost>>
  BY ProcessEventDoes
<1>t. heard \in [Issues -> [Routes -> Knowledge]] BY DEF TypeOK, Knowledge
<1>2. /\ job[n] \in Jobs
      /\ e.severity \in {"info", "warning", "error", "recovery"}
      /\ Alarm(e) => e.issue \in IssuesOf(job[n]) /\ e.issue \in Issues
      /\ outcome[n] = Skipped => e.issue \notin Issues
  BY <1>1, DueIssue
<1>3. \A i \in Issues, r \in Routes :
        \/ heard'[i][r] = heard[i][r]
        \/ heard'[i][r] = "may repeat"
  BY <1>1, <1>t DEF MayRepeat
<1>4. ASSUME job[n] \notin lost PROVE HeardByRun(n)' /\ News(n)'
  <2>1. HeardByRun(n) BY <1>1, <1>2, <1>4 DEF OnceInv, OnceOK
  <2>2. \A f \in events[n] \ {e} : f.issue # e.issue
    <3>1. \A f \in events[n] : f \in Derive(job[n], outcome[n])
      BY <1>1 DEF EventsInv, EventsOK, Due
    <3> QED BY <1>1, <1>2, <3>1, EventsApart
  <2>3. ASSUME NEW i \in IssuesOf(job[n]), NEW r \in Routes
        PROVE  /\ heard'[i][r] # "repeated"
               /\ heard'[i][r] = "told" =>
                    \/ memory'[n][i].told[r] # "no"
                    \/ /\ outcome[n] # Skipped /\ memory'[n][i].severity = "none"
                       /\ \A f \in events'[n] : f.issue # i
    <3>1. i \in Issues BY <1>2, IssuesNameJob
    <3>r. heard[i][r] # "repeated" BY <2>1 DEF HeardByRun
    <3>2. heard'[i][r] # "repeated" /\ (heard'[i][r] = "told" => heard[i][r] = "told")
      BY <1>3, <3>r, <3>1
    <3>3. CASE i # e.issue \/ e.severity = "info"
      <4>1. memory'[n][i] = memory[n][i] BY <1>1, <3>1, <3>3, RememberedAfter
      <4>2. \A f \in events'[n] : f \in events[n] BY <1>1
      <4> QED BY <2>1, <3>2, <4>1, <4>2 DEF HeardByRun
    <3>4. CASE i = e.issue /\ Alarm(e)
      <4>1. memory'[n][i].told = memory[n][i].told BY <1>1, <3>1, <3>4, RememberedAfter
      <4>2. heard[i][r] = "told" => memory[n][i].told[r] # "no" BY <2>1, <3>4 DEF HeardByRun
      <4> QED BY <3>2, <4>1, <4>2
    <3>5. CASE i = e.issue /\ IsRecovery(e)
      <4>1. memory'[n][i].severity = "none" BY <1>1, <3>1, <3>5, RememberedAfter
      <4>2. \A f \in events'[n] : f.issue # i BY <1>1, <2>2, <3>5
      <4>3. outcome[n] # Skipped BY <1>2, <3>1, <3>5
      <4> QED BY <3>2, <4>1, <4>2, <4>3
    <3> QED BY <1>2, <3>3, <3>4, <3>5 DEF Alarm, IsRecovery
  <2>4. HeardByRun(n)' BY <1>1, <2>3 DEF HeardByRun, runVars
  <2>5. ASSUME Alarm(e), NEW r \in Recipients(memory[n], e)
        PROVE  heard'[e.issue][r] \in {"never", "may repeat"}
    <3>1. e.issue \in Issues /\ e.issue \in IssuesOf(job[n]) /\ r \in Routes
      BY <1>2, <2>5 DEF Recipients, Matching
    <3>r. heard[e.issue][r] # "repeated" BY <2>1, <3>1 DEF HeardByRun
    <3>2. heard[e.issue][r] \in {"never", "told", "may repeat"} BY <1>t, <3>1, <3>r DEF Knowledge
    <3>3. heard[e.issue][r] = "told" => memory[n][e.issue].told[r] # "no" BY <1>1, <2>1, <3>1 DEF HeardByRun
    <3>4. CASE heard[e.issue][r] = "told"
      <4>1. memory[n][e.issue] \in IssueStates BY <3>1 DEF TypeOK
      <4>2. memory[n][e.issue].severity # "none"
        BY <1>1, <3>1, <3>3, <3>4 DEF ToldInv, MemoryOK, ToldSound
      <4>3. r \in Matching(e) /\ ~Suppressed(memory[n], e, r)
        BY <2>5 DEF Recipients, Alarm, IsRecovery
      <4>4. \/ memory[n][e.issue].told[r] = "due"
            \/ Rank[e.severity] > Rank[memory[n][e.issue].severity]
        BY <3>1, <3>3, <3>4, <4>1, <4>3 DEF Suppressed, Escalated, IssueStates
      <4> QED BY <1>1, <1>t, <2>5, <3>1, <3>4, <4>2, <4>3, <4>4 DEF MayRepeat
    <3>5. CASE heard[e.issue][r] # "told"
      <4>1. heard'[e.issue][r] = heard[e.issue][r] BY <1>1, <1>t, <2>5, <3>1, <3>5 DEF MayRepeat
      <4> QED BY <3>2, <3>5, <4>1
    <3> QED BY <3>4, <3>5
  <2>6. News(n)' BY <1>1, <2>5 DEF News, Alarm
  <2> QED BY <2>4, <2>6
<1>5. \A j \in Jobs \ {job[n]} : \A i \in IssuesOf(j), r \in Routes :
        heard'[i][r] = heard[i][r] \/ heard'[i][r] = "may repeat"
  BY <1>3, IssuesNameJob
<1> QED BY <1>1, <1>4, <1>5, OnceByRun DEF Advances, runVars

\* The run that delivers one.
LEMMA OnceByDeliver ==
  ASSUME TypeOK, RunInv, EventsInv, ToldInv, OnceInv, NEW n \in Runs, Deliver(n)
  PROVE  OnceInv'
<1>1. PICK q \in recipients[n] :
        /\ event[n] \in Due(n)
        /\ \/ memory'[n] = Remember(n, event[n], q) /\ heard' = Hears(event[n], q)
           \/ memory'[n] = memory[n] /\ heard' = heard
        /\ pc[n] = "deliver" /\ Processing(n) /\ Processing(n)'
        /\ pc'[n] = "deliver" =>
             event'[n] = event[n] /\ recipients'[n] = recipients[n] \ {q} /\ recipients'[n] # {}
        /\ UNCHANGED <<runVars, issues, events, lost>>
  BY DeliverDoes
<1>e. PICK e : e = event[n] OBVIOUS
<1>t. heard \in [Issues -> [Routes -> Knowledge]] /\ memory[n] \in [Issues -> IssueStates]
  BY DEF TypeOK, Knowledge
<1>2. job[n] \in Jobs /\ (Alarm(e) => e.issue \in IssuesOf(job[n]) /\ e.issue \in Issues)
  BY <1>1, <1>e, DueIssue
<1>3. CASE (memory'[n] = memory[n] /\ heard' = heard) \/ ~Alarm(e)
  <2>1. memory'[n] = memory[n] /\ heard' = heard
    BY <1>1, <1>e, <1>3 DEF Remember, Hears, Alarm
  <2>2. ASSUME job[n] \notin lost PROVE HeardByRun(n)' /\ News(n)'
    <3>1. HeardByRun(n) /\ News(n) BY <1>1, <1>2, <2>2 DEF OnceInv, OnceOK
    <3>2. HeardByRun(n)' BY <1>1, <2>1, <3>1 DEF HeardByRun, runVars
    <3>3. News(n)' BY <1>1, <2>1, <3>1 DEF News
    <3> QED BY <3>2, <3>3
  <2> QED BY <1>1, <2>1, <2>2, OnceByRun DEF Advances, runVars
<1>4. CASE memory'[n] = Remember(n, e, q) /\ heard' = Hears(e, q) /\ Alarm(e)
  <2>1. memory'[n] = Delivered(memory[n], e.issue, q) BY <1>4 DEF Remember, Alarm
  <2>2. \A i \in Issues, r \in Routes :
          /\ memory'[n][i].severity = memory[n][i].severity
          /\ memory'[n][i].told[r] = IF i = e.issue /\ r = q THEN "recent" ELSE memory[n][i].told[r]
    BY <1>t, <2>1, DeliveredAfter
  <2>3. \A i \in Issues, r \in Routes :
          heard'[i][r] = IF i = e.issue /\ r = q
                         THEN IF heard[i][r] \in {"never", "may repeat"} THEN "told" ELSE "repeated"
                         ELSE heard[i][r]
    BY <1>t, <1>4 DEF Hears, Alarm
  <2>4. q \in Routes BY DEF TypeOK
  <2>5. ASSUME job[n] \notin lost PROVE HeardByRun(n)' /\ News(n)'
    <3>1. HeardByRun(n) /\ News(n) BY <1>1, <1>2, <2>5 DEF OnceInv, OnceOK
    <3>2. heard[e.issue][q] \in {"never", "may repeat"} BY <1>1, <1>e, <1>4, <3>1 DEF News
    <3>3. ASSUME NEW i \in IssuesOf(job[n]), NEW r \in Routes
          PROVE  /\ heard'[i][r] # "repeated"
                 /\ heard'[i][r] = "told" =>
                      \/ memory'[n][i].told[r] # "no"
                      \/ /\ outcome[n] # Skipped /\ memory'[n][i].severity = "none"
                         /\ \A f \in events[n] : f.issue # i
      <4>1. i \in Issues BY <1>2, IssuesNameJob
      <4>2. CASE i = e.issue /\ r = q BY <2>2, <2>3, <3>2, <4>1, <4>2
      <4>3. CASE ~(i = e.issue /\ r = q)
        <5>1. /\ heard'[i][r] = heard[i][r] /\ memory'[n][i].told[r] = memory[n][i].told[r]
              /\ memory'[n][i].severity = memory[n][i].severity
          BY <2>2, <2>3, <4>1, <4>3
        <5> QED BY <3>1, <5>1 DEF HeardByRun
      <4> QED BY <4>2, <4>3
    <3>4. HeardByRun(n)' BY <1>1, <3>3 DEF HeardByRun, runVars
    <3>5. \A r \in recipients[n] \ {q} : heard'[e.issue][r] \in {"never", "may repeat"}
      <4>1. recipients[n] \subseteq Routes BY DEF TypeOK
      <4> QED BY <1>1, <1>e, <1>2, <1>4, <2>3, <3>1, <4>1 DEF News
    <3>6. News(n)' BY <1>1, <1>e, <3>5 DEF News
    <3> QED BY <3>4, <3>6
  <2>6. \A j \in Jobs \ {job[n]} : \A i \in IssuesOf(j), r \in Routes :
          heard'[i][r] = heard[i][r] \/ heard'[i][r] = "may repeat"
    <3>1. ASSUME NEW j \in Jobs \ {job[n]}, NEW i \in IssuesOf(j) PROVE i \in Issues /\ i # e.issue
      BY <1>2, <1>4, IssuesNameJob, IssuesApart
    <3> QED BY <2>3, <3>1
  <2> QED BY <1>1, <2>5, <2>6, OnceByRun DEF Advances, runVars
<1> QED BY <1>1, <1>e, <1>3, <1>4

\* The run that saves: what its receivers know is what it remembers.
LEMMA OnceBySave ==
  ASSUME TypeOK, RunInv, EventsInv, ToldInv, OnceInv, NEW n \in Runs, Save(n)
  PROVE  OnceInv'
<1>1. /\ Processing(n) /\ events[n] = {} /\ ~Processing(n)' /\ issues' = memory[n]
      /\ heard' = [i \in Issues |-> [r \in Routes |-> HeardAfter(n, i, r)]]
      /\ lost' = lost \ Known(n)
      /\ UNCHANGED <<runVars, last>>
  BY SaveDoes
<1>j. job[n] \in Jobs BY <1>1, HasJob DEF Processing
<1>k. Known(n) \subseteq {job[n]} BY DEF Known
<1>2. \A m \in Runs : ~Processing(m)'
  <2>1. \A m \in Runs \ {n} : ~Processing(m) BY <1>1, ProcessesAlone
  <2>2. \A m \in Runs \ {n} : ~Processing(m)' BY <2>1, OthersAreKept, KeptEvents DEF Advances
  <2> QED BY <1>1, <2>2
<1>3. ASSUME NEW j \in Jobs \ lost', NEW i \in IssuesOf(j), NEW r \in Routes
      PROVE  heard'[i][r] # "repeated" /\ (heard'[i][r] = "told" => memory[n][i].told[r] # "no")
  <2>1. i \in Issues BY IssuesNameJob
  <2>2. heard'[i][r] = HeardAfter(n, i, r) BY <1>1, <2>1
  <2>3. CASE memory[n][i].severity = "none" \/ heard[i][r] = "never" BY <2>2, <2>3 DEF HeardAfter
  <2>4. CASE memory[n][i].severity # "none" /\ heard[i][r] # "never" /\ j # job[n]
    <3>1. i \notin IssuesOf(job[n]) BY <1>j, <2>4, IssuesApart
    <3>2. heard'[i][r] = heard[i][r] BY <2>2, <2>4, <3>1 DEF HeardAfter
    <3>3. memory[n][i] = issues[i] BY <1>1, <2>1, <3>1 DEF ToldInv, MemoryOK
    <3>4. j \in Jobs \ lost BY <1>1, <1>3, <1>k, <2>4
    <3>5. HeardOnce(j) BY <1>1, <2>4, <3>4, ProcessesAlone DEF OnceInv, OnceOK
    <3> QED BY <3>2, <3>3, <3>5 DEF HeardOnce
  <2>5. CASE memory[n][i].severity # "none" /\ heard[i][r] # "never" /\ j = job[n]
    <3>1. CASE Known(n) \cap lost = {}
      <4>1. heard'[i][r] = heard[i][r] BY <2>2, <2>5, <3>1 DEF HeardAfter
      <4>2. j \notin lost BY <1>1, <1>3, <3>1
      <4>3. HeardByRun(n) BY <1>1, <2>5, <4>2 DEF OnceInv, OnceOK
      <4> QED BY <2>5, <4>1, <4>3 DEF HeardByRun
    <3>2. CASE Known(n) \cap lost # {}
      <4>1. heard'[i][r] = IF memory[n][i].told[r] = "no" THEN "may repeat" ELSE "told"
        BY <2>2, <2>5, <3>2 DEF HeardAfter
      <4> QED BY <4>1
    <3> QED BY <3>1, <3>2
  <2> QED BY <2>3, <2>4, <2>5
<1>4. ASSUME NEW j \in Jobs \ lost' PROVE OnceOK(j)'
  <2>1. HeardOnce(j)' BY <1>1, <1>3, <1>4 DEF HeardOnce
  <2> QED BY <1>2, <2>1 DEF OnceOK
<1> QED BY <1>4 DEF OnceInv

\* However runs of a job overlap, what they told is remembered.
LEMMA OnceStep ==
  CodesApart /\ TypeOK /\ RunInv /\ EventsInv /\ ToldInv /\ OnceInv /\ [Next]_vars => OnceInv'
<1> SUFFICES ASSUME CodesApart, TypeOK, RunInv, EventsInv, ToldInv, OnceInv, [Next]_vars
             PROVE  OnceInv'
  OBVIOUS
<1>1. ASSUME NEW n \in Runs, Advances(n) PROVE OnceInv'
  <2>1. CASE Before(n)
    <3>1. \A m \in Runs : Processing(m)' => m # n BY <2>1 DEF Before
    <3>2. \A m \in Runs \ {n} : Kept(m) /\ (Processing(m)' <=> Processing(m))
      BY <1>1, OthersAreKept, KeptEvents
    <3>3. UNCHANGED <<issues, heard>> /\ lost \subseteq lost' /\ ~Processing(n)
      BY <2>1 DEF Before, alertVars
    <3> QED BY <3>1, <3>2, <3>3, OnceKept
  <2>2. CASE Loaded(n)
    <3>1. /\ \A m \in Runs : ~Processing(m)
          /\ Processing(n)' /\ pc'[n] = "events" /\ memory'[n] = issues
          /\ UNCHANGED <<runVars, issues, heard, lost>>
      BY <2>2, LoadedDoes
    <3>2. job[n] \in Jobs BY <2>2, HasJob DEF Loaded
    <3>3. ASSUME job[n] \notin lost PROVE HeardByRun(n)' /\ News(n)'
      <4>1. HeardOnce(job[n]) BY <3>1, <3>2, <3>3 DEF OnceInv, OnceOK
      <4>2. HeardByRun(n)' BY <3>1, <4>1 DEF HeardByRun, HeardOnce, runVars
      <4>3. News(n)' BY <3>1 DEF News
      <4> QED BY <4>2, <4>3
    <3> QED BY <1>1, <3>1, <3>3, OnceByRun DEF runVars
  <2> QED BY <1>1, <2>1, <2>2, StepsBefore, OnceByProcessEvent, OnceByDeliver, OnceBySave
<1>2. ASSUME NEW n \in Runs, Over(n) PROVE OnceInv'
  <2>1. /\ ~Processing(n)' /\ UNCHANGED <<issues, heard>>
        /\ lost' = IF Unsaved(n) THEN lost \cup {job[n]} ELSE lost
    BY <1>2, AfterOver
  <2>2. \A m \in Runs \ {n} : Kept(m) /\ (Processing(m)' <=> Processing(m))
    BY <1>2, OthersAreKept, KeptEvents
  <2>3. ASSUME Processing(n) PROVE job[n] \in lost' \/ HeardOnce(job[n])
    <3>1. job[n] \in Jobs /\ outcome[n] \in AllOutcomes \ {NoOutcome}
      <4>1. job[n] \in Jobs BY <2>3, HasJob DEF Processing
      <4>2. outcome[n] \in AllOutcomes \ {NoOutcome} BY <2>3 DEF Processing, RunInv, RunOK, TypeOK
      <4> QED BY <4>1, <4>2
    <3>2. CASE Unsaved(n) BY <2>1, <3>2
    <3>3. CASE job[n] \in lost BY <2>1, <3>3
    <3>4. CASE ~Unsaved(n) /\ job[n] \notin lost
      <4>1. Notified(n) /\ pc[n] # "release" BY <2>3, ProcessesAlone DEF Processing
      <4>2. outcome[n] = Skipped BY <3>1, <3>4, <4>1, OutcomeKinds DEF Unsaved
      <4>3. HeardByRun(n) BY <2>3, <3>1, <3>4 DEF OnceInv, OnceOK
      <4>4. \A i \in Issues : memory[n][i] = issues[i] BY <2>3, <4>2 DEF ToldInv, MemoryOK
      <4>5. HeardOnce(job[n])
        BY <3>1, <4>2, <4>3, <4>4, IssuesNameJob DEF HeardByRun, HeardOnce
      <4> QED BY <4>5
    <3> QED BY <3>2, <3>3, <3>4
  <2> QED BY <2>1, <2>2, <2>3, OnceKept
<1>3. CASE UNCHANGED vars
  <2>1. UNCHANGED <<pc, job, outcome, memory, events, event, recipients, issues, heard, lost>>
    BY <1>3 DEF vars, runVars, alertVars
  <2>2. \A m \in Runs : Processing(m)' <=> Processing(m) BY <2>1 DEF Processing
  <2> QED BY <2>1, <2>2, OnceKept
<1>4. ASSUME NEW j \in Jobs, NEW i \in Issues, NEW r \in Routes, CooldownElapses(j, i, r)
      PROVE  OnceInv'
  <2>1. /\ issues[i].told[r] = "recent" /\ stateLock = Nobody
        /\ issues' = [issues EXCEPT ![i] =
             [severity |-> issues[i].severity, told |-> [issues[i].told EXCEPT ![r] = "due"]]]
        /\ UNCHANGED <<pc, heard, lost>>
    BY <1>4 DEF CooldownElapses
  <2>2. \A m \in Runs : ~Processing(m) /\ ~Processing(m)'
    BY <2>1, RunsAssumption DEF RunInv, RunOK, Processing
  <2>3. ASSUME NEW k \in Issues, NEW q \in Routes, issues[k].told[q] # "no"
        PROVE  issues'[k].told[q] # "no"
    BY <2>1, <2>3 DEF TypeOK, IssueStates
  <2>4. ASSUME NEW k \in Jobs \ lost PROVE OnceOK(k)'
    <3>1. HeardOnce(k) BY <2>2 DEF OnceInv, OnceOK
    <3>2. HeardOnce(k)' BY <2>1, <2>3, <3>1, IssuesNameJob DEF HeardOnce
    <3> QED BY <2>2, <3>2 DEF OnceOK
  <2> QED BY <2>1, <2>4 DEF OnceInv
<1> QED BY <1>1, <1>2, <1>3, <1>4, Steps

\* A receiver is told of an issue once, and again only when it escalates, after
\* the cooldown, or when a run of the job could not save what it had told: runs
\* of jobs share state.json, overlap, skip, die and fail to deliver.
THEOREM IssuesAreToldOnce == ASSUME CodesApart PROVE Spec => []ToldOnce
<1>1. Init => OnceInv
  <2> SUFFICES ASSUME Init, NEW j \in Jobs PROVE OnceOK(j) BY DEF OnceInv
  <2>1. \A n \in Runs : ~Processing(n) BY DEF Init, Processing
  <2>2. ASSUME NEW i \in IssuesOf(j), NEW r \in Routes PROVE heard[i][r] = "never"
    BY IssuesNameJob DEF Init
  <2>3. HeardOnce(j) BY <2>2 DEF HeardOnce
  <2> QED BY <2>1, <2>3 DEF OnceOK
<1>2. TypeOK /\ RunInv /\ EventsInv /\ ToldInv /\ OnceInv /\ [Next]_vars => OnceInv' BY OnceStep
<1>3. OnceInv => ToldOnce
  <2> SUFFICES ASSUME OnceInv, NEW j \in Jobs \ lost, NEW i \in IssuesOf(j), NEW r \in Routes
               PROVE  heard[i][r] # "repeated"
    BY DEF ToldOnce
  <2>1. OnceOK(j) BY DEF OnceInv
  <2>2. CASE \E n \in Runs : Processing(n) /\ job[n] = j
    <3>1. PICK n \in Runs : Processing(n) /\ job[n] = j BY <2>2
    <3>2. HeardByRun(n) BY <2>1, <3>1 DEF OnceOK
    <3> QED BY <3>1, <3>2 DEF HeardByRun
  <2>3. CASE ~ \E n \in Runs : Processing(n) /\ job[n] = j
    <3>1. HeardOnce(j) BY <2>1, <2>3 DEF OnceOK
    <3> QED BY <3>1 DEF HeardOnce
  <2> QED BY <2>2, <2>3
<1> QED BY <1>1, <1>2, <1>3, Telling, PTL DEF Spec

-----------------------------------------------------------------------------
(* What state.json says. *)

\* The severity an event leaves its issue with.
Shown(e) == IF IsRecovery(e) THEN "none" ELSE e.severity

\* The issues say what the last run of the job observed.
Current(j) == \A e \in Derive(j, last[j]) : e.issue \in Issues => issues[e.issue].severity = Shown(e)

\* The owner of the job's lease is about to make them say it.
Pending(j) == \E n \in Runs : lease[j] = n /\ Unsaved(n)

CurrentOK(j) == last[j] # NoOutcome /\ ~Pending(j) => Current(j)

\* A run that is not saved yet owns its lease, unless its job is lost; what the
\* owner saves is what the job's last execution found.
UnsavedOK(n) ==
  Unsaved(n) =>
    /\ lease[job[n]] = n \/ job[n] \in lost
    /\ lease[job[n]] = n => last[job[n]] = outcome[n]

\* It has taken to its state whatever it has processed.
TakenOK(n) ==
  Processing(n) =>
    \A e \in Due(n) \ events[n] : e.issue \in Issues => memory[n][e.issue].severity = Shown(e)

CurrentInv ==
  /\ \A j \in Jobs \ lost : CurrentOK(j)
  /\ \A n \in Runs : UnsavedOK(n) /\ TakenOK(n)

\* What is kept of a run keeps it as saved or unsaved as it was.
LEMMA KeptUnsaved ==
  ASSUME NEW m \in Runs, Kept(m)
  PROVE  Unsaved(m)' <=> Unsaved(m)
  BY DEF Kept, Unsaved, Notified

\* Only runs that have been executed or could not be are unsaved.
LEMMA UnsavedHasJob ==
  ASSUME TypeOK, RunInv, NEW n \in Runs, Unsaved(n)
  PROVE  /\ job[n] \in Jobs /\ outcome[n] \notin {NoOutcome, Skipped}
         /\ pc[n] \in PCs \ {"idle", "done", "admit", "execute", "release"}
<1>1. outcome[n] \in AllOutcomes /\ pc[n] \in PCs BY DEF TypeOK
<1>2. outcome[n] \notin {NoOutcome, Skipped} BY <1>1, OutcomeKinds DEF Unsaved
<1>3. pc[n] \notin {"idle", "done", "admit", "execute"} BY <1>2 DEF RunInv, RunOK
<1>4. job[n] \in Jobs BY <1>3, HasJob
<1> QED BY <1>1, <1>2, <1>3, <1>4 DEF Unsaved

\* Whether a run has something left to save, after a step of it.
LEMMA UnsavedAfter ==
  ASSUME TypeOK, TypeOK', RunInv, RunInv', NEW n \in Runs, Advances(n)
  PROVE  \/ Unsaved(n)' /\ Unsaved(n) /\ UNCHANGED <<job, outcome, lease, last>>
         \/ Unsaved(n)' /\ Execute(n) /\ lease'[job'[n]] = n /\ last'[job'[n]] = outcome'[n]
         \/ Unsaved(n)' /\ LeaseFails(n) /\ lease'[job'[n]] # n /\ job'[n] \in lost'
         \/ ~Unsaved(n)'
<1> SUFFICES ASSUME Unsaved(n)' PROVE
         \/ Unsaved(n) /\ UNCHANGED <<job, outcome, lease, last>>
         \/ Execute(n) /\ lease'[job'[n]] = n /\ last'[job'[n]] = outcome'[n]
         \/ LeaseFails(n) /\ lease'[job'[n]] # n /\ job'[n] \in lost'
  OBVIOUS
<1>r. RunOK(n) BY DEF RunInv
<1>1. /\ outcome'[n] \notin {NoOutcome, Skipped}
      /\ pc'[n] \in PCs \ {"idle", "done", "admit", "execute", "release"}
  <2>1. outcome'[n] \in AllOutcomes /\ pc'[n] \in PCs BY DEF TypeOK
  <2>2. outcome'[n].result \notin {"none", "skipped"} /\ pc'[n] # "release" BY DEF Unsaved
  <2>3. outcome'[n] \notin {NoOutcome, Skipped} BY <2>1, <2>2, OutcomeKinds
  <2>4. pc'[n] \notin {"idle", "done", "admit", "execute"} BY <2>3 DEF RunInv, RunOK
  <2> QED BY <2>1, <2>2, <2>3, <2>4
<1>2. CASE StartRun(n) \/ AcquireLease(n)
  <2>1. pc'[n] \in {"admit", "execute"} BY <1>2 DEF StartRun, AcquireLease, Goto, TypeOK
  <2> QED BY <1>1, <2>1
<1>3. CASE Skip(n)
  <2>1. outcome'[n] = Skipped BY <1>3 DEF Skip, Set, TypeOK
  <2> QED BY <1>1, <2>1
<1>4. CASE LeaseFails(n)
  <2>1. pc[n] = "admit" /\ job' = job /\ lease' = lease /\ lost' = lost \cup {job[n]}
    BY <1>4 DEF LeaseFails
  <2>2. job[n] \in Jobs BY <2>1, HasJob
  <2>3. lease[job[n]] # n BY <1>r, <2>1, <2>2 DEF RunOK
  <2> QED BY <1>4, <2>1, <2>3
<1>5. CASE Execute(n)
  <2>1. PICK o \in Outcomes(job[n]) :
          /\ outcome' = Set(outcome, n, o)
          /\ last' = IF Notified(n) THEN Set(last, job[n], o) ELSE last
    BY <1>5 DEF Execute
  <2>2. pc[n] = "execute" /\ UNCHANGED <<job, origin, lease>> BY <1>5 DEF Execute
  <2>3. Notified(n) BY <2>2 DEF Unsaved, Notified
  <2>4. job[n] \in Jobs BY <2>2, HasJob
  <2>5. lease[job[n]] = n BY <1>r, <2>2 DEF RunOK
  <2>6. last'[job[n]] = outcome'[n] BY <2>1, <2>3, <2>4 DEF Set, TypeOK
  <2> QED BY <1>5, <2>2, <2>5, <2>6
<1>6. CASE ~(StartRun(n) \/ AcquireLease(n) \/ Skip(n) \/ LeaseFails(n) \/ Execute(n))
  <2>1. UNCHANGED <<job, origin, outcome, lease, last>> /\ pc[n] # "release"
    BY <1>6 DEF Advances, Recorded, Pruned, NothingToNotify, Loaded, ProcessEvent, Deliver, Save, runVars
  <2>2. Unsaved(n) BY <2>1 DEF Unsaved, Notified
  <2> QED BY <2>1, <2>2
<1> QED BY <1>2, <1>3, <1>4, <1>5, <1>6

\* What has been processed has been taken to the run's state.
LEMMA TakenStep ==
  ASSUME CodesApart, TypeOK, RunInv, EventsInv, CurrentInv,
         NEW n \in Runs, Advances(n) \/ Over(n), NEW m \in Runs
  PROVE  TakenOK(m)'
<1>1. CASE m # n
  <2>1. Kept(m) /\ (Processing(m)' <=> Processing(m)) /\ Due(m)' = Due(m)
    BY <1>1, OthersAreKept, KeptEvents
  <2> QED BY <2>1 DEF CurrentInv, TakenOK, Kept
<1>2. CASE m = n /\ ~Processing(n)' BY <1>2 DEF TakenOK
<1>3. CASE m = n /\ Loaded(n) BY <1>3, LoadedDoes DEF TakenOK
<1>4. CASE m = n /\ ProcessEvent(n)
  <2>1. PICK e \in events[n] :
          /\ e \in Due(n) /\ Due(n)' = Due(n)
          /\ events'[n] = events[n] \ {e}
          /\ memory'[n] = Remembered(memory[n], e)
          /\ Processing(n)
    BY <1>4, ProcessEventDoes
  <2>2. ASSUME NEW f \in Due(n) \ events'[n], f.issue \in Issues
        PROVE  memory'[n][f.issue].severity = Shown(f)
    <3>1. job[n] \in Jobs /\ (Alarm(f) \/ IsRecovery(f)) BY <2>1, <2>2, DueIssue
    <3>2. CASE f = e BY <2>1, <2>2, <3>1, <3>2, RememberedAfter DEF Shown, IsRecovery, Alarm
    <3>3. CASE f # e
      <4>1. f.issue # e.issue BY <2>1, <2>2, <3>1, <3>3, EventsApart DEF Due
      <4>2. memory'[n][f.issue] = memory[n][f.issue] BY <2>1, <2>2, <4>1, RememberedAfter
      <4>3. f \in Due(n) \ events[n] BY <2>1, <2>2, <3>3
      <4> QED BY <2>1, <2>2, <4>2, <4>3 DEF CurrentInv, TakenOK
    <3> QED BY <3>2, <3>3
  <2> QED BY <1>4, <2>1, <2>2 DEF TakenOK
<1>5. CASE m = n /\ Deliver(n)
  <2>1. PICK q \in recipients[n] :
          /\ Due(n)' = Due(n) /\ events' = events /\ Processing(n)
          /\ memory'[n] = Remember(n, event[n], q) \/ memory'[n] = memory[n]
    BY <1>5, DeliverDoes
  <2>2. memory[n] \in [Issues -> IssueStates] BY DEF TypeOK
  <2>3. \A i \in Issues : memory'[n][i].severity = memory[n][i].severity
    BY <2>1 DEF Remember, Delivered
  <2>4. TakenOK(n) BY DEF CurrentInv
  <2> QED BY <1>5, <2>1, <2>3, <2>4 DEF TakenOK
<1> QED BY <1>1, <1>2, <1>3, <1>4, <1>5, StepsBefore, SaveDoes, AfterOver DEF Before

\* A job is lost no more only when no run of it but the saving one is unsaved.
LEMMA LostAfter ==
  ASSUME TypeOK, RunInv, NEW n \in Runs, Advances(n) \/ Over(n), NEW j \in lost, j \notin lost'
  PROVE  /\ Save(n) /\ j = job[n] /\ lease[j] = n
         /\ \A m \in Runs \ {n} : job[m] = j => ~Unsaved(m)
<1>1. CASE Over(n) BY <1>1, AfterOver
<1>2. CASE Advances(n) /\ Before(n) BY <1>2 DEF Before
<1>3. CASE Advances(n) /\ (Loaded(n) \/ ProcessEvent(n) \/ Deliver(n))
  BY <1>3 DEF Loaded, ProcessEvent, Deliver
<1>4. CASE Save(n)
  <2>1. j \in Known(n) BY <1>4, SaveDoes
  <2> QED BY <1>4, <2>1 DEF Known
<1> QED BY <1>1, <1>2, <1>3, <1>4, StepsBefore

\* Only an execution changes what a job last observed, and its run owns the lease.
LEMMA LastAfter ==
  ASSUME TypeOK, RunInv, NEW n \in Runs, Advances(n) \/ Over(n), NEW j \in Jobs, last'[j] # last[j]
  PROVE  Execute(n) /\ j = job[n] /\ lease[j] = n
<1>1. CASE Over(n) BY <1>1, AfterOver
<1>2. CASE Execute(n)
  <2>1. pc[n] = "execute" BY <1>2 DEF Execute
  <2>2. job[n] \in Jobs BY <2>1, HasJob
  <2>3. lease[job[n]] = n BY <2>1 DEF RunInv, RunOK
  <2>4. j = job[n] BY <1>2, <2>2 DEF Execute, Set, TypeOK
  <2> QED BY <1>2, <2>3, <2>4
<1>3. CASE Advances(n) /\ ~Execute(n)
  BY <1>3 DEF Advances, StartRun, Skip, AcquireLease, LeaseFails, Recorded, Pruned, NothingToNotify,
              Loaded, ProcessEvent, Deliver, Save
<1> QED BY <1>1, <1>2, <1>3

\* Unsaved runs stay as they should be.
LEMMA UnsavedStep ==
  ASSUME TypeOK, RunInv, TypeOK', RunInv', CurrentInv,
         NEW n \in Runs, Advances(n) \/ Over(n), NEW m \in Runs
  PROVE  UnsavedOK(m)'
<1> SUFFICES ASSUME Unsaved(m)'
             PROVE  /\ lease'[job'[m]] = m \/ job'[m] \in lost'
                    /\ lease'[job'[m]] = m => last'[job'[m]] = outcome'[m]
  BY DEF UnsavedOK
<1>u. UnsavedOK(m) BY DEF CurrentInv
<1>1. CASE m # n
  <2>1. Kept(m) BY <1>1, OthersAreKept
  <2>2. Unsaved(m) BY <2>1, KeptUnsaved
  <2>3. job[m] \in Jobs BY <2>2, UnsavedHasJob
  <2>4. /\ job'[m] = job[m] /\ outcome'[m] = outcome[m] /\ (lease'[job[m]] = m <=> lease[job[m]] = m)
    BY <2>1, <2>3 DEF Kept
  <2>5. lease'[job[m]] = m \/ job[m] \in lost'
    BY <1>1, <1>u, <2>2, <2>4, LostAfter DEF UnsavedOK
  <2>6. lease[job[m]] = m => last'[job[m]] = last[job[m]] BY <1>1, <2>3, LastAfter
  <2> QED BY <1>u, <2>2, <2>4, <2>5, <2>6 DEF UnsavedOK
<1>2. CASE m = n /\ Over(n)
  <2>1. outcome'[n] = NoOutcome BY <1>2 DEF Over, EndWith, Set, TypeOK
  <2> QED BY <1>2, <2>1, OutcomeKinds DEF Unsaved, AllOutcomes
<1>3. CASE m = n /\ Advances(n)
  <2>1. CASE Unsaved(n) /\ UNCHANGED <<job, outcome, lease, last>>
    <3>1. ~Save(n) BY <1>3, SaveDoes DEF Unsaved
    <3>2. job[n] \in lost => job[n] \in lost' BY <1>3, <3>1, LostAfter
    <3> QED BY <1>3, <1>u, <2>1, <3>2 DEF UnsavedOK
  <2> QED BY <1>3, <2>1, UnsavedAfter
<1> QED BY <1>1, <1>2, <1>3

\* A run that has something to save keeps it until it saves or has no event.
LEMMA StaysUnsaved ==
  ASSUME TypeOK, RunInv, NEW n \in Runs, Unsaved(n), Advances(n)
  PROVE  \/ Unsaved(n)' /\ lease' = lease
         \/ Save(n)
         \/ Due(n) = {} /\ UNCHANGED <<issues, last>>
<1>1. pc[n] \in {"record", "prune", "notify", "events", "deliver"} BY UnsavedHasJob DEF PCs
<1>2. Notified(n) BY DEF Unsaved
<1>3. ASSUME UNCHANGED <<job, origin, outcome, lease>>, pc'[n] # "release"
      PROVE  Unsaved(n)' /\ lease' = lease
  BY <1>3 DEF Unsaved, Notified
<1>4. CASE Recorded(n) BY <1>3, <1>4 DEF Recorded, Goto, TypeOK, runVars
<1>5. CASE Pruned(n) BY <1>3, <1>5 DEF Pruned, Goto, TypeOK, runVars
<1>6. CASE Loaded(n) BY <1>3, <1>6 DEF Loaded, Goto, TypeOK, runVars
<1>7. CASE ProcessEvent(n) \/ Deliver(n)
  <2>1. UNCHANGED <<job, origin, outcome, lease>> /\ \E to \in {"events", "deliver"} : Goto(n, to)
    BY <1>7 DEF ProcessEvent, Deliver, Continue, runVars
  <2> QED BY <1>3, <2>1 DEF Goto, TypeOK
<1>8. CASE NothingToNotify(n) BY <1>2, <1>8 DEF NothingToNotify, Due, alertVars
<1> QED BY <1>1, <1>4, <1>5, <1>6, <1>7, <1>8
      DEF Advances, StartRun, Skip, AcquireLease, LeaseFails, Execute

\* The owner of a lease that executed has something to save, if anyone is told.
LEMMA ExecutedIsUnsaved ==
  ASSUME TypeOK, RunInv, NEW n \in Runs, Execute(n), last' # last
  PROVE  Unsaved(n)' /\ lease'[job[n]] = n
<1>1. PICK o \in Outcomes(job[n]) :
        /\ outcome' = Set(outcome, n, o)
        /\ last' = IF Notified(n) THEN Set(last, job[n], o) ELSE last
  BY DEF Execute
<1>2. pc[n] = "execute" /\ UNCHANGED <<job, origin, lease>> /\ pc'[n] = "record"
  BY DEF Execute, Goto, TypeOK
<1>3. job[n] \in Jobs BY <1>2, HasJob
<1>4. outcome'[n].result \notin {"none", "skipped"}
  <2>1. outcome'[n] = o BY <1>1 DEF Set, TypeOK
  <2> QED BY <1>3, <2>1, OutcomeResults
<1>5. lease[job[n]] = n BY <1>2 DEF RunInv, RunOK
<1> QED BY <1>1, <1>2, <1>4, <1>5 DEF Unsaved, Notified

\* Between saves, state.json goes on saying what the job last observed.
LEMMA CurrentElsewhere ==
  ASSUME TypeOK, RunInv, CurrentInv, NEW n \in Runs, Advances(n) \/ Over(n), ~Save(n),
         NEW j \in Jobs \ lost'
  PROVE  CurrentOK(j)'
<1> SUFFICES ASSUME last'[j] # NoOutcome, ~Pending(j)' PROVE Current(j)' BY DEF CurrentOK
<1>1. j \notin lost BY LostAfter
<1>2. issues' = issues
  <2>1. CASE Over(n) BY <2>1, AfterOver
  <2>2. CASE Advances(n)
    BY <2>2, StepsBefore DEF Before, alertVars, Loaded, ProcessEvent, Deliver
  <2> QED BY <2>1, <2>2
<1>3. last'[j] = last[j]
  <2> SUFFICES ASSUME last'[j] # last[j] PROVE FALSE OBVIOUS
  <2>1. Execute(n) /\ j = job[n] BY LastAfter
  <2>2. Pending(j)' BY <2>1, ExecutedIsUnsaved DEF Pending
  <2> QED BY <2>2
<1>4. Current(j) => Current(j)' BY <1>2, <1>3 DEF Current
<1>5. CASE ~Pending(j) BY <1>1, <1>3, <1>4, <1>5 DEF CurrentInv, CurrentOK
<1>6. CASE Pending(j)
  <2>1. PICK p \in Runs : lease[j] = p /\ Unsaved(p) BY <1>6 DEF Pending
  <2>2. p = n
    <3>1. p # n => Kept(p) BY OthersAreKept
    <3>2. p # n => Unsaved(p)' /\ lease'[j] = p BY <2>1, <3>1, KeptUnsaved DEF Kept
    <3> QED BY <3>2 DEF Pending
  <2>3. job[n] = j BY <2>1, <2>2 DEF RunInv, RunOK
  <2>4. ~Over(n) BY <2>1, <2>2, <2>3, AfterOver
  <2>5. Due(n) = {} BY <2>1, <2>2, <2>3, <2>4, StaysUnsaved DEF Pending
  <2>6. last[j] = outcome[n] BY <2>1, <2>2, <2>3 DEF CurrentInv, UnsavedOK
  <2>7. Current(j) BY <2>3, <2>5, <2>6 DEF Current, Due
  <2> QED BY <1>4, <2>7
<1> QED BY <1>5, <1>6

\* A save makes it say so.
LEMMA CurrentBySave ==
  ASSUME TypeOK, RunInv, EventsInv, ToldInv, CurrentInv, NEW n \in Runs, Save(n),
         NEW j \in Jobs \ lost'
  PROVE  CurrentOK(j)'
<1> SUFFICES ASSUME last'[j] # NoOutcome, ~Pending(j)' PROVE Current(j)' BY DEF CurrentOK
<1>1. /\ Processing(n) /\ events[n] = {} /\ issues' = memory[n] /\ lost' = lost \ Known(n)
      /\ UNCHANGED <<runVars, lease, last>>
  BY SaveDoes
<1>2. job[n] \in Jobs /\ outcome[n] \in AllOutcomes \ {NoOutcome}
  <2>1. job[n] \in Jobs BY <1>1, HasJob DEF Processing
  <2>2. outcome[n] \in AllOutcomes \ {NoOutcome} BY <1>1 DEF Processing, RunInv, RunOK, TypeOK
  <2> QED BY <2>1, <2>2
\* A job the save is not about says what it said.
<1>3. ASSUME lease[j] # n, j \notin lost,
             \A i \in Issues : i \in IssuesOf(j) => memory[n][i] = issues[i]
      PROVE  Current(j)'
  <2>1. ~Pending(j)
    <3>1. ASSUME NEW p \in Runs, lease[j] = p, Unsaved(p) PROVE FALSE
      <4>1. Unsaved(p)' BY <1>3, <3>1, OthersAreKept, KeptUnsaved DEF Advances
      <4> QED BY <1>1, <3>1, <4>1 DEF Pending
    <3> QED BY <3>1 DEF Pending
  <2>2. Current(j) BY <1>1, <1>3, <2>1 DEF CurrentInv, CurrentOK
  <2>3. ASSUME NEW e \in Derive(j, last[j]), e.issue \in Issues
        PROVE  memory[n][e.issue].severity = Shown(e)
    <3>1. e.issue \in IssuesOf(j) BY <2>3, DerivedIssue
    <3> QED BY <1>3, <2>2, <2>3, <3>1 DEF Current
  <2> QED BY <1>1, <2>3 DEF Current
<1>4. CASE j # job[n]
  <2>1. j \notin lost BY <1>1, <1>4 DEF Known
  <2>2. lease[j] # n BY <1>4 DEF RunInv, RunOK
  <2>3. ASSUME NEW i \in Issues, i \in IssuesOf(j) PROVE memory[n][i] = issues[i]
    <3>1. i \notin IssuesOf(job[n]) BY <1>2, <1>4, <2>3, IssuesApart
    <3> QED BY <1>1, <2>3, <3>1 DEF ToldInv, MemoryOK
  <2> QED BY <1>3, <2>1, <2>2, <2>3
<1>5. CASE j = job[n] /\ lease[j] # n
  <2>1. j \notin lost BY <1>1, <1>5 DEF Known
  <2>2. ~Unsaved(n) BY <1>5, <2>1 DEF CurrentInv, UnsavedOK
  <2>3. Notified(n) /\ pc[n] # "release" BY <1>1, ProcessesAlone DEF Processing
  <2>4. outcome[n] = Skipped BY <1>2, <2>2, <2>3, OutcomeKinds DEF Unsaved
  <2>5. \A i \in Issues : memory[n][i] = issues[i] BY <1>1, <2>4 DEF ToldInv, MemoryOK
  <2> QED BY <1>3, <1>5, <2>1, <2>5
<1>6. CASE j = job[n] /\ lease[j] = n
  <2>1. outcome[n] # Skipped BY <1>6 DEF RunInv, RunOK
  <2>2. Notified(n) /\ pc[n] # "release" BY <1>1, ProcessesAlone DEF Processing
  <2>3. Unsaved(n) BY <1>2, <2>1, <2>2, OutcomeKinds DEF Unsaved
  <2>4. last[j] = outcome[n] BY <1>6, <2>3 DEF CurrentInv, UnsavedOK
  <2>5. \A e \in Derive(j, last[j]) : e.issue \in Issues => memory[n][e.issue].severity = Shown(e)
    BY <1>1, <1>6, <2>4 DEF CurrentInv, TakenOK, Due
  <2> QED BY <1>1, <2>5 DEF Current
<1> QED BY <1>4, <1>5, <1>6

\* However runs of different jobs share state.json.
LEMMA CurrentStep ==
  CodesApart /\ TypeOK /\ RunInv /\ EventsInv /\ ToldInv /\ CurrentInv /\ [Next]_vars => CurrentInv'
<1> SUFFICES ASSUME CodesApart, TypeOK, RunInv, EventsInv, ToldInv, CurrentInv, [Next]_vars
             PROVE  CurrentInv'
  OBVIOUS
<1>1. TypeOK' /\ RunInv' BY TypesStep
<1>2. ASSUME NEW n \in Runs, Advances(n) \/ Over(n) PROVE CurrentInv'
  <2>1. \A m \in Runs : UnsavedOK(m)' /\ TakenOK(m)' BY <1>1, <1>2, UnsavedStep, TakenStep
  <2>2. \A j \in Jobs \ lost' : CurrentOK(j)' BY <1>2, CurrentElsewhere, CurrentBySave
  <2> QED BY <2>1, <2>2 DEF CurrentInv
<1>3. ASSUME UNCHANGED <<pc, job, origin, outcome, lease, memory, events, last, lost>>,
             \A i \in Issues : issues'[i].severity = issues[i].severity
      PROVE  CurrentInv'
  <2>1. \A n \in Runs : (Unsaved(n)' <=> Unsaved(n)) /\ (Processing(n)' <=> Processing(n)) /\ Due(n)' = Due(n)
    BY <1>3 DEF Unsaved, Notified, Processing, Due
  <2>2. \A n \in Runs : UnsavedOK(n)' /\ TakenOK(n)'
    BY <1>3, <2>1 DEF CurrentInv, UnsavedOK, TakenOK
  <2>3. \A j \in Jobs : (Pending(j)' <=> Pending(j)) /\ (Current(j) => Current(j)')
    BY <1>3, <2>1 DEF Pending, Current
  <2>4. \A j \in Jobs \ lost : CurrentOK(j)' BY <1>3, <2>3 DEF CurrentInv, CurrentOK
  <2> QED BY <1>3, <2>2, <2>4 DEF CurrentInv
<1>4. CASE UNCHANGED vars BY <1>3, <1>4 DEF vars, runVars, alertVars
<1>5. ASSUME NEW j \in Jobs, NEW i \in Issues, NEW r \in Routes, CooldownElapses(j, i, r)
      PROVE  CurrentInv'
  <2>1. \A k \in Issues : issues'[k].severity = issues[k].severity
    BY <1>5 DEF CooldownElapses, TypeOK
  <2> QED BY <1>3, <1>5, <2>1 DEF CooldownElapses, runVars
<1> QED BY <1>2, <1>4, <1>5, Steps

\* Between runs of a job, state.json says of each of its issues what its last
\* run observed, unless a run could not save its alerts: runs of other jobs
\* write the same file, and the owner of the lease may be overtaken by skipped
\* and failed runs.
THEOREM AlertsAreCurrent == ASSUME CodesApart PROVE Spec => []AlertIsCurrent
<1>1. Init => CurrentInv
  <2> SUFFICES ASSUME Init PROVE CurrentInv OBVIOUS
  <2>1. \A n \in Runs : pc[n] = "idle" /\ outcome[n] = NoOutcome BY DEF Init
  <2>2. \A n \in Runs : ~Unsaved(n) /\ ~Processing(n)
    BY <2>1, OutcomeKinds DEF Unsaved, Processing, AllOutcomes
  <2>3. \A j \in Jobs : last[j] = NoOutcome BY DEF Init
  <2> QED BY <2>2, <2>3 DEF CurrentInv, CurrentOK, UnsavedOK, TakenOK
<1>2. TypeOK /\ RunInv /\ EventsInv /\ ToldInv /\ CurrentInv /\ [Next]_vars => CurrentInv'
  BY CurrentStep
<1>3. CurrentInv => AlertIsCurrent
  <2> SUFFICES ASSUME CurrentInv, NEW j \in Jobs, lease[j] = Nobody, j \notin lost, last[j] # NoOutcome
               PROVE  Current(j)
    BY DEF AlertIsCurrent, Current, Shown
  <2>1. ~Pending(j) BY RunsAssumption DEF Pending
  <2> QED BY <2>1 DEF CurrentInv, CurrentOK
<1> QED BY <1>1, <1>2, <1>3, Telling, PTL DEF Spec

=============================================================================
