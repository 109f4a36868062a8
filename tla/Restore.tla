------------------------------- MODULE Restore -------------------------------
(***************************************************************************)
(* `bebop backup restore` into the declared data of the services of one     *)
(* target (internal/cli/backup.go, internal/backup/restore.go): plan,       *)
(* review, plan again, and ApplyRestore under the apply lock, which stops a *)
(* running service, fills its empty destinations and starts it again.       *)
(*                                                                         *)
(* The policy is "empty-only".  It is kept by looking, not by a transaction *)
(* of the target: what was seen may have changed when it is used.           *)
(***************************************************************************)
EXTENDS Naturals, FiniteSets

CONSTANTS
  Restores,      \* processes, each restoring one snapshot once
  RootSessions,  \* those whose SSH user is root; the others use sudo -n
  Services,      \* services that declare data, numbered in name order
  Data,          \* per service: its data resources, numbered in manifest order
  Request,       \* per restore: the services of its plan, one or all
  Nobody,        \* the lock is free
  Faults         \* per restore: which faults it may meet

ASSUME RestoresAssumption ==
  /\ RootSessions \subseteq Restores
  /\ Nobody \notin Restores

ASSUME ServicesAssumption ==
  /\ Services \subseteq Nat
  /\ Data \in [Services -> (SUBSET Nat) \ {{}}]
  /\ Request \in [Restores -> (SUBSET Services) \ {{}}]

\* "script":  a remote command fails        "session":   an SSH connection is lost
\* "timeout": the command's context expires "retention": a snapshot is deleted
\* "crash":   the controller process dies
ASSUME FaultsAssumption ==
  Faults \in [Restores -> SUBSET {"script", "session", "timeout", "crash", "retention"}]

VARIABLES
  pc,        \* where each restore stands in cli.backupRestore and ApplyRestore
  result,    \* what ApplyRestore returned
  facts,     \* reviewed plan: runtime per service
  found,     \* reviewed plan: DeploymentPresent per service
  seen,      \* reviewed plan: Exists and Empty per destination
  known,     \* observed by properties: services whose facts still held at the lock
  handled,   \* services that are done
  filled,    \* resources of the current service that are done
  stopped,   \* this restore stopped the current service
  failed,    \* restoreErr
  live,      \* the context has not expired
  holder,    \* who owns the apply lock
  script,    \* its commands on the target, with those nobody waits for any more
  runtime,   \* per service: are its containers running
  deployed,  \* per service: `current` is an active deployment
  data       \* per destination: what is in it

planVars == <<facts, found, seen>>
applyVars == <<result, known, handled, filled, stopped, failed>>
lockVars == <<holder, script, live>>
targetVars == <<runtime, deployed, data>>
vars == <<pc, planVars, applyVars, lockVars, targetVars>>

Resources == UNION {Data[s] : s \in Services}
Runtimes == {"running", "stopped"}

\* "own" is data of the application or a user; "part" and "whole" are an
\* extraction into what was empty; "mixed" is one that met other data.
Contents == {"missing", "empty", "own", "part", "whole", "mixed"}

Locked == {"next", "stopping", "check", "create", "extracting", "after", "restarting",
           "release"}
PCs == {"review", "lock", "done"} \cup Locked

ComposeScript == [kind : {"stop", "up"}, service : Services, phase : {"run", "ok", "failed"}]
Extraction == [kind : {"extract"}, service : Services, resource : Resources,
               phase : {"run", "write", "ok", "failed"}]

TypeOK ==
  /\ pc \in [Restores -> PCs]
  /\ result \in [Restores -> {"none", "ok", "failed", "stop failed", "restart failed"}]
  /\ facts \in [Restores -> [Services -> Runtimes]]
  /\ found \in [Restores -> [Services -> BOOLEAN]]
  /\ seen \in [Restores -> [Services -> [Resources -> {"missing", "empty", "full"}]]]
  /\ known \in [Restores -> SUBSET Services]
  /\ handled \in [Restores -> SUBSET Services]
  /\ filled \in [Restores -> SUBSET Resources]
  /\ stopped \in [Restores -> BOOLEAN]
  /\ failed \in [Restores -> BOOLEAN]
  /\ holder \in Restores \cup {Nobody}
  /\ script \in [Restores -> SUBSET (ComposeScript \cup Extraction)]
  /\ live \in [Restores -> BOOLEAN]
  /\ runtime \in [Services -> Runtimes]
  /\ deployed \in [Services -> BOOLEAN]
  /\ data \in [Services -> [Resources -> Contents]]

AllStopped == [s \in Services |-> "stopped"]
NotFound == [s \in Services |-> FALSE]
NothingSeen == [s \in Services |-> [r \in Resources |-> "missing"]]

\* A restore starts with BuildRestorePlan, for review.  It changes nothing, and
\* a destination that is not empty does not end it but is shown as blocked.
Init ==
  /\ pc = [b \in Restores |-> "review"]
  /\ result = [b \in Restores |-> "none"]
  /\ facts = [b \in Restores |-> AllStopped]
  /\ found = [b \in Restores |-> NotFound]
  /\ seen = [b \in Restores |-> NothingSeen]
  /\ known = [b \in Restores |-> {}]
  /\ handled = [b \in Restores |-> {}]
  /\ filled = [b \in Restores |-> {}]
  /\ stopped = [b \in Restores |-> FALSE]
  /\ failed = [b \in Restores |-> FALSE]
  /\ holder = Nobody
  /\ script = [b \in Restores |-> {}]
  /\ live = [b \in Restores |-> TRUE]
  /\ runtime = AllStopped
  /\ deployed = NotFound
  /\ data = NothingSeen

-----------------------------------------------------------------------------
(* Plan, review and plan again, before the lock. *)

Goto(b, label) == pc' = [pc EXCEPT ![b] = label]
Set(f, b, value) == [f EXCEPT ![b] = value]
LeastOf(set) == CHOOSE x \in set : \A y \in set : x <= y

\* The process is over: its memory is gone and its lock is free.
End(b) ==
  /\ Goto(b, "done")
  /\ result' = Set(result, b, "none")
  /\ facts' = Set(facts, b, AllStopped)
  /\ found' = Set(found, b, NotFound)
  /\ seen' = Set(seen, b, NothingSeen)
  /\ known' = Set(known, b, {})
  /\ handled' = Set(handled, b, {})
  /\ filled' = Set(filled, b, {})
  /\ stopped' = Set(stopped, b, FALSE)
  /\ failed' = Set(failed, b, FALSE)
  /\ live' = Set(live, b, TRUE)
  /\ holder' = IF holder = b THEN Nobody ELSE holder
  /\ UNCHANGED <<script, targetVars>>

\* What inspection says of a service a restore is for: probes of the data
\* root run without privilege.
RuntimeFacts(b) == [s \in Services |-> IF s \in Request[b] THEN runtime[s] ELSE "stopped"]
DeploymentFacts(b) ==
  [s \in Services |-> s \in Request[b] /\ deployed[s] /\ b \in RootSessions]

\* destinationState: with privilege, without telling data from data.
State(s, r) ==
  IF data[s][r] \in {"missing", "empty"} THEN data[s][r] ELSE "full"
Destinations(b) ==
  [s \in Services |-> [r \in Resources |->
     IF s \in Request[b] /\ r \in Data[s] THEN State(s, r) ELSE "missing"]]

\* The user confirms and BuildRestorePlan plans again.  The new plan has
\* to have the fingerprint of the reviewed one, which covers all that
\* inspection saw: so the facts in use are those of this moment.
Rebuild(b) ==
  /\ pc[b] = "review"
  /\ facts' = Set(facts, b, RuntimeFacts(b))
  /\ found' = Set(found, b, DeploymentFacts(b))
  /\ seen' = Set(seen, b, Destinations(b))
  /\ Goto(b, "lock")
  /\ UNCHANGED <<applyVars, lockVars, targetVars>>

\* The user says no, the plan is stale by now, the snapshot does not verify,
\* an inspection fails, the context expires, or flock -n finds the lock taken.
NotStarted(b) == pc[b] \in {"review", "lock"} /\ End(b)

\* A script on its way may still change its service, and so may a restore
\* that lost the lock and does not know.
Unsettled(s) ==
  \E c \in Restores : \/ \E x \in script[c] : x.service = s
                      \/ pc[c] \in Locked /\ s \in Request[c]

\* ApplyRestore verifies the snapshot once more and takes the lock.
LockGranted(b) ==
  /\ pc[b] = "lock" /\ holder = Nobody
  /\ holder' = b
  /\ known' = Set(known, b,
       {s \in Request[b] : /\ ~Unsettled(s)
                           /\ facts[b][s] = runtime[s]
                           /\ found[b][s] = DeploymentFacts(b)[s]})
  /\ Goto(b, "next")
  /\ UNCHANGED <<planVars, result, handled, filled, stopped, failed, script, live, targetVars>>

-----------------------------------------------------------------------------
(* ApplyRestore under the lock. *)

Return(b, outcome) ==
  /\ Goto(b, "release")
  /\ result' = Set(result, b, outcome)

Rest(b) == Request[b] \ handled[b]
Current(b) == LeastOf(Rest(b))

Start(b, x) == script' = Set(script, b, script[b] \cup {x})
Ended(b, x) == script' = Set(script, b, script[b] \ {x})
Launch(b, kind) == Start(b, [kind |-> kind, service |-> Current(b), phase |-> "run"])

\* The top of the loop over the selected services: one that ran when it was
\* inspected is stopped before its destinations are looked at.
NextService(b) ==
  /\ pc[b] = "next" /\ Rest(b) # {}
  /\ IF facts[b][Current(b)] = "running"
     THEN /\ live[b] /\ Launch(b, "stop") /\ Goto(b, "stopping")
          /\ UNCHANGED result
     ELSE /\ Goto(b, "check")
          /\ UNCHANGED <<script, result>>
  /\ UNCHANGED <<planVars, known, handled, filled, stopped, failed, holder, live, targetVars>>

\* ensureHelper fails, or the configuration no longer resolves.
HelperMissing(b) ==
  /\ pc[b] = "next" /\ handled[b] = {}
  /\ ~live[b] \/ "script" \in Faults[b]
  /\ Return(b, "failed")
  /\ UNCHANGED <<planVars, known, handled, filled, stopped, failed, lockVars, targetVars>>

StopReturned(b) ==
  /\ pc[b] = "stopping"
  /\ \E x \in script[b] :
       /\ x.kind = "stop" /\ Ended(b, x)
       /\ \/ /\ x.phase = "ok"
             /\ stopped' = Set(stopped, b, TRUE)
             /\ Goto(b, "check")
             /\ UNCHANGED result
          \/ /\ x.phase = "failed"
             /\ Return(b, "stop failed")
             /\ UNCHANGED stopped
  /\ UNCHANGED <<planVars, known, handled, filled, failed, holder, live, targetVars>>

Unfilled(b) == Data[Current(b)] \ filled[b]
Destination(b) == LeastOf(Unfilled(b))

\* restoreServiceResources returns an error.
RestoreFails(b) ==
  /\ Goto(b, "after")
  /\ failed' = Set(failed, b, TRUE)

\* Mutant: the service and the resource are swapped.
MutOpenArchive(b) ==
  /\ Start(b, [kind |-> "extract", service |-> Destination(b), resource |-> Current(b), phase |-> "run"])
  /\ Goto(b, "extracting")
  /\ UNCHANGED failed

\* OpenArchive, then the helper container is started with the archive as
\* its input.  The snapshot may have been deleted.
OpenArchive(b) ==
  \/ /\ Start(b, [kind |-> "extract", service |-> Current(b), resource |-> Destination(b), phase |-> "run"])
     /\ Goto(b, "extracting")
     /\ UNCHANGED failed
  \/ /\ "retention" \in Faults[b]
     /\ RestoreFails(b)
     /\ UNCHANGED script

\* Mutant: only a change since the review is refused.
MutAcceptable(b) ==
  State(Current(b), Destination(b)) = seen[b][Current(b)][Destination(b)]

\* The destination has to be as it was reviewed, and not hold anything.
Acceptable(b) ==
  /\ State(Current(b), Destination(b)) = seen[b][Current(b)][Destination(b)]
  /\ State(Current(b), Destination(b)) # "full"

CheckDestination(b) ==
  /\ pc[b] = "check"
  /\ \/ /\ live[b] /\ Acceptable(b)
        /\ IF State(Current(b), Destination(b)) = "missing"
           THEN Goto(b, "create") /\ UNCHANGED <<failed, script>>
           ELSE OpenArchive(b)
     \/ /\ ~live[b] \/ ~Acceptable(b) \/ "script" \in Faults[b]
        /\ RestoreFails(b)
        /\ UNCHANGED script
  /\ UNCHANGED <<planVars, result, known, handled, filled, stopped, holder, live, targetVars>>

Put(s, r, content) == data' = [data EXCEPT ![s][r] = content]

CreateDestination(b) ==
  /\ pc[b] = "create"
  /\ \/ /\ live[b]
        /\ Put(Current(b), Destination(b),
               IF State(Current(b), Destination(b)) = "missing" THEN "empty" ELSE data[Current(b)][Destination(b)])
        /\ OpenArchive(b)
     \/ /\ ~live[b] \/ "script" \in Faults[b]
        /\ RestoreFails(b)
        /\ UNCHANGED <<data, script>>
  /\ UNCHANGED <<planVars, result, known, handled, filled, stopped, holder, live, runtime, deployed>>

\* Mutant: the outcome of the extraction is not looked at.
MutExtractReturned(b) ==
  /\ pc[b] = "extracting"
  /\ \E x \in script[b] :
       /\ x.kind = "extract" /\ x.phase \in {"ok", "failed"} /\ Ended(b, x)
       /\ filled' = Set(filled, b, filled[b] \cup {x.resource})
       /\ Goto(b, IF Unfilled(b) = {x.resource} THEN "after" ELSE "check")
  /\ UNCHANGED <<planVars, result, known, handled, stopped, failed, holder, live, targetVars>>

ExtractReturned(b) ==
  /\ pc[b] = "extracting"
  /\ \E x \in script[b] :
       /\ x.kind = "extract" /\ Ended(b, x)
       /\ \/ /\ x.phase = "ok"
             /\ filled' = Set(filled, b, filled[b] \cup {x.resource})
             /\ Goto(b, IF Unfilled(b) = {x.resource} THEN "after" ELSE "check")
             /\ UNCHANGED failed
          \/ /\ x.phase = "failed"
             /\ RestoreFails(b)
             /\ UNCHANGED filled
  /\ UNCHANGED <<planVars, result, known, handled, stopped, holder, live, targetVars>>

\* Nobody waits for a command any more, but it goes on.
StopWaiting(b) ==
  /\ \/ pc[b] = "stopping" /\ Return(b, "stop failed") /\ UNCHANGED failed
     \/ pc[b] = "restarting" /\ Return(b, "restart failed") /\ UNCHANGED failed
     \/ pc[b] = "extracting" /\ RestoreFails(b) /\ UNCHANGED result
  /\ UNCHANGED <<planVars, known, handled, filled, stopped, lockVars, targetVars>>

\* Mutant: the recovery restart is waited for without the context.
MutWaitExpires(b) == ~live[b] /\ pc[b] # "restarting" /\ StopWaiting(b)

WaitExpires(b) ==
  /\ ~live[b]
  /\ \/ StopWaiting(b)
     \/ /\ pc[b] = "next" /\ Rest(b) # {} /\ facts[b][Current(b)] = "running"
        /\ Return(b, "stop failed")
        /\ UNCHANGED <<planVars, known, handled, filled, stopped, failed, lockVars, targetVars>>

\* The end of the loop's body for the current service.
ServiceDone(b) ==
  /\ IF failed[b]
     THEN Return(b, "failed") /\ UNCHANGED handled
     ELSE /\ Goto(b, "next")
          /\ handled' = Set(handled, b, handled[b] \cup {Current(b)})
          /\ UNCHANGED result
  /\ filled' = Set(filled, b, {})
  /\ stopped' = Set(stopped, b, FALSE)

\* Mutant: only a service that was restored is started again.
MutRestarts(b) == stopped[b] /\ found[b][Current(b)] /\ ~failed[b]

\* A service it stopped is started again if its deployment was found.
Restarts(b) == stopped[b] /\ found[b][Current(b)]

AfterResources(b) ==
  /\ pc[b] = "after"
  /\ IF Restarts(b)
     THEN /\ IF live[b] THEN Launch(b, "up") /\ Goto(b, "restarting") /\ UNCHANGED result
                        ELSE Return(b, "restart failed") /\ UNCHANGED script
          /\ UNCHANGED <<handled, filled, stopped>>
     ELSE ServiceDone(b) /\ UNCHANGED script
  /\ UNCHANGED <<planVars, known, failed, holder, live, targetVars>>

\* `compose up` and Compose.Verify: the service has to run.
RestartReturned(b) ==
  /\ pc[b] = "restarting"
  /\ \E x \in script[b] :
       /\ x.kind = "up" /\ Ended(b, x)
       /\ \/ /\ x.phase = "ok" /\ runtime[Current(b)] = "running"
             /\ ServiceDone(b)
          \/ /\ \/ x.phase = "failed"
                \/ x.phase = "ok" /\ (runtime[Current(b)] # "running" \/ "script" \in Faults[b])
             /\ Return(b, "restart failed")
             /\ UNCHANGED <<handled, filled, stopped>>
  /\ UNCHANGED <<planVars, known, failed, holder, live, targetVars>>

AllRestored(b) ==
  /\ pc[b] = "next" /\ Rest(b) = {}
  /\ Return(b, "ok")
  /\ UNCHANGED <<planVars, known, handled, filled, stopped, failed, lockVars, targetVars>>

\* The deferred Release.  What follows, the ordinary plan and apply, is a
\* command of its own.
Release(b) == pc[b] = "release" /\ End(b)

-----------------------------------------------------------------------------
(* The target, and what others do to it. *)

\* A command comes to its next phase.
InPhase(x, phase) ==
  IF x.kind = "extract"
  THEN [kind |-> "extract", service |-> x.service, resource |-> x.resource, phase |-> phase]
  ELSE [kind |-> x.kind, service |-> x.service, phase |-> phase]
Phase(b, x, phase) == script' = Set(script, b, (script[b] \ {x}) \cup {InPhase(x, phase)})

\* The one the restore waits for.
Awaited(b, x) ==
  <<pc[b], x.kind>> \in {<<"stopping", "stop">>, <<"extracting", "extract">>, <<"restarting", "up">>}

\* Docker brings the service to what was asked, or leaves it down; without
\* an active deployment the command fails before it does anything.
ComposeRuns(b) ==
  /\ \E x \in script[b] :
       /\ x.kind \in {"stop", "up"} /\ x.phase = "run"
       /\ \/ /\ ~deployed[x.service]
             /\ Phase(b, x, "failed")
             /\ UNCHANGED runtime
          \/ /\ deployed[x.service]
             /\ \E rt \in Runtimes, phase \in {"ok"} \cup (IF "script" \in Faults[b] THEN {"failed"} ELSE {}) :
                  /\ x.kind = "stop" /\ phase = "ok" => rt = "stopped"
                  /\ runtime' = [runtime EXCEPT ![x.service] = rt]
                  /\ Phase(b, x, phase)
  /\ UNCHANGED <<pc, planVars, applyVars, holder, live, deployed, data>>

\* tar writes the first of its files ...
ExtractBegins(b) ==
  /\ \E x \in script[b] :
       /\ x.kind = "extract" /\ x.phase = "run" /\ Phase(b, x, "write")
       /\ Put(x.service, x.resource,
              IF data[x.service][x.resource] \in {"missing", "empty"} THEN "part" ELSE "mixed")
  /\ UNCHANGED <<pc, planVars, applyVars, holder, live, runtime, deployed>>

\* ... and the last.  Cut off from its controller, it ends when its input does.
ExtractEnds(b) ==
  /\ \E x \in script[b] :
       /\ x.kind = "extract" /\ x.phase = "write"
       /\ \/ /\ Phase(b, x, "ok")
             /\ Put(x.service, x.resource,
                    IF data[x.service][x.resource] = "part" THEN "whole" ELSE data[x.service][x.resource])
          \/ /\ ~Awaited(b, x) \/ "script" \in Faults[b]
             /\ Phase(b, x, "failed")
             /\ UNCHANGED data
  /\ UNCHANGED <<pc, planVars, applyVars, holder, live, runtime, deployed>>

\* The helper does not start.
ExtractFails(b) ==
  /\ \E x \in script[b] :
       /\ x.kind = "extract" /\ x.phase = "run"
       /\ ~Awaited(b, x) \/ "script" \in Faults[b]
       /\ Phase(b, x, "failed")
  /\ UNCHANGED <<pc, planVars, applyVars, holder, live, targetVars>>

OrphanEnds(b) ==
  /\ \E x \in script[b] : x.phase \in {"ok", "failed"} /\ ~Awaited(b, x) /\ Ended(b, x)
  /\ UNCHANGED <<pc, planVars, applyVars, holder, live, targetVars>>

Extracting(s, r) ==
  \E b \in Restores : \E x \in script[b] :
    x.kind = "extract" /\ x.phase = "write" /\ x.service = s /\ x.resource = r

\* A running application writes to its data, also while it is being restored.
ApplicationWrites(s, r) ==
  /\ runtime[s] = "running"
  /\ data[s][r] = "empty" \/ (data[s][r] = "part" /\ Extracting(s, r))
  /\ Put(s, r, IF data[s][r] = "empty" THEN "own" ELSE "mixed")
  /\ UNCHANGED <<pc, planVars, applyVars, lockVars, runtime, deployed>>

\* Another command, which needs the lock, deploys, starts, stops or removes.
OtherCommand(s) ==
  /\ holder = Nobody
  /\ \E rt \in Runtimes, present \in BOOLEAN :
       /\ runtime' = [runtime EXCEPT ![s] = rt]
       /\ deployed' = [deployed EXCEPT ![s] = present]
       /\ data' = [data EXCEPT ![s] = [r \in Resources |->
            IF rt = "running" /\ r \in Data[s] /\ data[s][r] = "missing" THEN "empty" ELSE data[s][r]]]
  /\ UNCHANGED <<pc, planVars, applyVars, lockVars>>

-----------------------------------------------------------------------------
(* Faults. *)

\* The context expires: its SSH clients are killed, the lock's among them.
Timeout(b) ==
  /\ "timeout" \in Faults[b]
  /\ live[b] /\ pc[b] \in Locked
  /\ live' = Set(live, b, FALSE)
  /\ holder' = IF holder = b THEN Nobody ELSE holder
  /\ UNCHANGED <<pc, planVars, applyVars, script, targetVars>>

ConnectionLost(b) == "session" \in Faults[b] /\ StopWaiting(b)

\* ApplyRestore does not notice that its lock session is gone.
LockLost(b) ==
  /\ "session" \in Faults[b]
  /\ holder = b
  /\ holder' = Nobody
  /\ UNCHANGED <<pc, planVars, applyVars, script, live, targetVars>>

Crash(b) ==
  /\ "crash" \in Faults[b]
  /\ pc[b] # "done"
  /\ End(b)

-----------------------------------------------------------------------------
\* What the controller does by itself, without the user.
Controller(b) ==
  \/ LockGranted(b) \/ (pc[b] = "lock" /\ NotStarted(b))
  \/ HelperMissing(b) \/ NextService(b) \/ StopReturned(b) \/ WaitExpires(b)
  \/ CheckDestination(b) \/ CreateDestination(b) \/ ExtractReturned(b)
  \/ AfterResources(b) \/ RestartReturned(b) \/ AllRestored(b) \/ Release(b)

Environment ==
  \E s \in Services : OtherCommand(s) \/ \E r \in Data[s] : ApplicationWrites(s, r)

Next ==
  \/ \E b \in Restores :
       \/ Rebuild(b) \/ NotStarted(b) \/ Controller(b)
       \/ ComposeRuns(b) \/ ExtractBegins(b) \/ ExtractEnds(b) \/ ExtractFails(b) \/ OrphanEnds(b)
       \/ Timeout(b) \/ ConnectionLost(b) \/ LockLost(b) \/ Crash(b)
  \/ Environment

Spec == Init /\ [][Next]_vars

\* A process is scheduled while it lives, and its context has a deadline
\* (applyTimeout).  A remote command may hang for ever.
Fairness == \A b \in Restores : WF_vars(Controller(b)) /\ WF_vars(Timeout(b))

FairSpec == Spec /\ Fairness

-----------------------------------------------------------------------------
(* Properties. *)

\* "empty-only": while a restore owns the lock, no extraction meets other data
\* in a service whose state it knew, be it data of a user or of the service.
\* It lasts until a failed restore starts the service again: an extraction it
\* lost may not have ended by then.
EmptyOnly ==
  [][\A b \in Restores : holder = b /\ (failed[b] => pc[b] = "after") =>
       \A s \in known[b] : \A r \in Data[s] : data'[s][r] = "mixed" => data[s][r] = "mixed"]_vars

\* What ApplyRestore reports as restored is there, whole, whoever else wrote.
RestoredIsWhole ==
  \A b \in Restores : pc[b] = "release" /\ holder = b /\ result[b] = "ok" =>
    \A s \in known[b] : \A r \in Data[s] : data[s][r] = "whole"

\* Whatever fails, a restore that still owns the lock leaves each service as
\* it was, or its error says that a stop or the recovery restart failed.
LeftAsFound ==
  \A b \in Restores \cap RootSessions :
    pc[b] = "release" /\ holder = b /\ result[b] \notin {"stop failed", "restart failed"} =>
      \A s \in known[b] : runtime[s] = facts[b][s]

\* A confirmed restore with a deadline ends, although remote commands may hang.
RestoreEnds ==
  \A b \in Restores : "timeout" \in Faults[b] => (pc[b] = "lock" ~> pc[b] = "done")
=============================================================================
