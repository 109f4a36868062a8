---------------------------- MODULE RestoreProofs ----------------------------
(* Theorems about Restore for any restores, services, data and faults. *)
EXTENDS Restore, LeastNumber, TLAPS

\* A choice of the least element finds it.
LEMMA LeastIsLeast ==
  ASSUME NEW T \in SUBSET Nat, T # {}
  PROVE  LeastOf(T) \in T
BY LeastNumberExists DEF LeastOf

-----------------------------------------------------------------------------
(* What a restore knows of itself, whoever has the lock. *)

Before == {"review", "lock"}
InService == {"stopping", "check", "create", "extracting", "after", "restarting"}
OnDestination == {"check", "create", "extracting"}

\* The loop: what was asked for, what is done, and what is left of the current service.
LoopOK(b) ==
  /\ known[b] \subseteq Request[b] /\ handled[b] \subseteq Request[b]
  /\ pc[b] \in Before => handled[b] = {} /\ script[b] = {}
  /\ pc[b] \in Before \cup {"next", "stopping"} => filled[b] = {} /\ ~stopped[b] /\ ~failed[b]
  /\ pc[b] \in InService => Rest(b) # {}
  /\ pc[b] \in OnDestination => Unfilled(b) # {} /\ ~failed[b]
  /\ pc[b] \in {"after", "restarting"} /\ ~failed[b] => Unfilled(b) = {}
  /\ pc[b] = "release" /\ result[b] = "ok" => Rest(b) = {}
  /\ holder = b => pc[b] \in Locked

\* Its commands on the target, which may have outlived the wait for them.
Stays(b, x) ==
  IF x.kind = "extract"
  THEN /\ x.resource \in Data[x.service]
       /\ pc[b] # "done" => x.resource \notin filled[b]
       /\ \/ pc[b] = "extracting"
          \/ pc[b] \in {"after", "restarting"} /\ failed[b]
          \/ pc[b] = "release" /\ failed[b] /\ result[b] # "ok"
          \/ pc[b] = "done"
  ELSE \/ pc[b] = "stopping" /\ x.kind = "stop"
       \/ pc[b] = "restarting" /\ x.kind = "up"
       \/ pc[b] = "release" /\ result[b] \in {"stop failed", "restart failed"}
       \/ pc[b] = "done"

ScriptOK(b) ==
  /\ \A x \in script[b] :
       /\ x.service \in Request[b]
       /\ pc[b] # "done" => Rest(b) # {} /\ x.service = Current(b)
       /\ Stays(b, x)
  /\ \A x, y \in script[b] : x.kind = y.kind => x = y

SelfInv == \A b \in Restores : LoopOK(b) /\ ScriptOK(b)

\* The service and the destination at hand are among those left.
LEMMA AtHand ==
  ASSUME NEW b \in Restores
  PROVE  /\ Rest(b) # {} => Current(b) \in Rest(b) /\ Current(b) \in Services /\ Current(b) \in Request[b]
         /\ Rest(b) # {} /\ Unfilled(b) # {} =>
              /\ Destination(b) \in Unfilled(b) /\ Destination(b) \in Data[Current(b)]
              /\ Destination(b) \in Resources
<1>1. Rest(b) \in SUBSET Nat /\ Rest(b) \subseteq Services /\ Rest(b) \subseteq Request[b]
  BY ServicesAssumption DEF Rest
<1>2. Rest(b) # {} => Current(b) \in Rest(b) BY <1>1, LeastIsLeast DEF Current
<1>3. ASSUME Rest(b) # {}, Unfilled(b) # {} PROVE Destination(b) \in Unfilled(b)
  <2>1. Unfilled(b) \in SUBSET Nat BY <1>1, <1>2, <1>3, ServicesAssumption DEF Unfilled
  <2> QED BY <1>3, <2>1, LeastIsLeast DEF Destination
<1> QED BY <1>1, <1>2, <1>3 DEF Unfilled, Resources

\* What a command of either form has.
LEMMA ScriptKinds ==
  ASSUME NEW x \in ComposeScript \cup Extraction
  PROVE  /\ x.service \in Services
         /\ x.kind \in {"stop", "up"} \/ (x.kind = "extract" /\ x.resource \in Resources)
         /\ x.kind \in {"stop", "up"} => x \in ComposeScript
         /\ x.kind = "extract" => x \in Extraction
BY DEF ComposeScript, Extraction

\* The next phase of a command differs in nothing but its phase.
LEMMA PhaseKeeps ==
  ASSUME NEW x \in ComposeScript \cup Extraction,
         NEW phase \in {"write", "ok", "failed"}, phase = "write" => x.kind = "extract"
  PROVE  /\ InPhase(x, phase) \in ComposeScript \cup Extraction
         /\ InPhase(x, phase).kind = x.kind
         /\ InPhase(x, phase).service = x.service
         /\ InPhase(x, phase).phase = phase
         /\ x.kind = "extract" => InPhase(x, phase).resource = x.resource
<1>1. CASE x.kind = "extract"
  <2>1. x.service \in Services /\ x.resource \in Resources BY <1>1, ScriptKinds
  <2> QED BY <1>1, <2>1 DEF InPhase, Extraction
<1>2. CASE x.kind # "extract"
  <2>1. x.service \in Services /\ x.kind \in {"stop", "up"} BY <1>2, ScriptKinds
  <2> QED BY <1>2, <2>1 DEF InPhase, ComposeScript
<1> QED BY <1>1, <1>2

-----------------------------------------------------------------------------
(* Types. *)

PlanType ==
  /\ facts \in [Restores -> [Services -> Runtimes]]
  /\ found \in [Restores -> [Services -> BOOLEAN]]
  /\ seen \in [Restores -> [Services -> [Resources -> {"missing", "empty", "full"}]]]

ApplyType ==
  /\ pc \in [Restores -> PCs]
  /\ result \in [Restores -> {"none", "ok", "failed", "stop failed", "restart failed"}]
  /\ known \in [Restores -> SUBSET Services]
  /\ handled \in [Restores -> SUBSET Services]
  /\ filled \in [Restores -> SUBSET Resources]
  /\ stopped \in [Restores -> BOOLEAN]
  /\ failed \in [Restores -> BOOLEAN]

LockType ==
  /\ holder \in Restores \cup {Nobody}
  /\ script \in [Restores -> SUBSET (ComposeScript \cup Extraction)]
  /\ live \in [Restores -> BOOLEAN]

TargetType ==
  /\ runtime \in [Services -> Runtimes]
  /\ deployed \in [Services -> BOOLEAN]
  /\ data \in [Services -> [Resources -> Contents]]

\* The four parts are TypeOK.
LEMMA TypeParts == TypeOK <=> PlanType /\ ApplyType /\ LockType /\ TargetType
BY DEF TypeOK, PlanType, ApplyType, LockType, TargetType

\* A behaviour starts well typed.
LEMMA InitType == Init => TypeOK
<1> SUFFICES ASSUME Init PROVE TypeOK OBVIOUS
<1>1. PlanType BY DEF Init, PlanType, AllStopped, NotFound, NothingSeen, Runtimes
<1>2. ApplyType BY DEF Init, ApplyType, PCs
<1>3. LockType BY DEF Init, LockType
<1>4. TargetType BY DEF Init, TargetType, AllStopped, NotFound, NothingSeen, Runtimes, Contents
<1> QED BY <1>1, <1>2, <1>3, <1>4 DEF TypeOK, PlanType, ApplyType, LockType, TargetType

\* The end of a process keeps the types.
LEMMA EndType ==
  ASSUME TypeOK, NEW b \in Restores, End(b)
  PROVE  TypeOK'
<1>0. PlanType /\ ApplyType /\ LockType /\ TargetType BY TypeParts
<1>1. PlanType'
  <2>1. AllStopped \in [Services -> Runtimes] BY DEF AllStopped, Runtimes
  <2>2. NotFound \in [Services -> BOOLEAN] BY DEF NotFound
  <2>3. NothingSeen \in [Services -> [Resources -> {"missing", "empty", "full"}]] BY DEF NothingSeen
  <2> QED BY <1>0, <2>1, <2>2, <2>3 DEF End, Set, PlanType
<1>2. ApplyType' BY <1>0 DEF End, Goto, Set, ApplyType, PCs
<1>3. LockType' BY <1>0 DEF End, Set, LockType
<1>4. TargetType' BY <1>0 DEF End, targetVars, TargetType
<1> QED BY <1>1, <1>2, <1>3, <1>4 DEF TypeOK, PlanType, ApplyType, LockType, TargetType

\* A step that leaves plans and the target alone needs a look at the rest only.
LEMMA ControllerType ==
  ASSUME TypeOK, UNCHANGED <<planVars, targetVars>>, ApplyType', LockType'
  PROVE  TypeOK'
<1>1. PlanType' BY TypeParts DEF PlanType, planVars
<1>2. TargetType' BY TypeParts DEF TargetType, targetVars
<1> QED BY <1>1, <1>2 DEF TypeOK, PlanType, ApplyType, LockType, TargetType

\* As does one of the environment.
LEMMA EnvironmentType ==
  ASSUME TypeOK, UNCHANGED <<pc, planVars, applyVars>>, LockType', TargetType'
  PROVE  TypeOK'
<1>1. PlanType' BY TypeParts DEF PlanType, planVars
<1>2. ApplyType' BY TypeParts DEF ApplyType, applyVars
<1> QED BY <1>1, <1>2 DEF TypeOK, PlanType, ApplyType, LockType, TargetType

\* The commands a restore starts.
LEMMA LaunchType ==
  ASSUME LockType, NEW b \in Restores, Rest(b) # {}, NEW kind \in {"stop", "up"}, Launch(b, kind),
         UNCHANGED <<holder, live>>
  PROVE  LockType'
<1>1. [kind |-> kind, service |-> Current(b), phase |-> "run"] \in ComposeScript
  BY AtHand DEF ComposeScript
<1> QED BY <1>1 DEF LockType, Launch, Start, Set

\* Opening an archive starts the extraction of the next resource.
LEMMA OpenType ==
  ASSUME LockType, NEW b \in Restores, Rest(b) # {}, Unfilled(b) # {},
         script' = script \/ OpenArchive(b), UNCHANGED <<holder, live>>
  PROVE  LockType'
<1>1. [kind |-> "extract", service |-> Current(b), resource |-> Destination(b), phase |-> "run"] \in Extraction
  BY AtHand DEF Extraction
<1> QED BY <1>1 DEF LockType, OpenArchive, Start, Set

\* Where the command of a step comes from and where it leads are labels.
LEMMA MoveType ==
  ASSUME ApplyType, NEW b \in Restores, NEW label \in PCs, Goto(b, label),
         result' = result \/ (\E o \in {"ok", "failed", "stop failed", "restart failed"} : result' = Set(result, b, o)),
         known' = known \/ (\E S \in SUBSET Services : known' = Set(known, b, S)),
         handled' = handled \/ (\E S \in SUBSET Services : handled' = Set(handled, b, S)),
         filled' = filled \/ (\E S \in SUBSET Resources : filled' = Set(filled, b, S)),
         stopped' = stopped \/ (\E v \in BOOLEAN : stopped' = Set(stopped, b, v)),
         failed' = failed \/ (\E v \in BOOLEAN : failed' = Set(failed, b, v))
  PROVE  ApplyType'
<1>1. pc' \in [Restores -> PCs] BY DEF ApplyType, Goto
<1>2. result' \in [Restores -> {"none", "ok", "failed", "stop failed", "restart failed"}] BY DEF ApplyType, Set
<1>3. known' \in [Restores -> SUBSET Services] /\ handled' \in [Restores -> SUBSET Services] BY DEF ApplyType, Set
<1>4. filled' \in [Restores -> SUBSET Resources] BY DEF ApplyType, Set
<1>5. stopped' \in [Restores -> BOOLEAN] /\ failed' \in [Restores -> BOOLEAN] BY DEF ApplyType, Set
<1> QED BY <1>1, <1>2, <1>3, <1>4, <1>5 DEF ApplyType

\* What the commands of a restore do keeps the types.
LEMMA PhaseType ==
  ASSUME TypeOK, NEW b \in Restores, UNCHANGED <<pc, planVars, applyVars, holder, live>>, TargetType',
         NEW x \in script[b], NEW phase \in {"write", "ok", "failed"}, phase = "write" => x.kind = "extract",
         Phase(b, x, phase)
  PROVE  TypeOK'
<1>0. LockType /\ x \in ComposeScript \cup Extraction BY TypeParts DEF LockType
<1>1. InPhase(x, phase) \in ComposeScript \cup Extraction BY <1>0, PhaseKeeps
<1>2. LockType' BY <1>0, <1>1 DEF LockType, Phase, Set
<1> QED BY <1>2, EnvironmentType

\* What is put into one destination.
LEMMA PutType ==
  ASSUME TargetType, NEW s \in Services, NEW r \in Resources, NEW c \in Contents,
         Put(s, r, c), UNCHANGED <<runtime, deployed>>
  PROVE  TargetType'
BY DEF TargetType, Put

\* Every step preserves the types of all variables.
LEMMA NextType == TypeOK /\ SelfInv /\ [Next]_vars => TypeOK'
<1> SUFFICES ASSUME TypeOK, SelfInv, [Next]_vars PROVE TypeOK' OBVIOUS
<1>0. PlanType /\ ApplyType /\ LockType /\ TargetType BY TypeParts
<1>i. \A b \in Restores : LoopOK(b) /\ ScriptOK(b) BY DEF SelfInv
<1>1. CASE UNCHANGED vars
  BY <1>0, <1>1 DEF vars, planVars, applyVars, lockVars, targetVars, TypeOK, PlanType, ApplyType, LockType, TargetType
<1>m. ASSUME NEW b \in Restores, NEW label \in PCs, Goto(b, label), UNCHANGED applyVars PROVE ApplyType'
  BY <1>0, <1>m, MoveType DEF applyVars
<1>r. ASSUME NEW b \in Restores, NEW o \in {"ok", "failed", "stop failed", "restart failed"}, Return(b, o),
             UNCHANGED <<known, handled, filled, stopped, failed>>
      PROVE  ApplyType'
  BY <1>0, <1>r, MoveType DEF Return, PCs, Locked
<1>l. ASSUME UNCHANGED lockVars PROVE LockType' BY <1>0, <1>l DEF lockVars, LockType
<1>n. ASSUME NEW b \in Restores, NEW x, Ended(b, x), UNCHANGED <<holder, live>> PROVE LockType'
  BY <1>0, <1>n DEF LockType, Ended, Set
<1>3. ASSUME NEW b \in Restores, Rebuild(b) PROVE TypeOK'
  <2>1. RuntimeFacts(b) \in [Services -> Runtimes]
    BY <1>0 DEF TargetType, RuntimeFacts, Runtimes
  <2>2. DeploymentFacts(b) \in [Services -> BOOLEAN] BY DEF DeploymentFacts
  <2>3. Destinations(b) \in [Services -> [Resources -> {"missing", "empty", "full"}]]
    BY DEF Destinations, State
  <2>4. PlanType' BY <1>0, <1>3, <2>1, <2>2, <2>3 DEF Rebuild, Set, PlanType
  <2>5. ApplyType' BY <1>3, <1>m DEF Rebuild, PCs
  <2>6. LockType' /\ TargetType' BY <1>0, <1>3, <1>l DEF Rebuild, targetVars, TargetType
  <2> QED BY <2>4, <2>5, <2>6 DEF TypeOK, PlanType, ApplyType, LockType, TargetType
<1>w. ASSUME NEW b \in Restores, StopWaiting(b) PROVE TypeOK'
  <2>1. ApplyType'
    <3>1. CASE RestoreFails(b) /\ UNCHANGED result
      BY <1>0, <1>w, <3>1, MoveType DEF RestoreFails, StopWaiting, PCs, Locked
    <3> QED BY <1>r, <1>w, <3>1 DEF StopWaiting
  <2> QED BY <1>l, <1>w, <2>1, ControllerType DEF StopWaiting
<1>d. ASSUME NEW b \in Restores, ServiceDone(b), UNCHANGED <<known, failed>>, Rest(b) # {} PROVE ApplyType'
  <2>1. handled[b] \cup {Current(b)} \in SUBSET Services BY <1>0, <1>d, AtHand DEF ApplyType
  <2> QED BY <1>0, <1>d, <2>1, MoveType DEF ServiceDone, Return, PCs, Locked
<1>4. ASSUME NEW b \in Restores, Controller(b) PROVE TypeOK'
  <2>1. CASE LockGranted(b)
    <3>1. {s \in Request[b] : /\ ~Unsettled(s) /\ facts[b][s] = runtime[s]
                              /\ found[b][s] = DeploymentFacts(b)[s]} \in SUBSET Services
      BY ServicesAssumption
    <3>2. ApplyType'
      BY <1>0, <2>1, <3>1, MoveType DEF LockGranted, PCs, Locked
    <3>3. LockType' BY <1>0, <2>1 DEF LockGranted, LockType
    <3> QED BY <2>1, <3>2, <3>3, ControllerType DEF LockGranted
  <2>2. CASE NotStarted(b) BY <2>2, EndType DEF NotStarted
  <2>3. CASE HelperMissing(b) BY <1>r, <1>l, <2>3, ControllerType DEF HelperMissing
  <2>4. CASE NextService(b)
    <3>1. ApplyType' BY <1>m, <2>4 DEF NextService, PCs, Locked, applyVars
    <3>2. LockType' BY <1>0, <1>l, <2>4, LaunchType DEF NextService, lockVars
    <3> QED BY <2>4, <3>1, <3>2, ControllerType DEF NextService
  <2>5. CASE StopReturned(b)
    <3>1. ApplyType'
      BY <1>0, <2>5, MoveType DEF StopReturned, Return, PCs, Locked
    <3>2. LockType' BY <1>n, <2>5 DEF StopReturned
    <3> QED BY <2>5, <3>1, <3>2, ControllerType DEF StopReturned
  <2>6. CASE WaitExpires(b)
    <3>1. CASE Return(b, "stop failed") /\ UNCHANGED <<planVars, known, handled, filled, stopped, failed, lockVars, targetVars>>
      BY <1>r, <1>l, <3>1, ControllerType
    <3> QED BY <1>w, <2>6, <3>1 DEF WaitExpires
  <2>7. CASE CheckDestination(b)
    <3>1. pc[b] = "check" /\ Rest(b) # {} /\ Unfilled(b) # {}
      BY <1>i, <2>7 DEF CheckDestination, LoopOK, InService, OnDestination
    <3>2. ApplyType'
      BY <1>0, <2>7, MoveType DEF CheckDestination, OpenArchive, RestoreFails, PCs, Locked
    <3>3. LockType' BY <1>0, <2>7, <3>1, OpenType DEF CheckDestination, OpenArchive
    <3> QED BY <2>7, <3>2, <3>3, ControllerType DEF CheckDestination
  <2>8. CASE CreateDestination(b)
    <3>1. pc[b] = "create" /\ Rest(b) # {} /\ Unfilled(b) # {}
      BY <1>i, <2>8 DEF CreateDestination, LoopOK, InService, OnDestination
    <3>2. ApplyType'
      BY <1>0, <2>8, MoveType DEF CreateDestination, OpenArchive, RestoreFails, PCs, Locked
    <3>3. LockType' BY <1>0, <2>8, <3>1, OpenType DEF CreateDestination, OpenArchive
    <3>4. TargetType'
      <4>1. Current(b) \in Services /\ Destination(b) \in Resources BY <3>1, AtHand
      <4>2. data[Current(b)][Destination(b)] \in Contents BY <1>0, <4>1 DEF TargetType
      <4>3. UNCHANGED data \/ \E c \in Contents : Put(Current(b), Destination(b), c)
        BY <2>8, <4>2 DEF CreateDestination, Contents
      <4>4. CASE UNCHANGED data BY <1>0, <2>8, <4>4 DEF CreateDestination, TargetType
      <4> QED BY <1>0, <2>8, <4>1, <4>3, <4>4, PutType DEF CreateDestination
    <3>5. PlanType' BY <1>0, <2>8 DEF CreateDestination, planVars, PlanType
    <3> QED BY <3>2, <3>3, <3>4, <3>5 DEF TypeOK, PlanType, ApplyType, LockType, TargetType
  <2>9. CASE ExtractReturned(b)
    <3>1. PICK x \in script[b] : /\ x.kind = "extract" /\ Ended(b, x)
                                 /\ \/ /\ filled' = Set(filled, b, filled[b] \cup {x.resource})
                                       /\ Goto(b, IF Unfilled(b) = {x.resource} THEN "after" ELSE "check")
                                       /\ UNCHANGED failed
                                    \/ RestoreFails(b) /\ UNCHANGED filled
      BY <2>9 DEF ExtractReturned
    <3>2. x \in ComposeScript \cup Extraction BY <1>0 DEF LockType
    <3>3. filled[b] \cup {x.resource} \in SUBSET Resources BY <1>0, <3>1, <3>2, ScriptKinds DEF ApplyType
    <3>4. ApplyType'
      BY <1>0, <2>9, <3>1, <3>3, MoveType DEF ExtractReturned, RestoreFails, PCs, Locked
    <3>5. LockType' BY <1>n, <2>9, <3>1 DEF ExtractReturned
    <3> QED BY <2>9, <3>4, <3>5, ControllerType DEF ExtractReturned
  <2>10. CASE AfterResources(b)
    <3>1. pc[b] = "after" /\ Rest(b) # {} BY <1>i, <2>10 DEF AfterResources, LoopOK, InService
    <3>2. CASE Restarts(b)
      <4>1. ApplyType' BY <1>0, <2>10, <3>2, MoveType DEF AfterResources, Return, PCs, Locked
      <4>2. LockType' BY <1>0, <1>l, <2>10, <3>1, <3>2, LaunchType DEF AfterResources, lockVars
      <4> QED BY <2>10, <4>1, <4>2, ControllerType DEF AfterResources
    <3>3. CASE ~Restarts(b)
      BY <1>d, <1>l, <2>10, <3>1, <3>3, ControllerType DEF AfterResources, lockVars
    <3> QED BY <3>2, <3>3
  <2>11. CASE RestartReturned(b)
    <3>1. Rest(b) # {} BY <1>i, <2>11 DEF RestartReturned, LoopOK, InService
    <3>2. ApplyType' BY <1>d, <1>r, <2>11, <3>1 DEF RestartReturned
    <3>3. LockType' BY <1>n, <2>11 DEF RestartReturned
    <3> QED BY <2>11, <3>2, <3>3, ControllerType DEF RestartReturned
  <2>12. CASE AllRestored(b) BY <1>r, <1>l, <2>12, ControllerType DEF AllRestored
  <2>13. CASE Release(b) BY <2>13, EndType DEF Release
  <2> QED BY <1>4, <2>1, <2>2, <2>3, <2>4, <2>5, <2>6, <2>7, <2>8, <2>9, <2>10, <2>11, <2>12, <2>13 DEF Controller
<1>5. ASSUME NEW b \in Restores, ComposeRuns(b) PROVE TypeOK'
  <2>1. TargetType' BY <1>0, <1>5 DEF ComposeRuns, TargetType
  <2>2. PICK x \in script[b] : \E phase \in {"ok", "failed"} : Phase(b, x, phase)
    BY <1>5 DEF ComposeRuns
  <2> QED BY <1>5, <2>1, <2>2, PhaseType DEF ComposeRuns
<1>6. ASSUME NEW b \in Restores, ExtractBegins(b) \/ ExtractEnds(b) \/ ExtractFails(b) PROVE TypeOK'
  <2>1. PICK x \in script[b] :
          /\ x.kind = "extract" /\ \E phase \in {"write", "ok", "failed"} : Phase(b, x, phase)
          /\ \/ UNCHANGED data
             \/ Put(x.service, x.resource,
                    IF data[x.service][x.resource] \in {"missing", "empty"} THEN "part" ELSE "mixed")
             \/ Put(x.service, x.resource,
                    IF data[x.service][x.resource] = "part" THEN "whole" ELSE data[x.service][x.resource])
    BY <1>6 DEF ExtractBegins, ExtractEnds, ExtractFails, targetVars
  <2>2. x.service \in Services /\ x.resource \in Resources BY <1>0, <2>1, ScriptKinds DEF LockType
  <2>3. UNCHANGED <<pc, planVars, applyVars, holder, live, runtime, deployed>>
    BY <1>6 DEF ExtractBegins, ExtractEnds, ExtractFails, targetVars
  <2>4. TargetType'
    <3>1. CASE UNCHANGED data BY <1>0, <2>3, <3>1 DEF TargetType
    <3>2. ASSUME NEW c \in Contents, Put(x.service, x.resource, c) PROVE TargetType'
      BY <1>0, <2>2, <2>3, <3>2, PutType
    <3>3. data[x.service][x.resource] \in Contents BY <1>0, <2>2 DEF TargetType
    <3> QED BY <2>1, <3>1, <3>2, <3>3 DEF Contents
  <2> QED BY <2>1, <2>3, <2>4, PhaseType
<1>7. ASSUME NEW b \in Restores, OrphanEnds(b) PROVE TypeOK'
  <2>1. LockType' BY <1>n, <1>7 DEF OrphanEnds
  <2> QED BY <1>0, <1>7, <2>1, EnvironmentType DEF OrphanEnds, targetVars, TargetType
<1>8. ASSUME NEW b \in Restores, Timeout(b) \/ LockLost(b) PROVE TypeOK'
  <2>1. LockType' BY <1>0, <1>8 DEF Timeout, LockLost, LockType, Set
  <2>2. TargetType' BY <1>0, <1>8 DEF Timeout, LockLost, targetVars, TargetType
  <2> QED BY <1>8, <2>1, <2>2, EnvironmentType DEF Timeout, LockLost
<1>9. ASSUME NEW b \in Restores, ConnectionLost(b) PROVE TypeOK' BY <1>9, <1>w DEF ConnectionLost
<1>10. ASSUME NEW b \in Restores, Crash(b) PROVE TypeOK' BY <1>10, EndType DEF Crash
<1>11. ASSUME NEW s \in Services, OtherCommand(s) PROVE TypeOK'
  <2>1. TargetType'
    <3>1. PICK rt \in Runtimes, present \in BOOLEAN :
            /\ runtime' = [runtime EXCEPT ![s] = rt]
            /\ deployed' = [deployed EXCEPT ![s] = present]
            /\ data' = [data EXCEPT ![s] = [r \in Resources |->
                 IF rt = "running" /\ r \in Data[s] /\ data[s][r] = "missing" THEN "empty" ELSE data[s][r]]]
      BY <1>11 DEF OtherCommand
    <3>2. [r \in Resources |->
             IF rt = "running" /\ r \in Data[s] /\ data[s][r] = "missing" THEN "empty" ELSE data[s][r]]
            \in [Resources -> Contents]
      BY <1>0 DEF TargetType, Contents
    <3> QED BY <1>0, <3>1, <3>2 DEF TargetType
  <2> QED BY <1>l, <1>11, <2>1, EnvironmentType DEF OtherCommand
<1>12. ASSUME NEW s \in Services, NEW r \in Data[s], ApplicationWrites(s, r) PROVE TypeOK'
  <2>1. TargetType' BY <1>0, <1>12 DEF ApplicationWrites, Put, TargetType, Contents, Resources
  <2> QED BY <1>l, <1>12, <2>1, EnvironmentType DEF ApplicationWrites
<1> QED BY <1>1, <1>3, <1>4, <1>5, <1>6, <1>7, <1>8, <1>9, <1>10, <1>11, <1>12, EndType
      DEF Next, Environment, NotStarted

-----------------------------------------------------------------------------
(* A step of one restore, and what it leaves of the others. *)

StepOf(b) ==
  \/ Rebuild(b) \/ NotStarted(b) \/ Controller(b)
  \/ ComposeRuns(b) \/ ExtractBegins(b) \/ ExtractEnds(b) \/ ExtractFails(b) \/ OrphanEnds(b)
  \/ Timeout(b) \/ ConnectionLost(b) \/ LockLost(b) \/ Crash(b)

Others(b) ==
  \A c \in Restores \ {b} :
    /\ pc'[c] = pc[c] /\ result'[c] = result[c] /\ facts'[c] = facts[c] /\ found'[c] = found[c]
    /\ known'[c] = known[c] /\ handled'[c] = handled[c] /\ filled'[c] = filled[c]
    /\ stopped'[c] = stopped[c] /\ failed'[c] = failed[c] /\ script'[c] = script[c]
    /\ holder' = c => holder = c

\* No restore changes what another one knows, or gives it the lock.
LEMMA OthersKeep ==
  ASSUME TypeOK, NEW b \in Restores, StepOf(b)
  PROVE  Others(b)
<1>0. PlanType /\ ApplyType /\ LockType BY TypeParts
<1>e. ASSUME End(b) PROVE Others(b)
  BY <1>0, <1>e, RestoresAssumption DEF Others, End, Goto, Set, PlanType, ApplyType, LockType
<1>1. CASE Rebuild(b)
  BY <1>0, <1>1 DEF Others, Rebuild, Goto, Set, applyVars, lockVars, PlanType, ApplyType, LockType
<1>2. CASE LockGranted(b)
  BY <1>0, <1>2 DEF Others, LockGranted, Goto, Set, planVars, PlanType, ApplyType, LockType
<1>3. CASE HelperMissing(b) \/ AllRestored(b)
  BY <1>0, <1>3 DEF Others, HelperMissing, AllRestored, Return, Goto, Set, planVars, lockVars, PlanType, ApplyType, LockType
<1>4. CASE NextService(b)
  BY <1>0, <1>4 DEF Others, NextService, Launch, Start, Return, Goto, Set, planVars, PlanType, ApplyType, LockType
<1>5. CASE StopReturned(b)
  BY <1>0, <1>5 DEF Others, StopReturned, Ended, Return, Goto, Set, planVars, PlanType, ApplyType, LockType
<1>w. ASSUME StopWaiting(b) PROVE Others(b)
  BY <1>0, <1>w DEF Others, StopWaiting, RestoreFails, Return, Goto, Set, planVars, lockVars, PlanType, ApplyType, LockType
<1>6. CASE WaitExpires(b)
  BY <1>0, <1>w, <1>6 DEF Others, WaitExpires, Return, Goto, Set, planVars, lockVars, PlanType, ApplyType, LockType
<1>7. CASE CheckDestination(b)
  BY <1>0, <1>7 DEF Others, CheckDestination, OpenArchive, Start, RestoreFails, Goto, Set, planVars, PlanType, ApplyType, LockType
<1>8. CASE CreateDestination(b)
  BY <1>0, <1>8 DEF Others, CreateDestination, OpenArchive, Start, RestoreFails, Goto, Set, planVars, PlanType, ApplyType, LockType
<1>9. CASE ExtractReturned(b)
  BY <1>0, <1>9 DEF Others, ExtractReturned, Ended, RestoreFails, Goto, Set, planVars, PlanType, ApplyType, LockType
<1>10. CASE AfterResources(b)
  BY <1>0, <1>10 DEF Others, AfterResources, ServiceDone, Launch, Start, Return, Goto, Set, planVars, PlanType, ApplyType, LockType
<1>11. CASE RestartReturned(b)
  BY <1>0, <1>11 DEF Others, RestartReturned, ServiceDone, Ended, Return, Goto, Set, planVars, PlanType, ApplyType, LockType
<1>12. CASE ComposeRuns(b) \/ ExtractBegins(b) \/ ExtractEnds(b) \/ ExtractFails(b) \/ OrphanEnds(b)
  <2>1. \E v : script' = Set(script, b, v)
    BY <1>12 DEF ComposeRuns, ExtractBegins, ExtractEnds, ExtractFails, OrphanEnds, Phase, Ended
  <2>2. UNCHANGED <<pc, planVars, applyVars, holder>>
    BY <1>12 DEF ComposeRuns, ExtractBegins, ExtractEnds, ExtractFails, OrphanEnds
  <2> QED BY <1>0, <2>1, <2>2 DEF Others, Set, planVars, applyVars, LockType
<1>13. CASE Timeout(b) \/ LockLost(b)
  BY <1>0, <1>13, RestoresAssumption DEF Others, Timeout, LockLost, planVars, applyVars, LockType
<1> QED BY <1>e, <1>w, <1>1, <1>2, <1>3, <1>4, <1>5, <1>6, <1>7, <1>8, <1>9, <1>10, <1>11, <1>12, <1>13
      DEF StepOf, Controller, NotStarted, Release, Crash, ConnectionLost

\* A restore starts knowing nothing.
LEMMA InitSelf == Init => SelfInv
BY RestoresAssumption DEF Init, SelfInv, LoopOK, ScriptOK, Before, InService, OnDestination

\* It depends on nothing but the restore's own variables and its lock.
LEMMA SameSelf ==
  ASSUME NEW c \in Restores, LoopOK(c), ScriptOK(c),
         pc'[c] = pc[c], result'[c] = result[c], known'[c] = known[c], handled'[c] = handled[c],
         filled'[c] = filled[c], stopped'[c] = stopped[c], failed'[c] = failed[c],
         script'[c] = script[c], holder' = c => holder = c
  PROVE  LoopOK(c)' /\ ScriptOK(c)'
<1>1. Rest(c)' = Rest(c) /\ Current(c)' = Current(c) /\ Unfilled(c)' = Unfilled(c)
  BY DEF Rest, Current, Unfilled
<1>2. \A x : Stays(c, x) => Stays(c, x)' BY DEF Stays
<1>3. LoopOK(c)' BY <1>1 DEF LoopOK
<1>4. ScriptOK(c)' BY <1>1, <1>2 DEF ScriptOK
<1> QED BY <1>3, <1>4

\* What a restore knows of itself is its own.
LEMMA OthersSelf ==
  ASSUME SelfInv, NEW b \in Restores, Others(b), LoopOK(b)', ScriptOK(b)'
  PROVE  SelfInv'
<1>1. ASSUME NEW c \in Restores \ {b} PROVE LoopOK(c)' /\ ScriptOK(c)'
  BY SameSelf DEF SelfInv, Others
<1> QED BY <1>1 DEF SelfInv

\* A step of a restore keeps what it knows of itself.
LEMMA SelfStep ==
  ASSUME TypeOK, SelfInv, NEW b \in Restores, StepOf(b)
  PROVE  LoopOK(b)' /\ ScriptOK(b)'
<1>0. ApplyType /\ LockType BY TypeParts
<1>i. LoopOK(b) /\ ScriptOK(b) BY DEF SelfInv
<1>h. Rest(b) # {} => Current(b) \in Rest(b) /\ Current(b) \in Services /\ Current(b) \in Request[b]
  BY AtHand
<1>k. \A x \in script[b] : x \in ComposeScript \cup Extraction BY <1>0 DEF LockType
<1>q. ASSUME pc[b] \in Before \cup {"next", "check", "create"} \/ (pc[b] = "after" /\ ~failed[b])
      PROVE  script[b] = {}
  BY <1>i, <1>q DEF ScriptOK, Stays, Before
<1>e. ASSUME End(b) PROVE LoopOK(b)' /\ ScriptOK(b)'
  <2>1. pc'[b] = "done" /\ known'[b] = {} /\ handled'[b] = {} /\ script'[b] = script[b] /\ holder' # b
    BY <1>0, <1>e, RestoresAssumption DEF End, Goto, Set, ApplyType, LockType
  <2>2. LoopOK(b)' BY <2>1 DEF LoopOK, Before, InService, OnDestination
  <2>3. ScriptOK(b)' BY <1>i, <2>1 DEF ScriptOK, Stays
  <2> QED BY <2>2, <2>3
<1>1. CASE Rebuild(b)
  <2>1. pc'[b] = "lock" /\ pc[b] = "review" /\ UNCHANGED <<result, known, handled, filled, stopped, failed, script, holder>>
    BY <1>0, <1>1 DEF Rebuild, Goto, applyVars, lockVars, ApplyType
  <2>2. LoopOK(b)' BY <1>i, <2>1 DEF LoopOK, Rest, Unfilled, Before, InService, OnDestination, Locked
  <2>3. ScriptOK(b)' BY <1>i, <1>q, <2>1 DEF ScriptOK, Before
  <2> QED BY <2>2, <2>3
<1>2. CASE LockGranted(b)
  <2>1. /\ pc'[b] = "next" /\ pc[b] = "lock" /\ known'[b] \subseteq Request[b]
        /\ UNCHANGED <<result, handled, filled, stopped, failed, script>>
    BY <1>0, <1>2 DEF LockGranted, Goto, Set, ApplyType
  <2>2. LoopOK(b)' BY <1>i, <2>1 DEF LoopOK, Rest, Unfilled, Before, InService, OnDestination, Locked
  <2>3. ScriptOK(b)' BY <1>i, <1>q, <2>1 DEF ScriptOK, Before
  <2> QED BY <2>2, <2>3
<1>r. ASSUME NEW o \in {"failed", "stop failed", "restart failed", "ok"}, Return(b, o), pc[b] \in Locked \ {"extracting"},
             UNCHANGED <<known, handled, filled, failed, holder>>, script'[b] \subseteq script[b],
             o = "ok" => Rest(b) = {} /\ script[b] = {},
             o = "failed" => \A x \in script'[b] : x.kind = "extract"
      PROVE  LoopOK(b)' /\ ScriptOK(b)'
  <2>1. pc'[b] = "release" /\ result'[b] = o BY <1>0, <1>r DEF Return, Goto, Set, ApplyType
  <2>2. Rest(b)' = Rest(b) /\ Current(b)' = Current(b) BY <1>r DEF Rest, Current
  <2>3. LoopOK(b)' BY <1>i, <1>r, <2>1, <2>2 DEF LoopOK, Before, InService, OnDestination, Locked
  <2>4. ASSUME NEW x \in script'[b] PROVE Stays(b, x)'
    <3>1. Stays(b, x) /\ pc[b] # "done" BY <1>i, <1>r DEF ScriptOK, Locked
    <3>2. o = "ok" => FALSE BY <1>r
    <3>3. x.kind # "extract" => o \in {"stop failed", "restart failed"} BY <1>r, <3>2
    <3> QED BY <1>r, <2>1, <3>1, <3>2, <3>3 DEF Stays
  <2>5. ScriptOK(b)' BY <1>i, <1>r, <2>1, <2>2, <2>4 DEF ScriptOK, Locked
  <2> QED BY <2>3, <2>5
<1>3. CASE HelperMissing(b)
  BY <1>q, <1>r, <1>3 DEF HelperMissing, lockVars, Locked
<1>4. CASE AllRestored(b)
  BY <1>q, <1>r, <1>4 DEF AllRestored, lockVars, Locked
<1>5. CASE NextService(b)
  <2>1. /\ pc[b] = "next" /\ Rest(b) # {} /\ script[b] = {}
        /\ UNCHANGED <<known, handled, filled, stopped, failed, holder>>
    BY <1>q, <1>5 DEF NextService
  <2>2. Rest(b)' = Rest(b) /\ Current(b)' = Current(b) /\ Unfilled(b)' = Unfilled(b)
    BY <2>1 DEF Rest, Current, Unfilled
  <2>3. Data[Current(b)] # {} BY <1>h, <2>1, ServicesAssumption
  <2>4. CASE Launch(b, "stop") /\ Goto(b, "stopping")
    <3>1. pc'[b] = "stopping" /\ script'[b] = {[kind |-> "stop", service |-> Current(b), phase |-> "run"]}
      BY <1>0, <2>1, <2>4 DEF Launch, Start, Set, Goto, ApplyType, LockType
    <3>2. LoopOK(b)' BY <1>i, <2>1, <2>2, <3>1 DEF LoopOK, Before, InService, OnDestination, Locked
    <3>3. ScriptOK(b)' BY <1>h, <2>1, <2>2, <3>1 DEF ScriptOK, Stays
    <3> QED BY <3>2, <3>3
  <2>5. CASE Goto(b, "check") /\ UNCHANGED script
    <3>1. pc'[b] = "check" /\ script'[b] = {} BY <1>0, <2>1, <2>5 DEF Goto, ApplyType
    <3>2. Unfilled(b) # {} BY <1>i, <2>1, <2>3 DEF LoopOK, Unfilled
    <3>3. LoopOK(b)' BY <1>i, <2>1, <2>2, <3>1, <3>2 DEF LoopOK, Before, InService, OnDestination, Locked
    <3>4. ScriptOK(b)' BY <3>1 DEF ScriptOK
    <3> QED BY <3>3, <3>4
  <2> QED BY <1>5, <2>4, <2>5 DEF NextService
<1>6. CASE StopReturned(b)
  <2>1. PICK x \in script[b] : /\ x.kind = "stop" /\ Ended(b, x)
                               /\ \/ /\ x.phase = "ok" /\ stopped' = Set(stopped, b, TRUE)
                                     /\ Goto(b, "check") /\ UNCHANGED result
                                  \/ Return(b, "stop failed") /\ UNCHANGED stopped
    BY <1>6 DEF StopReturned
  <2>2. pc[b] = "stopping" /\ UNCHANGED <<known, handled, filled, failed, holder>> BY <1>6 DEF StopReturned
  <2>3. script'[b] = {}
    <3>1. \A y \in script[b] : y.kind = "stop" BY <1>i, <2>2 DEF ScriptOK, Stays
    <3>2. \A y \in script[b] : y = x BY <1>i, <2>1, <3>1 DEF ScriptOK
    <3> QED BY <1>0, <2>1, <3>2 DEF Ended, Set, LockType
  <2>4. CASE Return(b, "stop failed") BY <1>r, <2>2, <2>3, <2>4 DEF Locked
  <2>5. CASE Goto(b, "check")
    <3>1. pc'[b] = "check" BY <1>0, <2>5 DEF Goto, ApplyType
    <3>2. Rest(b)' = Rest(b) /\ Current(b)' = Current(b) /\ Unfilled(b)' = Unfilled(b)
      BY <2>2 DEF Rest, Current, Unfilled
    <3>3. Unfilled(b) # {}
      <4>1. filled[b] = {} /\ Rest(b) # {} BY <1>i, <2>2 DEF LoopOK, InService, Before
      <4> QED BY <1>h, <4>1, ServicesAssumption DEF Unfilled
    <3>4. LoopOK(b)' BY <1>i, <2>2, <3>1, <3>2, <3>3 DEF LoopOK, Before, InService, OnDestination, Locked
    <3>5. ScriptOK(b)' BY <2>3 DEF ScriptOK
    <3> QED BY <3>4, <3>5
  <2> QED BY <2>1, <2>4, <2>5
<1>f. ASSUME RestoreFails(b), pc[b] \in OnDestination,
             UNCHANGED <<known, handled, filled, stopped, holder>>, script'[b] \subseteq script[b]
      PROVE  LoopOK(b)' /\ ScriptOK(b)'
  <2>1. pc'[b] = "after" /\ failed'[b] = TRUE BY <1>0, <1>f DEF RestoreFails, Goto, Set, ApplyType
  <2>2. Rest(b)' = Rest(b) /\ Current(b)' = Current(b) /\ Unfilled(b)' = Unfilled(b)
    BY <1>f DEF Rest, Current, Unfilled
  <2>3. LoopOK(b)' BY <1>i, <1>f, <2>1, <2>2 DEF LoopOK, Before, InService, OnDestination, Locked
  <2>4. ASSUME NEW x \in script'[b] PROVE Stays(b, x)'
    BY <1>i, <1>f, <2>1 DEF ScriptOK, Stays, OnDestination
  <2>5. ScriptOK(b)' BY <1>i, <1>f, <2>1, <2>2, <2>4 DEF ScriptOK, OnDestination
  <2> QED BY <2>3, <2>5
<1>w. ASSUME StopWaiting(b) PROVE LoopOK(b)' /\ ScriptOK(b)'
  <2>1. UNCHANGED <<known, handled, filled, stopped, script, holder>> BY <1>w DEF StopWaiting, lockVars
  <2>2. CASE pc[b] \in {"stopping", "restarting"} /\ UNCHANGED failed
             /\ \E o \in {"stop failed", "restart failed"} : Return(b, o)
    BY <1>r, <2>1, <2>2 DEF Locked
  <2>3. CASE pc[b] = "extracting" /\ RestoreFails(b) BY <1>f, <2>1, <2>3 DEF OnDestination
  <2> QED BY <1>w, <2>2, <2>3 DEF StopWaiting
<1>7. CASE WaitExpires(b)
  <2>1. CASE /\ pc[b] = "next" /\ Return(b, "stop failed")
             /\ UNCHANGED <<planVars, known, handled, filled, stopped, failed, lockVars, targetVars>>
    BY <1>r, <2>1 DEF Locked, lockVars
  <2> QED BY <1>w, <1>7, <2>1 DEF WaitExpires
<1>o. ASSUME OpenArchive(b), pc[b] \in {"check", "create"}, Goto(b, "extracting"), UNCHANGED failed,
             UNCHANGED <<result, known, handled, filled, stopped, holder>>,
             Start(b, [kind |-> "extract", service |-> Current(b), resource |-> Destination(b), phase |-> "run"])
      PROVE  LoopOK(b)' /\ ScriptOK(b)'
  <2>x. PICK x : x = [kind |-> "extract", service |-> Current(b), resource |-> Destination(b), phase |-> "run"]
    OBVIOUS
  <2>1. pc'[b] = "extracting" BY <1>0, <1>o DEF Goto, ApplyType
  <2>2. script'[b] = {x} BY <1>0, <1>o, <1>q, <2>x DEF Start, Set, LockType
  <2>3. Rest(b) # {} /\ Unfilled(b) # {} BY <1>i, <1>o DEF LoopOK, InService, OnDestination
  <2>4. Rest(b)' = Rest(b) /\ Current(b)' = Current(b) /\ Unfilled(b)' = Unfilled(b)
    BY <1>o DEF Rest, Current, Unfilled
  <2>5. LoopOK(b)' BY <1>i, <1>o, <2>1, <2>3, <2>4 DEF LoopOK, Before, InService, OnDestination, Locked
  <2>6. x.resource \in Data[x.service] /\ x.resource \notin filled'[b]
    BY <1>o, <2>x, <2>3, AtHand DEF Unfilled
  <2>7. Stays(b, x)' BY <2>x, <2>1, <2>6 DEF Stays
  <2>8. x.service \in Request[b] /\ x.service = Current(b)' BY <1>h, <2>x, <2>3, <2>4
  <2>9. ScriptOK(b)' BY <2>2, <2>3, <2>4, <2>7, <2>8 DEF ScriptOK
  <2> QED BY <2>5, <2>9
<1>8. CASE CheckDestination(b)
  <2>1. /\ pc[b] = "check" /\ script[b] = {}
        /\ UNCHANGED <<result, known, handled, filled, stopped, holder>>
    BY <1>q, <1>8 DEF CheckDestination
  <2>2. CASE RestoreFails(b) /\ UNCHANGED script BY <1>f, <2>1, <2>2 DEF OnDestination
  <2>3. CASE Goto(b, "create") /\ UNCHANGED <<failed, script>>
    <3>1. pc'[b] = "create" BY <1>0, <2>3 DEF Goto, ApplyType
    <3>2. Rest(b)' = Rest(b) /\ Unfilled(b)' = Unfilled(b) BY <2>1 DEF Rest, Current, Unfilled
    <3>3. LoopOK(b)' BY <1>i, <2>1, <2>3, <3>1, <3>2 DEF LoopOK, Before, InService, OnDestination, Locked
    <3>4. ScriptOK(b)' BY <2>1, <2>3 DEF ScriptOK
    <3> QED BY <3>3, <3>4
  <2>4. CASE OpenArchive(b)
    BY <1>o, <2>1, <2>2, <2>4 DEF OpenArchive
  <2> QED BY <1>8, <2>2, <2>3, <2>4 DEF CheckDestination
<1>9. CASE CreateDestination(b)
  <2>1. /\ pc[b] = "create" /\ script[b] = {}
        /\ UNCHANGED <<result, known, handled, filled, stopped, holder>>
    BY <1>q, <1>9 DEF CreateDestination
  <2>2. CASE RestoreFails(b) /\ UNCHANGED script BY <1>f, <2>1, <2>2 DEF OnDestination
  <2>3. CASE OpenArchive(b)
    BY <1>o, <2>1, <2>2, <2>3 DEF OpenArchive
  <2> QED BY <1>9, <2>2, <2>3 DEF CreateDestination
<1>10. CASE ExtractReturned(b)
  <2>1. PICK x \in script[b] : /\ x.kind = "extract" /\ Ended(b, x)
                               /\ \/ /\ filled' = Set(filled, b, filled[b] \cup {x.resource})
                                     /\ Goto(b, IF Unfilled(b) = {x.resource} THEN "after" ELSE "check")
                                     /\ UNCHANGED failed
                                  \/ RestoreFails(b) /\ UNCHANGED filled
    BY <1>10 DEF ExtractReturned
  <2>2. pc[b] = "extracting" /\ UNCHANGED <<result, known, handled, stopped, holder>> BY <1>10 DEF ExtractReturned
  <2>3. script'[b] = {} /\ script'[b] \subseteq script[b]
    <3>1. \A y \in script[b] : y.kind = "extract" BY <1>i, <2>2 DEF ScriptOK, Stays
    <3>2. \A y \in script[b] : y = x BY <1>i, <2>1, <3>1 DEF ScriptOK
    <3> QED BY <1>0, <2>1, <3>2 DEF Ended, Set, LockType
  <2>4. CASE RestoreFails(b) /\ UNCHANGED filled BY <1>f, <2>2, <2>3, <2>4 DEF OnDestination
  <2>5. CASE /\ filled' = Set(filled, b, filled[b] \cup {x.resource}) /\ UNCHANGED failed
             /\ Goto(b, IF Unfilled(b) = {x.resource} THEN "after" ELSE "check")
    <3>1. pc'[b] = IF Unfilled(b) = {x.resource} THEN "after" ELSE "check" BY <1>0, <2>5 DEF Goto, ApplyType
    <3>2. Rest(b)' = Rest(b) /\ Current(b)' = Current(b) BY <2>2 DEF Rest, Current
    <3>3. filled'[b] = filled[b] \cup {x.resource} BY <1>0, <2>5 DEF Set, ApplyType
    <3>4. Unfilled(b)' = Unfilled(b) \ {x.resource} BY <3>2, <3>3 DEF Unfilled
    <3>5. Rest(b) # {} /\ Unfilled(b) # {} /\ ~failed[b] BY <1>i, <2>2 DEF LoopOK, InService, OnDestination
    <3>6. Unfilled(b)' = {} <=> Unfilled(b) = {x.resource} BY <3>4, <3>5
    <3>7. LoopOK(b)' BY <1>i, <2>2, <2>5, <3>1, <3>2, <3>5, <3>6 DEF LoopOK, Before, InService, OnDestination, Locked
    <3>8. ScriptOK(b)' BY <2>3, <3>1 DEF ScriptOK
    <3> QED BY <3>7, <3>8
  <2> QED BY <2>1, <2>4, <2>5
<1>d. ASSUME ServiceDone(b), pc[b] \in {"after", "restarting"}, UNCHANGED <<known, failed, holder>>,
             script'[b] \subseteq script[b], \A x \in script'[b] : x.kind = "extract"
      PROVE  LoopOK(b)' /\ ScriptOK(b)'
  <2>1. Rest(b) # {} BY <1>i, <1>d DEF LoopOK, InService
  <2>2. filled'[b] = {} /\ stopped'[b] = FALSE BY <1>0, <1>d DEF ServiceDone, Set, ApplyType
  <2>3. CASE failed[b]
    <3>1. pc'[b] = "release" /\ result'[b] = "failed" /\ UNCHANGED handled
      BY <1>0, <1>d, <2>3 DEF ServiceDone, Return, Goto, Set, ApplyType
    <3>2. Rest(b)' = Rest(b) /\ Current(b)' = Current(b) BY <3>1 DEF Rest, Current
    <3>3. LoopOK(b)' BY <1>i, <1>d, <2>2, <3>1, <3>2 DEF LoopOK, Before, InService, OnDestination, Locked
    <3>4. \A x \in script'[b] : Stays(b, x)' BY <1>i, <1>d, <2>2, <3>1 DEF ScriptOK, Stays
    <3>5. ScriptOK(b)' BY <1>i, <1>d, <2>1, <3>1, <3>2, <3>4 DEF ScriptOK
    <3> QED BY <3>3, <3>5
  <2>4. CASE ~failed[b]
    <3>1. pc'[b] = "next" /\ handled'[b] = handled[b] \cup {Current(b)}
      BY <1>0, <1>d, <2>4 DEF ServiceDone, Goto, Set, ApplyType
    <3>2. script'[b] = {} BY <1>i, <1>d, <2>4 DEF ScriptOK, Stays
    <3>3. handled'[b] \subseteq Request[b] BY <1>i, <1>h, <2>1, <3>1 DEF LoopOK
    <3>4. LoopOK(b)' BY <1>i, <1>d, <2>2, <2>4, <3>1, <3>3 DEF LoopOK, Before, InService, OnDestination, Locked
    <3>5. ScriptOK(b)' BY <3>2 DEF ScriptOK
    <3> QED BY <3>4, <3>5
  <2> QED BY <2>3, <2>4
<1>11. CASE AfterResources(b)
  <2>1. pc[b] = "after" /\ UNCHANGED <<known, failed, holder>> BY <1>11 DEF AfterResources
  <2>2. \A x \in script[b] : x.kind = "extract" BY <1>i, <2>1 DEF ScriptOK, Stays
  <2>3. CASE ServiceDone(b) /\ UNCHANGED script BY <1>d, <2>1, <2>2, <2>3
  <2>4. CASE Return(b, "restart failed") /\ UNCHANGED <<script, handled, filled, stopped>>
    BY <1>r, <2>1, <2>4 DEF Locked
  <2>5. CASE Launch(b, "up") /\ Goto(b, "restarting") /\ UNCHANGED <<result, handled, filled, stopped>>
    <3>x. PICK x : x = [kind |-> "up", service |-> Current(b), phase |-> "run"] OBVIOUS
    <3>1. pc'[b] = "restarting" /\ script'[b] = script[b] \cup {x}
      BY <1>0, <2>5, <3>x DEF Launch, Start, Set, Goto, ApplyType, LockType
    <3>2. Rest(b)' = Rest(b) /\ Current(b)' = Current(b) /\ Unfilled(b)' = Unfilled(b)
      BY <2>5 DEF Rest, Current, Unfilled
    <3>3. Rest(b) # {} BY <1>i, <2>1 DEF LoopOK, InService
    <3>4. LoopOK(b)' BY <1>i, <2>1, <2>5, <3>1, <3>2 DEF LoopOK, Before, InService, OnDestination, Locked
    <3>5. \A y \in script[b] : Stays(b, y)' BY <1>i, <2>1, <2>2, <2>5, <3>1 DEF ScriptOK, Stays
    <3>6. Stays(b, x)' /\ x.kind = "up" /\ x.service = Current(b) BY <3>x, <3>1 DEF Stays
    <3>7. ScriptOK(b)' BY <1>i, <1>h, <2>1, <2>2, <3>1, <3>2, <3>3, <3>5, <3>6 DEF ScriptOK
    <3> QED BY <3>4, <3>7
  <2> QED BY <1>11, <2>3, <2>4, <2>5 DEF AfterResources
<1>12. CASE RestartReturned(b)
  <2>1. PICK x \in script[b] : /\ x.kind = "up" /\ Ended(b, x)
                               /\ \/ ServiceDone(b)
                                  \/ Return(b, "restart failed") /\ UNCHANGED <<handled, filled, stopped>>
    BY <1>12 DEF RestartReturned
  <2>2. pc[b] = "restarting" /\ UNCHANGED <<known, failed, holder>> BY <1>12 DEF RestartReturned
  <2>3. script'[b] = script[b] \ {x} BY <1>0, <2>1 DEF Ended, Set, LockType
  <2>4. \A y \in script'[b] : y.kind = "extract"
    BY <1>i, <1>k, <2>1, <2>2, <2>3 DEF ScriptOK, Stays
  <2> QED BY <1>d, <1>r, <2>1, <2>2, <2>3, <2>4 DEF Locked
<1>13. ASSUME UNCHANGED <<pc, result, known, handled, filled, stopped, failed>>, holder' = b => holder = b,
              \/ script'[b] \subseteq script[b]
              \/ \E x \in script[b], phase \in {"write", "ok", "failed"} :
                   /\ phase = "write" => x.kind = "extract"
                   /\ Phase(b, x, phase)
       PROVE  LoopOK(b)' /\ ScriptOK(b)'
  <2>1. Rest(b)' = Rest(b) /\ Current(b)' = Current(b) /\ Unfilled(b)' = Unfilled(b)
    BY <1>13 DEF Rest, Current, Unfilled
  <2>2. \A y \in script'[b] : \E x \in script[b] :
          /\ y.kind = x.kind /\ y.service = x.service
          /\ y.kind = "extract" => y.resource = x.resource
    <3>1. CASE script'[b] \subseteq script[b] BY <3>1
    <3>2. ASSUME NEW x \in script[b], NEW phase \in {"write", "ok", "failed"},
                 phase = "write" => x.kind = "extract", Phase(b, x, phase)
          PROVE  \A y \in script'[b] : y \in script[b] \/ y = InPhase(x, phase)
      BY <1>0, <3>2 DEF Phase, Set, LockType
    <3>3. ASSUME NEW x \in script[b], NEW phase \in {"write", "ok", "failed"},
                 phase = "write" => x.kind = "extract"
          PROVE  /\ InPhase(x, phase).kind = x.kind /\ InPhase(x, phase).service = x.service
                 /\ x.kind = "extract" => InPhase(x, phase).resource = x.resource
      BY <1>k, <3>3, PhaseKeeps
    <3> QED BY <1>13, <3>1, <3>2, <3>3
  <2>3. \A x, y \in script'[b] : x.kind = y.kind => x = y
    <3>1. CASE script'[b] \subseteq script[b] BY <1>i, <3>1 DEF ScriptOK
    <3>2. ASSUME NEW x \in script[b], NEW phase \in {"write", "ok", "failed"},
                 phase = "write" => x.kind = "extract", Phase(b, x, phase)
          PROVE  \A y, z \in script'[b] : y.kind = z.kind => y = z
      <4>1. script'[b] = (script[b] \ {x}) \cup {InPhase(x, phase)} BY <1>0, <3>2 DEF Phase, Set, LockType
      <4>2. InPhase(x, phase).kind = x.kind BY <1>k, <3>2, PhaseKeeps
      <4>3. \A y \in script[b] \ {x} : y.kind # x.kind BY <1>i DEF ScriptOK
      <4> QED BY <1>i, <4>1, <4>2, <4>3 DEF ScriptOK
    <3> QED BY <1>13, <3>1, <3>2
  <2>4. ASSUME NEW y \in script'[b] PROVE Stays(b, y)'
    <3>1. PICK x \in script[b] : /\ y.kind = x.kind /\ y.service = x.service
                                 /\ y.kind = "extract" => y.resource = x.resource
      BY <2>2
    <3>2. Stays(b, x) BY <1>i DEF ScriptOK
    <3> QED BY <1>13, <3>1, <3>2 DEF Stays
  <2>5. LoopOK(b)'
    <3>1. script[b] = {} => script'[b] = {} BY <2>2
    <3> QED BY <1>i, <1>13, <2>1, <3>1 DEF LoopOK
  <2>6. ScriptOK(b)' BY <1>i, <1>13, <2>1, <2>2, <2>3, <2>4 DEF ScriptOK
  <2> QED BY <2>5, <2>6
<1>14. CASE ComposeRuns(b)
  <2>1. PICK x \in script[b] : \E phase \in {"ok", "failed"} : Phase(b, x, phase) BY <1>14 DEF ComposeRuns
  <2> QED BY <1>13, <1>14, <2>1 DEF ComposeRuns, applyVars
<1>15. CASE ExtractBegins(b) \/ ExtractEnds(b) \/ ExtractFails(b)
  <2>1. PICK x \in script[b] : x.kind = "extract" /\ \E phase \in {"write", "ok", "failed"} : Phase(b, x, phase)
    BY <1>15 DEF ExtractBegins, ExtractEnds, ExtractFails
  <2>2. UNCHANGED <<pc, applyVars, holder>> BY <1>15 DEF ExtractBegins, ExtractEnds, ExtractFails
  <2> QED BY <1>13, <2>1, <2>2 DEF applyVars
<1>16. CASE OrphanEnds(b)
  <2>1. PICK x \in script[b] : Ended(b, x) BY <1>16 DEF OrphanEnds
  <2>2. script'[b] = script[b] \ {x} BY <1>0, <2>1 DEF Ended, Set, LockType
  <2> QED BY <1>13, <1>16, <2>1, <2>2 DEF OrphanEnds, applyVars
<1>17. CASE Timeout(b) \/ LockLost(b)
  <2>1. UNCHANGED <<pc, applyVars, script>> /\ (holder' = b => holder = b)
    BY <1>17, RestoresAssumption DEF Timeout, LockLost
  <2> QED BY <1>13, <2>1 DEF applyVars
<1> QED BY <1>e, <1>w, <1>1, <1>2, <1>3, <1>4, <1>5, <1>6, <1>7, <1>8, <1>9, <1>10, <1>11, <1>12, <1>14, <1>15, <1>16, <1>17
      DEF StepOf, Controller, NotStarted, Release, Crash, ConnectionLost

\* So every reachable state has both.
OwnInv == TypeOK /\ SelfInv

\* Every step keeps both, whoever takes it.
LEMMA OwnStep == OwnInv /\ [Next]_vars => OwnInv'
<1> SUFFICES ASSUME OwnInv, [Next]_vars PROVE OwnInv' OBVIOUS
<1>1. TypeOK' BY NextType DEF OwnInv
<1>2. ASSUME NEW b \in Restores, StepOf(b) PROVE SelfInv'
  BY <1>2, OthersKeep, SelfStep, OthersSelf DEF OwnInv
<1>3. ASSUME UNCHANGED <<pc, applyVars, script, holder>> PROVE SelfInv'
  <2>1. ASSUME NEW c \in Restores PROVE LoopOK(c)' /\ ScriptOK(c)'
    BY <1>3, SameSelf DEF OwnInv, SelfInv, applyVars
  <2> QED BY <2>1 DEF SelfInv
<1>4. CASE UNCHANGED vars
  <2>1. UNCHANGED <<pc, applyVars, script, holder>> BY <1>4 DEF vars, lockVars
  <2> QED BY <1>1, <1>3, <2>1 DEF OwnInv
<1>5. CASE Environment
  <2>1. UNCHANGED <<pc, applyVars, script, holder>>
    BY <1>5 DEF Environment, OtherCommand, ApplicationWrites, lockVars
  <2> QED BY <1>1, <1>3, <2>1 DEF OwnInv
<1>6. [Next]_vars => (\E b \in Restores : StepOf(b)) \/ Environment \/ UNCHANGED vars
  BY DEF Next, StepOf
<1> QED BY <1>1, <1>2, <1>4, <1>5, <1>6 DEF OwnInv

-----------------------------------------------------------------------------
(* What the lock is worth: the services a holder knew are its own. *)

Settled(b, s) ==
  \A c \in Restores \ {b} : /\ \A x \in script[c] : x.service # s
                            /\ pc[c] \in Locked => s \notin Request[c]

\* A service the holder is not at is as planned, before and, with a root
\* session, after its turn, when it is also restored.
ServiceOK(b, s) ==
  /\ found[b][s] = (deployed[s] /\ b \in RootSessions)
  /\ s \in Rest(b) /\ (s # Current(b) \/ pc[b] = "next") => runtime[s] = facts[b][s]
  /\ s \in handled[b] => /\ b \in RootSessions => runtime[s] = facts[b][s]
                         /\ \A r \in Data[s] : data[s][r] = "whole"
  /\ pc[b] = "release" /\ b \in RootSessions /\ result[b] \notin {"stop failed", "restart failed"} =>
       runtime[s] = facts[b][s]

\* The one it is at is down while its destinations are looked at and filled.
AtRest == {"check", "create", "extracting", "after"}
DownOK(b, s) ==
  /\ pc[b] \in AtRest => /\ runtime[s] = "stopped"
                         /\ stopped[b] <=> facts[b][s] = "running"
                         /\ stopped[b] /\ b \in RootSessions => found[b][s]
  /\ pc[b] \in {"stopping", "restarting"} => facts[b][s] = "running"
  /\ pc[b] = "stopping" =>
       \A x \in script[b] : x.phase = "ok" => runtime[s] = "stopped" /\ deployed[s]

\* Its destinations have what the holder put there, nothing else.
Extracts(b, x) ==
  x.kind = "extract" /\ (failed[b] => pc[b] = "after") =>
    /\ x.phase = "run" => data[x.service][x.resource] \in {"missing", "empty"}
    /\ x.phase = "write" => data[x.service][x.resource] = "part"
    /\ x.phase = "ok" => data[x.service][x.resource] = "whole"

FillOK(b, s) ==
  /\ \A r \in filled[b] : data[s][r] = "whole"
  /\ pc[b] = "create" => data[s][Destination(b)] \in {"missing", "empty"}
  /\ \A x \in script[b] : Extracts(b, x)

KnownOK(b, s) ==
  /\ Settled(b, s) /\ ServiceOK(b, s)
  /\ pc[b] \in InService /\ s = Current(b) => DownOK(b, s) /\ FillOK(b, s)

HeldInv == \A b \in Restores : holder = b => \A s \in known[b] : KnownOK(b, s)

\* A restore that has no part in a service, and gets no lock, does nothing to it.
LEMMA Elsewhere ==
  ASSUME TypeOK, SelfInv, NEW c \in Restores, NEW s \in Services,
         \A x \in script[c] : x.service # s, pc[c] \in Locked => s \notin Request[c],
         StepOf(c), holder # Nobody
  PROVE  /\ runtime'[s] = runtime[s] /\ deployed'[s] = deployed[s] /\ data'[s] = data[s]
         /\ \A x \in script'[c] : x.service # s
         /\ pc'[c] \in Locked => s \notin Request[c]
<1>0. ApplyType /\ LockType /\ TargetType BY TypeParts
<1>i. LoopOK(c) BY DEF SelfInv
<1>h. pc[c] \in Locked /\ Rest(c) # {} => Current(c) \in Services /\ Current(c) # s BY AtHand
<1>k. \A x \in script[c] : x \in ComposeScript \cup Extraction BY <1>0 DEF LockType
<1>1. CASE UNCHANGED targetVars /\ (script'[c] \subseteq script[c]) /\ (pc'[c] \in Locked => pc[c] \in Locked)
  BY <1>1 DEF targetVars
<1>e. ASSUME End(c) PROVE UNCHANGED <<script, targetVars>> /\ pc'[c] = "done"
  BY <1>0, <1>e DEF End, Goto, ApplyType
<1>2. CASE NotStarted(c) \/ Release(c) \/ Crash(c)
  BY <1>1, <1>2, <1>e DEF NotStarted, Release, Crash, Locked
<1>3. CASE Rebuild(c)
  BY <1>0, <1>1, <1>3 DEF Rebuild, Goto, lockVars, ApplyType, Locked
<1>4. ~LockGranted(c) BY DEF LockGranted
<1>5. CASE HelperMissing(c) \/ AllRestored(c)
  BY <1>0, <1>1, <1>5 DEF HelperMissing, AllRestored, lockVars, Locked
<1>w. ASSUME StopWaiting(c)
      PROVE  pc[c] \in Locked /\ UNCHANGED <<script, targetVars>>
  BY <1>w DEF StopWaiting, lockVars, Locked
<1>6. CASE WaitExpires(c) \/ ConnectionLost(c)
  BY <1>1, <1>w, <1>6 DEF WaitExpires, ConnectionLost, lockVars, Locked
<1>7. CASE StopReturned(c) \/ ExtractReturned(c) \/ RestartReturned(c)
  <2>1. \E x \in script[c] : Ended(c, x) BY <1>7 DEF StopReturned, ExtractReturned, RestartReturned
  <2>2. script'[c] \subseteq script[c] BY <1>0, <2>1 DEF Ended, Set, LockType
  <2>3. pc[c] \in Locked /\ UNCHANGED targetVars
    BY <1>7 DEF StopReturned, ExtractReturned, RestartReturned, Locked
  <2> QED BY <1>1, <2>2, <2>3
<1>s. ASSUME pc[c] \in Locked, Rest(c) # {}, NEW x, x.service = Current(c), Start(c, x)
      PROVE  \A y \in script'[c] : y.service # s
  BY <1>0, <1>h, <1>s DEF Start, Set, LockType
<1>8. CASE NextService(c) \/ AfterResources(c)
  <2>1. pc[c] \in Locked /\ Rest(c) # {} /\ UNCHANGED targetVars
    BY <1>i, <1>8 DEF NextService, AfterResources, LoopOK, InService, Locked
  <2>2. UNCHANGED script \/ \E kind \in {"stop", "up"} : Launch(c, kind)
    BY <1>8 DEF NextService, AfterResources
  <2>3. CASE UNCHANGED script BY <1>1, <2>1, <2>3
  <2>4. ASSUME NEW kind \in {"stop", "up"}, Launch(c, kind) PROVE \A y \in script'[c] : y.service # s
    BY <1>s, <2>1, <2>4 DEF Launch
  <2> QED BY <2>1, <2>2, <2>3, <2>4 DEF targetVars
<1>9. CASE CheckDestination(c) \/ CreateDestination(c)
  <2>1. pc[c] \in Locked /\ Rest(c) # {} /\ UNCHANGED <<runtime, deployed>>
    BY <1>i, <1>9 DEF CheckDestination, CreateDestination, LoopOK, InService, Locked, targetVars
  <2>2. data'[s] = data[s]
    BY <1>0, <1>9, <1>h, <2>1 DEF CheckDestination, CreateDestination, Put, TargetType, targetVars
  <2>3. UNCHANGED script \/ Start(c, [kind |-> "extract", service |-> Current(c), resource |-> Destination(c), phase |-> "run"])
    BY <1>9 DEF CheckDestination, CreateDestination, OpenArchive
  <2>4. \A y \in script'[c] : y.service # s BY <1>s, <2>1, <2>3
  <2> QED BY <2>1, <2>2, <2>4
<1>p. ASSUME NEW x \in script[c], NEW phase \in {"write", "ok", "failed"},
             phase = "write" => x.kind = "extract", Phase(c, x, phase)
      PROVE  \A y \in script'[c] : y.service # s
  <2>1. script'[c] = (script[c] \ {x}) \cup {InPhase(x, phase)} BY <1>0, <1>p DEF Phase, Set, LockType
  <2>2. InPhase(x, phase).service = x.service BY <1>k, <1>p, PhaseKeeps
  <2> QED BY <2>1, <2>2
<1>10. CASE ComposeRuns(c)
  <2>1. PICK x \in script[c] : \E phase \in {"ok", "failed"} :
          /\ Phase(c, x, phase)
          /\ UNCHANGED runtime \/ \E rt \in Runtimes : runtime' = [runtime EXCEPT ![x.service] = rt]
    BY <1>10 DEF ComposeRuns
  <2>2. runtime'[s] = runtime[s] BY <1>0, <2>1 DEF TargetType
  <2> QED BY <1>10, <1>p, <2>1, <2>2 DEF ComposeRuns
<1>11. CASE ExtractBegins(c) \/ ExtractEnds(c) \/ ExtractFails(c)
  <2>1. PICK x \in script[c] :
          /\ x.kind = "extract" /\ \E phase \in {"write", "ok", "failed"} : Phase(c, x, phase)
          /\ UNCHANGED data \/ \E v : Put(x.service, x.resource, v)
    BY <1>11 DEF ExtractBegins, ExtractEnds, ExtractFails, targetVars
  <2>2. data'[s] = data[s] BY <1>0, <2>1 DEF Put, TargetType
  <2>3. UNCHANGED <<pc, runtime, deployed>> BY <1>11 DEF ExtractBegins, ExtractEnds, ExtractFails, targetVars
  <2> QED BY <1>p, <2>1, <2>2, <2>3
<1>12. CASE OrphanEnds(c)
  <2>1. \E x \in script[c] : Ended(c, x) BY <1>12 DEF OrphanEnds
  <2>2. script'[c] \subseteq script[c] BY <1>0, <2>1 DEF Ended, Set, LockType
  <2> QED BY <1>1, <1>12, <2>2 DEF OrphanEnds
<1>13. CASE Timeout(c) \/ LockLost(c)
  BY <1>1, <1>13 DEF Timeout, LockLost
<1> QED BY <1>2, <1>3, <1>4, <1>5, <1>6, <1>7, <1>8, <1>9, <1>10, <1>11, <1>12, <1>13 DEF StepOf, Controller

\* What KnownOK is about.
SameView(b, s) ==
  /\ pc'[b] = pc[b] /\ result'[b] = result[b] /\ facts'[b] = facts[b] /\ found'[b] = found[b]
  /\ handled'[b] = handled[b] /\ filled'[b] = filled[b] /\ stopped'[b] = stopped[b]
  /\ failed'[b] = failed[b] /\ script'[b] = script[b]
  /\ runtime'[s] = runtime[s] /\ deployed'[s] = deployed[s] /\ data'[s] = data[s]

\* What is known of a service survives a step that changes nothing of the view.
LEMMA SameViewKeeps ==
  ASSUME SelfInv, NEW b \in Restores, NEW s \in Services, KnownOK(b, s), SameView(b, s), Settled(b, s)'
  PROVE  KnownOK(b, s)'
<1>1. Rest(b)' = Rest(b) /\ Current(b)' = Current(b) /\ Unfilled(b)' = Unfilled(b)
      /\ Destination(b)' = Destination(b)
  BY DEF SameView, Rest, Current, Unfilled, Destination
<1>2. ServiceOK(b, s)' BY <1>1 DEF KnownOK, ServiceOK, SameView
<1>3. ASSUME pc[b] \in InService, s = Current(b) PROVE DownOK(b, s)' /\ FillOK(b, s)'
  <2>1. DownOK(b, s) /\ FillOK(b, s) BY <1>3 DEF KnownOK
  <2>2. DownOK(b, s)' BY <2>1 DEF DownOK, SameView
  <2>3. \A x \in script[b] : x.service = s BY <1>3 DEF SelfInv, ScriptOK, InService
  <2>4. \A x \in script[b] : Extracts(b, x) => Extracts(b, x)' BY <2>3 DEF Extracts, SameView
  <2>5. FillOK(b, s)' BY <1>1, <2>1, <2>4 DEF FillOK, SameView
  <2> QED BY <2>2, <2>5
<1> QED BY <1>1, <1>2, <1>3 DEF KnownOK, SameView

\* Others do nothing to the services of the holder.
LEMMA HeldElsewhere ==
  ASSUME OwnInv, NEW b \in Restores, holder = b, NEW s \in Services, KnownOK(b, s),
         NEW c \in Restores \ {b}, StepOf(c)
  PROVE  KnownOK(b, s)' /\ data'[s] = data[s] /\ known'[b] = known[b]
<1>1. Others(c) BY OthersKeep DEF OwnInv
<1>2. Settled(b, s) BY DEF KnownOK
<1>3. /\ runtime'[s] = runtime[s] /\ deployed'[s] = deployed[s] /\ data'[s] = data[s]
      /\ \A x \in script'[c] : x.service # s
      /\ pc'[c] \in Locked => s \notin Request[c]
  <2>1. holder # Nobody BY RestoresAssumption
  <2>2. (\A x \in script[c] : x.service # s) /\ (pc[c] \in Locked => s \notin Request[c])
    BY <1>2 DEF Settled
  <2> QED BY <2>1, <2>2, Elsewhere DEF OwnInv
<1>4. SameView(b, s) /\ known'[b] = known[b] BY <1>1, <1>3 DEF Others, SameView
<1>5. Settled(b, s)'
  <2>1. ASSUME NEW d \in Restores \ {b}
        PROVE  (\A x \in script'[d] : x.service # s) /\ (pc'[d] \in Locked => s \notin Request[d])
    <3>1. CASE d = c BY <1>3, <3>1
    <3>2. CASE d # c BY <1>1, <1>2, <3>2 DEF Others, Settled
    <3> QED BY <3>1, <3>2
  <2> QED BY <2>1 DEF Settled
<1> QED BY <1>3, <1>4, <1>5, SameViewKeeps DEF OwnInv

\* Nor does the application, which does not run or finds something.
LEMMA HeldWrites ==
  ASSUME OwnInv, NEW b \in Restores, holder = b, NEW s \in known[b], KnownOK(b, s),
         NEW t \in Services, NEW q \in Data[t], ApplicationWrites(t, q)
  PROVE  /\ KnownOK(b, s)'
         /\ \A r \in Data[s] : (failed[b] => pc[b] = "after") /\ data'[s][r] = "mixed" => data[s][r] = "mixed"
<1>0. TargetType /\ LoopOK(b) /\ ScriptOK(b) /\ s \in Services
  BY TypeParts DEF OwnInv, SelfInv, ApplyType
<1>1. UNCHANGED <<pc, result, facts, found, known, handled, filled, stopped, failed, script, runtime, deployed>>
  BY DEF ApplicationWrites, planVars, applyVars, lockVars
<1>2. Rest(b)' = Rest(b) /\ Current(b)' = Current(b) /\ Unfilled(b)' = Unfilled(b)
      /\ Destination(b)' = Destination(b)
  BY <1>1 DEF Rest, Current, Unfilled, Destination
<1>3. \A r \in Resources : data'[s][r] = data[s][r] \/
        /\ s = t /\ r = q /\ runtime[s] = "running"
        /\ \/ data[s][r] = "empty" /\ data'[s][r] = "own"
           \/ data[s][r] = "part" /\ Extracting(s, r)
  BY <1>0 DEF ApplicationWrites, Put, TargetType
<1>4. Settled(b, s)' BY <1>1 DEF KnownOK, Settled
<1>5. \A r \in Resources : data[s][r] = "whole" => data'[s][r] = "whole" BY <1>3
<1>d. Data[s] \subseteq Resources BY <1>0 DEF Resources
<1>6. ServiceOK(b, s)' BY <1>1, <1>2, <1>5, <1>d DEF KnownOK, ServiceOK
<1>7. ASSUME pc[b] \in InService, s = Current(b) PROVE DownOK(b, s)' /\ FillOK(b, s)'
  <2>1. DownOK(b, s) /\ FillOK(b, s) BY <1>7 DEF KnownOK
  <2>2. DownOK(b, s)' BY <1>1, <2>1 DEF DownOK
  <2>3. filled[b] \subseteq Resources BY TypeParts DEF OwnInv, ApplyType
  <2>4. pc[b] = "create" => data'[s][Destination(b)] = data[s][Destination(b)]
    <3>1. pc[b] = "create" => Destination(b) \in Resources /\ runtime[s] = "stopped"
      BY <1>0, <2>1, AtHand DEF LoopOK, InService, OnDestination, DownOK, AtRest
    <3> QED BY <1>3, <3>1
  <2>5. ASSUME NEW x \in script[b], x.kind = "extract", failed[b] => pc[b] = "after"
        PROVE  data'[x.service][x.resource] = data[x.service][x.resource]
    <3>1. x.service = s /\ x.resource \in Data[s] BY <1>0, <1>7, <2>5 DEF ScriptOK, Stays, InService
    <3>2. pc[b] \in AtRest BY <1>0, <1>7, <2>5 DEF ScriptOK, Stays, AtRest, InService
    <3>3. runtime[s] = "stopped" BY <2>1, <3>2 DEF DownOK
    <3> QED BY <1>3, <1>d, <3>1, <3>3
  <2>6. \A x \in script[b] : Extracts(b, x)' BY <1>1, <2>1, <2>5 DEF FillOK, Extracts
  <2>7. FillOK(b, s)' BY <1>1, <1>2, <1>5, <2>1, <2>3, <2>4, <2>6 DEF FillOK
  <2> QED BY <2>2, <2>7
<1>8. KnownOK(b, s)' BY <1>1, <1>2, <1>4, <1>6, <1>7 DEF KnownOK
<1>9. ASSUME NEW r \in Data[s], failed[b] => pc[b] = "after", data'[s][r] = "mixed", data[s][r] # "mixed"
      PROVE  FALSE
  <2>1. runtime[s] = "running" /\ Extracting(s, r) BY <1>3, <1>9, <1>d
  <2>2. PICK c \in Restores : \E x \in script[c] : x.kind = "extract" /\ x.service = s
    BY <2>1 DEF Extracting
  <2>3. PICK x \in script[b] : x.kind = "extract" /\ x.service = s BY <2>2 DEF KnownOK, Settled
  <2>4. pc[b] \in {"extracting", "after"} /\ s = Current(b)
    BY <1>0, <1>9, <2>3, RestoresAssumption DEF ScriptOK, Stays, LoopOK, Locked
  <2>5. runtime[s] = "stopped" BY <2>4 DEF KnownOK, DownOK, InService, AtRest
  <2> QED BY <2>1, <2>5
<1> QED BY <1>8, <1>9

\* The lock is granted: what the holder knows is what it has just compared.
LEMMA HeldGrant ==
  ASSUME OwnInv, NEW b \in Restores, LockGranted(b), NEW s \in known'[b]
  PROVE  KnownOK(b, s)'
<1>0. ApplyType /\ LockType /\ PlanType BY TypeParts DEF OwnInv
<1>1. /\ pc'[b] = "next" /\ pc[b] = "lock" /\ s \in Request[b] /\ ~Unsettled(s)
      /\ facts[b][s] = runtime[s] /\ found[b][s] = DeploymentFacts(b)[s]
      /\ UNCHANGED <<facts, found, handled, script, runtime, deployed, data>>
      /\ \A c \in Restores \ {b} : pc'[c] = pc[c]
  BY <1>0 DEF LockGranted, Goto, Set, planVars, targetVars, ApplyType
<1>2. handled[b] = {} BY <1>1 DEF OwnInv, SelfInv, LoopOK, Before
<1>3. Settled(b, s)' BY <1>1 DEF Settled, Unsettled
<1>4. s \in Services BY <1>1, ServicesAssumption
<1>5. ServiceOK(b, s)' BY <1>1, <1>2, <1>4 DEF ServiceOK, DeploymentFacts
<1> QED BY <1>1, <1>3, <1>5 DEF KnownOK, InService

\* What the holder itself does, step by step, outside and inside a service.
LEMMA HeldOwn ==
  ASSUME OwnInv, NEW b \in Restores, holder = b, holder' = b, NEW s \in known[b], KnownOK(b, s), StepOf(b)
  PROVE  /\ KnownOK(b, s)' /\ known'[b] = known[b]
         /\ \A r \in Data[s] : (failed[b] => pc[b] = "after") /\ data'[s][r] = "mixed" => data[s][r] = "mixed"
<1>0. ApplyType /\ LockType /\ TargetType BY TypeParts DEF OwnInv
<1>i. LoopOK(b) /\ ScriptOK(b) BY DEF OwnInv, SelfInv
<1>h. Rest(b) # {} => Current(b) \in Rest(b) /\ Current(b) \in Services /\ Current(b) \in Request[b]
  BY AtHand
<1>k. \A x \in script[b] : x \in ComposeScript \cup Extraction BY <1>0 DEF LockType
<1>l. pc[b] \in Locked BY <1>i DEF LoopOK
<1>s. s \in Services /\ s \in Request[b] BY <1>0, <1>i DEF ApplyType, LoopOK
<1>d. Data[s] \subseteq Resources BY <1>s DEF Resources
<1>g. /\ Settled(b, s) /\ ServiceOK(b, s)
      /\ pc[b] \in InService /\ s = Current(b) => DownOK(b, s) /\ FillOK(b, s)
  BY DEF KnownOK
<1>o. Settled(b, s)'
  <2>1. Others(b) BY OthersKeep DEF OwnInv
  <2> QED BY <1>g, <2>1 DEF Settled, Others
<1>e. ~End(b) BY RestoresAssumption DEF End
<1>n. ~LockGranted(b) /\ ~Rebuild(b) /\ ~Timeout(b) /\ ~LockLost(b)
  BY <1>l, RestoresAssumption DEF LockGranted, Rebuild, Timeout, LockLost, Locked
<1>v. ASSUME UNCHANGED targetVars \/ UNCHANGED <<deployed, data>>
      PROVE  \A r \in Data[s] : data'[s][r] = "mixed" => data[s][r] = "mixed"
  BY <1>v DEF targetVars
\* The loop comes to an end, with an error or without.
<1>r. ASSUME NEW o \in {"ok", "failed", "stop failed", "restart failed"}, Return(b, o),
             UNCHANGED <<facts, found, handled, targetVars>>,
             o = "ok" => Rest(b) = {},
             o = "failed" => \/ pc[b] = "next" /\ handled[b] = {}
                             \/ b \in RootSessions /\ s = Current(b) => runtime[s] = facts[b][s]
      PROVE  KnownOK(b, s)'
  <2>1. pc'[b] = "release" /\ result'[b] = o BY <1>0, <1>r DEF Return, Goto, Set, ApplyType
  <2>2. Rest(b)' = Rest(b) /\ Current(b)' = Current(b) BY <1>r DEF Rest, Current
  <2>3. s \in Rest(b) \/ s \in handled[b] BY <1>s DEF Rest
  <2>4. ASSUME b \in RootSessions, o \notin {"stop failed", "restart failed"} PROVE runtime[s] = facts[b][s]
    <3>1. CASE s \in handled[b] BY <1>g, <2>4, <3>1 DEF ServiceOK
    <3>2. CASE s \in Rest(b) /\ s # Current(b) BY <1>g, <3>2 DEF ServiceOK
    <3>3. CASE s \in Rest(b) /\ s = Current(b)
      <4>1. o = "failed" BY <1>r, <2>4, <3>3
      <4>2. CASE pc[b] = "next" BY <1>g, <3>3, <4>2 DEF ServiceOK
      <4> QED BY <1>r, <2>4, <3>3, <4>1, <4>2
    <3> QED BY <2>3, <3>1, <3>2, <3>3
  <2>5. s \in Rest(b) /\ s # Current(b) => runtime[s] = facts[b][s] BY <1>g DEF ServiceOK
  <2>6. ServiceOK(b, s)' BY <1>g, <1>r, <2>1, <2>2, <2>4, <2>5 DEF ServiceOK, targetVars
  <2> QED BY <1>o, <2>1, <2>6 DEF KnownOK, InService
<1>1. CASE HelperMissing(b)
  BY <1>r, <1>v, <1>1 DEF HelperMissing, planVars
<1>2. CASE AllRestored(b)
  BY <1>r, <1>v, <1>2 DEF AllRestored, planVars
\* Moves within a service leave the others, and what was found, alone.
<1>m. ASSUME pc[b] \in InService \cup {"next"}, pc'[b] \in InService, Rest(b) # {},
             UNCHANGED <<facts, found, handled>>, deployed'[s] = deployed[s],
             s # Current(b) => runtime'[s] = runtime[s] /\ data'[s] = data[s],
             s = Current(b) => DownOK(b, s)' /\ FillOK(b, s)'
      PROVE  KnownOK(b, s)'
  <2>1. Rest(b)' = Rest(b) /\ Current(b)' = Current(b) BY <1>m DEF Rest, Current
  <2>2. s \in handled[b] => s # Current(b) BY <1>h, <1>m DEF Rest
  <2>3. ServiceOK(b, s)' BY <1>g, <1>m, <2>1, <2>2 DEF ServiceOK, InService
  <2> QED BY <1>o, <1>m, <2>1, <2>3 DEF KnownOK
<1>3. CASE NextService(b)
  <2>1. /\ pc[b] = "next" /\ Rest(b) # {} /\ ~stopped[b] /\ filled[b] = {} /\ script[b] = {}
        /\ UNCHANGED <<facts, found, known, handled, filled, stopped, failed, targetVars>>
    BY <1>i, <1>3 DEF NextService, planVars, LoopOK, ScriptOK, Stays, Before
  <2>2. s = Current(b) => runtime[s] = facts[b][s] BY <1>g, <1>h, <2>1 DEF ServiceOK
  <2>3. CASE facts[b][Current(b)] = "running"
    <3>0. Launch(b, "stop") /\ Goto(b, "stopping") BY <1>3, <2>3 DEF NextService
    <3>1. pc'[b] = "stopping" /\ script'[b] = {[kind |-> "stop", service |-> Current(b), phase |-> "run"]}
      BY <1>0, <2>1, <3>0 DEF Launch, Start, Set, Goto, ApplyType, LockType
    <3>2. s = Current(b) => DownOK(b, s)' /\ FillOK(b, s)'
      BY <2>1, <2>3, <3>1 DEF DownOK, FillOK, Extracts, AtRest
    <3> QED BY <1>m, <1>v, <2>1, <3>1, <3>2 DEF InService, targetVars
  <2>4. CASE facts[b][Current(b)] # "running"
    <3>1. pc'[b] = "check" /\ script'[b] = {}
      BY <1>0, <1>3, <2>1, <2>4 DEF NextService, Goto, ApplyType
    <3>2. s = Current(b) => runtime[s] = "stopped"
      BY <1>0, <1>s, <2>2, <2>4 DEF TargetType, Runtimes
    <3>3. s = Current(b) => DownOK(b, s)' /\ FillOK(b, s)'
      BY <2>1, <2>4, <3>1, <3>2 DEF DownOK, FillOK, Extracts, AtRest, targetVars
    <3> QED BY <1>m, <1>v, <2>1, <3>1, <3>3 DEF InService, targetVars
  <2> QED BY <2>3, <2>4
<1>4. CASE StopReturned(b)
  <2>1. PICK x \in script[b] : /\ x.kind = "stop" /\ Ended(b, x)
                               /\ \/ /\ x.phase = "ok" /\ stopped' = Set(stopped, b, TRUE)
                                     /\ Goto(b, "check") /\ UNCHANGED result
                                  \/ Return(b, "stop failed") /\ UNCHANGED stopped
    BY <1>4 DEF StopReturned
  <2>2. /\ pc[b] = "stopping" /\ Rest(b) # {} /\ filled[b] = {}
        /\ UNCHANGED <<facts, found, known, handled, filled, failed, targetVars>>
    BY <1>i, <1>4 DEF StopReturned, planVars, LoopOK, InService, Before
  <2>3. CASE Return(b, "stop failed") BY <1>r, <1>v, <2>2, <2>3
  <2>4. CASE x.phase = "ok" /\ stopped' = Set(stopped, b, TRUE) /\ Goto(b, "check")
    <3>1. pc'[b] = "check" /\ stopped'[b] = TRUE BY <1>0, <2>4 DEF Goto, Set, ApplyType
    <3>2. \A y \in script'[b] : y.kind = "stop"
      BY <1>0, <1>i, <2>1, <2>2 DEF Ended, Set, LockType, ScriptOK, Stays
    <3>3. s = Current(b) => runtime[s] = "stopped" /\ deployed[s] /\ facts[b][s] = "running"
      BY <1>g, <2>1, <2>2, <2>4 DEF DownOK, InService
    <3>4. b \in RootSessions /\ s = Current(b) => found[b][s] BY <1>g, <3>3 DEF ServiceOK
    <3>5. s = Current(b) => DownOK(b, s)' /\ FillOK(b, s)'
      BY <2>2, <3>1, <3>2, <3>3, <3>4 DEF DownOK, FillOK, Extracts, AtRest, targetVars
    <3> QED BY <1>m, <1>v, <2>2, <3>1, <3>5 DEF InService, targetVars
  <2> QED BY <2>1, <2>3, <2>4
\* An error within the service, or the archive is gone.
<1>f. ASSUME RestoreFails(b), pc[b] \in OnDestination,
             UNCHANGED <<facts, found, handled, stopped, runtime, deployed>>,
             \A r \in filled[b] : r \in filled'[b],
             s # Current(b) => data'[s] = data[s],
             s = Current(b) => \A r \in filled'[b] : data'[s][r] = "whole",
             s = Current(b) => \A x \in script'[b] : Extracts(b, x)'
      PROVE  KnownOK(b, s)'
  <2>1. pc'[b] = "after" BY <1>0, <1>f DEF RestoreFails, Goto, ApplyType
  <2>2. Rest(b) # {} BY <1>i, <1>f DEF LoopOK, InService, OnDestination
  <2>3. s = Current(b) => DownOK(b, s)'
    BY <1>g, <1>f, <2>1 DEF DownOK, InService, OnDestination, AtRest
  <2>4. s = Current(b) => FillOK(b, s)' BY <1>f, <2>1 DEF FillOK
  <2> QED BY <1>m, <1>f, <2>1, <2>2, <2>3, <2>4 DEF InService, OnDestination
<1>w. ASSUME StopWaiting(b) PROVE KnownOK(b, s)'
  <2>1. UNCHANGED <<facts, found, known, handled, filled, stopped, script, targetVars>>
    BY <1>w DEF StopWaiting, planVars, lockVars
  <2>2. CASE \E o \in {"stop failed", "restart failed"} : Return(b, o) BY <1>r, <2>1, <2>2
  <2>3. CASE pc[b] = "extracting" /\ RestoreFails(b)
    <3>1. ASSUME s = Current(b) PROVE \A x \in script'[b] : Extracts(b, x)'
      <4>1. ~failed[b] /\ FillOK(b, s) BY <1>g, <1>i, <2>3, <3>1 DEF LoopOK, OnDestination, InService
      <4> QED BY <2>1, <4>1 DEF FillOK, Extracts, targetVars
    <3>2. s = Current(b) => \A r \in filled'[b] : data'[s][r] = "whole"
      BY <1>g, <2>1, <2>3 DEF FillOK, InService, targetVars
    <3> QED BY <1>f, <2>1, <2>3, <3>1, <3>2 DEF OnDestination, targetVars
  <2> QED BY <1>w, <2>2, <2>3 DEF StopWaiting
<1>5. CASE WaitExpires(b) \/ ConnectionLost(b)
  <2>1. CASE StopWaiting(b)
    BY <1>w, <1>v, <2>1 DEF StopWaiting
  <2>2. CASE Return(b, "stop failed") /\ UNCHANGED <<planVars, known, handled, filled, stopped, failed, lockVars, targetVars>>
    BY <1>r, <1>v, <2>2 DEF planVars
  <2> QED BY <1>5, <2>1, <2>2 DEF WaitExpires, ConnectionLost
\* The archive is opened for a destination without other data.
<1>a. ASSUME pc[b] \in {"check", "create"}, OpenArchive(b),
             UNCHANGED <<facts, found, known, handled, filled, stopped, runtime, deployed>>,
             s # Current(b) => data'[s] = data[s],
             s = Current(b) => /\ data'[s][Destination(b)] \in {"missing", "empty"}
                               /\ \A r \in Resources \ {Destination(b)} : data'[s][r] = data[s][r]
      PROVE  KnownOK(b, s)'
  <2>1. Rest(b) # {} /\ Unfilled(b) # {} /\ ~failed[b] /\ script[b] = {}
    BY <1>i, <1>a DEF LoopOK, ScriptOK, Stays, InService, OnDestination
  <2>2. filled[b] \subseteq Resources /\ Destination(b) \notin filled[b] /\ Destination(b) \in Resources
    BY <1>0, <2>1, AtHand DEF ApplyType, Unfilled
  <2>3. s = Current(b) => \A r \in filled'[b] : data'[s][r] = "whole"
    BY <1>g, <1>a, <2>2 DEF FillOK, InService
  <2>4. CASE RestoreFails(b) /\ UNCHANGED script
    BY <1>f, <1>a, <2>1, <2>3, <2>4 DEF OnDestination
  <2>5. CASE /\ Goto(b, "extracting") /\ UNCHANGED failed
             /\ Start(b, [kind |-> "extract", service |-> Current(b), resource |-> Destination(b), phase |-> "run"])
    <3>x. PICK x : x = [kind |-> "extract", service |-> Current(b), resource |-> Destination(b), phase |-> "run"]
      OBVIOUS
    <3>1. pc'[b] = "extracting" /\ script'[b] = {x}
      BY <1>0, <2>1, <2>5, <3>x DEF Goto, Start, Set, ApplyType, LockType
    <3>2. s = Current(b) => Extracts(b, x)' BY <1>a, <3>x DEF Extracts
    <3>3. s = Current(b) => FillOK(b, s)' BY <2>3, <3>1, <3>2 DEF FillOK
    <3>4. s = Current(b) => DownOK(b, s)' BY <1>g, <1>a, <3>1 DEF DownOK, InService, AtRest
    <3> QED BY <1>m, <1>a, <2>1, <3>1, <3>3, <3>4 DEF InService
  <2> QED BY <1>a, <2>4, <2>5 DEF OpenArchive
<1>6. CASE CheckDestination(b)
  <2>1. /\ pc[b] = "check" /\ Rest(b) # {} /\ Unfilled(b) # {} /\ script[b] = {}
        /\ UNCHANGED <<facts, found, known, handled, filled, stopped, targetVars>>
    BY <1>i, <1>6 DEF CheckDestination, planVars, LoopOK, ScriptOK, Stays, InService, OnDestination
  <2>2. s = Current(b) => DownOK(b, s) /\ FillOK(b, s) BY <1>g, <2>1 DEF InService
  <2>3. CASE RestoreFails(b) /\ UNCHANGED script
    BY <1>f, <1>v, <2>1, <2>2, <2>3 DEF OnDestination, FillOK, targetVars
  <2>4. CASE State(Current(b), Destination(b)) = "missing" /\ Goto(b, "create") /\ UNCHANGED <<failed, script>>
    <3>1. pc'[b] = "create" BY <1>0, <2>4 DEF Goto, ApplyType
    <3>2. data[Current(b)][Destination(b)] = "missing" BY <2>4 DEF State
    <3>3. Destination(b)' = Destination(b) BY <2>1 DEF Destination, Unfilled, Current, Rest
    <3>4. s = Current(b) => DownOK(b, s)' BY <2>1, <2>2, <3>1 DEF DownOK, AtRest, targetVars
    <3>5. s = Current(b) => FillOK(b, s)' BY <2>1, <2>2, <2>4, <3>2, <3>3 DEF FillOK, targetVars
    <3> QED BY <1>m, <1>v, <2>1, <3>1, <3>4, <3>5 DEF InService, targetVars
  <2>5. CASE Acceptable(b) /\ State(Current(b), Destination(b)) # "missing" /\ OpenArchive(b)
    <3>1. data[Current(b)][Destination(b)] \in {"missing", "empty"} BY <2>5 DEF Acceptable, State
    <3> QED BY <1>a, <1>v, <2>1, <2>5, <3>1 DEF targetVars
  <2> QED BY <1>6, <2>3, <2>4, <2>5 DEF CheckDestination
<1>7. CASE CreateDestination(b)
  <2>1. /\ pc[b] = "create" /\ Rest(b) # {} /\ Unfilled(b) # {} /\ script[b] = {}
        /\ UNCHANGED <<facts, found, known, handled, filled, stopped, runtime, deployed>>
    BY <1>i, <1>7 DEF CreateDestination, planVars, LoopOK, ScriptOK, Stays, InService, OnDestination
  <2>2. s = Current(b) => DownOK(b, s) /\ FillOK(b, s) BY <1>g, <2>1 DEF InService
  <2>3. CASE RestoreFails(b) /\ UNCHANGED <<data, script>>
    BY <1>f, <1>v, <2>1, <2>2, <2>3 DEF OnDestination, FillOK
  <2>4. ASSUME OpenArchive(b),
               Put(Current(b), Destination(b),
                   IF State(Current(b), Destination(b)) = "missing" THEN "empty"
                   ELSE data[Current(b)][Destination(b)])
        PROVE  /\ KnownOK(b, s)'
               /\ \A r \in Data[s] : data'[s][r] = "mixed" => data[s][r] = "mixed"
    <3>1. Current(b) \in Services /\ Destination(b) \in Resources BY <2>1, AtHand
    <3>2. s # Current(b) => data'[s] = data[s] BY <1>0, <1>s, <2>4, <3>1 DEF Put, TargetType
    <3>3. /\ data'[Current(b)][Destination(b)] =
               IF State(Current(b), Destination(b)) = "missing" THEN "empty"
               ELSE data[Current(b)][Destination(b)]
          /\ \A r \in Resources \ {Destination(b)} : data'[Current(b)][r] = data[Current(b)][r]
      BY <1>0, <2>4, <3>1 DEF Put, TargetType
    <3>4. s = Current(b) => data[s][Destination(b)] \in {"missing", "empty"} BY <2>1, <2>2 DEF FillOK
    <3>5. s = Current(b) => data'[s][Destination(b)] \in {"missing", "empty"} BY <3>3, <3>4
    <3>6. KnownOK(b, s)' BY <1>a, <2>1, <2>4, <3>2, <3>3, <3>5
    <3> QED BY <1>d, <3>2, <3>3, <3>5, <3>6
  <2> QED BY <1>7, <2>1, <2>3, <2>4 DEF CreateDestination
<1>8. CASE ExtractReturned(b)
  <2>1. PICK x \in script[b] : /\ x.kind = "extract" /\ Ended(b, x)
                               /\ \/ /\ x.phase = "ok"
                                     /\ filled' = Set(filled, b, filled[b] \cup {x.resource})
                                     /\ Goto(b, IF Unfilled(b) = {x.resource} THEN "after" ELSE "check")
                                     /\ UNCHANGED failed
                                  \/ RestoreFails(b) /\ UNCHANGED filled
    BY <1>8 DEF ExtractReturned
  <2>2. /\ pc[b] = "extracting" /\ Rest(b) # {} /\ ~failed[b]
        /\ UNCHANGED <<facts, found, known, handled, stopped, targetVars>>
    BY <1>i, <1>8 DEF ExtractReturned, planVars, LoopOK, InService, OnDestination
  <2>3. s = Current(b) => DownOK(b, s) /\ FillOK(b, s) BY <1>g, <2>2 DEF InService
  <2>4. script'[b] = {}
    <3>1. \A y \in script[b] : y.kind = "extract" BY <1>i, <2>2 DEF ScriptOK, Stays
    <3>2. \A y \in script[b] : y = x BY <1>i, <2>1, <3>1 DEF ScriptOK
    <3> QED BY <1>0, <2>1, <3>2 DEF Ended, Set, LockType
  <2>5. CASE RestoreFails(b) /\ UNCHANGED filled
    BY <1>f, <1>v, <2>2, <2>3, <2>4, <2>5 DEF OnDestination, FillOK, targetVars
  <2>6. CASE /\ x.phase = "ok" /\ filled' = Set(filled, b, filled[b] \cup {x.resource}) /\ UNCHANGED failed
             /\ Goto(b, IF Unfilled(b) = {x.resource} THEN "after" ELSE "check")
    <3>1. pc'[b] \in {"after", "check"} BY <1>0, <2>6 DEF Goto, ApplyType
    <3>2. filled'[b] = filled[b] \cup {x.resource} BY <1>0, <2>6 DEF Set, ApplyType
    <3>3. x.service = Current(b) BY <1>i, <2>2 DEF ScriptOK
    <3>4. s = Current(b) => data[s][x.resource] = "whole"
      BY <2>1, <2>2, <2>3, <2>6, <3>3 DEF FillOK, Extracts
    <3>5. s = Current(b) => FillOK(b, s)' BY <2>2, <2>3, <2>4, <3>1, <3>2, <3>4 DEF FillOK, targetVars
    <3>6. s = Current(b) => DownOK(b, s)' BY <2>2, <2>3, <3>1 DEF DownOK, AtRest, targetVars
    <3> QED BY <1>m, <1>v, <2>2, <3>1, <3>5, <3>6 DEF InService, targetVars
  <2> QED BY <2>1, <2>5, <2>6
\* The end of the loop's body finds the service as it was, for a root session.
<1>b. ASSUME ServiceDone(b), pc[b] \in {"after", "restarting"}, UNCHANGED <<facts, found, failed, targetVars>>,
             s = Current(b) /\ b \in RootSessions => runtime[s] = facts[b][s]
      PROVE  KnownOK(b, s)'
  <2>1. Rest(b) # {} BY <1>i, <1>b DEF LoopOK, InService
  <2>2. CASE failed[b] BY <1>r, <1>b, <2>2 DEF ServiceDone
  <2>3. CASE ~failed[b]
    <3>1. pc'[b] = "next" /\ handled'[b] = handled[b] \cup {Current(b)}
      BY <1>0, <1>b, <2>3 DEF ServiceDone, Goto, Set, ApplyType
    <3>2. Rest(b)' = Rest(b) \ {Current(b)} BY <3>1 DEF Rest
    <3>3. s = Current(b) => \A r \in Data[s] : data[s][r] = "whole"
      <4>1. Unfilled(b) = {} BY <1>i, <1>b, <2>3 DEF LoopOK
      <4> QED BY <1>g, <1>b, <4>1 DEF FillOK, Unfilled, InService
    <3>4. ServiceOK(b, s)' BY <1>g, <1>b, <3>1, <3>2, <3>3 DEF ServiceOK, targetVars
    <3> QED BY <1>o, <3>1, <3>4 DEF KnownOK, InService
  <2> QED BY <2>2, <2>3
<1>9. CASE AfterResources(b)
  <2>1. /\ pc[b] = "after" /\ Rest(b) # {}
        /\ UNCHANGED <<facts, found, known, failed, targetVars>>
    BY <1>i, <1>9 DEF AfterResources, planVars, LoopOK, InService
  <2>2. s = Current(b) => DownOK(b, s) /\ FillOK(b, s) BY <1>g, <2>1 DEF InService
  <2>3. CASE ~Restarts(b) /\ ServiceDone(b)
    <3>1. s = Current(b) /\ b \in RootSessions => ~stopped[b] BY <2>1, <2>2, <2>3 DEF Restarts, DownOK, AtRest
    <3>2. s = Current(b) /\ b \in RootSessions => runtime[s] = "stopped" /\ facts[b][s] # "running"
      BY <2>1, <2>2, <3>1 DEF DownOK, AtRest
    <3>3. facts[b][s] \in Runtimes BY <1>s, TypeParts DEF OwnInv, PlanType
    <3> QED BY <1>b, <1>v, <2>1, <2>3, <3>2, <3>3 DEF Runtimes
  <2>4. CASE Return(b, "restart failed") /\ UNCHANGED <<handled, filled, stopped>>
    BY <1>r, <1>v, <2>1, <2>4
  <2>5. CASE Restarts(b) /\ Launch(b, "up") /\ Goto(b, "restarting") /\ UNCHANGED <<result, handled, filled, stopped>>
    <3>x. PICK x : x = [kind |-> "up", service |-> Current(b), phase |-> "run"] OBVIOUS
    <3>1. pc'[b] = "restarting" /\ script'[b] = script[b] \cup {x}
      BY <1>0, <2>5, <3>x DEF Launch, Start, Set, Goto, ApplyType, LockType
    <3>2. \A y \in script[b] : failed[b] BY <1>i, <2>1 DEF ScriptOK, Stays
    <3>3. s = Current(b) => facts[b][s] = "running" BY <2>1, <2>2, <2>5 DEF Restarts, DownOK, AtRest
    <3>4. s = Current(b) => DownOK(b, s)' BY <2>1, <3>1, <3>3 DEF DownOK, AtRest
    <3>5. \A y \in script'[b] : Extracts(b, y)' BY <2>1, <3>x, <3>1, <3>2 DEF Extracts
    <3>6. s = Current(b) => FillOK(b, s)' BY <2>1, <2>2, <2>5, <3>1, <3>5 DEF FillOK, targetVars
    <3> QED BY <1>m, <1>v, <2>1, <2>5, <3>1, <3>4, <3>6 DEF InService, targetVars
  <2> QED BY <1>9, <2>3, <2>4, <2>5 DEF AfterResources
<1>10. CASE RestartReturned(b)
  <2>1. pc[b] = "restarting" /\ UNCHANGED <<facts, found, known, failed, targetVars>>
    BY <1>10 DEF RestartReturned, planVars
  <2>2. CASE ServiceDone(b) /\ runtime[Current(b)] = "running"
    <3>1. s = Current(b) => facts[b][s] = "running" BY <1>g, <2>1 DEF DownOK, InService
    <3> QED BY <1>b, <1>v, <2>1, <2>2, <3>1
  <2>3. CASE Return(b, "restart failed") /\ UNCHANGED <<handled, filled, stopped>>
    BY <1>r, <1>v, <2>1, <2>3
  <2> QED BY <1>10, <2>1, <2>2, <2>3 DEF RestartReturned
\* The commands of the holder itself.
<1>c. ASSUME UNCHANGED <<pc, result, facts, found, known, handled, filled, stopped, failed, deployed>>,
             Rest(b) # {},
             s # Current(b) => runtime'[s] = runtime[s] /\ data'[s] = data[s],
             pc[b] \in InService /\ s = Current(b) => DownOK(b, s)' /\ FillOK(b, s)',
             pc[b] \notin InService => \/ runtime'[s] = runtime[s]
                                       \/ result[b] \in {"stop failed", "restart failed"} /\ pc[b] = "release",
             pc[b] \in InService \cup {"release"}
      PROVE  KnownOK(b, s)'
  <2>1. Rest(b)' = Rest(b) /\ Current(b)' = Current(b) BY <1>c DEF Rest, Current
  <2>2. s \in handled[b] => s # Current(b) BY <1>h, <1>c DEF Rest
  <2>3. ServiceOK(b, s)' BY <1>g, <1>c, <2>1, <2>2 DEF ServiceOK, InService
  <2> QED BY <1>o, <1>c, <2>1, <2>3 DEF KnownOK
<1>x. ASSUME NEW x \in script[b]
      PROVE  /\ pc[b] \in InService \cup {"release"} /\ Rest(b) # {} /\ x.service = Current(b)
             /\ x.kind = "extract" => x.resource \in Data[x.service] \ filled[b]
  BY <1>i, <1>l, <1>x DEF ScriptOK, Stays, InService, Locked
<1>11. CASE ComposeRuns(b)
  <2>1. PICK x \in script[b], phase \in {"ok", "failed"} :
          /\ x.kind \in {"stop", "up"} /\ Phase(b, x, phase)
          /\ \/ phase = "failed" /\ UNCHANGED runtime
             \/ \E rt \in Runtimes :
                  /\ x.kind = "stop" /\ phase = "ok" => rt = "stopped" /\ deployed[x.service]
                  /\ runtime' = [runtime EXCEPT ![x.service] = rt]
    BY <1>11 DEF ComposeRuns
  <2>2. UNCHANGED <<pc, result, facts, found, known, handled, filled, stopped, failed, deployed, data>>
    BY <1>11 DEF ComposeRuns, planVars, applyVars
  <2>3. x.service = Current(b) /\ Rest(b) # {} /\ Current(b) \in Services BY <1>h, <1>x
  <2>4. s # Current(b) => runtime'[s] = runtime[s] BY <1>0, <1>s, <2>1, <2>3 DEF TargetType
  <2>5. \/ pc[b] = "stopping" /\ x.kind = "stop"
        \/ pc[b] = "restarting" /\ x.kind = "up"
        \/ pc[b] = "release" /\ result[b] \in {"stop failed", "restart failed"}
    BY <1>i, <1>l, <2>1 DEF ScriptOK, Stays, Locked
  <2>6. /\ script'[b] = (script[b] \ {x}) \cup {InPhase(x, phase)}
        /\ InPhase(x, phase).kind = x.kind /\ InPhase(x, phase).phase = phase
    BY <1>0, <1>k, <2>1, PhaseKeeps DEF Phase, Set, LockType
  <2>7. ASSUME pc[b] \in InService, s = Current(b) PROVE DownOK(b, s)' /\ FillOK(b, s)'
    <3>1. DownOK(b, s) /\ FillOK(b, s) BY <1>g, <2>7
    <3>2. pc[b] = "stopping" => script'[b] = {InPhase(x, phase)}
      <4>1. pc[b] = "stopping" => \A y \in script[b] : y.kind = "stop" BY <1>i DEF ScriptOK, Stays
      <4>2. pc[b] = "stopping" => \A y \in script[b] : y = x BY <1>i, <4>1 DEF ScriptOK
      <4> QED BY <2>6, <4>2
    <3>3. pc[b] = "stopping" /\ phase = "ok" => runtime'[s] = "stopped" /\ deployed[s]
      BY <1>0, <1>s, <2>1, <2>3, <2>5, <2>7 DEF TargetType
    <3>4. DownOK(b, s)' BY <2>2, <2>5, <2>6, <2>7, <3>1, <3>2, <3>3 DEF DownOK, AtRest, InService
    <3>5. \A y \in script'[b] : Extracts(b, y)' BY <2>1, <2>2, <2>6, <3>1 DEF FillOK, Extracts
    <3>6. FillOK(b, s)' BY <2>2, <2>5, <2>7, <3>1, <3>5 DEF FillOK, InService
    <3> QED BY <3>4, <3>6
  <2>8. KnownOK(b, s)' BY <1>c, <2>2, <2>3, <2>4, <2>5, <2>7 DEF InService
  <2> QED BY <1>v, <2>2, <2>8
<1>y. ASSUME NEW x \in script[b], x.kind = "extract", NEW phase \in {"write", "ok", "failed"}, Phase(b, x, phase),
             UNCHANGED <<pc, result, facts, found, known, handled, filled, stopped, failed, runtime, deployed>>,
             NEW v, Put(x.service, x.resource, v) \/ (v = data[x.service][x.resource] /\ UNCHANGED data),
             (failed[b] => pc[b] = "after") /\ Extracts(b, x) =>
                <<phase, v>> \in {<<"write", "part">>, <<"ok", "whole">>} \/ (phase = "failed" /\ v # "mixed")
      PROVE  /\ KnownOK(b, s)'
             /\ \A r \in Data[s] : (failed[b] => pc[b] = "after") /\ data'[s][r] = "mixed" => data[s][r] = "mixed"
  <2>1. x.service = Current(b) /\ Rest(b) # {} /\ Current(b) \in Services /\ pc[b] \in InService \cup {"release"}
        /\ x.resource \in Resources /\ x.resource \notin filled[b]
    BY <1>h, <1>k, <1>x, <1>y, ScriptKinds
  <2>2. s # Current(b) => data'[s] = data[s] BY <1>0, <1>s, <1>y, <2>1 DEF Put, TargetType
  <2>3. /\ data'[Current(b)][x.resource] = v
        /\ \A r \in Resources \ {x.resource} : data'[Current(b)][r] = data[Current(b)][r]
    BY <1>0, <1>y, <2>1 DEF Put, TargetType
  <2>4. /\ script'[b] = (script[b] \ {x}) \cup {InPhase(x, phase)}
        /\ InPhase(x, phase).kind = x.kind /\ InPhase(x, phase).phase = phase
        /\ InPhase(x, phase).service = x.service /\ InPhase(x, phase).resource = x.resource
    BY <1>0, <1>k, <1>y, PhaseKeeps DEF Phase, Set, LockType
  <2>5. /\ pc[b] \in {"extracting", "after", "restarting", "release"}
        /\ pc[b] \in {"restarting", "release"} => failed[b]
    BY <1>i, <1>l, <1>y DEF ScriptOK, Stays, Locked
  <2>6. ASSUME pc[b] \in InService, s = Current(b)
        PROVE  DownOK(b, s)' /\ FillOK(b, s)' /\ ((failed[b] => pc[b] = "after") => v # "mixed")
    <3>1. DownOK(b, s) /\ FillOK(b, s) BY <1>g, <2>6
    <3>2. DownOK(b, s)' BY <1>y, <2>5, <2>6, <3>1 DEF DownOK, AtRest
    <3>3. filled[b] \subseteq Resources BY <1>0 DEF ApplyType
    <3>4. \A r \in filled'[b] : data'[s][r] = "whole" BY <1>y, <2>1, <2>3, <2>6, <3>1, <3>3 DEF FillOK
    <3>5. (failed[b] => pc[b] = "after") =>
             <<phase, v>> \in {<<"write", "part">>, <<"ok", "whole">>} \/ (phase = "failed" /\ v # "mixed")
      BY <1>y, <3>1 DEF FillOK
    <3>6. Extracts(b, InPhase(x, phase))' BY <1>y, <2>1, <2>3, <2>4, <3>5 DEF Extracts
    <3>7. \A y \in script[b] \ {x} : y.kind # "extract" BY <1>i, <1>y DEF ScriptOK
    <3>8. FillOK(b, s)' BY <1>y, <2>4, <2>5, <3>4, <3>6, <3>7 DEF FillOK, Extracts
    <3> QED BY <3>2, <3>5, <3>8
  <2>7. KnownOK(b, s)' BY <1>c, <1>y, <2>1, <2>2, <2>6
  <2>8. ASSUME NEW r \in Data[s], failed[b] => pc[b] = "after", data'[s][r] = "mixed" PROVE data[s][r] = "mixed"
    <3>1. pc[b] \in InService BY <2>5, <2>8 DEF InService
    <3> QED BY <1>d, <2>2, <2>3, <2>6, <2>8, <3>1
  <2> QED BY <2>7, <2>8
<1>12. CASE ExtractBegins(b) \/ ExtractEnds(b) \/ ExtractFails(b)
  <2>1. UNCHANGED <<pc, result, facts, found, known, handled, filled, stopped, failed, runtime, deployed>>
    BY <1>12 DEF ExtractBegins, ExtractEnds, ExtractFails, planVars, applyVars, targetVars
  <2>2. CASE ExtractBegins(b)
    <3>1. PICK x \in script[b] :
            /\ x.kind = "extract" /\ x.phase = "run" /\ Phase(b, x, "write")
            /\ Put(x.service, x.resource,
                   IF data[x.service][x.resource] \in {"missing", "empty"} THEN "part" ELSE "mixed")
      BY <2>2 DEF ExtractBegins
    <3> QED BY <1>y, <2>1, <3>1 DEF Extracts
  <2>3. CASE ExtractEnds(b)
    <3>1. PICK x \in script[b] :
            /\ x.kind = "extract" /\ x.phase = "write"
            /\ \/ /\ Phase(b, x, "ok")
                  /\ Put(x.service, x.resource,
                         IF data[x.service][x.resource] = "part" THEN "whole" ELSE data[x.service][x.resource])
               \/ Phase(b, x, "failed") /\ UNCHANGED data
      BY <2>3 DEF ExtractEnds
    <3> QED BY <1>y, <2>1, <3>1 DEF Extracts
  <2>4. CASE ExtractFails(b)
    <3>1. PICK x \in script[b] : x.kind = "extract" /\ x.phase = "run" /\ Phase(b, x, "failed") /\ UNCHANGED data
      BY <2>4 DEF ExtractFails, targetVars
    <3>2. PICK v : v = data[x.service][x.resource] OBVIOUS
    <3>3. Extracts(b, x) /\ (failed[b] => pc[b] = "after") => v # "mixed" BY <3>1, <3>2 DEF Extracts
    <3> QED BY <1>y, <2>1, <3>1, <3>2, <3>3
  <2> QED BY <1>12, <2>2, <2>3, <2>4
<1>13. CASE OrphanEnds(b)
  <2>1. PICK x \in script[b] : Ended(b, x) BY <1>13 DEF OrphanEnds
  <2>2. UNCHANGED <<pc, result, facts, found, known, handled, filled, stopped, failed, runtime, deployed, data>>
    BY <1>13 DEF OrphanEnds, planVars, applyVars, targetVars
  <2>3. script'[b] = script[b] \ {x} BY <1>0, <2>1 DEF Ended, Set, LockType
  <2>4. ASSUME pc[b] \in InService, s = Current(b) PROVE DownOK(b, s)' /\ FillOK(b, s)'
    <3>1. DownOK(b, s) /\ FillOK(b, s) BY <1>g, <2>4
    <3>2. DownOK(b, s)' BY <2>2, <2>3, <3>1 DEF DownOK
    <3>3. Destination(b)' = Destination(b) BY <2>2 DEF Destination, Unfilled, Current, Rest
    <3>4. FillOK(b, s)' BY <2>2, <2>3, <3>1, <3>3 DEF FillOK, Extracts
    <3> QED BY <3>2, <3>4
  <2> QED BY <1>c, <1>x, <1>v, <2>1, <2>2, <2>4
<1> QED BY <1>e, <1>n, <1>1, <1>2, <1>3, <1>4, <1>5, <1>6, <1>7, <1>8, <1>9, <1>10, <1>11, <1>12, <1>13
      DEF StepOf, Controller, NotStarted, Release, Crash

\* Nobody comes to the lock but by being granted it.
LEMMA OnlyGranted ==
  ASSUME NEW b \in Restores, StepOf(b), holder' = b
  PROVE  holder = b \/ LockGranted(b)
<1>1. ASSUME End(b) PROVE FALSE BY <1>1, RestoresAssumption DEF End
<1>2. ASSUME StopWaiting(b) PROVE holder = b BY <1>2 DEF StopWaiting, lockVars
<1>3. CASE Controller(b)
  BY <1>1, <1>2, <1>3
     DEF Controller, NotStarted, HelperMissing, NextService, StopReturned, WaitExpires, CheckDestination,
         CreateDestination, ExtractReturned, AfterResources, RestartReturned, AllRestored, Release, lockVars
<1>4. CASE Rebuild(b) \/ ComposeRuns(b) \/ ExtractBegins(b) \/ ExtractEnds(b) \/ ExtractFails(b) \/ OrphanEnds(b)
  BY <1>4 DEF Rebuild, ComposeRuns, ExtractBegins, ExtractEnds, ExtractFails, OrphanEnds, lockVars
<1>5. CASE Timeout(b) \/ LockLost(b) BY <1>5, RestoresAssumption DEF Timeout, LockLost
<1> QED BY <1>1, <1>2, <1>3, <1>4, <1>5 DEF StepOf, NotStarted, ConnectionLost, Crash

\* The holder keeps what it knows, whoever takes the next step.
LEMMA HeldStep == OwnInv /\ HeldInv /\ [Next]_vars => HeldInv'
<1> SUFFICES ASSUME OwnInv, HeldInv, [Next]_vars, NEW b \in Restores, holder' = b, NEW s \in known'[b]
             PROVE  KnownOK(b, s)'
  BY DEF HeldInv
<1>0. ApplyType BY TypeParts DEF OwnInv
<1>k. ASSUME holder = b, s \in known[b] PROVE KnownOK(b, s) /\ s \in Services
  BY <1>0, <1>k DEF HeldInv, ApplyType
<1>1. ASSUME StepOf(b) PROVE KnownOK(b, s)'
  <2>1. CASE LockGranted(b) BY <2>1, HeldGrant
  <2>2. CASE holder = b
    <3>1. ASSUME NEW t \in known[b] PROVE KnownOK(b, t)' /\ known'[b] = known[b]
      BY <1>1, <2>2, <3>1, HeldOwn DEF HeldInv
    <3>2. known'[b] = known[b] \/ known[b] = {} BY <3>1
    <3>3. known[b] = {} => known'[b] = {}
      <4>1. ~End(b) BY RestoresAssumption DEF End
      <4>2. ~LockGranted(b) BY <2>2, RestoresAssumption DEF LockGranted
      <4>3. UNCHANGED known
        BY <1>1, <4>1, <4>2
           DEF StepOf, Controller, NotStarted, Crash, ConnectionLost, Timeout, LockLost, Rebuild, ComposeRuns,
               ExtractBegins, ExtractEnds, ExtractFails, OrphanEnds, HelperMissing, NextService, StopReturned,
               WaitExpires, StopWaiting, CheckDestination, CreateDestination, ExtractReturned, AfterResources,
               RestartReturned, AllRestored, Release, applyVars
      <4> QED BY <4>3
    <3> QED BY <3>1, <3>2, <3>3
  <2> QED BY <1>1, <2>1, <2>2, OnlyGranted
<1>2. ASSUME NEW c \in Restores \ {b}, StepOf(c) PROVE KnownOK(b, s)'
  <2>1. holder = b /\ known'[b] = known[b] BY <1>2, OthersKeep DEF OwnInv, Others
  <2> QED BY <1>k, <1>2, <2>1, HeldElsewhere
<1>3. CASE Environment
  <2>1. CASE \E t \in Services : OtherCommand(t)
    BY <2>1, RestoresAssumption DEF OtherCommand, lockVars
  <2>2. ASSUME NEW t \in Services, NEW q \in Data[t], ApplicationWrites(t, q) PROVE KnownOK(b, s)'
    <3>1. UNCHANGED <<holder, known>> BY <2>2 DEF ApplicationWrites, lockVars, applyVars
    <3> QED BY <1>k, <2>2, <3>1, HeldWrites
  <2> QED BY <1>3, <2>1, <2>2 DEF Environment
<1>4. CASE UNCHANGED vars
  <2>1. UNCHANGED <<pc, result, facts, found, known, handled, filled, stopped, failed, holder, script, runtime, deployed, data>>
    BY <1>4 DEF vars, planVars, applyVars, lockVars, targetVars
  <2>2. SameView(b, s) BY <2>1 DEF SameView
  <2>3. KnownOK(b, s) /\ s \in Services BY <1>k, <2>1
  <2>4. Settled(b, s)' BY <2>1, <2>3 DEF KnownOK, Settled
  <2> QED BY <2>2, <2>3, <2>4, SameViewKeeps DEF OwnInv
<1> QED BY <1>1, <1>2, <1>3, <1>4 DEF Next, StepOf

-----------------------------------------------------------------------------
(* Theorems. *)

Inv == OwnInv /\ HeldInv

\* Every reachable state satisfies all of it.
LEMMA Invariance == Spec => []Inv
<1>1. Init => Inv
  BY InitType, InitSelf, RestoresAssumption DEF Inv, OwnInv, HeldInv, Init
<1>2. Inv /\ [Next]_vars => Inv' BY OwnStep, HeldStep DEF Inv
<1> QED BY <1>1, <1>2, PTL DEF Spec

\* The variables keep their types, those of commands left behind included.
THEOREM TypeCorrect == Spec => []TypeOK
<1>1. Inv => TypeOK BY DEF Inv, OwnInv
<1> QED BY <1>1, Invariance, PTL

\* What ApplyRestore reports as restored is there and whole, in every service
\* whose state it knew, with any number of restores, resources and faults.
THEOREM Restored == Spec => []RestoredIsWhole
<1>1. Inv => RestoredIsWhole
  <2> SUFFICES ASSUME Inv, NEW b \in Restores, pc[b] = "release", holder = b, result[b] = "ok",
                      NEW s \in known[b], NEW r \in Data[s]
               PROVE  data[s][r] = "whole"
    BY DEF RestoredIsWhole
  <2>1. s \in handled[b] BY DEF Inv, OwnInv, SelfInv, LoopOK, Rest
  <2> QED BY <2>1 DEF Inv, HeldInv, KnownOK, ServiceOK
<1> QED BY <1>1, Invariance, PTL

\* Whatever fails, each service a root session knew is left as it was found,
\* or the error says that its stop or the recovery restart failed.
THEOREM Found == Spec => []LeftAsFound
<1>1. Inv => LeftAsFound BY DEF LeftAsFound, Inv, HeldInv, KnownOK, ServiceOK
<1> QED BY <1>1, Invariance, PTL

\* "empty-only": no extraction of the holder meets other data, as long as it
\* does not start the service again over an extraction it lost.
THEOREM Empty == Spec => EmptyOnly
<1> DEFINE Holds ==
      \A b \in Restores : holder = b /\ (failed[b] => pc[b] = "after") =>
        \A s \in known[b] : \A r \in Data[s] : data'[s][r] = "mixed" => data[s][r] = "mixed"
<1>1. ASSUME Inv, [Next]_vars PROVE [Holds]_vars
  <2> SUFFICES ASSUME NEW b \in Restores, holder = b, failed[b] => pc[b] = "after",
                      NEW s \in known[b], NEW r \in Data[s], data'[s][r] = "mixed"
               PROVE  data[s][r] = "mixed"
    OBVIOUS
  <2>0. OwnInv /\ KnownOK(b, s) /\ s \in Services
    BY <1>1, TypeParts DEF Inv, OwnInv, HeldInv, ApplyType
  <2>1. ASSUME StepOf(b) PROVE data[s][r] = "mixed"
    <3>1. CASE holder' = b BY <2>0, <2>1, <3>1, HeldOwn
    <3>2. CASE holder' # b
      <4>1. ASSUME ~UNCHANGED data PROVE holder' = holder
        <5>1. ~End(b) BY <4>1 DEF End, targetVars
        <5> QED BY <2>1, <4>1, <5>1
            DEF StepOf, Controller, NotStarted, Crash, ConnectionLost, Timeout, LockLost, Rebuild, LockGranted,
                ComposeRuns, ExtractBegins, ExtractEnds, ExtractFails, OrphanEnds, HelperMissing, NextService,
                StopReturned, WaitExpires, StopWaiting, CheckDestination, CreateDestination, ExtractReturned,
                AfterResources, RestartReturned, AllRestored, Release, targetVars
      <4> QED BY <3>2, <4>1
    <3> QED BY <3>1, <3>2
  <2>2. ASSUME NEW c \in Restores \ {b}, StepOf(c) PROVE data[s][r] = "mixed"
    BY <2>0, <2>2, HeldElsewhere
  <2>3. CASE Environment
    <3>1. CASE \E t \in Services : OtherCommand(t) BY <3>1, RestoresAssumption DEF OtherCommand
    <3>2. CASE \E t \in Services : \E q \in Data[t] : ApplicationWrites(t, q)
      BY <2>0, <3>2, HeldWrites
    <3> QED BY <2>3, <3>1, <3>2 DEF Environment
  <2>4. CASE UNCHANGED vars BY <2>4 DEF vars, targetVars
  <2> QED BY <1>1, <2>1, <2>2, <2>3, <2>4 DEF Next, StepOf
<1>2. Spec => [][Holds]_vars BY <1>1, Invariance, PTL DEF Spec
<1> QED BY <1>2 DEF EmptyOnly

=============================================================================
