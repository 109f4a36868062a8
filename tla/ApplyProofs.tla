----------------------------- MODULE ApplyProofs -----------------------------
(* Theorems about Apply for any controllers, services, releases and faults. *)
EXTENDS Apply, TLAPS

\* A plan of well-typed observations consists of well-typed changes.
LEMMA PlanType ==
  ASSUME NEW g \in [Services -> Goals], NEW src \in [Services -> Releases],
         NEW f \in [Services -> [disk : Releases \cup {NoRelease, Foreign},
                                 runtime : Runtimes \cup {"unread"}]]
  PROVE  Plan(g, src, f) \in SUBSET Change
<1>1. ASSUME NEW s \in Services PROVE ServicePlan(s, g[s], src[s], f[s]) \subseteq Change
  <2> DEFINE obs == f[s]
             r == src[s]
  <2>1. r \in Releases OBVIOUS
  <2>2. obs.disk \in Releases \cup {NoRelease, Foreign} OBVIOUS
  <2>3. \A kind \in Kinds, b \in BOOLEAN : ServiceChange(s, kind, r, obs, b) \in Change
    <3> HIDE DEF obs, r
    <3> QED BY <2>1, <2>2 DEF ServiceChange, Change, Present, Digests
  <2>4. Unsafe(obs) \in BOOLEAN /\ PlacementChanged(r, obs) \in BOOLEAN
    BY DEF Unsafe, PlacementChanged
  <2>5. RemoveChanges(s, r, obs) \subseteq Change
    BY <2>3, <2>4 DEF RemoveChanges, Kinds
  <2>6. DeployChanges(s, r, obs) \subseteq Change
    BY <2>3, <2>4 DEF DeployChanges, Kinds
  <2>7. StartChanges(s, r, obs) \subseteq Change /\ StopChanges(s, r, obs) \subseteq Change
    BY <2>3, <2>4 DEF StartChanges, StopChanges, Kinds
  <2> HIDE DEF obs, r
  <2>8. ServicePlan(s, g[s], r, obs) \subseteq Change
    BY <2>5, <2>6, <2>7 DEF ServicePlan
  <2> QED BY <2>8 DEF obs, r
<1> QED BY <1>1 DEF Plan

\* A run starts well typed.
LEMMA InitType == Init => TypeOK
<1> SUFFICES ASSUME Init PROVE TypeOK OBVIOUS
<1>1. /\ goal \in [Controllers -> [Services -> Goals]]
      /\ source \in [Controllers -> [Services -> Releases]]
  BY ConfigsAssumption DEF Init
<1>2. ControllerTypeOK BY <1>1 DEF Init, ControllerTypeOK, Unread, PCs
<1>3. LockTypeOK BY DEF Init, LockTypeOK
<1>4. TargetTypeOK BY DEF Init, TargetTypeOK, Runtimes
<1>5. QED BY <1>2, <1>3, <1>4 DEF TypeOK

\* A process that exits leaves the controllers well typed.
LEMMA ExitType ==
  ASSUME ControllerTypeOK, NEW c \in Controllers, Exit(c)
  PROVE  ControllerTypeOK'
BY DEF ControllerTypeOK, Exit, Goto, PCs, Unread

\* Leaving for the deferred Release keeps the controllers well typed.
LEMMA ReturnType ==
  ASSUME ControllerTypeOK, NEW c \in Controllers,
         NEW outcome \in {"ok", "failed", "divergent"}, Return(c, outcome),
         UNCHANGED <<goal, source, facts, plan, applied, verified>>
  PROVE  ControllerTypeOK'
BY DEF ControllerTypeOK, Return, Goto, PCs

\* A script that moves on to its next phase stays a script.
LEMMA PhaseType ==
  ASSUME LockTypeOK, NEW c \in Controllers, script[c] # NoScript,
         NEW phase \in {"cleared", "placed", "ok", "failed"}, Phase(c, phase),
         UNCHANGED <<session, holder>>
  PROVE  LockTypeOK'
BY DEF LockTypeOK, Phase, Script

\* Every step preserves the types of all variables.
LEMMA NextType == TypeOK /\ [Next]_vars => TypeOK'
<1> SUFFICES ASSUME TypeOK, [Next]_vars PROVE TypeOK' OBVIOUS
<1>0. ControllerTypeOK /\ LockTypeOK /\ TargetTypeOK BY DEF TypeOK
<1>1. CASE UNCHANGED vars
  BY <1>0, <1>1 DEF vars, controllerVars, targetVars, TypeOK, ControllerTypeOK, LockTypeOK, TargetTypeOK
<1>2. ASSUME NEW c \in Controllers, User(c) PROVE TypeOK'
  <2>1. CASE StartApply(c)
    <3>1. ControllerTypeOK' BY <1>0, <2>1, ConfigsAssumption DEF StartApply, ControllerTypeOK, Goto, PCs
    <3>2. LockTypeOK' BY <1>0, <2>1 DEF StartApply, LockTypeOK
    <3>3. TargetTypeOK' BY <1>0, <2>1 DEF StartApply, targetVars, TargetTypeOK
    <3>4. QED BY <3>1, <3>2, <3>3 DEF TypeOK
  <2>2. CASE Decline(c)
    <3>1. ControllerTypeOK' BY <1>0, <2>2, ExitType DEF Decline
    <3>2. LockTypeOK' BY <1>0, <2>2 DEF Decline, LockTypeOK
    <3>3. TargetTypeOK' BY <1>0, <2>2 DEF Decline, targetVars, TargetTypeOK
    <3>4. QED BY <3>1, <3>2, <3>3 DEF TypeOK
  <2>3. CASE Confirm(c)
    <3>1. ControllerTypeOK' BY <1>0, <2>3 DEF Confirm, ControllerTypeOK, Goto, PCs
    <3>2. LockTypeOK' BY <1>0, <2>3 DEF Confirm, LockTypeOK
    <3>3. TargetTypeOK' BY <1>0, <2>3 DEF Confirm, targetVars, TargetTypeOK
    <3>4. QED BY <3>1, <3>2, <3>3 DEF TypeOK
  <2>4. QED BY <1>2, <2>1, <2>2, <2>3 DEF User
<1>3. ASSUME NEW c \in Controllers, Controller(c) PROVE TypeOK'
  <2>1. CASE LockAcknowledged(c)
    <3>1. ControllerTypeOK' BY <1>0, <2>1 DEF LockAcknowledged, ControllerTypeOK, Goto, PCs
    <3>2. LockTypeOK' BY <1>0, <2>1 DEF LockAcknowledged, LockTypeOK
    <3>3. TargetTypeOK' BY <1>0, <2>1 DEF LockAcknowledged, targetVars, TargetTypeOK
    <3>4. QED BY <3>1, <3>2, <3>3 DEF TypeOK
  <2>2. CASE LockLost(c)
    <3>1. ControllerTypeOK' BY <1>0, <2>2, ExitType DEF LockLost
    <3>2. LockTypeOK' BY <1>0, <2>2 DEF LockLost, LockTypeOK
    <3>3. TargetTypeOK' BY <1>0, <2>2 DEF LockLost, targetVars, TargetTypeOK
    <3>4. QED BY <3>1, <3>2, <3>3 DEF TypeOK
  <2>3. CASE CheckChange(c)
    <3>1. ControllerTypeOK' BY <1>0, <2>3, ReturnType DEF CheckChange, ControllerTypeOK, Goto, PCs
    <3>2. LockTypeOK' BY <1>0, <2>3 DEF CheckChange, LockTypeOK
    <3>3. TargetTypeOK' BY <1>0, <2>3 DEF CheckChange, targetVars, TargetTypeOK
    <3>4. QED BY <3>1, <3>2, <3>3 DEF TypeOK
  <2>4. CASE Launch(c)
    <3>1. ControllerTypeOK' BY <1>0, <2>4 DEF Launch, ControllerTypeOK, Goto, PCs
    <3>2. LockTypeOK' BY <1>0, <2>4 DEF Launch, LockTypeOK, ControllerTypeOK, Pending, First, Script
    <3>3. TargetTypeOK' BY <1>0, <2>4 DEF Launch, targetVars, TargetTypeOK
    <3>4. QED BY <3>1, <3>2, <3>3 DEF TypeOK
  <2>5. CASE ScriptReturned(c)
    <3>1. ControllerTypeOK'
      <4>1. script[c].change \in Change
        BY <1>0, <2>5 DEF ScriptReturned, Awaiting, LockTypeOK, Script
      <4>2. UNCHANGED <<goal, source, facts, plan, verified>> BY <2>5 DEF ScriptReturned
      <4>3. CASE /\ Goto(c, "verify")
                 /\ applied' = [applied EXCEPT ![c] = @ \cup {script[c].change}]
                 /\ UNCHANGED result
        BY <1>0, <4>1, <4>2, <4>3 DEF ControllerTypeOK, Goto, PCs
      <4>4. CASE Return(c, "failed") /\ UNCHANGED applied
        BY <1>0, <4>2, <4>4, ReturnType
      <4>5. QED BY <2>5, <4>3, <4>4 DEF ScriptReturned
    <3>2. LockTypeOK' BY <1>0, <2>5 DEF ScriptReturned, LockTypeOK
    <3>3. TargetTypeOK' BY <1>0, <2>5 DEF ScriptReturned, targetVars, TargetTypeOK
    <3>4. QED BY <3>1, <3>2, <3>3 DEF TypeOK
  <2>6. CASE Verify(c)
    <3>1. ControllerTypeOK'
      <4>1. PICK ch \in applied[c] \ verified[c] :
              \/ /\ verified' = [verified EXCEPT ![c] = @ \cup {ch}]
                 /\ Goto(c, IF applied[c] = plan[c] THEN "replan" ELSE "apply")
                 /\ UNCHANGED result
              \/ Return(c, "failed") /\ UNCHANGED verified
        BY <2>6 DEF Verify
      <4>2. ch \in Change BY <1>0 DEF ControllerTypeOK
      <4>3. UNCHANGED <<goal, source, facts, plan, applied>> BY <2>6 DEF Verify
      <4>4. CASE Return(c, "failed") /\ UNCHANGED verified
        BY <1>0, <4>3, <4>4, ReturnType
      <4>5. CASE /\ verified' = [verified EXCEPT ![c] = @ \cup {ch}]
                 /\ Goto(c, IF applied[c] = plan[c] THEN "replan" ELSE "apply")
                 /\ UNCHANGED result
        BY <1>0, <4>2, <4>3, <4>5 DEF ControllerTypeOK, Goto, PCs
      <4>6. QED BY <4>1, <4>4, <4>5
    <3>2. LockTypeOK' BY <1>0, <2>6 DEF Verify, LockTypeOK
    <3>3. TargetTypeOK' BY <1>0, <2>6 DEF Verify, targetVars, TargetTypeOK
    <3>4. QED BY <3>1, <3>2, <3>3 DEF TypeOK
  <2>7. CASE Converge(c)
    <3>1. ControllerTypeOK' BY <1>0, <2>7, ReturnType DEF Converge
    <3>2. LockTypeOK' BY <1>0, <2>7 DEF Converge, LockTypeOK
    <3>3. TargetTypeOK' BY <1>0, <2>7 DEF Converge, targetVars, TargetTypeOK
    <3>4. QED BY <3>1, <3>2, <3>3 DEF TypeOK
  <2>8. CASE Release(c)
    <3>1. ControllerTypeOK' BY <1>0, <2>8, ExitType DEF Release
    <3>2. LockTypeOK' BY <1>0, <2>8 DEF Release, LockTypeOK
    <3>3. TargetTypeOK' BY <1>0, <2>8 DEF Release, targetVars, TargetTypeOK
    <3>4. QED BY <3>1, <3>2, <3>3 DEF TypeOK
  <2>9. CASE Review(c)
    <3>1. ControllerTypeOK'
      <4>1. CASE Exit(c) BY <1>0, <4>1, ExitType
      <4>2. CASE /\ Goto(c, "review")
                 /\ plan' = [plan EXCEPT ![c] = FreshPlan(c)]
                 /\ facts' = [facts EXCEPT ![c] = [s \in Services |-> Unread]]
                 /\ UNCHANGED <<goal, source, applied, verified, result>>
        <5>1. FreshPlan(c) \in SUBSET Change
          BY <1>0, PlanType DEF FreshPlan, ControllerTypeOK
        <5>2. QED BY <1>0, <4>2, <5>1 DEF ControllerTypeOK, Goto, PCs, Unread
      <4>3. QED BY <2>9, <4>1, <4>2 DEF Review
    <3>2. LockTypeOK' BY <1>0, <2>9 DEF Review, LockTypeOK
    <3>3. TargetTypeOK' BY <1>0, <2>9 DEF Review, targetVars, TargetTypeOK
    <3>4. QED BY <3>1, <3>2, <3>3 DEF TypeOK
  <2>10. ASSUME NEW s \in Services, Probe(c, s) PROVE TypeOK'
    <3>1. VisibleDisk(c, s) \in Releases \cup {NoRelease, Foreign}
      BY <1>0 DEF VisibleDisk, Reported, DiskOf, TargetTypeOK
    <3>2. runtime[s] \in Runtimes BY <1>0 DEF TargetTypeOK
    <3>3. PICK disk \in Releases \cup {NoRelease, Foreign}, rt \in Runtimes :
            facts' = [facts EXCEPT ![c][s] = [disk |-> disk, runtime |-> rt]]
      BY <2>10, <3>1, <3>2 DEF Probe, Misread, Runtimes
    <3>4. ControllerTypeOK' BY <1>0, <2>10, <3>3 DEF Probe, ControllerTypeOK
    <3>5. LockTypeOK' BY <1>0, <2>10 DEF Probe, LockTypeOK
    <3>6. TargetTypeOK' BY <1>0, <2>10 DEF Probe, targetVars, TargetTypeOK
    <3>7. QED BY <3>4, <3>5, <3>6 DEF TypeOK
  <2>11. QED BY <1>3, <2>1, <2>2, <2>3, <2>4, <2>5, <2>6, <2>7, <2>8, <2>9, <2>10 DEF Controller
<1>4. ASSUME NEW c \in Controllers, Remote(c) PROVE TypeOK'
  <2>1. CASE FlockGranted(c)
    <3>1. ControllerTypeOK' BY <1>0, <2>1 DEF FlockGranted, controllerVars, ControllerTypeOK
    <3>2. LockTypeOK' BY <1>0, <2>1 DEF FlockGranted, LockTypeOK
    <3>3. TargetTypeOK' BY <1>0, <2>1 DEF FlockGranted, targetVars, TargetTypeOK
    <3>4. QED BY <3>1, <3>2, <3>3 DEF TypeOK
  <2>2. CASE FlockBusy(c)
    <3>1. ControllerTypeOK' BY <1>0, <2>2, ExitType DEF FlockBusy
    <3>2. LockTypeOK' BY <1>0, <2>2 DEF FlockBusy, LockTypeOK
    <3>3. TargetTypeOK' BY <1>0, <2>2 DEF FlockBusy, targetVars, TargetTypeOK
    <3>4. QED BY <3>1, <3>2, <3>3 DEF TypeOK
  <2>3. CASE LockScriptEnds(c)
    <3>1. ControllerTypeOK' BY <1>0, <2>3 DEF LockScriptEnds, controllerVars, ControllerTypeOK
    <3>2. LockTypeOK' BY <1>0, <2>3 DEF LockScriptEnds, LockTypeOK
    <3>3. TargetTypeOK' BY <1>0, <2>3 DEF LockScriptEnds, targetVars, TargetTypeOK
    <3>4. QED BY <3>1, <3>2, <3>3 DEF TypeOK
  <2>4. CASE DeployClears(c)
    <3>1. ControllerTypeOK' BY <1>0, <2>4 DEF DeployClears, controllerVars, ControllerTypeOK
    <3>2. LockTypeOK' BY <1>0, <2>4, PhaseType DEF DeployClears, Running
    <3>3. TargetTypeOK' BY <1>0, <2>4 DEF DeployClears, Running, LockTypeOK, Script, Change, Digests, TargetTypeOK, Runtimes
    <3>4. QED BY <3>1, <3>2, <3>3 DEF TypeOK
  <2>5. CASE DeployPlaces(c)
    <3>1. ControllerTypeOK' BY <1>0, <2>5 DEF DeployPlaces, controllerVars, ControllerTypeOK
    <3>2. LockTypeOK' BY <1>0, <2>5, PhaseType DEF DeployPlaces, Running
    <3>3. TargetTypeOK' BY <1>0, <2>5 DEF DeployPlaces, Running, LockTypeOK, Script, Change, Digests, TargetTypeOK, Runtimes
    <3>4. QED BY <3>1, <3>2, <3>3 DEF TypeOK
  <2>6. CASE DeployActivates(c)
    <3>1. ControllerTypeOK' BY <1>0, <2>6 DEF DeployActivates, controllerVars, ControllerTypeOK
    <3>2. LockTypeOK' BY <1>0, <2>6, PhaseType DEF DeployActivates, Running
    <3>3. TargetTypeOK' BY <1>0, <2>6 DEF DeployActivates, Running, LockTypeOK, Script, Change, Digests, TargetTypeOK, Runtimes
    <3>4. QED BY <3>1, <3>2, <3>3 DEF TypeOK
  <2>7. CASE StartUp(c)
    <3>1. ControllerTypeOK' BY <1>0, <2>7 DEF StartUp, controllerVars, ControllerTypeOK
    <3>2. LockTypeOK' BY <1>0, <2>7, PhaseType DEF StartUp, Running
    <3>3. TargetTypeOK' BY <1>0, <2>7 DEF StartUp, Running, TargetTypeOK, DiskOf, Runtimes
    <3>4. QED BY <3>1, <3>2, <3>3 DEF TypeOK
  <2>8. CASE StopDown(c)
    <3>1. ControllerTypeOK' BY <1>0, <2>8 DEF StopDown, controllerVars, ControllerTypeOK
    <3>2. LockTypeOK' BY <1>0, <2>8, PhaseType DEF StopDown, Running
    <3>3. TargetTypeOK' BY <1>0, <2>8 DEF StopDown, Running, TargetTypeOK, Runtimes
    <3>4. QED BY <3>1, <3>2, <3>3 DEF TypeOK
  <2>9. CASE RemoveDowns(c)
    <3>1. ControllerTypeOK' BY <1>0, <2>9 DEF RemoveDowns, controllerVars, ControllerTypeOK
    <3>2. LockTypeOK' BY <1>0, <2>9, PhaseType DEF RemoveDowns, Running
    <3>3. TargetTypeOK' BY <1>0, <2>9 DEF RemoveDowns, Running, LockTypeOK, Script, Change, Digests, TargetTypeOK, Runtimes
    <3>4. QED BY <3>1, <3>2, <3>3 DEF TypeOK
  <2>10. CASE RemoveUnlinks(c)
    <3>1. ControllerTypeOK' BY <1>0, <2>10 DEF RemoveUnlinks, controllerVars, ControllerTypeOK
    <3>2. LockTypeOK' BY <1>0, <2>10, PhaseType DEF RemoveUnlinks, Running
    <3>3. TargetTypeOK' BY <1>0, <2>10 DEF RemoveUnlinks, Running, LockTypeOK, Script, Change, Digests, TargetTypeOK, Runtimes
    <3>4. QED BY <3>1, <3>2, <3>3 DEF TypeOK
  <2>11. CASE OrphanEnds(c)
    <3>1. ControllerTypeOK' BY <1>0, <2>11 DEF OrphanEnds, controllerVars, ControllerTypeOK
    <3>2. LockTypeOK' BY <1>0, <2>11 DEF OrphanEnds, LockTypeOK
    <3>3. TargetTypeOK' BY <1>0, <2>11 DEF OrphanEnds, targetVars, TargetTypeOK
    <3>4. QED BY <3>1, <3>2, <3>3 DEF TypeOK
  <2>12. QED BY <1>4, <2>1, <2>2, <2>3, <2>4, <2>5, <2>6, <2>7, <2>8, <2>9, <2>10, <2>11 DEF Remote
<1>5. ASSUME NEW c \in Controllers, Fault(c) PROVE TypeOK'
  <2>1. CASE ScriptFails(c)
    <3>1. ControllerTypeOK' BY <1>0, <2>1 DEF ScriptFails, controllerVars, ControllerTypeOK
    <3>2. LockTypeOK' BY <1>0, <2>1, PhaseType DEF ScriptFails
    <3>s. script[c].change.service \in Services BY <1>0, <2>1 DEF ScriptFails, LockTypeOK, Script, Change
    <3>r. Halfway(script[c].change, script[c].phase) \subseteq Runtimes
      BY <1>0, <3>s DEF Halfway, TargetTypeOK, Runtimes
    <3>3. TargetTypeOK' BY <1>0, <2>1, <3>r DEF ScriptFails, TargetTypeOK
    <3>4. QED BY <3>1, <3>2, <3>3 DEF TypeOK
  <2>2. CASE ConnectionLost(c)
    <3>1. ControllerTypeOK' BY <1>0, <2>2, ReturnType DEF ConnectionLost
    <3>2. LockTypeOK' BY <1>0, <2>2 DEF ConnectionLost, LockTypeOK
    <3>3. TargetTypeOK' BY <1>0, <2>2 DEF ConnectionLost, targetVars, TargetTypeOK
    <3>4. QED BY <3>1, <3>2, <3>3 DEF TypeOK
  <2>3. CASE SessionLost(c)
    <3>1. ControllerTypeOK' BY <1>0, <2>3 DEF SessionLost, controllerVars, ControllerTypeOK
    <3>2. LockTypeOK' BY <1>0, <2>3 DEF SessionLost, LockTypeOK
    <3>3. TargetTypeOK' BY <1>0, <2>3 DEF SessionLost, targetVars, TargetTypeOK
    <3>4. QED BY <3>1, <3>2, <3>3 DEF TypeOK
  <2>4. CASE Timeout(c)
    <3>1. ControllerTypeOK' BY <1>0, <2>4, ExitType, ReturnType DEF Timeout
    <3>2. LockTypeOK' BY <1>0, <2>4 DEF Timeout, LockTypeOK
    <3>3. TargetTypeOK' BY <1>0, <2>4 DEF Timeout, targetVars, TargetTypeOK
    <3>4. QED BY <3>1, <3>2, <3>3 DEF TypeOK
  <2>5. CASE Crash(c)
    <3>1. ControllerTypeOK' BY <1>0, <2>5, ExitType DEF Crash
    <3>2. LockTypeOK' BY <1>0, <2>5 DEF Crash, LockTypeOK
    <3>3. TargetTypeOK' BY <1>0, <2>5 DEF Crash, targetVars, TargetTypeOK
    <3>4. QED BY <3>1, <3>2, <3>3 DEF TypeOK
  <2>6. CASE EditSource(c)
    <3>1. ControllerTypeOK' BY <1>0, <2>6 DEF EditSource, ControllerTypeOK
    <3>2. LockTypeOK' BY <1>0, <2>6 DEF EditSource, LockTypeOK
    <3>3. TargetTypeOK' BY <1>0, <2>6 DEF EditSource, targetVars, TargetTypeOK
    <3>4. QED BY <3>1, <3>2, <3>3 DEF TypeOK
  <2>7. CASE InspectFails(c)
    <3>1. ControllerTypeOK' BY <1>0, <2>7, ExitType, ReturnType DEF InspectFails
    <3>2. LockTypeOK' BY <1>0, <2>7 DEF InspectFails, LockTypeOK
    <3>3. TargetTypeOK' BY <1>0, <2>7 DEF InspectFails, targetVars, TargetTypeOK
    <3>4. QED BY <3>1, <3>2, <3>3 DEF TypeOK
  <2>8. QED BY <1>5, <2>1, <2>2, <2>3, <2>4, <2>5, <2>6, <2>7 DEF Fault
<1>6. ASSUME NEW s \in Services, ContainerSettles(s) \/ ContainerExits(s) PROVE TypeOK'
  <2>1. ControllerTypeOK' BY <1>0, <1>6 DEF ContainerSettles, ContainerExits, controllerVars, ControllerTypeOK
  <2>2. LockTypeOK' BY <1>0, <1>6 DEF ContainerSettles, ContainerExits, LockTypeOK
  <2>3. TargetTypeOK' BY <1>0, <1>6 DEF ContainerSettles, ContainerExits, TargetTypeOK, Runtimes
  <2>4. QED BY <2>1, <2>2, <2>3 DEF TypeOK
<1>7. QED BY <1>1, <1>2, <1>3, <1>4, <1>5, <1>6 DEF Next

\* Every reachable state is well typed.
THEOREM TypeCorrect == Spec => []TypeOK
<1>1. QED BY InitType, NextType, PTL DEF Spec

-----------------------------------------------------------------------------
(* Mutual exclusion: LeaseHeld is inductive. *)

\* No step gives a second controller a window with a live lock session.
LEMMA LeaseStep == TypeOK /\ LeaseHeld /\ [Next]_vars => LeaseHeld'
<1> SUFFICES ASSUME TypeOK, LeaseHeld, [Next]_vars PROVE LeaseHeld' OBVIOUS
<1> USE DEF LeaseHeld, HoldsLease, Window
<1>0. /\ pc \in [Controllers -> PCs]
      /\ session \in [Controllers -> {"none", "open", "cut"}]
  BY DEF TypeOK, ControllerTypeOK, LockTypeOK
<1>1. CASE UNCHANGED vars BY <1>1 DEF vars, controllerVars
<1>2. ASSUME NEW c \in Controllers, User(c) PROVE LeaseHeld'
  <2>1. CASE StartApply(c) BY <1>0, <2>1 DEF StartApply, Goto, Exit, Return
  <2>2. CASE Decline(c) BY <1>0, <2>2 DEF Decline, Goto, Exit, Return
  <2>3. CASE Confirm(c) BY <1>0, <2>3 DEF Confirm, Goto, Exit, Return
  <2>4. QED BY <1>2, <2>1, <2>2, <2>3 DEF User
<1>3. ASSUME NEW c \in Controllers, Controller(c) PROVE LeaseHeld'
  <2>1. CASE Review(c) BY <1>0, <2>1 DEF Review, Goto, Exit, Return
  <2>2. CASE LockAcknowledged(c) BY <1>0, <2>2 DEF LockAcknowledged, Goto, Exit, Return
  <2>3. CASE LockLost(c) BY <1>0, <2>3 DEF LockLost, Goto, Exit, Return
  <2>4. CASE CheckChange(c) BY <1>0, <2>4 DEF CheckChange, Goto, Exit, Return
  <2>5. CASE Launch(c) BY <1>0, <2>5 DEF Launch, Goto, Exit, Return
  <2>6. CASE ScriptReturned(c) BY <1>0, <2>6 DEF ScriptReturned, Awaiting, Goto, Exit, Return
  <2>7. CASE Verify(c) BY <1>0, <2>7 DEF Verify, Goto, Exit, Return
  <2>8. CASE Converge(c) BY <1>0, <2>8 DEF Converge, Goto, Exit, Return
  <2>9. CASE Release(c) BY <1>0, <2>9, ControllersAssumption DEF Release, Goto, Exit, Return
  <2>10. ASSUME NEW s \in Services, Probe(c, s) PROVE LeaseHeld'
    BY <2>10 DEF Probe
  <2>11. QED BY <1>3, <2>1, <2>2, <2>3, <2>4, <2>5, <2>6, <2>7, <2>8, <2>9, <2>10 DEF Controller
<1>4. ASSUME NEW c \in Controllers, Remote(c) PROVE LeaseHeld'
  <2>1. CASE FlockGranted(c) BY <1>0, <2>1, ControllersAssumption DEF FlockGranted, controllerVars
  <2>2. CASE FlockBusy(c) BY <1>0, <2>2 DEF FlockBusy, Exit, Goto
  <2>3. CASE LockScriptEnds(c) BY <1>0, <2>3, ControllersAssumption DEF LockScriptEnds, controllerVars
  <2>4. CASE DeployClears(c) BY <1>0, <2>4 DEF DeployClears, controllerVars
  <2>5. CASE DeployPlaces(c) BY <1>0, <2>5 DEF DeployPlaces, controllerVars
  <2>6. CASE DeployActivates(c) BY <1>0, <2>6 DEF DeployActivates, controllerVars
  <2>7. CASE StartUp(c) BY <1>0, <2>7 DEF StartUp, controllerVars
  <2>8. CASE StopDown(c) BY <1>0, <2>8 DEF StopDown, controllerVars
  <2>9. CASE RemoveDowns(c) BY <1>0, <2>9 DEF RemoveDowns, controllerVars
  <2>10. CASE RemoveUnlinks(c) BY <1>0, <2>10 DEF RemoveUnlinks, controllerVars
  <2>11. CASE OrphanEnds(c) BY <1>0, <2>11 DEF OrphanEnds, controllerVars
  <2>12. QED BY <1>4, <2>1, <2>2, <2>3, <2>4, <2>5, <2>6, <2>7, <2>8, <2>9, <2>10, <2>11 DEF Remote
<1>5. ASSUME NEW c \in Controllers, Fault(c) PROVE LeaseHeld'
  <2>1. CASE ScriptFails(c) BY <1>0, <2>1 DEF ScriptFails, controllerVars
  <2>2. CASE ConnectionLost(c) BY <1>0, <2>2 DEF ConnectionLost, Awaiting, Goto, Exit, Return
  <2>3. CASE SessionLost(c) BY <1>0, <2>3 DEF SessionLost, controllerVars
  <2>4. CASE Timeout(c) BY <1>0, <2>4 DEF Timeout, Goto, Exit, Return
  <2>5. CASE Crash(c) BY <1>0, <2>5 DEF Crash, Goto, Exit, Return
  <2>6. CASE EditSource(c) BY <1>0, <2>6 DEF EditSource, Goto, Exit, Return
  <2>7. CASE InspectFails(c) BY <1>0, <2>7 DEF InspectFails, Goto, Exit, Return
  <2>8. QED BY <1>5, <2>1, <2>2, <2>3, <2>4, <2>5, <2>6, <2>7 DEF Fault
<1>6. ASSUME NEW s \in Services, ContainerSettles(s) \/ ContainerExits(s) PROVE LeaseHeld'
  BY <1>6 DEF ContainerSettles, ContainerExits, controllerVars
<1>7. QED BY <1>1, <1>2, <1>3, <1>4, <1>5, <1>6 DEF Next

\* A controller between AcquireApplyLock and Release whose lock session lives
\* owns the flock, under every combination of faults.
THEOREM LeaseIsHeld == Spec => []LeaseHeld
<1>1. Init => LeaseHeld BY DEF Init, LeaseHeld, HoldsLease, Window
<1>2. QED BY <1>1, LeaseStep, TypeCorrect, PTL DEF Spec

\* Two controllers are never both inside the window with a live session.
COROLLARY MutualExclusion ==
  Spec => [](\A c, d \in Controllers : HoldsLease(c) /\ HoldsLease(d) => c = d)
<1>1. LeaseHeld => \A c, d \in Controllers : HoldsLease(c) /\ HoldsLease(d) => c = d
  BY DEF LeaseHeld
<1>2. QED BY <1>1, LeaseIsHeld, PTL

-----------------------------------------------------------------------------
(* Success is verified: Execute's bookkeeping of applied and verified.     *)
(* SuccessIsVerified speaks of the last state of a run only; the invariant *)
(* says at each label of the loop how far the two lists are apart.         *)

BeforeExecute(c) ==
  pc[c] \in {"idle", "inspect", "review", "lock"} => applied[c] = {} /\ verified[c] = {}

BetweenChanges(c) == pc[c] \in {"apply", "launch", "wait"} => verified[c] = applied[c]

OneUnverified(c) == pc[c] = "verify" => \E ch : applied[c] = verified[c] \cup {ch}

AllVerified(c) ==
  pc[c] = "replan" \/ (pc[c] = "release" /\ result[c] = "ok")
    => applied[c] = plan[c] /\ verified[c] = plan[c]

RunInv == \A c \in Controllers :
  BeforeExecute(c) /\ BetweenChanges(c) /\ OneUnverified(c) /\ AllVerified(c)

\* Every step keeps the two lists as the label says.
LEMMA RunStep == TypeOK /\ RunInv /\ [Next]_vars => RunInv'
<1> SUFFICES ASSUME TypeOK, RunInv, [Next]_vars PROVE RunInv' OBVIOUS
<1> USE DEF RunInv, BeforeExecute, BetweenChanges, OneUnverified, AllVerified
<1>0. /\ pc \in [Controllers -> PCs]
      /\ result \in [Controllers -> {"none", "ok", "failed", "divergent"}]
      /\ plan \in [Controllers -> SUBSET Change]
      /\ applied \in [Controllers -> SUBSET Change]
      /\ verified \in [Controllers -> SUBSET Change]
  BY DEF TypeOK, ControllerTypeOK
<1>e. ASSUME NEW c \in Controllers, Exit(c) PROVE RunInv'
  BY <1>0, <1>e DEF Exit, Goto
<1>r. ASSUME NEW c \in Controllers, NEW outcome \in {"failed", "divergent"},
             Return(c, outcome), UNCHANGED <<plan, applied, verified>>
      PROVE  RunInv'
  BY <1>0, <1>r DEF Return, Goto
<1>1. CASE UNCHANGED vars BY <1>1 DEF vars, controllerVars
<1>2. ASSUME NEW c \in Controllers, User(c) PROVE RunInv'
  <2>1. CASE StartApply(c) BY <1>0, <2>1 DEF StartApply, Goto
  <2>2. CASE Decline(c) BY <1>e, <2>2 DEF Decline
  <2>3. CASE Confirm(c) BY <1>0, <2>3 DEF Confirm, Goto
  <2>4. QED BY <1>2, <2>1, <2>2, <2>3 DEF User
<1>3. ASSUME NEW c \in Controllers, Controller(c) PROVE RunInv'
  <2>1. CASE Review(c) 
    <3>1. CASE Exit(c) BY <1>e, <3>1
    <3>2. CASE /\ Goto(c, "review")
               /\ plan' = [plan EXCEPT ![c] = FreshPlan(c)]
               /\ UNCHANGED <<applied, verified, result>>
      BY <1>0, <2>1, <3>2 DEF Review, Goto
    <3>3. QED BY <2>1, <3>1, <3>2 DEF Review
  <2>2. CASE LockAcknowledged(c) BY <1>0, <2>2 DEF LockAcknowledged, Goto
  <2>3. CASE LockLost(c) BY <1>e, <2>3 DEF LockLost
  <2>4. CASE CheckChange(c) BY <1>0, <2>4 DEF CheckChange, Goto, Return
  <2>5. CASE Launch(c) BY <1>0, <2>5 DEF Launch, Goto
  <2>6. CASE ScriptReturned(c)
    <3>1. CASE Return(c, "failed") /\ UNCHANGED applied
      BY <1>r, <2>6, <3>1 DEF ScriptReturned
    <3>2. CASE /\ Goto(c, "verify")
               /\ applied' = [applied EXCEPT ![c] = @ \cup {script[c].change}]
               /\ UNCHANGED result
      BY <1>0, <2>6, <3>2 DEF ScriptReturned, Awaiting, Goto
    <3>3. QED BY <2>6, <3>1, <3>2 DEF ScriptReturned
  <2>7. CASE Verify(c)
    <3>1. CASE Return(c, "failed") /\ UNCHANGED verified
      BY <1>r, <2>7, <3>1 DEF Verify
    <3>2. ASSUME NEW ch \in applied[c] \ verified[c],
                 verified' = [verified EXCEPT ![c] = @ \cup {ch}],
                 Goto(c, IF applied[c] = plan[c] THEN "replan" ELSE "apply"),
                 UNCHANGED result
          PROVE  RunInv'
      <4>1. verified[c] \cup {ch} = applied[c] BY <2>7, <3>2 DEF Verify
      <4>2. verified'[c] = applied[c] BY <1>0, <3>2, <4>1
      <4>3. UNCHANGED <<plan, applied>> BY <2>7 DEF Verify
      <4>4. QED BY <1>0, <3>2, <4>2, <4>3 DEF Goto
    <3>3. QED BY <2>7, <3>1, <3>2 DEF Verify
  <2>8. CASE Converge(c) BY <1>0, <2>8 DEF Converge, Goto, Return
  <2>9. CASE Release(c) BY <1>e, <2>9 DEF Release
  <2>10. ASSUME NEW s \in Services, Probe(c, s) PROVE RunInv'
    BY <2>10 DEF Probe
  <2>11. QED BY <1>3, <2>1, <2>2, <2>3, <2>4, <2>5, <2>6, <2>7, <2>8, <2>9, <2>10 DEF Controller
<1>4. ASSUME NEW c \in Controllers, Remote(c) PROVE RunInv'
  <2>1. CASE UNCHANGED controllerVars BY <2>1 DEF controllerVars
  <2>2. CASE FlockBusy(c) BY <1>e, <2>2 DEF FlockBusy
  <2>3. QED BY <1>4, <2>1, <2>2 DEF Remote, FlockGranted, LockScriptEnds, DeployClears,
          DeployPlaces, DeployActivates, StartUp, StopDown, RemoveDowns, RemoveUnlinks, OrphanEnds
<1>5. ASSUME NEW c \in Controllers, Fault(c) PROVE RunInv'
  <2>1. CASE ScriptFails(c) BY <2>1 DEF ScriptFails, controllerVars
  <2>2. CASE ConnectionLost(c) BY <1>r, <2>2 DEF ConnectionLost
  <2>3. CASE SessionLost(c) BY <2>3 DEF SessionLost, controllerVars
  <2>4. CASE Timeout(c) BY <1>e, <1>r, <2>4 DEF Timeout
  <2>5. CASE Crash(c) BY <1>e, <2>5 DEF Crash
  <2>6. CASE EditSource(c) BY <2>6 DEF EditSource
  <2>7. CASE InspectFails(c) BY <1>e, <1>r, <2>7 DEF InspectFails
  <2>8. QED BY <1>5, <2>1, <2>2, <2>3, <2>4, <2>5, <2>6, <2>7 DEF Fault
<1>6. ASSUME NEW s \in Services, ContainerSettles(s) \/ ContainerExits(s) PROVE RunInv'
  BY <1>6 DEF ContainerSettles, ContainerExits, controllerVars
<1>7. QED BY <1>1, <1>2, <1>3, <1>4, <1>5, <1>6 DEF Next

\* Execute reports success only for a plan whose every change was applied and
\* verified, whatever fails and however many controllers take turns.
THEOREM SuccessMeansVerified == Spec => []SuccessIsVerified
<1>1. Init => RunInv
  BY DEF Init, RunInv, BeforeExecute, BetweenChanges, OneUnverified, AllVerified
<1>2. RunInv => SuccessIsVerified BY DEF RunInv, AllVerified, SuccessIsVerified
<1>3. QED BY <1>1, <1>2, RunStep, TypeCorrect, PTL DEF Spec

-----------------------------------------------------------------------------
(* The apply lock implements the exclusive lease, as long as no connection *)
(* or controller is lost and no context expires.  A lost session makes the *)
(* claim false: the mutating script of its controller goes on without the  *)
(* lock.  Everything else may fail, and sources may be edited.             *)

Quiet == Faults \cap {"session", "timeout", "crash"} = {}

\* A lock session lasts from Confirm to Release, a script only while its
\* controller waits for it, and in the window the flock is the controller's.
QuietRun(c) ==
  /\ session[c] = IF pc[c] \in Window \cup {"lock"} THEN "open" ELSE "none"
  /\ holder = c => pc[c] \in Window \cup {"lock"}
  /\ script[c] # NoScript => pc[c] = "wait"
  /\ pc[c] \in Window => holder = c

QuietInv == \A c \in Controllers : QuietRun(c)

\* Without those faults every step keeps sessions, scripts and lock in step.
LEMMA QuietStep == Quiet /\ TypeOK /\ QuietInv /\ [Next]_vars => QuietInv'
<1> SUFFICES ASSUME Quiet, TypeOK, QuietInv, [Next]_vars PROVE QuietInv' OBVIOUS
<1> USE DEF QuietInv, QuietRun, Window
<1>0. /\ pc \in [Controllers -> PCs]
      /\ session \in [Controllers -> {"none", "open", "cut"}]
      /\ script \in [Controllers -> Script \cup {NoScript}]
      /\ "session" \notin Faults /\ "timeout" \notin Faults /\ "crash" \notin Faults
  BY DEF TypeOK, ControllerTypeOK, LockTypeOK, Quiet
<1>1. CASE UNCHANGED vars BY <1>1 DEF vars, controllerVars
<1>2. ASSUME NEW c \in Controllers, User(c) PROVE QuietInv'
  <2>1. CASE StartApply(c) BY <1>0, <2>1 DEF StartApply, Goto
  <2>2. CASE Decline(c) BY <1>0, <2>2 DEF Decline, Goto, Exit
  <2>3. CASE Confirm(c) BY <1>0, <2>3 DEF Confirm, Goto
  <2>4. QED BY <1>2, <2>1, <2>2, <2>3 DEF User
<1>3. ASSUME NEW c \in Controllers, Controller(c) PROVE QuietInv'
  <2>1. CASE Review(c) BY <1>0, <2>1 DEF Review, Goto, Exit
  <2>2. CASE LockAcknowledged(c) BY <1>0, <2>2 DEF LockAcknowledged, Goto
  <2>3. CASE LockLost(c) BY <1>0, <2>3 DEF LockLost
  <2>4. CASE CheckChange(c) BY <1>0, <2>4 DEF CheckChange, Goto, Return
  <2>5. CASE Launch(c) BY <1>0, <2>5 DEF Launch, Goto
  <2>6. CASE ScriptReturned(c) BY <1>0, <2>6 DEF ScriptReturned, Awaiting, Goto, Return
  <2>7. CASE Verify(c) BY <1>0, <2>7 DEF Verify, Goto, Return
  <2>8. CASE Converge(c) BY <1>0, <2>8 DEF Converge, Goto, Return
  <2>9. CASE Release(c) BY <1>0, <2>9, ControllersAssumption DEF Release, Goto, Exit
  <2>10. ASSUME NEW s \in Services, Probe(c, s) PROVE QuietInv'
    BY <2>10 DEF Probe
  <2>11. QED BY <1>3, <2>1, <2>2, <2>3, <2>4, <2>5, <2>6, <2>7, <2>8, <2>9, <2>10 DEF Controller
<1>4. ASSUME NEW c \in Controllers, Remote(c) PROVE QuietInv'
  <2>1. CASE FlockGranted(c) BY <1>0, <2>1, ControllersAssumption DEF FlockGranted, controllerVars
  <2>2. CASE FlockBusy(c) BY <1>0, <2>2 DEF FlockBusy, Exit, Goto
  <2>3. CASE LockScriptEnds(c) BY <1>0, <2>3 DEF LockScriptEnds
  <2>4. ASSUME NEW phase, script[c] # NoScript, Phase(c, phase),
               UNCHANGED <<controllerVars, session, holder>>
        PROVE  QuietInv'
    BY <1>0, <2>4 DEF Phase, controllerVars
  <2>5. CASE OrphanEnds(c) BY <1>0, <2>5 DEF OrphanEnds
  <2>6. CASE DeployClears(c) \/ DeployPlaces(c) \/ DeployActivates(c)
    BY <2>4, <2>6 DEF DeployClears, DeployPlaces, DeployActivates, Running
  <2>7. CASE StartUp(c) \/ StopDown(c) \/ RemoveDowns(c) \/ RemoveUnlinks(c)
    BY <2>4, <2>7 DEF StartUp, StopDown, RemoveDowns, RemoveUnlinks, Running
  <2>8. QED BY <1>4, <2>1, <2>2, <2>3, <2>5, <2>6, <2>7 DEF Remote
<1>5. ASSUME NEW c \in Controllers, Fault(c) PROVE QuietInv'
  <2>1. CASE ScriptFails(c) BY <1>0, <2>1 DEF ScriptFails, Phase, controllerVars
  <2>2. CASE EditSource(c) BY <1>0, <2>2 DEF EditSource
  <2>3. CASE InspectFails(c) BY <1>0, <2>3 DEF InspectFails, Goto, Exit, Return
  <2>4. QED BY <1>0, <1>5, <2>1, <2>2, <2>3
          DEF Fault, ConnectionLost, SessionLost, Timeout, Crash
<1>6. ASSUME NEW s \in Services, ContainerSettles(s) \/ ContainerExits(s) PROVE QuietInv'
  BY <1>6 DEF ContainerSettles, ContainerExits, controllerVars
<1>7. QED BY <1>1, <1>2, <1>3, <1>4, <1>5, <1>6 DEF Next

\* The controllers with a mutating script on the target.
Writers == {c \in Controllers : script[c] # NoScript}

\* Every step of Apply is a step of the lease or leaves it alone.
LEMMA LeaseSimulation ==
  Quiet /\ TypeOK /\ QuietInv /\ QuietInv' /\ [Next]_vars => [Lease!LeaseNext]_(Lease!leaseVars)
<1> SUFFICES ASSUME Quiet, TypeOK, QuietInv, QuietInv', [Next]_vars
             PROVE  [Lease!LeaseNext]_(Lease!leaseVars)
  OBVIOUS
<1> DEFINE Same == UNCHANGED <<holder, Writers, current, tree>>
<1>0. /\ script \in [Controllers -> Script \cup {NoScript}]
      /\ "session" \notin Faults /\ "timeout" \notin Faults /\ "crash" \notin Faults
  BY DEF TypeOK, LockTypeOK, Quiet
<1>s. Same => [Lease!LeaseNext]_(Lease!leaseVars)
  BY DEF Lease!leaseVars, Writers
<1>w. ASSUME NEW c \in Controllers, script[c] # NoScript PROVE holder = c /\ Writers = {c}
  BY <1>w DEF QuietInv, QuietRun, Writers, Window
<1>p. ASSUME NEW c \in Controllers, script[c] # NoScript,
             NEW phase \in {"cleared", "placed", "ok", "failed"}, Phase(c, phase),
             UNCHANGED holder
      PROVE  [Lease!LeaseNext]_(Lease!leaseVars)
  <2>1. [change |-> script[c].change, phase |-> phase] \in Script
    BY <1>0, <1>p DEF Script
  <2>2. script'[c] # NoScript BY <1>0, <1>p, <2>1, ScriptAssumption DEF Phase
  <2>3. \A d \in Controllers \ {c} : script'[d] = script[d] BY <1>0, <1>p DEF Phase
  <2>4. Writers' = Writers BY <1>p, <2>2, <2>3 DEF Writers
  <2>5. Lease!Rewrite(c) BY <1>w, <1>p, <2>4 DEF Lease!Rewrite, Writers
  <2>6. QED BY <2>5 DEF Lease!LeaseNext
<1>1. CASE UNCHANGED vars BY <1>s, <1>1 DEF vars, targetVars, Writers
<1>2. ASSUME NEW c \in Controllers, User(c) PROVE Same
  BY <1>2 DEF User, StartApply, Decline, Confirm, targetVars, Writers
<1>3. ASSUME NEW c \in Controllers, Controller(c) PROVE [Lease!LeaseNext]_(Lease!leaseVars)
  <2>1. CASE Launch(c)
    <3>1. pc[c] = "launch" /\ holder = c
      BY <2>1 DEF Launch, QuietInv, QuietRun, Window
    <3>2. Writers = {} BY <1>w, <3>1 DEF QuietInv, QuietRun, Writers
    <3>3. PICK ch \in Pending(c) :
            script' = [script EXCEPT ![c] = [change |-> ch, phase |-> "run"]]
      BY <2>1 DEF Launch
    <3>4. [change |-> ch, phase |-> "run"] \in Script
      BY DEF TypeOK, ControllerTypeOK, Pending, First, Script
    <3>5. Writers' = {c} BY <1>0, <3>2, <3>3, <3>4, ScriptAssumption DEF Writers
    <3>6. Lease!BeginWrite(c)
      BY <2>1, <3>1, <3>2, <3>5 DEF Launch, targetVars, Lease!BeginWrite, Writers
    <3>7. QED BY <3>6 DEF Lease!LeaseNext
  <2>2. CASE ScriptReturned(c)
    <3>1. holder = c /\ Writers = {c} BY <1>w, <2>2 DEF ScriptReturned, Awaiting
    <3>2. Writers' = {} BY <1>0, <2>2, <3>1 DEF ScriptReturned, Writers
    <3>3. Lease!Rewrite(c) BY <2>2, <3>1, <3>2 DEF ScriptReturned, Lease!Rewrite, Writers
    <3>4. QED BY <3>3 DEF Lease!LeaseNext
  <2>3. CASE Release(c)
    <3>1. pc[c] = "release" /\ holder = c /\ session[c] = "open"
      BY <2>3 DEF Release, QuietInv, QuietRun, Window
    <3>2. Writers = {} BY <1>w, <3>1 DEF QuietInv, QuietRun, Writers
    <3>3. holder' = Nobody /\ UNCHANGED <<script, targetVars>> BY <2>3, <3>1 DEF Release
    <3>4. Lease!Surrender(c)
      BY <3>1, <3>2, <3>3 DEF targetVars, Lease!Surrender, Writers
    <3>5. QED BY <3>4 DEF Lease!LeaseNext
  <2>4. CASE Review(c) \/ LockAcknowledged(c) \/ LockLost(c)
    BY <1>s, <2>4 DEF Review, LockAcknowledged, LockLost, targetVars, Writers
  <2>5. CASE CheckChange(c) \/ Verify(c) \/ Converge(c)
    BY <1>s, <2>5 DEF CheckChange, Verify, Converge, targetVars, Writers
  <2>6. ASSUME NEW s \in Services, Probe(c, s) PROVE Same
    BY <2>6 DEF Probe, targetVars, Writers
  <2>7. QED BY <1>3, <1>s, <2>1, <2>2, <2>3, <2>4, <2>5, <2>6 DEF Controller
<1>4. ASSUME NEW c \in Controllers, Remote(c) PROVE [Lease!LeaseNext]_(Lease!leaseVars)
  <2>1. CASE FlockGranted(c)
    <3>1. Lease!Grant(c) BY <2>1 DEF FlockGranted, targetVars, Lease!Grant
    <3>2. QED BY <3>1 DEF Lease!LeaseNext
  <2>2. CASE FlockBusy(c) BY <1>s, <2>2 DEF FlockBusy, targetVars, Writers
  <2>3. ~LockScriptEnds(c) BY DEF LockScriptEnds, QuietInv, QuietRun
  <2>4. ~OrphanEnds(c) BY DEF OrphanEnds, QuietInv, QuietRun
  <2>5. CASE DeployClears(c) \/ DeployPlaces(c) \/ DeployActivates(c)
    BY <1>p, <2>5 DEF DeployClears, DeployPlaces, DeployActivates, Running
  <2>6. CASE StartUp(c) \/ StopDown(c) \/ RemoveDowns(c) \/ RemoveUnlinks(c)
    BY <1>p, <2>6 DEF StartUp, StopDown, RemoveDowns, RemoveUnlinks, Running
  <2>7. QED BY <1>4, <2>1, <2>2, <2>3, <2>4, <2>5, <2>6 DEF Remote
<1>5. ASSUME NEW c \in Controllers, Fault(c) PROVE [Lease!LeaseNext]_(Lease!leaseVars)
  <2>1. CASE ScriptFails(c) BY <1>p, <2>1 DEF ScriptFails
  <2>2. CASE EditSource(c) \/ InspectFails(c)
    BY <1>s, <2>2 DEF EditSource, InspectFails, targetVars, Writers
  <2>3. QED BY <1>0, <1>5, <2>1, <2>2
          DEF Fault, ConnectionLost, SessionLost, Timeout, Crash
<1>6. ASSUME NEW s \in Services, ContainerSettles(s) \/ ContainerExits(s) PROVE Same
  BY <1>6 DEF ContainerSettles, ContainerExits, Writers
<1>7. QED BY <1>s, <1>1, <1>2, <1>3, <1>4, <1>5, <1>6 DEF Next

\* The target-side flock, with the sessions and scripts around it, implements
\* the exclusive lease over the deployment trees for any controllers and plans.
THEOREM LeaseImplemented ==
  ASSUME Quiet PROVE Spec => ImplementsLease
<1>1. Init => QuietInv BY ControllersAssumption DEF Init, QuietInv, QuietRun, Window
<1>2. Init => Lease!LeaseInit BY DEF Init, Lease!LeaseInit
<1>3. TypeOK /\ QuietInv /\ [Next]_vars => QuietInv' BY QuietStep
<1>4. TypeOK /\ QuietInv /\ QuietInv' /\ [Next]_vars => [Lease!LeaseNext]_(Lease!leaseVars)
  BY LeaseSimulation
<1>5. QED BY <1>1, <1>2, <1>3, <1>4, TypeCorrect, PTL
        DEF Spec, ImplementsLease, Lease!LeaseSpec

-----------------------------------------------------------------------------
(* The deployments that the controllers put on the target.                 *)

(***************************************************************************)
(* What is not Bebop's stays, as long as probes see what is there: they    *)
(* are read without privilege below a root-owned directory, and a probe    *)
(* that fails reads as nothing there.  A removal has no precondition, so   *)
(* that what was seen is all that keeps it off.  Every other fault may     *)
(* happen, and any number of controllers may overlap.                      *)
(***************************************************************************)
Sighted == Controllers \subseteq RootSessions /\ "probe" \notin Faults

\* What was once seen to be none of the administrator's never becomes so again; a reviewed plan and its scripts
\* handle nothing else.
SeenOwn(c) ==
  \A s \in Services :
    facts[c][s].runtime # "unread" /\ facts[c][s].disk # Foreign => current[s] # Foreign

PlannedOwn(c) == \A ch \in plan[c] : current[ch.service] # Foreign

ScriptOwn(c) == script[c] # NoScript => current[script[c].change.service] # Foreign

OwnInv == \A c \in Controllers : SeenOwn(c) /\ PlannedOwn(c) /\ ScriptOwn(c)

ForeignStays == \A s \in Services : current[s] = Foreign => current'[s] = Foreign

\* A foreign path is what a sighted probe reports.
LEMMA ForeignIsSeen ==
  ASSUME Sighted, NEW c \in Controllers, NEW s \in Services, current[s] = Foreign
  PROVE  VisibleDisk(c, s) = Foreign
BY ReleasesAssumption DEF Sighted, VisibleDisk, Reported, DiskOf, Digests

\* The changes of a plan without blocked ones are about services whose path was not foreign.
LEMMA UnblockedIsOwn ==
  ASSUME NEW c \in Controllers, NEW ch \in FreshPlan(c), ~ch.blocked
  PROVE  ch.service \in Services /\ facts[c][ch.service].disk # Foreign
<1>1. PICK s \in Services : ch \in ServicePlan(s, goal[c][s], source[c][s], facts[c][s])
  BY DEF FreshPlan, Plan
<1> DEFINE obs == facts[c][s]
           r == source[c][s]
<1>2. ch \in RemoveChanges(s, r, obs) \cup DeployChanges(s, r, obs) \cup StartChanges(s, r, obs)
               \cup StopChanges(s, r, obs)
  BY <1>1 DEF ServicePlan
<1>3. ch.service = s /\ (ch.blocked = Unsafe(obs) \/ ch.blocked = (Unsafe(obs) \/ PlacementChanged(r, obs)))
  <2> HIDE DEF obs, r
  <2> QED BY <1>2 DEF RemoveChanges, DeployChanges, StartChanges, StopChanges, ServiceChange
<1> QED BY <1>3 DEF Unsafe

\* Every step keeps that, and the foreign paths.
LEMMA OwnStep == Sighted /\ TypeOK /\ OwnInv /\ [Next]_vars => OwnInv' /\ ForeignStays
<1> SUFFICES ASSUME Sighted, TypeOK, OwnInv, [Next]_vars PROVE OwnInv' /\ ForeignStays OBVIOUS
<1> USE DEF OwnInv, SeenOwn, PlannedOwn, ScriptOwn, ForeignStays
<1>0. /\ plan \in [Controllers -> SUBSET Change]
      /\ facts \in [Controllers -> [Services ->
           [disk : Releases \cup {NoRelease, Foreign}, runtime : Runtimes \cup {"unread"}]]]
      /\ script \in [Controllers -> Script \cup {NoScript}]
      /\ current \in [Services -> Digests \cup {NoRelease, Foreign}]
  BY DEF TypeOK, ControllerTypeOK, LockTypeOK, TargetTypeOK
<1>q. UNCHANGED <<facts, plan, script, current>> => OwnInv' /\ ForeignStays OBVIOUS
<1>e. ASSUME NEW c \in Controllers, Exit(c), UNCHANGED <<script, current>> PROVE OwnInv' /\ ForeignStays
  <2>1. \A s \in Services : facts'[c][s].runtime = "unread" BY <1>0, <1>e DEF Exit, Unread
  <2>2. \A d \in Controllers \ {c} : facts'[d] = facts[d] /\ plan'[d] = plan[d] BY <1>0, <1>e DEF Exit
  <2>3. plan'[c] = {} BY <1>0, <1>e DEF Exit
  <2> QED BY <1>e, <2>1, <2>2, <2>3
<1>p. ASSUME NEW c \in Controllers, script[c] # NoScript, NEW phase, Phase(c, phase), UNCHANGED <<facts, plan>>,
             \/ current' = current
             \/ \E new \in Digests \cup {NoRelease} : current' = [current EXCEPT ![script[c].change.service] = new]
      PROVE  OwnInv' /\ ForeignStays
  <2>1. \A s \in Services : /\ current[s] = Foreign => current'[s] = Foreign
                            /\ current[s] # Foreign => current'[s] # Foreign
    BY <1>0, <1>p, ReleasesAssumption DEF Digests
  <2>2. \A d \in Controllers : script'[d] # NoScript =>
          script[d] # NoScript /\ script'[d].change = script[d].change
    BY <1>0, <1>p DEF Phase
  <2>3. \A d \in Controllers : script[d] # NoScript => script[d].change.service \in Services
    BY <1>0 DEF Script, Change
  <2>4. \A d \in Controllers : \A ch \in plan[d] : ch.service \in Services BY <1>0 DEF Change
  <2> QED BY <1>p, <2>1, <2>2, <2>3, <2>4
<1>1. CASE UNCHANGED vars BY <1>q, <1>1 DEF vars, controllerVars, targetVars
<1>2. ASSUME NEW c \in Controllers, User(c) PROVE OwnInv' /\ ForeignStays
  <2>1. CASE StartApply(c) BY <1>q, <2>1 DEF StartApply, targetVars
  <2>2. CASE Decline(c) BY <1>e, <2>2 DEF Decline, targetVars
  <2>3. CASE Confirm(c) BY <1>q, <2>3 DEF Confirm, targetVars
  <2> QED BY <1>2, <2>1, <2>2, <2>3 DEF User
<1>3. ASSUME NEW c \in Controllers, Controller(c) PROVE OwnInv' /\ ForeignStays
  <2>1. CASE Review(c)
    <3>1. CASE Exit(c) BY <1>e, <2>1, <3>1 DEF Review, targetVars
    <3>2. CASE ~Exit(c)
      <4>1. /\ Inspected(c) /\ \A ch \in FreshPlan(c) : ~ch.blocked
            /\ plan' = [plan EXCEPT ![c] = FreshPlan(c)]
            /\ facts' = [facts EXCEPT ![c] = [s \in Services |-> Unread]]
            /\ UNCHANGED <<script, current>>
        BY <2>1, <3>2 DEF Review, targetVars
      <4>2. \A ch \in FreshPlan(c) : current[ch.service] # Foreign
        BY <4>1, UnblockedIsOwn DEF Inspected
      <4>3. \A s \in Services : facts'[c][s].runtime = "unread" BY <1>0, <4>1 DEF Unread
      <4>4. \A d \in Controllers \ {c} : facts'[d] = facts[d] /\ plan'[d] = plan[d] BY <1>0, <4>1
      <4>5. plan'[c] = FreshPlan(c) BY <1>0, <4>1
      <4> QED BY <4>1, <4>2, <4>3, <4>4, <4>5
    <3> QED BY <3>1, <3>2
  <2>2. CASE LockAcknowledged(c) BY <1>q, <2>2 DEF LockAcknowledged, targetVars
  <2>3. CASE LockLost(c) BY <1>e, <2>3 DEF LockLost, targetVars
  <2>4. CASE CheckChange(c) BY <1>q, <2>4 DEF CheckChange, targetVars
  <2>5. CASE Launch(c)
    <3>1. PICK ch \in Pending(c) : script' = [script EXCEPT ![c] = [change |-> ch, phase |-> "run"]]
      BY <2>5 DEF Launch
    <3>2. UNCHANGED <<facts, plan, current>> BY <2>5 DEF Launch, targetVars
    <3>3. ch \in plan[c] BY DEF Pending, First
    <3>4. script'[c].change = ch /\ (\A d \in Controllers \ {c} : script'[d] = script[d]) BY <1>0, <3>1
    <3> QED BY <3>2, <3>3, <3>4
  <2>6. CASE ScriptReturned(c)
    <3>1. script' = [script EXCEPT ![c] = NoScript] /\ UNCHANGED <<facts, plan, current>>
      BY <2>6 DEF ScriptReturned, targetVars
    <3> QED BY <1>0, <3>1
  <2>7. CASE Verify(c) BY <1>q, <2>7 DEF Verify, targetVars
  <2>8. CASE Converge(c) BY <1>q, <2>8 DEF Converge, targetVars
  <2>9. CASE Release(c) BY <1>e, <2>9 DEF Release, targetVars
  <2>10. ASSUME NEW s \in Services, Probe(c, s) PROVE OwnInv' /\ ForeignStays
    <3>1. PICK rt : facts' = [facts EXCEPT ![c][s] = [disk |-> VisibleDisk(c, s), runtime |-> rt]]
      BY <2>10 DEF Probe, Sighted
    <3>2. UNCHANGED <<plan, script, current>> BY <2>10 DEF Probe, targetVars
    <3>3. facts'[c][s].disk = VisibleDisk(c, s) BY <1>0, <3>1
    <3>4. \A d \in Controllers, t \in Services : d # c \/ t # s => facts'[d][t] = facts[d][t] BY <1>0, <3>1
    <3>5. facts'[c][s].disk # Foreign => current[s] # Foreign BY <3>3, ForeignIsSeen
    <3> QED BY <3>2, <3>4, <3>5
  <2> QED BY <1>3, <2>1, <2>2, <2>3, <2>4, <2>5, <2>6, <2>7, <2>8, <2>9, <2>10 DEF Controller
<1>4. ASSUME NEW c \in Controllers, Remote(c) PROVE OwnInv' /\ ForeignStays
  <2>1. CASE FlockGranted(c) \/ LockScriptEnds(c)
    BY <1>q, <2>1 DEF FlockGranted, LockScriptEnds, controllerVars, targetVars
  <2>2. CASE FlockBusy(c) BY <1>e, <2>2 DEF FlockBusy, targetVars
  <2>3. CASE DeployClears(c) \/ DeployPlaces(c)
    BY <1>p, <2>3 DEF DeployClears, DeployPlaces, Running, controllerVars
  <2>4. CASE DeployActivates(c)
    <3>1. script[c] # NoScript /\ script[c].change.release.digest \in Digests
      BY <1>0, <2>4 DEF DeployActivates, Running, Script, Change, Digests
    <3> QED BY <1>p, <2>4, <3>1 DEF DeployActivates, controllerVars
  <2>5. CASE StartUp(c) \/ StopDown(c) \/ RemoveDowns(c)
    BY <1>p, <2>5 DEF StartUp, StopDown, RemoveDowns, Running, controllerVars
  <2>6. CASE RemoveUnlinks(c) BY <1>p, <2>6 DEF RemoveUnlinks, Running, controllerVars
  <2>7. CASE OrphanEnds(c)
    <3>1. script' = [script EXCEPT ![c] = NoScript] /\ UNCHANGED <<facts, plan, current>>
      BY <2>7 DEF OrphanEnds, controllerVars, targetVars
    <3> QED BY <1>0, <3>1
  <2> QED BY <1>4, <2>1, <2>2, <2>3, <2>4, <2>5, <2>6, <2>7 DEF Remote
<1>5. ASSUME NEW c \in Controllers, Fault(c) PROVE OwnInv' /\ ForeignStays
  <2>1. CASE ScriptFails(c) BY <1>p, <2>1 DEF ScriptFails, controllerVars
  <2>2. CASE ConnectionLost(c) \/ SessionLost(c) \/ EditSource(c)
    BY <1>q, <2>2 DEF ConnectionLost, SessionLost, EditSource, controllerVars, targetVars
  <2>3. CASE Timeout(c) BY <1>q, <1>e, <2>3 DEF Timeout, targetVars
  <2>4. CASE Crash(c) BY <1>e, <2>4 DEF Crash, targetVars
  <2>5. ~InspectFails(c) BY DEF InspectFails, Sighted
  <2> QED BY <1>5, <2>1, <2>2, <2>3, <2>4, <2>5 DEF Fault
<1>6. ASSUME NEW s \in Services, ContainerSettles(s) \/ ContainerExits(s) PROVE OwnInv' /\ ForeignStays
  BY <1>q, <1>6 DEF ContainerSettles, ContainerExits, controllerVars
<1> QED BY <1>1, <1>2, <1>3, <1>4, <1>5, <1>6 DEF Next

\* However many controllers deploy and remove on plans that are stale when they run, whatever sessions, scripts and
\* controllers are lost: a path at `current` that Bebop did not make is never replaced, if what is there is seen.
THEOREM ForeignPathsAreKept ==
  ASSUME Sighted PROVE Spec => ForeignKept
<1>1. Init => OwnInv
  BY DEF Init, OwnInv, SeenOwn, PlannedOwn, ScriptOwn, Unread
<1>2. TypeOK /\ OwnInv /\ [Next]_vars => OwnInv' /\ [ForeignStays]_current BY OwnStep
<1>3. [ForeignStays]_current => [\A s \in Services : current[s] = Foreign => current'[s] = Foreign]_vars
  BY DEF ForeignStays, vars, targetVars
<1> QED BY <1>1, <1>2, <1>3, TypeCorrect, PTL DEF Spec, ForeignKept

-----------------------------------------------------------------------------
(* What was reviewed is what is deployed, as long as no connection or      *)
(* controller is lost and no context expires (Quiet): the script of a      *)
(* controller that lost its lock would write beside the next one.          *)

\* A plan deploys a service at most once, and does not remove it then.
PlannedOnce(c) ==
  \A a, b \in plan[c] :
    a.kind = "deploy" /\ b.kind \in {"deploy", "remove"} /\ a.service = b.service => a = b

\* A script is about a change that is not applied yet, and a deploy has done what its phase says.
Underway(c) ==
  script[c] # NoScript =>
    /\ script[c].change \in plan[c] \ applied[c]
    /\ Running(c, "deploy", "placed") =>
         tree[script[c].change.service][script[c].change.release.digest] = script[c].change.release
    /\ Running(c, "deploy", "ok") => DiskOf(script[c].change.service) = script[c].change.release

ReviewInv == AppliedIsReviewed /\ \A c \in Controllers : applied[c] \subseteq plan[c] /\ PlannedOnce(c) /\ Underway(c)

\* The plan of an inspection has one deploy per service at most, and no removal beside it.
LEMMA FreshPlanOnce ==
  ASSUME NEW c \in Controllers, NEW a \in FreshPlan(c), NEW b \in FreshPlan(c),
         a.kind = "deploy", b.kind \in {"deploy", "remove"}, a.service = b.service
  PROVE  a = b
<1>1. PICK s \in Services : a \in ServicePlan(s, goal[c][s], source[c][s], facts[c][s]) BY DEF FreshPlan, Plan
<1>2. PICK t \in Services : b \in ServicePlan(t, goal[c][t], source[c][t], facts[c][t]) BY DEF FreshPlan, Plan
<1>3. \A u, g, r, obs : \A ch \in ServicePlan(u, g, r, obs) :
        /\ ch.service = u
        /\ g = "absent" <=> ch.kind = "remove"
        /\ ch.kind = "deploy" => ch = ServiceChange(u, "deploy", r, obs, Unsafe(obs) \/ PlacementChanged(r, obs))
  BY DEF ServicePlan, RemoveChanges, DeployChanges, StartChanges, StopChanges, ServiceChange
<1>4. s = t BY <1>1, <1>2, <1>3
<1>5. a.kind # "remove" /\ goal[c][s] # "absent" BY <1>1, <1>3
<1>6. b.kind = "deploy" BY <1>2, <1>3, <1>4, <1>5
<1> QED BY <1>1, <1>2, <1>3, <1>4, <1>6

\* Nobody else has applied anything, or has a script, while a script runs.
LEMMA SoleWriter ==
  ASSUME TypeOK, QuietInv, RunInv, NEW c \in Controllers, script[c] # NoScript, NEW d \in Controllers \ {c}
  PROVE  applied[d] = {} /\ script[d] = NoScript
<1>1. holder = c BY DEF QuietInv, QuietRun, Window
<1>2. pc[d] \notin Window /\ script[d] = NoScript BY <1>1 DEF QuietInv, QuietRun, Window
<1>3. pc[d] \in {"idle", "inspect", "review", "lock"} BY <1>2 DEF TypeOK, ControllerTypeOK, PCs, Window
<1> QED BY <1>2, <1>3 DEF RunInv, BeforeExecute

\* A step of a script that changes no other service, and does for a deploy what its next phase says, keeps ReviewInv.
LEMMA ScriptKeepsReview ==
  ASSUME TypeOK, QuietInv, RunInv, ReviewInv,
         NEW c \in Controllers, script[c] # NoScript, NEW phase, Phase(c, phase),
         UNCHANGED <<plan, applied>>,
         \A s \in Services : s # script[c].change.service => current'[s] = current[s] /\ tree'[s] = tree[s],
         \/ UNCHANGED <<current, tree>> /\ (script[c].change.kind = "deploy" => phase = "failed")
         \/ script[c].change.kind = "remove"
         \/ /\ script[c].change.kind = "deploy"
            /\ phase = "placed" =>
                 tree'[script[c].change.service][script[c].change.release.digest] = script[c].change.release
            /\ phase = "ok" => DiskOf(script[c].change.service)' = script[c].change.release
  PROVE  ReviewInv'
<1> DEFINE ch == script[c].change
<1>0. /\ plan \in [Controllers -> SUBSET Change] /\ script \in [Controllers -> Script \cup {NoScript}]
  BY DEF TypeOK, ControllerTypeOK, LockTypeOK
<1>1. script' = [script EXCEPT ![c] = [change |-> ch, phase |-> phase]] BY DEF Phase
<1>2. \A d \in Controllers \ {c} : applied'[d] = {} /\ script'[d] = NoScript BY <1>0, <1>1, SoleWriter
<1>3. script'[c].change = ch /\ script'[c].phase = phase BY <1>0, <1>1
<1>4. ch \in plan[c] \ applied[c] BY DEF ReviewInv, Underway
<1>5. ASSUME NEW a \in applied[c], a.kind = "deploy" PROVE DiskOf(a.service)' = a.release
  <2>1. a \in plan[c] /\ a.service \in Services BY <1>0 DEF ReviewInv, Change
  <2>2. DiskOf(a.service) = a.release BY <1>5 DEF ReviewInv, AppliedIsReviewed
  <2>3. ch.kind \in {"deploy", "remove"} => a.service # ch.service
    BY <1>4, <1>5, <2>1 DEF ReviewInv, PlannedOnce
  <2>4. current'[a.service] = current[a.service] /\ tree'[a.service] = tree[a.service] BY <2>1, <2>3
  <2> QED BY <2>2, <2>4 DEF DiskOf
<1>6. AppliedIsReviewed' BY <1>2, <1>5 DEF AppliedIsReviewed
<1>7. Underway(c)'
  <2>1. script'[c].change \in plan'[c] \ applied'[c] BY <1>3, <1>4
  <2>2. Running(c, "deploy", "placed")' => ch.kind = "deploy" /\ phase = "placed" BY <1>3 DEF Running
  <2>3. Running(c, "deploy", "ok")' => ch.kind = "deploy" /\ phase = "ok" BY <1>3 DEF Running
  <2> QED BY <1>3, <2>1, <2>2, <2>3 DEF Underway, DiskOf
<1>8. \A d \in Controllers \ {c} : Underway(d)' BY <1>2 DEF Underway
<1>9. \A d \in Controllers : applied'[d] \subseteq plan'[d] /\ PlannedOnce(d)' BY DEF ReviewInv, PlannedOnce
<1> QED BY <1>6, <1>7, <1>8, <1>9 DEF ReviewInv

\* Without lost sessions, timeouts and crashes every step keeps ReviewInv.
LEMMA ReviewStep == Quiet /\ TypeOK /\ QuietInv /\ RunInv /\ ReviewInv /\ [Next]_vars => ReviewInv'
<1> SUFFICES ASSUME Quiet, TypeOK, QuietInv, RunInv, ReviewInv, [Next]_vars PROVE ReviewInv' OBVIOUS
<1>0. /\ plan \in [Controllers -> SUBSET Change] /\ applied \in [Controllers -> SUBSET Change]
      /\ script \in [Controllers -> Script \cup {NoScript}]
      /\ current \in [Services -> Digests \cup {NoRelease, Foreign}]
      /\ tree \in [Services -> [Digests -> Releases \cup {NoRelease}]]
      /\ "session" \notin Faults /\ "timeout" \notin Faults /\ "crash" \notin Faults
  BY DEF TypeOK, ControllerTypeOK, LockTypeOK, TargetTypeOK, Quiet
<1>i. /\ AppliedIsReviewed
      /\ \A d \in Controllers : applied[d] \subseteq plan[d] /\ PlannedOnce(d) /\ Underway(d)
  BY DEF ReviewInv
<1>q. ASSUME UNCHANGED <<plan, applied, script, current, tree>> PROVE ReviewInv'
  BY <1>q DEF ReviewInv, AppliedIsReviewed, PlannedOnce, Underway, Running, DiskOf
<1>c. ASSUME NEW c \in Controllers, script[c] = NoScript, UNCHANGED <<script, current, tree>>,
             \A d \in Controllers \ {c} : plan'[d] = plan[d] /\ applied'[d] = applied[d],
             applied'[c] = {}, PlannedOnce(c)'
      PROVE  ReviewInv'
  <2>1. AppliedIsReviewed' BY <1>i, <1>c DEF AppliedIsReviewed, DiskOf
  <2>2. \A d \in Controllers : Underway(d)' BY <1>i, <1>c DEF Underway, Running, DiskOf
  <2>3. \A d \in Controllers : applied'[d] \subseteq plan'[d] BY <1>i, <1>c
  <2>4. \A d \in Controllers : PlannedOnce(d)' BY <1>i, <1>c DEF PlannedOnce
  <2> QED BY <2>1, <2>2, <2>3, <2>4 DEF ReviewInv
<1>e. ASSUME NEW c \in Controllers, Exit(c), script[c] = NoScript, UNCHANGED <<script, current, tree>>
      PROVE  ReviewInv'
  <2>1. plan'[c] = {} /\ applied'[c] = {} BY <1>0, <1>e DEF Exit
  <2>2. \A d \in Controllers \ {c} : plan'[d] = plan[d] /\ applied'[d] = applied[d] BY <1>0, <1>e DEF Exit
  <2>3. PlannedOnce(c)' BY <2>1 DEF PlannedOnce
  <2> QED BY <1>c, <1>e, <2>1, <2>2, <2>3
<1>w. \A c \in Controllers : pc[c] # "wait" => script[c] = NoScript BY DEF QuietInv, QuietRun
<1>1. CASE UNCHANGED vars BY <1>q, <1>1 DEF vars, controllerVars, targetVars
<1>2. ASSUME NEW c \in Controllers, User(c) PROVE ReviewInv'
  <2>1. CASE StartApply(c) BY <1>q, <2>1 DEF StartApply, targetVars
  <2>2. CASE Decline(c) BY <1>e, <1>w, <2>2 DEF Decline, targetVars
  <2>3. CASE Confirm(c) BY <1>q, <2>3 DEF Confirm, targetVars
  <2> QED BY <1>2, <2>1, <2>2, <2>3 DEF User
<1>3. ASSUME NEW c \in Controllers, Controller(c) PROVE ReviewInv'
  <2>1. CASE Review(c)
    <3>1. CASE Exit(c) BY <1>e, <1>w, <2>1, <3>1 DEF Review, targetVars
    <3>2. CASE ~Exit(c)
      <4>1. /\ plan' = [plan EXCEPT ![c] = FreshPlan(c)]
            /\ UNCHANGED <<applied, script, current, tree>>
        BY <2>1, <3>2 DEF Review, targetVars
      <4>2. applied[c] = {} BY <2>1 DEF Review, RunInv, BeforeExecute
      <4>3. plan'[c] = FreshPlan(c) BY <1>0, <4>1
      <4>4. PlannedOnce(c)' BY <4>3, FreshPlanOnce DEF PlannedOnce
      <4>5. \A d \in Controllers \ {c} : plan'[d] = plan[d] BY <1>0, <4>1
      <4> QED BY <1>c, <1>w, <2>1, <4>1, <4>2, <4>4, <4>5 DEF Review
    <3> QED BY <3>1, <3>2
  <2>2. CASE LockAcknowledged(c) BY <1>q, <2>2 DEF LockAcknowledged, targetVars
  <2>3. CASE LockLost(c) BY <1>e, <1>w, <2>3 DEF LockLost, targetVars
  <2>4. CASE CheckChange(c) BY <1>q, <2>4 DEF CheckChange, targetVars
  <2>5. CASE Launch(c)
    <3>1. PICK ch \in Pending(c) : script' = [script EXCEPT ![c] = [change |-> ch, phase |-> "run"]]
      BY <2>5 DEF Launch
    <3>2. UNCHANGED <<plan, applied, current, tree>> BY <2>5 DEF Launch, targetVars
    <3>3. ch \in plan[c] \ applied[c] BY DEF Pending, First
    <3>4. script'[c].change = ch /\ script'[c].phase = "run" /\ (\A d \in Controllers \ {c} : script'[d] = script[d])
      BY <1>0, <3>1
    <3>5. Underway(c)' BY <3>2, <3>3, <3>4 DEF Underway, Running
    <3>6. \A d \in Controllers \ {c} : Underway(d)' BY <1>i, <3>2, <3>4 DEF Underway, Running, DiskOf
    <3>7. AppliedIsReviewed' /\ \A d \in Controllers : applied'[d] \subseteq plan'[d] /\ PlannedOnce(d)'
      BY <1>i, <3>2 DEF AppliedIsReviewed, PlannedOnce, DiskOf
    <3> QED BY <3>5, <3>6, <3>7 DEF ReviewInv
  <2>6. CASE ScriptReturned(c)
    <3>1. /\ script' = [script EXCEPT ![c] = NoScript] /\ UNCHANGED <<plan, current, tree>>
          /\ script[c] # NoScript
          /\ \/ applied' = applied
             \/ script[c].phase = "ok" /\ applied' = [applied EXCEPT ![c] = @ \cup {script[c].change}]
      BY <2>6 DEF ScriptReturned, Awaiting, targetVars
    <3>2. script'[c] = NoScript /\ (\A d \in Controllers \ {c} : script'[d] = script[d]) BY <1>0, <3>1
    <3>3. Underway(c) BY <1>i
    <3>4. \A d \in Controllers \ {c} : applied'[d] = applied[d] BY <1>0, <3>1
    <3>5. applied'[c] \subseteq applied[c] \cup {script[c].change} BY <1>0, <3>1
    <3>6. \A d \in Controllers : applied'[d] \subseteq plan'[d] BY <1>i, <3>1, <3>3, <3>4, <3>5 DEF Underway
    <3>7. AppliedIsReviewed'
      <4>1. ASSUME NEW a \in applied'[c], a.kind = "deploy", a \notin applied[c] PROVE DiskOf(a.service) = a.release
        <5>1. a = script[c].change /\ script[c].phase = "ok" BY <1>0, <3>1, <3>5, <4>1
        <5> QED BY <3>1, <3>3, <4>1, <5>1 DEF Underway, Running
      <4> QED BY <1>i, <3>1, <3>4, <4>1 DEF AppliedIsReviewed, DiskOf
    <3>8. \A d \in Controllers : Underway(d)' BY <1>i, <3>1, <3>2, <3>4 DEF Underway, Running, DiskOf
    <3>9. \A d \in Controllers : PlannedOnce(d)' BY <1>i, <3>1 DEF PlannedOnce
    <3> QED BY <3>6, <3>7, <3>8, <3>9 DEF ReviewInv
  <2>7. CASE Verify(c) BY <1>q, <2>7 DEF Verify, targetVars
  <2>8. CASE Converge(c) BY <1>q, <2>8 DEF Converge, targetVars
  <2>9. CASE Release(c) BY <1>e, <1>w, <2>9 DEF Release, targetVars
  <2>10. ASSUME NEW s \in Services, Probe(c, s) PROVE ReviewInv' BY <1>q, <2>10 DEF Probe, targetVars
  <2> QED BY <1>3, <2>1, <2>2, <2>3, <2>4, <2>5, <2>6, <2>7, <2>8, <2>9, <2>10 DEF Controller
<1>4. ASSUME NEW c \in Controllers, Remote(c) PROVE ReviewInv'
  <2>0. script[c] # NoScript =>
          script[c].change.service \in Services /\ script[c].change.release.digest \in Digests
    BY <1>0 DEF Script, Change, Digests
  <2>1. CASE FlockGranted(c) \/ LockScriptEnds(c)
    BY <1>q, <2>1 DEF FlockGranted, LockScriptEnds, controllerVars, targetVars
  <2>2. CASE FlockBusy(c) BY <1>e, <1>w, <2>2 DEF FlockBusy, targetVars
  <2>3. CASE DeployClears(c)
    BY <1>0, <2>3, ScriptKeepsReview DEF DeployClears, Running, controllerVars
  <2>4. CASE DeployPlaces(c)
    <3>1. tree'[script[c].change.service][script[c].change.release.digest] = script[c].change.release
      BY <1>0, <2>0, <2>4 DEF DeployPlaces, Running
    <3> QED BY <1>0, <2>4, <3>1, ScriptKeepsReview DEF DeployPlaces, Running, controllerVars
  <2>5. CASE DeployActivates(c)
    <3>1. tree[script[c].change.service][script[c].change.release.digest] = script[c].change.release
      BY <1>i, <2>5 DEF DeployActivates, Running, Underway
    <3>2. current'[script[c].change.service] = script[c].change.release.digest /\ tree' = tree
      BY <1>0, <2>0, <2>5 DEF DeployActivates, Running
    <3>3. DiskOf(script[c].change.service)' = script[c].change.release
      <4>1. script'[c].change = script[c].change BY <1>0, <2>5 DEF DeployActivates, Phase
      <4> QED BY <2>0, <2>5, <3>1, <3>2, <4>1 DEF DiskOf, DeployActivates, Running
    <3> QED BY <1>0, <2>5, <3>3, ScriptKeepsReview DEF DeployActivates, Running, controllerVars
  <2>6. CASE StartUp(c)
    <3>1. PICK phase : Phase(c, phase) BY <2>6 DEF StartUp
    <3> QED BY <2>6, <3>1, ScriptKeepsReview DEF StartUp, Running, controllerVars
  <2>7. CASE StopDown(c)
    <3>1. PICK phase : Phase(c, phase) BY <2>7 DEF StopDown
    <3> QED BY <2>7, <3>1, ScriptKeepsReview DEF StopDown, Running, controllerVars
  <2>8. CASE RemoveDowns(c)
    BY <2>8, ScriptKeepsReview DEF RemoveDowns, Running, controllerVars
  <2>9. CASE RemoveUnlinks(c)
    BY <1>0, <2>9, ScriptKeepsReview DEF RemoveUnlinks, Running, controllerVars
  <2>10. ~OrphanEnds(c) BY <1>w DEF OrphanEnds
  <2> QED BY <1>4, <2>1, <2>2, <2>3, <2>4, <2>5, <2>6, <2>7, <2>8, <2>9, <2>10 DEF Remote
<1>5. ASSUME NEW c \in Controllers, Fault(c) PROVE ReviewInv'
  <2>1. CASE ScriptFails(c) BY <2>1, ScriptKeepsReview DEF ScriptFails, controllerVars
  <2>2. CASE EditSource(c) BY <1>q, <2>2 DEF EditSource, targetVars
  <2>3. CASE InspectFails(c) BY <1>q, <1>e, <1>w, <2>3 DEF InspectFails, Return, targetVars
  <2> QED BY <1>0, <1>5, <2>1, <2>2, <2>3 DEF Fault, ConnectionLost, SessionLost, Timeout, Crash
<1>6. ASSUME NEW s \in Services, ContainerSettles(s) \/ ContainerExits(s) PROVE ReviewInv'
  BY <1>q, <1>6 DEF ContainerSettles, ContainerExits, controllerVars
<1> QED BY <1>1, <1>2, <1>3, <1>4, <1>5, <1>6 DEF Next

\* Although sources are edited, scripts, probes and containers fail and other controllers wait with plans of their
\* own: what a run deployed is the release its review showed, and stays so until the run ends.
THEOREM AppliedWasReviewed ==
  ASSUME Quiet PROVE Spec => []AppliedIsReviewed
<1>1. Init => QuietInv BY ControllersAssumption DEF Init, QuietInv, QuietRun, Window
<1>2. Init => RunInv BY DEF Init, RunInv, BeforeExecute, BetweenChanges, OneUnverified, AllVerified
<1>3. Init => ReviewInv BY DEF Init, ReviewInv, AppliedIsReviewed, PlannedOnce, Underway
<1>4. TypeOK /\ QuietInv /\ [Next]_vars => QuietInv' BY QuietStep
<1>5. TypeOK /\ QuietInv /\ RunInv /\ ReviewInv /\ [Next]_vars => ReviewInv' BY ReviewStep
<1>6. ReviewInv => AppliedIsReviewed BY DEF ReviewInv
<1> QED BY <1>1, <1>2, <1>3, <1>4, <1>5, <1>6, RunStep, TypeCorrect, PTL DEF Spec

-----------------------------------------------------------------------------
(* A deploy replaces what its plan saw, under the same assumption: its     *)
(* precondition is tested before the script starts and is still true when  *)
(* it swaps `current`, three commands later.                               *)

\* What the precondition of a deploy leaves possible once its own release may be in place.
Fits(ch) ==
  IF ch.was # NoRelease THEN current[ch.service] = ch.was
  ELSE \/ current[ch.service] \in {NoRelease, ch.release.digest}
       \/ current[ch.service] \in Digests /\ DiskOf(ch.service) = NoRelease

\* A release is in the directory of its digest.
TreeNamed == \A s \in Services, d \in Digests : tree[s][d] \in Releases => tree[s][d].digest = d

LaunchFits(c) == pc[c] = "launch" => \A ch \in Pending(c) : ch.kind = "deploy" => Fits(ch)

ScriptFits(c) ==
  script[c] # NoScript /\ script[c].change.kind = "deploy" /\ script[c].phase \in {"run", "cleared", "placed"}
    => Fits(script[c].change)

FitsInv == TreeNamed /\ \A c \in Controllers : LaunchFits(c) /\ ScriptFits(c)

\* One change is next.
LEMMA PendingOnce ==
  ASSUME TypeOK, NEW c \in Controllers, NEW a \in Pending(c), NEW b \in Pending(c)
  PROVE  a = b
<1>1. a \in Change /\ b \in Change BY DEF TypeOK, ControllerTypeOK, Pending, First
<1>2. a.service \in Nat /\ b.service \in Nat BY <1>1, ServicesAssumption DEF Change
<1> SUFFICES ASSUME a # b PROVE FALSE OBVIOUS
<1>3. Precedes(a, b) /\ Precedes(b, a) BY DEF Pending, First
<1> QED BY <1>2, <1>3 DEF Precedes

\* The precondition of a deploy means that it fits.
LEMMA CheckedFits ==
  ASSUME TypeOK, TreeNamed, NEW ch \in Change, PreconditionHolds(ch)
  PROVE  Fits(ch)
<1>1. ch.service \in Services /\ current[ch.service] \in Digests \cup {NoRelease, Foreign}
  BY DEF Change, TypeOK, TargetTypeOK
<1>2. CASE ch.was = NoRelease BY <1>1, <1>2, ReleasesAssumption DEF PreconditionHolds, Fits, DiskOf
<1>3. CASE ch.was # NoRelease
  <2>1. DiskOf(ch.service) \in Releases /\ DiskOf(ch.service).digest = ch.was BY <1>3 DEF PreconditionHolds
  <2>2. current[ch.service] \in Digests /\ DiskOf(ch.service) = tree[ch.service][current[ch.service]]
    BY <1>1, <2>1, ReleasesAssumption DEF DiskOf
  <2>3. current[ch.service] = ch.was BY <1>1, <2>1, <2>2 DEF TreeNamed
  <2> QED BY <1>3, <2>3 DEF Fits
<1> QED BY <1>2, <1>3

\* A step of a script keeps FitsInv if it leaves a tree of named releases and its own deploy, not done yet, fitting.
LEMMA ScriptKeepsFits ==
  ASSUME TypeOK, QuietInv, RunInv, FitsInv,
         NEW c \in Controllers, script[c] # NoScript, NEW phase, Phase(c, phase),
         UNCHANGED <<pc, plan, applied>>, TreeNamed',
         script[c].change.kind = "deploy" /\ phase \in {"run", "cleared", "placed"} => Fits(script[c].change)'
  PROVE  FitsInv'
<1>0. script \in [Controllers -> Script \cup {NoScript}] BY DEF TypeOK, LockTypeOK
<1>1. script'[c].change = script[c].change /\ script'[c].phase = phase BY <1>0 DEF Phase
<1>2. \A d \in Controllers \ {c} : script'[d] = NoScript BY <1>0, SoleWriter DEF Phase
<1>3. \A d \in Controllers : pc'[d] # "launch" BY DEF QuietInv, QuietRun, Window
<1>4. ScriptFits(c)' BY <1>1 DEF ScriptFits, Fits, DiskOf
<1>5. \A d \in Controllers \ {c} : ScriptFits(d)' BY <1>2 DEF ScriptFits
<1>6. \A d \in Controllers : LaunchFits(d)' BY <1>3 DEF LaunchFits
<1> QED BY <1>4, <1>5, <1>6 DEF FitsInv

\* Without lost sessions, timeouts and crashes every step keeps FitsInv.
LEMMA FitsStep == Quiet /\ TypeOK /\ QuietInv /\ RunInv /\ FitsInv /\ [Next]_vars => FitsInv'
<1> SUFFICES ASSUME Quiet, TypeOK, QuietInv, RunInv, FitsInv, [Next]_vars PROVE FitsInv' OBVIOUS
<1>0. /\ pc \in [Controllers -> PCs]
      /\ plan \in [Controllers -> SUBSET Change] /\ applied \in [Controllers -> SUBSET Change]
      /\ script \in [Controllers -> Script \cup {NoScript}]
      /\ current \in [Services -> Digests \cup {NoRelease, Foreign}]
      /\ tree \in [Services -> [Digests -> Releases \cup {NoRelease}]]
      /\ "session" \notin Faults /\ "timeout" \notin Faults /\ "crash" \notin Faults
  BY DEF TypeOK, ControllerTypeOK, LockTypeOK, TargetTypeOK, Quiet
<1>i. TreeNamed /\ \A d \in Controllers : LaunchFits(d) /\ ScriptFits(d) BY DEF FitsInv
<1>g. ASSUME UNCHANGED <<script, current, tree>>,
             \A d \in Controllers : pc'[d] = "launch" =>
               pc[d] = "launch" /\ plan'[d] = plan[d] /\ applied'[d] = applied[d]
      PROVE  FitsInv'
  <2>1. TreeNamed' BY <1>i, <1>g DEF TreeNamed
  <2>2. \A d \in Controllers : ScriptFits(d)' BY <1>i, <1>g DEF ScriptFits, Fits, DiskOf
  <2>3. \A d \in Controllers : LaunchFits(d)' BY <1>i, <1>g DEF LaunchFits, Pending, Fits, DiskOf
  <2> QED BY <2>1, <2>2, <2>3 DEF FitsInv
<1>q. ASSUME UNCHANGED <<pc, plan, applied, script, current, tree>> PROVE FitsInv' BY <1>g, <1>q
<1>m. ASSUME NEW c \in Controllers, NEW label, label # "launch", Goto(c, label), UNCHANGED <<script, current, tree>>,
             \A d \in Controllers \ {c} : plan'[d] = plan[d] /\ applied'[d] = applied[d]
      PROVE  FitsInv'
  <2>1. \A d \in Controllers : pc'[d] = "launch" => d # c /\ pc[d] = "launch" BY <1>0, <1>m DEF Goto
  <2> QED BY <1>g, <1>m, <2>1
<1>e. ASSUME NEW c \in Controllers, Exit(c), UNCHANGED <<script, current, tree>> PROVE FitsInv'
  <2>1. \A d \in Controllers \ {c} : plan'[d] = plan[d] /\ applied'[d] = applied[d] BY <1>0, <1>e DEF Exit
  <2> QED BY <1>e, <1>m, <2>1 DEF Exit
<1>r. ASSUME NEW c \in Controllers, NEW outcome, Return(c, outcome), UNCHANGED <<plan, applied, script, current, tree>>
      PROVE  FitsInv'
  BY <1>m, <1>r DEF Return
<1>t. UNCHANGED tree => TreeNamed' BY <1>i DEF TreeNamed
<1>1. CASE UNCHANGED vars BY <1>q, <1>1 DEF vars, controllerVars, targetVars
<1>2. ASSUME NEW c \in Controllers, User(c) PROVE FitsInv'
  <2>1. CASE StartApply(c) BY <1>m, <2>1 DEF StartApply, targetVars
  <2>2. CASE Decline(c) BY <1>e, <2>2 DEF Decline, targetVars
  <2>3. CASE Confirm(c) BY <1>m, <2>3 DEF Confirm, targetVars
  <2> QED BY <1>2, <2>1, <2>2, <2>3 DEF User
<1>3. ASSUME NEW c \in Controllers, Controller(c) PROVE FitsInv'
  <2>1. CASE Review(c)
    <3>1. CASE Exit(c) BY <1>e, <2>1, <3>1 DEF Review, targetVars
    <3>2. CASE ~Exit(c)
      <4>1. Goto(c, "review") /\ plan' = [plan EXCEPT ![c] = FreshPlan(c)] /\ UNCHANGED <<applied, script, current, tree>>
        BY <2>1, <3>2 DEF Review, targetVars
      <4> QED BY <1>0, <1>m, <4>1
    <3> QED BY <3>1, <3>2
  <2>2. CASE LockAcknowledged(c) BY <1>m, <2>2 DEF LockAcknowledged, targetVars
  <2>3. CASE LockLost(c) BY <1>e, <2>3 DEF LockLost, targetVars
  <2>4. CASE CheckChange(c)
    <3>1. UNCHANGED <<plan, applied, script, current, tree>> BY <2>4 DEF CheckChange, targetVars
    <3>2. CASE Return(c, "failed") BY <1>r, <3>1, <3>2
    <3>3. ASSUME NEW ch \in Pending(c), ch.kind = "deploy" => PreconditionHolds(ch), Goto(c, "launch")
          PROVE  FitsInv'
      <4>1. ch \in Change BY <1>0 DEF Pending, First
      <4>2. ch.kind = "deploy" => Fits(ch) BY <1>i, <3>3, <4>1, CheckedFits
      <4>3. \A a \in Pending(c) : a.kind = "deploy" => Fits(a) BY <4>2, PendingOnce
      <4>4. LaunchFits(c)' BY <3>1, <4>3 DEF LaunchFits, Pending, Fits, DiskOf
      <4>5. \A d \in Controllers \ {c} : LaunchFits(d)'
        BY <1>0, <1>i, <3>1, <3>3 DEF LaunchFits, Pending, Fits, DiskOf, Goto
      <4>6. \A d \in Controllers : ScriptFits(d)' BY <1>i, <3>1 DEF ScriptFits, Fits, DiskOf
      <4> QED BY <1>t, <3>1, <4>4, <4>5, <4>6 DEF FitsInv
    <3> QED BY <2>4, <3>2, <3>3 DEF CheckChange
  <2>5. CASE Launch(c)
    <3>1. PICK ch \in Pending(c) : script' = [script EXCEPT ![c] = [change |-> ch, phase |-> "run"]]
      BY <2>5 DEF Launch
    <3>2. UNCHANGED <<plan, applied, current, tree>> /\ pc[c] = "launch" /\ Goto(c, "wait")
      BY <2>5 DEF Launch, targetVars
    <3>3. ch.kind = "deploy" => Fits(ch) BY <1>i, <3>2 DEF LaunchFits
    <3>4. script'[c].change = ch /\ (\A d \in Controllers \ {c} : script'[d] = script[d]) BY <1>0, <3>1
    <3>5. ScriptFits(c)' BY <3>2, <3>3, <3>4 DEF ScriptFits, Fits, DiskOf
    <3>6. \A d \in Controllers \ {c} : ScriptFits(d)' BY <1>i, <3>2, <3>4 DEF ScriptFits, Fits, DiskOf
    <3>7. \A d \in Controllers : pc'[d] = "launch" => pc[d] = "launch" BY <1>0, <3>2 DEF Goto
    <3>8. \A d \in Controllers : LaunchFits(d)' BY <1>i, <3>2, <3>7 DEF LaunchFits, Pending, Fits, DiskOf
    <3> QED BY <1>t, <3>2, <3>5, <3>6, <3>8 DEF FitsInv
  <2>6. CASE ScriptReturned(c)
    <3>1. /\ script' = [script EXCEPT ![c] = NoScript] /\ UNCHANGED <<plan, current, tree>>
          /\ \A d \in Controllers \ {c} : applied'[d] = applied[d]
          /\ \E label \in {"verify", "release"} : Goto(c, label)
      BY <1>0, <2>6 DEF ScriptReturned, Return, targetVars
    <3>2. \A d \in Controllers : pc'[d] = "launch" => d # c /\ pc[d] = "launch" BY <1>0, <3>1 DEF Goto
    <3>3. \A d \in Controllers : script'[d] # NoScript => script'[d] = script[d] BY <1>0, <3>1
    <3>4. \A d \in Controllers : ScriptFits(d)' BY <1>i, <3>1, <3>3 DEF ScriptFits, Fits, DiskOf
    <3>5. \A d \in Controllers : LaunchFits(d)' BY <1>i, <3>1, <3>2 DEF LaunchFits, Pending, Fits, DiskOf
    <3> QED BY <1>t, <3>1, <3>4, <3>5 DEF FitsInv
  <2>7. CASE Verify(c)
    <3>1. UNCHANGED <<plan, applied, script, current, tree>> BY <2>7 DEF Verify, targetVars
    <3>2. \E label \in {"replan", "apply", "release"} : Goto(c, label) BY <2>7 DEF Verify, Return
    <3> QED BY <1>m, <3>1, <3>2
  <2>8. CASE Converge(c) BY <1>r, <2>8 DEF Converge, targetVars
  <2>9. CASE Release(c) BY <1>e, <2>9 DEF Release, targetVars
  <2>10. ASSUME NEW s \in Services, Probe(c, s) PROVE FitsInv' BY <1>q, <2>10 DEF Probe, targetVars
  <2> QED BY <1>3, <2>1, <2>2, <2>3, <2>4, <2>5, <2>6, <2>7, <2>8, <2>9, <2>10 DEF Controller
<1>4. ASSUME NEW c \in Controllers, Remote(c) PROVE FitsInv'
  <2> DEFINE ch == script[c].change
  <2>0. script[c] # NoScript => ch.service \in Services /\ ch.release \in Releases /\ ch.release.digest \in Digests
    BY <1>0 DEF Script, Change, Digests
  <2>1. CASE FlockGranted(c) \/ LockScriptEnds(c)
    BY <1>q, <2>1 DEF FlockGranted, LockScriptEnds, controllerVars, targetVars
  <2>2. CASE FlockBusy(c) BY <1>e, <2>2 DEF FlockBusy, targetVars
  <2>d. ASSUME DeployClears(c) \/ DeployPlaces(c) PROVE FitsInv'
    <3>p. PICK new \in {NoRelease, ch.release} :
            tree' = [tree EXCEPT ![ch.service][ch.release.digest] = new] /\ (\E phase : Phase(c, phase))
      BY <2>d DEF DeployClears, DeployPlaces
    <3>1. PICK phase : tree' = [tree EXCEPT ![ch.service][ch.release.digest] = new] /\ Phase(c, phase)
      BY <3>p
    <3>2. /\ script[c] # NoScript /\ ch.kind = "deploy" /\ script[c].phase \in {"run", "cleared"}
          /\ UNCHANGED <<pc, plan, applied, current>>
      BY <2>d DEF DeployClears, DeployPlaces, Running, controllerVars
    <3>3. TreeNamed' BY <1>0, <1>i, <2>0, <3>1, <3>2, ReleasesAssumption DEF TreeNamed
    <3>4. Fits(ch) BY <1>i, <3>2 DEF ScriptFits
    <3>5. \A d \in Digests \ {ch.release.digest} : tree'[ch.service][d] = tree[ch.service][d] BY <1>0, <2>0, <3>1, <3>2
    <3>6. Fits(ch)'
      <4>1. script'[c].change = ch BY <1>0, <3>1, <3>2 DEF Phase
      <4> QED BY <3>2, <3>4, <3>5, <4>1 DEF Fits, DiskOf
    <3> QED BY <3>1, <3>2, <3>3, <3>6, ScriptKeepsFits
  <2>5. CASE DeployActivates(c)
    BY <1>t, <2>5, ScriptKeepsFits DEF DeployActivates, Running, controllerVars
  <2>6. CASE StartUp(c)
    <3>1. PICK phase : Phase(c, phase) BY <2>6 DEF StartUp
    <3> QED BY <1>t, <2>6, <3>1, ScriptKeepsFits DEF StartUp, Running, controllerVars
  <2>7. CASE StopDown(c)
    <3>1. PICK phase : Phase(c, phase) BY <2>7 DEF StopDown
    <3> QED BY <1>t, <2>7, <3>1, ScriptKeepsFits DEF StopDown, Running, controllerVars
  <2>8. CASE RemoveDowns(c) BY <1>t, <2>8, ScriptKeepsFits DEF RemoveDowns, Running, controllerVars
  <2>9. CASE RemoveUnlinks(c) BY <1>t, <2>9, ScriptKeepsFits DEF RemoveUnlinks, Running, controllerVars
  <2>10. ~OrphanEnds(c) BY DEF OrphanEnds, QuietInv, QuietRun
  <2> QED BY <1>4, <2>1, <2>2, <2>d, <2>5, <2>6, <2>7, <2>8, <2>9, <2>10 DEF Remote
<1>5. ASSUME NEW c \in Controllers, Fault(c) PROVE FitsInv'
  <2>1. CASE ScriptFails(c) BY <1>t, <2>1, ScriptKeepsFits DEF ScriptFails, controllerVars
  <2>2. CASE EditSource(c) BY <1>q, <2>2 DEF EditSource, targetVars
  <2>3. CASE InspectFails(c) BY <1>e, <1>r, <2>3 DEF InspectFails, targetVars
  <2> QED BY <1>0, <1>5, <2>1, <2>2, <2>3 DEF Fault, ConnectionLost, SessionLost, Timeout, Crash
<1>6. ASSUME NEW s \in Services, ContainerSettles(s) \/ ContainerExits(s) PROVE FitsInv'
  BY <1>q, <1>6 DEF ContainerSettles, ContainerExits, controllerVars
<1> QED BY <1>1, <1>2, <1>3, <1>4, <1>5, <1>6 DEF Next

\* However many controllers planned before it took the lock, a deploy swaps `current` away from the release its
\* reviewed plan saw, or from nothing: stale plans overwrite no content they never saw.
THEOREM DeployReplacesWhatWasSeen ==
  ASSUME Quiet PROVE Spec => DeployReplacesObserved
<1>1. Init => QuietInv BY ControllersAssumption DEF Init, QuietInv, QuietRun, Window
<1>2. Init => RunInv BY DEF Init, RunInv, BeforeExecute, BetweenChanges, OneUnverified, AllVerified
<1>3. Init => FitsInv
  BY ReleasesAssumption DEF Init, FitsInv, TreeNamed, LaunchFits, ScriptFits
<1>4. TypeOK /\ QuietInv /\ [Next]_vars => QuietInv' BY QuietStep
<1>5. TypeOK /\ QuietInv /\ RunInv /\ FitsInv /\ [Next]_vars => FitsInv' BY FitsStep
<1> DEFINE Replaces ==
      \A c \in Controllers, s \in Services :
        Activates(c, s) =>
          LET ch == script[c].change IN
          IF ch.was # NoRelease THEN current[s] = ch.was
          ELSE \/ current[s] \in {NoRelease, ch.release.digest}
               \/ current[s] \in Digests /\ DiskOf(s) = NoRelease
<1>6. FitsInv => Replaces BY DEF FitsInv, ScriptFits, Fits, Activates, Running
<1>7. FitsInv => [Replaces]_vars BY <1>6
<1> QED BY <1>1, <1>2, <1>3, <1>4, <1>5, <1>7, RunStep, TypeCorrect, PTL DEF Spec, DeployReplacesObserved

-----------------------------------------------------------------------------
(* Success means converged, if probes see what is there, no connection or  *)
(* controller is lost and containers do not exit by themselves (Steady).   *)
(* Sources may be edited until the replan, containers that start may get   *)
(* ready or unhealthy at any moment, and other controllers have their turn *)
(* before the lock is granted and as soon as it is released.               *)

Steady == "container" \notin Faults

\* Facts are read while a run inspects or replans, and discarded before it goes on.
FactsAreFresh(c) ==
  pc[c] \notin {"inspect", "replan", "release"} => \A s \in Services : facts[c][s].runtime = "unread"

\* What the replan has read is still so, except that a container that was starting may be ready.
SeesTheTarget(c) ==
  pc[c] = "replan" \/ (pc[c] = "release" /\ result[c] = "ok") =>
    \A s \in Services : facts[c][s].runtime # "unread" =>
      facts[c][s].disk = Reported(c, s) /\ facts[c][s].runtime \in {runtime[s], "starting"}

\* After a success the facts are complete and leave nothing to do.
FactsConverged(c) ==
  pc[c] = "release" /\ result[c] = "ok" => Inspected(c) /\ Executable(FreshPlan(c)) = {}

\* What was removed stays away while the run lasts.
RemovedStays(c) ==
  verified[c] \subseteq applied[c] /\ \A ch \in verified[c] : ch.kind = "remove" => DiskOf(ch.service) = NoRelease

SettleRun(c) == FactsAreFresh(c) /\ SeesTheTarget(c) /\ FactsConverged(c) /\ RemovedStays(c)

SettleInv == \A c \in Controllers : SettleRun(c)

\* While a script runs, nothing but what its controller removed before is at stake.
LEMMA ScriptKeepsSettled ==
  ASSUME TypeOK, QuietInv, RunInv, ReviewInv, SettleInv,
         NEW c \in Controllers, script[c] # NoScript, UNCHANGED controllerVars,
         \A s \in Services : s # script[c].change.service => current'[s] = current[s] /\ tree'[s] = tree[s],
         \/ script[c].change.kind = "deploy"
         \/ tree' = tree /\ current'[script[c].change.service] \in {current[script[c].change.service], NoRelease}
  PROVE  SettleInv'
<1> DEFINE ch == script[c].change
<1>0. /\ pc \in [Controllers -> PCs] /\ plan \in [Controllers -> SUBSET Change]
      /\ script \in [Controllers -> Script \cup {NoScript}]
  BY DEF TypeOK, ControllerTypeOK, LockTypeOK
<1>c. UNCHANGED <<pc, goal, source, facts, plan, applied, verified, result>> BY DEF controllerVars
<1>1. pc[c] = "wait" /\ ch \in plan[c] \ applied[c] BY DEF QuietInv, QuietRun, ReviewInv, Underway
<1>2. \A d \in Controllers \ {c} : applied[d] = {} /\ pc[d] \notin Window
  BY <1>1, SoleWriter DEF QuietInv, QuietRun, Window
<1>3. ASSUME NEW d \in Controllers PROVE FactsAreFresh(d)' /\ SeesTheTarget(d)' /\ FactsConverged(d)'
  <2>1. pc[d] \notin {"replan", "release"} BY <1>1, <1>2 DEF Window
  <2>2. FactsAreFresh(d) BY DEF SettleInv, SettleRun
  <2> QED BY <1>c, <2>1, <2>2 DEF FactsAreFresh, SeesTheTarget, FactsConverged
<1>4. ASSUME NEW a \in verified[c], a.kind = "remove" PROVE DiskOf(a.service)' = NoRelease
  <2>1. a \in applied[c] /\ DiskOf(a.service) = NoRelease BY <1>4 DEF SettleInv, SettleRun, RemovedStays
  <2>2. a \in plan[c] /\ a \in Change BY <1>0, <2>1 DEF ReviewInv
  <2>3. a.service \in Services BY <2>2 DEF Change
  <2>4. ch.kind = "deploy" => a.service # ch.service BY <1>1, <1>4, <2>2 DEF ReviewInv, PlannedOnce
  <2>5. tree'[a.service] = tree[a.service] /\ current'[a.service] \in {current[a.service], NoRelease}
    BY <2>3, <2>4
  <2> QED BY <2>1, <2>5, ReleasesAssumption DEF DiskOf, Digests
<1>5. \A d \in Controllers : verified[d] \subseteq applied[d] BY DEF SettleInv, SettleRun, RemovedStays
<1>6. \A d \in Controllers : RemovedStays(d)' BY <1>2, <1>4, <1>5, <1>c DEF RemovedStays
<1> QED BY <1>3, <1>6 DEF SettleInv, SettleRun

\* Every step keeps SettleInv.
LEMMA SettleStep ==
  Quiet /\ Sighted /\ Steady /\ TypeOK /\ QuietInv /\ RunInv /\ ReviewInv /\ SettleInv /\ [Next]_vars => SettleInv'
<1> SUFFICES ASSUME Quiet, Sighted, Steady, TypeOK, QuietInv, RunInv, ReviewInv, SettleInv, [Next]_vars
             PROVE  SettleInv'
  OBVIOUS
<1>0. /\ pc \in [Controllers -> PCs] /\ goal \in [Controllers -> [Services -> Goals]]
      /\ source \in [Controllers -> [Services -> Releases]]
      /\ facts \in [Controllers -> [Services ->
           [disk : Releases \cup {NoRelease, Foreign}, runtime : Runtimes \cup {"unread"}]]]
      /\ applied \in [Controllers -> SUBSET Change] /\ verified \in [Controllers -> SUBSET Change]
      /\ result \in [Controllers -> {"none", "ok", "failed", "divergent"}]
      /\ runtime \in [Services -> Runtimes] /\ script \in [Controllers -> Script \cup {NoScript}]
      /\ "session" \notin Faults /\ "timeout" \notin Faults /\ "crash" \notin Faults
  BY DEF TypeOK, ControllerTypeOK, LockTypeOK, TargetTypeOK, Quiet
<1>i. \A d \in Controllers : FactsAreFresh(d) /\ SeesTheTarget(d) /\ FactsConverged(d) /\ RemovedStays(d)
  BY DEF SettleInv, SettleRun
<1> DEFINE Same(d) == /\ pc'[d] = pc[d] /\ goal'[d] = goal[d] /\ source'[d] = source[d] /\ facts'[d] = facts[d]
                      /\ applied'[d] = applied[d] /\ verified'[d] = verified[d] /\ result'[d] = result[d]
<1>s. ASSUME UNCHANGED <<current, tree>>, NEW d \in Controllers, Same(d),
             \A s \in Services : runtime'[s] = runtime[s] \/ runtime[s] = "starting"
      PROVE  SettleRun(d)'
  <2>1. FactsAreFresh(d)' BY <1>i, <1>s DEF FactsAreFresh
  <2>2. SeesTheTarget(d)' BY <1>i, <1>s DEF SeesTheTarget, Reported, DiskOf
  <2>3. FactsConverged(d)' BY <1>i, <1>s DEF FactsConverged, Inspected, FreshPlan
  <2>4. RemovedStays(d)' BY <1>i, <1>s DEF RemovedStays, DiskOf
  <2> QED BY <2>1, <2>2, <2>3, <2>4 DEF SettleRun
<1>q. ASSUME UNCHANGED <<controllerVars, current, tree>>,
             \A s \in Services : runtime'[s] = runtime[s] \/ runtime[s] = "starting"
      PROVE  SettleInv'
  BY <1>q, <1>s DEF SettleInv, controllerVars
<1>m. ASSUME NEW c \in Controllers, UNCHANGED targetVars, \A d \in Controllers \ {c} : Same(d), SettleRun(c)'
      PROVE  SettleInv'
  BY <1>m, <1>s DEF SettleInv, targetVars
<1>n. ASSUME NEW c \in Controllers, UNCHANGED targetVars, \A d \in Controllers \ {c} : Same(d),
             pc'[c] \notin {"replan", "release"} \/ (pc'[c] = "release" /\ result'[c] # "ok"),
             pc'[c] \in {"inspect", "release"} \/ (\A s \in Services : facts'[c][s].runtime = "unread"),
             verified'[c] = verified[c] \/ verified'[c] = {}, verified'[c] \subseteq applied'[c]
      PROVE  SettleInv'
  <2>1. FactsAreFresh(c)' BY <1>n DEF FactsAreFresh
  <2>2. SeesTheTarget(c)' /\ FactsConverged(c)' BY <1>n DEF SeesTheTarget, FactsConverged
  <2>3. RemovedStays(c)' BY <1>i, <1>n DEF RemovedStays, DiskOf, targetVars
  <2>4. SettleRun(c)' BY <2>1, <2>2, <2>3 DEF SettleRun
  <2> QED BY <1>m, <1>n, <2>4
<1>e. ASSUME NEW c \in Controllers, Exit(c), UNCHANGED targetVars PROVE SettleInv'
  <2>1. \A d \in Controllers \ {c} : Same(d) BY <1>0, <1>e DEF Exit, Goto
  <2>2. pc'[c] = "idle" /\ verified'[c] = {} /\ (\A s \in Services : facts'[c][s].runtime = "unread")
    BY <1>0, <1>e DEF Exit, Goto, Unread
  <2> QED BY <1>e, <1>n, <2>1, <2>2
<1>r. ASSUME NEW c \in Controllers, NEW outcome \in {"failed", "divergent"}, Return(c, outcome), UNCHANGED targetVars,
             UNCHANGED <<goal, source, facts, applied, verified>>
      PROVE  SettleInv'
  <2>1. \A d \in Controllers \ {c} : Same(d) BY <1>0, <1>r DEF Return, Goto
  <2>2. pc'[c] = "release" /\ result'[c] # "ok" BY <1>0, <1>r DEF Return, Goto
  <2>3. verified'[c] \subseteq applied'[c] BY <1>i, <1>r DEF RemovedStays
  <2> QED BY <1>r, <1>n, <2>1, <2>2, <2>3
<1>g. ASSUME NEW c \in Controllers, NEW label \in PCs \ {"replan", "release"}, Goto(c, label), UNCHANGED targetVars,
             pc[c] \notin {"inspect", "replan", "release"}, verified[c] \subseteq applied'[c],
             UNCHANGED <<goal, source, facts, verified, result>>,
             \A d \in Controllers \ {c} : applied'[d] = applied[d]
      PROVE  SettleInv'
  <2>1. \A d \in Controllers \ {c} : Same(d) BY <1>0, <1>g DEF Goto
  <2>2. pc'[c] = label BY <1>0, <1>g DEF Goto
  <2>3. \A s \in Services : facts'[c][s].runtime = "unread" BY <1>i, <1>g DEF FactsAreFresh
  <2> QED BY <1>g, <1>n, <2>1, <2>2, <2>3
<1>1. CASE UNCHANGED vars BY <1>q, <1>1 DEF vars, targetVars
<1>2. ASSUME NEW c \in Controllers, User(c) PROVE SettleInv'
  <2>1. CASE StartApply(c)
    <3>1. (\A d \in Controllers \ {c} : Same(d)) /\ pc'[c] = "inspect" /\ UNCHANGED <<applied, verified, targetVars>>
      BY <1>0, <2>1 DEF StartApply, Goto
    <3>2. verified'[c] \subseteq applied'[c] BY <1>i, <3>1 DEF RemovedStays
    <3> QED BY <1>n, <3>1, <3>2
  <2>2. CASE Decline(c) BY <1>e, <2>2 DEF Decline
  <2>3. CASE Confirm(c)
    <3>1. verified[c] \subseteq applied[c] BY <1>i DEF RemovedStays
    <3> QED BY <1>g, <2>3, <3>1 DEF Confirm, PCs
  <2> QED BY <1>2, <2>1, <2>2, <2>3 DEF User
<1>3. ASSUME NEW c \in Controllers, Controller(c) PROVE SettleInv'
  <2>0. verified[c] \subseteq applied[c] BY <1>i DEF RemovedStays
  <2>1. CASE Review(c)
    <3>1. CASE Exit(c) BY <1>e, <2>1, <3>1 DEF Review
    <3>2. CASE ~Exit(c)
      <4>1. /\ Goto(c, "review") /\ UNCHANGED <<goal, source, applied, verified, result, targetVars>>
            /\ facts' = [facts EXCEPT ![c] = [s \in Services |-> Unread]]
        BY <2>1, <3>2 DEF Review
      <4>2. (\A d \in Controllers \ {c} : Same(d)) /\ pc'[c] = "review" BY <1>0, <4>1 DEF Goto
      <4>3. \A s \in Services : facts'[c][s].runtime = "unread" BY <1>0, <4>1 DEF Unread
      <4> QED BY <1>n, <2>0, <4>1, <4>2, <4>3
    <3> QED BY <3>1, <3>2
  <2>2. CASE LockAcknowledged(c) BY <1>g, <2>0, <2>2 DEF LockAcknowledged, PCs
  <2>3. CASE LockLost(c) BY <1>e, <2>3 DEF LockLost
  <2>4. CASE CheckChange(c)
    <3>1. CASE Goto(c, "launch") /\ UNCHANGED result BY <1>g, <2>0, <2>4, <3>1 DEF CheckChange, PCs
    <3>2. CASE Return(c, "failed") BY <1>r, <2>4, <3>2 DEF CheckChange
    <3> QED BY <2>4, <3>1, <3>2 DEF CheckChange
  <2>5. CASE Launch(c) BY <1>g, <2>0, <2>5 DEF Launch, PCs
  <2>6. CASE ScriptReturned(c)
    <3>1. CASE Return(c, "failed") /\ UNCHANGED applied BY <1>r, <2>6, <3>1 DEF ScriptReturned
    <3>2. CASE /\ Goto(c, "verify") /\ UNCHANGED result
               /\ applied' = [applied EXCEPT ![c] = @ \cup {script[c].change}]
      <4>1. verified[c] \subseteq applied'[c] /\ (\A d \in Controllers \ {c} : applied'[d] = applied[d])
        BY <1>0, <2>0, <3>2
      <4> QED BY <1>g, <2>6, <3>2, <4>1 DEF ScriptReturned, Awaiting, PCs
    <3> QED BY <2>6, <3>1, <3>2 DEF ScriptReturned
  <2>7. CASE Verify(c)
    <3>1. CASE Return(c, "failed") /\ UNCHANGED verified BY <1>r, <2>7, <3>1 DEF Verify
    <3>2. ASSUME NEW ch \in applied[c] \ verified[c], VerifyAccepts(c, ch),
                 verified' = [verified EXCEPT ![c] = @ \cup {ch}],
                 Goto(c, IF applied[c] = plan[c] THEN "replan" ELSE "apply"), UNCHANGED result
          PROVE  SettleInv'
      <4>1. UNCHANGED <<goal, source, facts, applied, targetVars>> /\ pc[c] = "verify" BY <2>7 DEF Verify
      <4>2. (\A d \in Controllers \ {c} : Same(d)) /\ pc'[c] \in {"replan", "apply"} BY <1>0, <3>2, <4>1 DEF Goto
      <4>3. \A s \in Services : facts'[c][s].runtime = "unread" BY <1>i, <4>1 DEF FactsAreFresh
      <4>4. ch.kind = "remove" => DiskOf(ch.service) = NoRelease BY <3>2 DEF VerifyAccepts
      <4>5. verified'[c] = verified[c] \cup {ch} BY <1>0, <3>2
      <4>6. RemovedStays(c)' BY <1>i, <3>2, <4>1, <4>4, <4>5 DEF RemovedStays, DiskOf, targetVars
      <4>7. SettleRun(c)'
        BY <4>2, <4>3, <4>6 DEF SettleRun, FactsAreFresh, SeesTheTarget, FactsConverged
      <4> QED BY <1>m, <4>1, <4>2, <4>7
    <3> QED BY <2>7, <3>1, <3>2 DEF Verify
  <2>8. CASE Converge(c)
    <3>0. /\ pc[c] = "replan" /\ Inspected(c)
          /\ UNCHANGED <<goal, source, facts, plan, applied, verified, targetVars>>
      BY <2>8 DEF Converge
    <3>1. CASE Return(c, "divergent") BY <1>r, <3>0, <3>1
    <3>2. CASE Return(c, "ok") /\ Executable(FreshPlan(c)) = {}
      <4>1. (\A d \in Controllers \ {c} : Same(d)) /\ pc'[c] = "release" BY <1>0, <3>0, <3>2 DEF Return, Goto
      <4>2. SeesTheTarget(c)' BY <1>i, <3>0, <4>1 DEF SeesTheTarget, Reported, DiskOf, targetVars
      <4>3. FactsConverged(c)' BY <3>0, <3>2 DEF FactsConverged, Inspected, FreshPlan
      <4>4. FactsAreFresh(c)' BY <4>1 DEF FactsAreFresh
      <4>5. RemovedStays(c)' BY <1>i, <3>0 DEF RemovedStays, DiskOf, targetVars
      <4>6. SettleRun(c)' BY <4>2, <4>3, <4>4, <4>5 DEF SettleRun
      <4> QED BY <1>m, <3>0, <4>1, <4>6
    <3> QED BY <2>8, <3>1, <3>2 DEF Converge
  <2>9. CASE Release(c) BY <1>e, <2>9 DEF Release
  <2>10. ASSUME NEW s \in Services, Probe(c, s) PROVE SettleInv'
    <3>0. c \in RootSessions /\ "probe" \notin Faults BY DEF Sighted
    <3>1. /\ facts' = [facts EXCEPT ![c][s] = [disk |-> Reported(c, s), runtime |-> runtime[s]]]
          /\ UNCHANGED <<pc, goal, source, applied, verified, result, targetVars>>
          /\ pc[c] \in {"inspect", "replan"}
      BY <2>10, <3>0 DEF Probe, ProbeTurn, VisibleDisk
    <3>2. /\ \A d \in Controllers \ {c} : Same(d)
          /\ \A t \in Services \ {s} : facts'[c][t] = facts[c][t]
          /\ facts'[c][s].disk = Reported(c, s) /\ facts'[c][s].runtime = runtime[s]
      BY <1>0, <3>1
    <3>3. FactsAreFresh(c)' /\ FactsConverged(c)' BY <3>1 DEF FactsAreFresh, FactsConverged
    <3>4. RemovedStays(c)' BY <1>i, <3>1 DEF RemovedStays, DiskOf, targetVars
    <3>5. SeesTheTarget(c)' BY <1>i, <3>1, <3>2 DEF SeesTheTarget, Reported, DiskOf, targetVars
    <3>6. SettleRun(c)' BY <3>3, <3>4, <3>5 DEF SettleRun
    <3> QED BY <1>m, <3>1, <3>2, <3>6
  <2> QED BY <1>3, <2>1, <2>2, <2>3, <2>4, <2>5, <2>6, <2>7, <2>8, <2>9, <2>10 DEF Controller
<1>4. ASSUME NEW c \in Controllers, Remote(c) PROVE SettleInv'
  <2>0. /\ current \in [Services -> Digests \cup {NoRelease, Foreign}]
        /\ tree \in [Services -> [Digests -> Releases \cup {NoRelease}]]
    BY DEF TypeOK, TargetTypeOK
  <2>1. CASE FlockGranted(c) \/ LockScriptEnds(c)
    BY <1>q, <2>1 DEF FlockGranted, LockScriptEnds, targetVars
  <2>2. CASE FlockBusy(c) BY <1>e, <2>2 DEF FlockBusy
  <2>3. CASE DeployClears(c) \/ DeployPlaces(c)
    BY <2>0, <2>3, ScriptKeepsSettled DEF DeployClears, DeployPlaces, Running
  <2>4. CASE DeployActivates(c) BY <2>0, <2>4, ScriptKeepsSettled DEF DeployActivates, Running
  <2>5. CASE StartUp(c) \/ StopDown(c) \/ RemoveDowns(c)
    BY <2>5, ScriptKeepsSettled DEF StartUp, StopDown, RemoveDowns, Running
  <2>6. CASE RemoveUnlinks(c)
    <3>1. script[c].change.service \in Services BY <1>0, <2>6 DEF RemoveUnlinks, Running, Script, Change
    <3> QED BY <2>0, <2>6, <3>1, ScriptKeepsSettled DEF RemoveUnlinks, Running
  <2>7. ~OrphanEnds(c) BY DEF OrphanEnds, QuietInv, QuietRun
  <2> QED BY <1>4, <2>1, <2>2, <2>3, <2>4, <2>5, <2>6, <2>7 DEF Remote
<1>5. ASSUME NEW c \in Controllers, Fault(c) PROVE SettleInv'
  <2>1. CASE ScriptFails(c) BY <2>1, ScriptKeepsSettled DEF ScriptFails
  <2>2. CASE EditSource(c)
    <3>1. (\A d \in Controllers \ {c} : Same(d)) /\ pc[c] # "release"
          /\ UNCHANGED <<pc, goal, facts, plan, applied, verified, result, targetVars>>
      BY <1>0, <2>2 DEF EditSource, PCs
    <3>2. SettleRun(c)'
      BY <1>i, <3>1 DEF SettleRun, FactsAreFresh, SeesTheTarget, FactsConverged, RemovedStays, Reported, DiskOf, targetVars
    <3> QED BY <1>m, <3>1, <3>2
  <2>3. ~InspectFails(c) BY DEF InspectFails, Sighted
  <2> QED BY <1>0, <1>5, <2>1, <2>2, <2>3 DEF Fault, ConnectionLost, SessionLost, Timeout, Crash
<1>6. ASSUME NEW s \in Services, ContainerSettles(s) \/ ContainerExits(s) PROVE SettleInv'
  <2>1. ContainerSettles(s) BY <1>6 DEF ContainerExits, Steady
  <2> QED BY <1>0, <1>q, <2>1 DEF ContainerSettles
<1> QED BY <1>1, <1>2, <1>3, <1>4, <1>5, <1>6 DEF Next

\* Facts that leave nothing to do leave at most the removals that the probe of an absent service hides.
LEMMA OnlyHiddenRemovals ==
  ASSUME TypeOK, NEW c \in Controllers, NEW s \in Services, Inspected(c), Executable(FreshPlan(c)) = {},
         facts[c][s].disk = Reported(c, s), facts[c][s].runtime \in {runtime[s], "starting"},
         NEW ch \in ServicePlan(s, goal[c][s], source[c][s], ActualFacts[s]), ~ch.blocked
  PROVE  ch.kind = "remove" /\ ch.service = s /\ DiskOf(s) \in Releases
<1> DEFINE obs == facts[c][s]
           now == ActualFacts[s]
           r == source[c][s]
<1>1. now.disk = DiskOf(s) /\ now.runtime = runtime[s] /\ runtime[s] \in Runtimes
  BY DEF ActualFacts, TypeOK, TargetTypeOK
<1>2. \A a \in ServicePlan(s, goal[c][s], r, obs) : a.blocked BY DEF Executable, FreshPlan, Plan
<1>3. obs.runtime # "starting" => obs.runtime = runtime[s] OBVIOUS
<1>d. DiskOf(s) \in Releases \cup {NoRelease, Foreign} BY DEF DiskOf, TypeOK, TargetTypeOK
<1> HIDE DEF obs, now, r
<1>4. CASE goal[c][s] = "absent"
  <2>1. ch = ServiceChange(s, "remove", r, now, Unsafe(now)) /\ (Present(now) \/ Unsafe(now) \/ now.runtime # "missing")
    BY <1>4 DEF ServicePlan, RemoveChanges, now, r
  <2>2. ch.kind = "remove" /\ ch.service = s /\ ch.blocked = Unsafe(now) BY <2>1 DEF ServiceChange
  <2>3. ASSUME DiskOf(s) \notin Releases PROVE FALSE
    <3>1. ~Unsafe(now) /\ ~Present(now) BY <1>1, <2>2, <2>3 DEF Present
    <3>2. obs.disk = DiskOf(s) /\ runtime[s] # "missing" BY <1>1, <2>1, <2>3, <3>1 DEF Reported, obs
    <3>3. ~Unsafe(obs) /\ obs.runtime # "missing" BY <1>1, <1>3, <3>1, <3>2 DEF Unsafe
    <3>4. ServiceChange(s, "remove", r, obs, Unsafe(obs)) \in ServicePlan(s, goal[c][s], r, obs)
      BY <1>4, <3>3 DEF ServicePlan, RemoveChanges
    <3> QED BY <1>2, <3>3, <3>4 DEF ServiceChange
  <2> QED BY <2>2, <2>3
<1>5. CASE goal[c][s] # "absent"
  <2>1. obs.disk = now.disk BY <1>1, <1>5 DEF Reported, obs
  <2>2. Unsafe(obs) = Unsafe(now) /\ PlacementChanged(r, obs) = PlacementChanged(r, now)
        /\ DeploymentChanged(r, obs) = DeploymentChanged(r, now)
    BY <2>1 DEF Unsafe, Present, PlacementChanged, DeploymentChanged
  <2>3. CASE ch \in DeployChanges(s, r, now)
    <3>1. ch.blocked = (Unsafe(now) \/ PlacementChanged(r, now)) /\ DeploymentChanged(r, now)
      BY <2>3 DEF DeployChanges, ServiceChange
    <3>2. ServiceChange(s, "deploy", r, obs, Unsafe(obs) \/ PlacementChanged(r, obs))
            \in ServicePlan(s, goal[c][s], r, obs)
      BY <1>5, <2>2, <3>1 DEF ServicePlan, DeployChanges
    <3> QED BY <1>2, <2>2, <3>1, <3>2 DEF ServiceChange
  <2>4. CASE goal[c][s] = "running" /\ ch \in StartChanges(s, r, now)
    <3>1. ~Unsafe(now) /\ (DeploymentChanged(r, now) \/ now.runtime # "running")
      BY <2>4 DEF StartChanges, ServiceChange
    <3>2. DeploymentChanged(r, obs) \/ obs.runtime # "running" BY <1>1, <1>3, <2>2, <3>1
    <3>3. ServiceChange(s, "start", r, obs, Unsafe(obs)) \in ServicePlan(s, goal[c][s], r, obs)
      BY <2>4, <3>2 DEF ServicePlan, StartChanges
    <3> QED BY <1>2, <2>2, <3>1, <3>3 DEF ServiceChange
  <2>5. CASE ch \in StopChanges(s, r, now) /\ goal[c][s] # "running"
    <3>1. ~Unsafe(now) /\ now.runtime \notin {"stopped", "missing"} BY <2>5 DEF StopChanges, ServiceChange
    <3>2. obs.runtime \notin {"stopped", "missing"} BY <1>1, <1>3, <3>1
    <3>3. ServiceChange(s, "stop", r, obs, Unsafe(obs)) \in ServicePlan(s, goal[c][s], r, obs)
      BY <1>5, <2>5, <3>2 DEF ServicePlan, StopChanges
    <3> QED BY <1>2, <2>2, <3>1, <3>3 DEF ServiceChange
  <2>6. ch \in ServicePlan(s, goal[c][s], r, now) BY DEF r, now
  <2> QED BY <1>5, <2>3, <2>4, <2>5, <2>6 DEF ServicePlan
<1> QED BY <1>4, <1>5

\* SettleInv means that a success is one.
LEMMA SettledConverges == TypeOK /\ RunInv /\ SettleInv => ConvergedAtSuccess
<1> SUFFICES ASSUME TypeOK, RunInv, SettleInv, NEW c \in Controllers, pc[c] = "release", result[c] = "ok",
                    NEW ch \in Executable(Plan(goal[c], source[c], ActualFacts))
             PROVE  /\ ch.kind = "remove" /\ DiskOf(ch.service) \in Releases
                    /\ \A own \in plan[c] : own.kind = "remove" => own.service # ch.service
  BY DEF ConvergedAtSuccess
<1>1. FactsConverged(c) /\ SeesTheTarget(c) /\ RemovedStays(c) BY DEF SettleInv, SettleRun
<1>2. PICK s \in Services : ch \in ServicePlan(s, goal[c][s], source[c][s], ActualFacts[s]) /\ ~ch.blocked
  BY DEF Executable, Plan
<1>3. Inspected(c) /\ Executable(FreshPlan(c)) = {} BY <1>1 DEF FactsConverged
<1>4. facts[c][s].disk = Reported(c, s) /\ facts[c][s].runtime \in {runtime[s], "starting"}
  BY <1>1, <1>3 DEF SeesTheTarget, Inspected
<1>5. ch.kind = "remove" /\ ch.service = s /\ DiskOf(s) \in Releases BY <1>2, <1>3, <1>4, OnlyHiddenRemovals
<1>6. verified[c] = plan[c] BY DEF RunInv, AllVerified
<1>7. \A own \in plan[c] : own.kind = "remove" => DiskOf(own.service) = NoRelease BY <1>1, <1>6 DEF RemovedStays
<1> QED BY <1>5, <1>7, ReleasesAssumption

\* When apply reports success, the target is in the declared state at that moment: what was verified and what the
\* replan read still holds, although sources were edited and other controllers deployed and removed until the lock was
\* granted.  Excepted are services declared absent that were deployed between the review and the lock.
THEOREM SuccessIsConverged ==
  ASSUME Quiet, Sighted, Steady PROVE Spec => []ConvergedAtSuccess
<1>1. Init => QuietInv BY ControllersAssumption DEF Init, QuietInv, QuietRun, Window
<1>2. Init => RunInv BY DEF Init, RunInv, BeforeExecute, BetweenChanges, OneUnverified, AllVerified
<1>3. Init => ReviewInv BY DEF Init, ReviewInv, AppliedIsReviewed, PlannedOnce, Underway
<1>4. Init => SettleInv
  BY DEF Init, SettleInv, SettleRun, FactsAreFresh, SeesTheTarget, FactsConverged, RemovedStays, Unread
<1>5. TypeOK /\ QuietInv /\ [Next]_vars => QuietInv' BY QuietStep
<1>6. TypeOK /\ QuietInv /\ RunInv /\ ReviewInv /\ [Next]_vars => ReviewInv' BY ReviewStep
<1>7. TypeOK /\ QuietInv /\ RunInv /\ ReviewInv /\ SettleInv /\ [Next]_vars => SettleInv' BY SettleStep
<1> QED BY <1>1, <1>2, <1>3, <1>4, <1>5, <1>6, <1>7, RunStep, TypeCorrect, SettledConverges, PTL DEF Spec

-----------------------------------------------------------------------------
(* A controller that works alone (Alone) meets its own leftovers only: its *)
(* sessions, scripts, containers and it itself may fail at any moment, and *)
(* a script that outlived its run has ended before the next one starts.    *)
(* What the inspection of a run saw of a service is then still there when  *)
(* the run deploys it; what it overlooked makes the deploy be refused.     *)

Alone == \A c, d \in Controllers : c = d

\* A script runs while its controller waits for it, or has outlived its run.
NoLeftover(c) ==
  /\ pc[c] \notin {"idle", "wait", "release"} => script[c] = NoScript
  /\ pc[c] = "wait" => script[c] # NoScript /\ script[c].change \in plan[c] \ applied[c]

\* An inspection starts without facts, and what it has read is so, or was overlooked.
FactsAreTrue(c) ==
  /\ pc[c] = "idle" => \A s \in Services : facts[c][s].runtime = "unread"
  /\ pc[c] = "inspect" =>
       \A s \in Services : facts[c][s].runtime # "unread" =>
         \/ facts[c][s].disk = Reported(c, s)
         \/ facts[c][s].disk = NoRelease /\ ("probe" \in Faults \/ c \notin RootSessions)

\* A deploy finds what its plan saw, and the data it will use where they are.
Meets(c, ch) ==
  \/ /\ PreconditionHolds(ch)
     /\ DiskOf(ch.service) \in Releases /\ ch.release.placement # NoPlacement =>
          DiskOf(ch.service).placement = ch.release.placement
  \/ Overlooked(c, ch)

\* So it is for each deploy of the plan that the run has not come to; the one
\* it is about to start has passed its precondition.
PlanMeets(c) ==
  /\ pc[c] \in {"review", "lock", "apply", "launch", "wait", "verify"} =>
       \A ch \in plan[c] \ applied[c] :
         ch.kind = "deploy" /\ (pc[c] = "wait" => ch # script[c].change) => Meets(c, ch)
  /\ pc[c] = "launch" => \A ch \in Pending(c) : ch.kind = "deploy" => PreconditionHolds(ch)

AloneRun(c) == NoLeftover(c) /\ FactsAreTrue(c) /\ PlanMeets(c) /\ PlannedOnce(c)

AloneInv == \A c \in Controllers : AloneRun(c)

\* The deploys of a plan without blocked changes meet what the inspection saw.
LEMMA FreshPlanMeets ==
  ASSUME TypeOK, NEW c \in Controllers, pc[c] = "inspect", Inspected(c), FactsAreTrue(c),
         NEW ch \in FreshPlan(c), ch.kind = "deploy", ~ch.blocked
  PROVE  Meets(c, ch)
<1>1. PICK s \in Services : ch \in ServicePlan(s, goal[c][s], source[c][s], facts[c][s]) BY DEF FreshPlan, Plan
<1> DEFINE obs == facts[c][s]
           r == source[c][s]
<1>2. \/ obs.disk = Reported(c, s)
      \/ obs.disk = NoRelease /\ ("probe" \in Faults \/ c \notin RootSessions)
  BY DEF FactsAreTrue, Inspected
<1>3. DiskOf(s) \in Releases \cup {NoRelease, Foreign} BY DEF DiskOf, TypeOK, TargetTypeOK
<1> HIDE DEF obs, r
<1>4. /\ goal[c][s] # "absent"
      /\ ch = ServiceChange(s, "deploy", r, obs, Unsafe(obs) \/ PlacementChanged(r, obs))
  BY <1>1 DEF ServicePlan, RemoveChanges, DeployChanges, StartChanges, StopChanges, ServiceChange, obs, r
<1>5. ~Unsafe(obs) /\ ~PlacementChanged(r, obs) BY <1>4 DEF ServiceChange
<1>6. /\ ch.service = s /\ ch.release = r
      /\ ch.was = IF Present(obs) THEN obs.disk.digest ELSE NoRelease
  BY <1>4 DEF ServiceChange
<1>7. CASE obs.disk = Reported(c, s)
  <2>1. obs.disk = DiskOf(s) BY <1>4, <1>7 DEF Reported
  <2>2. CASE DiskOf(s) \in Releases
    BY <2>1, <1>5, <1>6, <2>2, ReleasesAssumption DEF Present, PlacementChanged, Meets, PreconditionHolds
  <2>3. CASE DiskOf(s) \notin Releases
    BY <1>3, <2>1, <1>5, <1>6, <2>3 DEF Present, Unsafe, Meets, PreconditionHolds
  <2> QED BY <2>2, <2>3
<1>8. CASE obs.disk = NoRelease /\ ("probe" \in Faults \/ c \notin RootSessions)
  <2>1. ch.was = NoRelease BY <1>6, <1>8, ReleasesAssumption DEF Present
  <2>2. CASE DiskOf(s) = NoRelease
    BY <1>6, <2>1, <2>2, ReleasesAssumption DEF Meets, PreconditionHolds
  <2>3. CASE DiskOf(s) # NoRelease BY <1>6, <1>8, <2>1, <2>3 DEF Meets, Overlooked
  <2> QED BY <2>2, <2>3
<1> QED BY <1>2, <1>7, <1>8

\* A script that goes on changes nothing that the run has not come to.
LEMMA ScriptKeepsAlone ==
  ASSUME Alone, TypeOK, AloneInv, NEW c \in Controllers, script[c] # NoScript, UNCHANGED controllerVars,
         NEW phase \in {"cleared", "placed", "ok", "failed"}, Phase(c, phase),
         \A s \in Services : s # script[c].change.service => current'[s] = current[s] /\ tree'[s] = tree[s],
         UNCHANGED <<current, tree>> \/ script[c].change.kind \in {"deploy", "remove"}
  PROVE  AloneInv'
<1> DEFINE ch == script[c].change
<1>0. plan \in [Controllers -> SUBSET Change] /\ script \in [Controllers -> Script \cup {NoScript}]
  BY DEF TypeOK, ControllerTypeOK, LockTypeOK
<1>1. \A d \in Controllers : d = c BY DEF Alone
<1>2. /\ NoLeftover(c) /\ FactsAreTrue(c) /\ PlanMeets(c) /\ PlannedOnce(c)
      /\ pc[c] \in {"idle", "wait", "release"}
  BY DEF AloneInv, AloneRun, NoLeftover
<1>3. UNCHANGED <<pc, goal, facts, plan, applied>> BY DEF controllerVars
<1>4. script'[c] # NoScript /\ script'[c].change = ch
  <2>1. script'[c] = [change |-> ch, phase |-> phase] BY <1>0 DEF Phase
  <2>2. script'[c] \in Script BY <1>0, <2>1 DEF Script
  <2> QED BY <2>1, <2>2, ScriptAssumption
<1>5. NoLeftover(c)' BY <1>2, <1>3, <1>4 DEF NoLeftover
<1>6. FactsAreTrue(c)' BY <1>2, <1>3 DEF FactsAreTrue
<1>7. ASSUME pc[c] = "wait", NEW a \in plan[c] \ applied[c], a.kind = "deploy", a # ch PROVE Meets(c, a)'
  <2>1. Meets(c, a) BY <1>2, <1>7 DEF PlanMeets
  <2>2. ch \in plan[c] /\ a.service \in Services BY <1>0, <1>2, <1>7 DEF NoLeftover, Change
  <2>3. ch.kind \in {"deploy", "remove"} => a.service # ch.service BY <1>2, <1>7, <2>2 DEF PlannedOnce
  <2>4. current'[a.service] = current[a.service] /\ tree'[a.service] = tree[a.service] BY <2>2, <2>3
  <2> QED BY <2>1, <2>4 DEF Meets, Overlooked, PreconditionHolds, DiskOf
<1>8. PlanMeets(c)' BY <1>2, <1>3, <1>4, <1>7 DEF PlanMeets
<1>9. PlannedOnce(c)' BY <1>2, <1>3 DEF PlannedOnce
<1> QED BY <1>1, <1>5, <1>6, <1>8, <1>9 DEF AloneInv, AloneRun

\* Every step keeps AloneInv, and starts a deploy only where the data stay.
LEMMA AloneStep == Alone /\ TypeOK /\ AloneInv /\ [Next]_vars => AloneInv'
<1> SUFFICES ASSUME Alone, TypeOK, AloneInv, [Next]_vars PROVE AloneInv' OBVIOUS
<1>0. /\ pc \in [Controllers -> PCs] /\ plan \in [Controllers -> SUBSET Change]
      /\ applied \in [Controllers -> SUBSET Change]
      /\ facts \in [Controllers -> [Services ->
           [disk : Releases \cup {NoRelease, Foreign}, runtime : Runtimes \cup {"unread"}]]]
      /\ script \in [Controllers -> Script \cup {NoScript}]
      /\ current \in [Services -> Digests \cup {NoRelease, Foreign}]
      /\ tree \in [Services -> [Digests -> Releases \cup {NoRelease}]]
  BY DEF TypeOK, ControllerTypeOK, LockTypeOK, TargetTypeOK
<1>i. \A d \in Controllers : NoLeftover(d) /\ FactsAreTrue(d) /\ PlanMeets(d) /\ PlannedOnce(d)
  BY DEF AloneInv, AloneRun
<1>o. ASSUME NEW c \in Controllers, AloneRun(c)' PROVE AloneInv' BY <1>o DEF Alone, AloneInv
<1>q. ASSUME UNCHANGED <<pc, goal, facts, plan, applied, script, current, tree>> PROVE AloneInv'
  BY <1>i, <1>q DEF AloneInv, AloneRun, NoLeftover, FactsAreTrue, PlanMeets, PlannedOnce, Meets, Overlooked,
                    PreconditionHolds, Pending, Reported, DiskOf
<1>g. ASSUME NEW c \in Controllers, NEW label, Goto(c, label), UNCHANGED <<goal, plan, applied, script, current, tree>>,
             label \notin {"idle", "wait", "inspect", "launch"},
             pc[c] \in {"review", "lock", "apply", "launch", "verify"} \/ label \in {"release", "replan"},
             label = "replan" => script[c] = NoScript
      PROVE  AloneInv'
  <2>1. pc'[c] = label BY <1>0, <1>g DEF Goto
  <2>2. NoLeftover(c)' BY <1>i, <1>g, <2>1 DEF NoLeftover
  <2>3. FactsAreTrue(c)' BY <1>g, <2>1 DEF FactsAreTrue
  <2>4. PlanMeets(c)' BY <1>i, <1>g, <2>1 DEF PlanMeets, Meets, Overlooked, PreconditionHolds, DiskOf
  <2>5. PlannedOnce(c)' BY <1>i, <1>g DEF PlannedOnce
  <2> QED BY <1>o, <2>2, <2>3, <2>4, <2>5 DEF AloneRun
<1>e. ASSUME NEW c \in Controllers, Exit(c) PROVE AloneInv'
  <2>1. pc'[c] = "idle" /\ plan'[c] = {} /\ (\A s \in Services : facts'[c][s].runtime = "unread")
    BY <1>0, <1>e DEF Exit, Goto, Unread
  <2>2. AloneRun(c)' BY <2>1 DEF AloneRun, NoLeftover, FactsAreTrue, PlanMeets, PlannedOnce
  <2> QED BY <1>o, <2>2
<1>r. ASSUME NEW c \in Controllers, NEW outcome, Return(c, outcome), UNCHANGED <<goal, plan, applied, current, tree>>
      PROVE  AloneInv'
  <2>1. pc'[c] = "release" BY <1>0, <1>r DEF Return, Goto
  <2>2. AloneRun(c)' BY <1>i, <1>r, <2>1 DEF AloneRun, NoLeftover, FactsAreTrue, PlanMeets, PlannedOnce
  <2> QED BY <1>o, <2>2
<1>1. CASE UNCHANGED vars BY <1>q, <1>1 DEF vars, controllerVars, targetVars
<1>2. ASSUME NEW c \in Controllers, User(c) PROVE AloneInv'
  <2>1. CASE StartApply(c)
    <3>1. /\ pc[c] = "idle" /\ pc'[c] = "inspect" /\ script[c] = NoScript
          /\ UNCHANGED <<facts, plan, script>>
      BY <1>0, <2>1 DEF StartApply, Slot, Goto
    <3>2. AloneRun(c)' BY <1>i, <3>1 DEF AloneRun, NoLeftover, FactsAreTrue, PlanMeets, PlannedOnce
    <3> QED BY <1>o, <3>2
  <2>2. CASE Decline(c) BY <1>e, <2>2 DEF Decline
  <2>3. CASE Confirm(c) BY <1>g, <2>3 DEF Confirm, targetVars
  <2> QED BY <1>2, <2>1, <2>2, <2>3 DEF User
<1>3. ASSUME NEW c \in Controllers, Controller(c) PROVE AloneInv'
  <2>1. CASE Review(c)
    <3>1. CASE Exit(c) BY <1>e, <3>1
    <3>2. CASE ~Exit(c)
      <4>1. /\ pc[c] = "inspect" /\ Inspected(c) /\ (\A ch \in FreshPlan(c) : ~ch.blocked)
            /\ Goto(c, "review") /\ plan' = [plan EXCEPT ![c] = FreshPlan(c)]
            /\ UNCHANGED <<applied, script, current, tree>>
        BY <2>1, <3>2 DEF Review, targetVars
      <4>2. pc'[c] = "review" /\ plan'[c] = FreshPlan(c) BY <1>0, <4>1 DEF Goto
      <4>3. \A ch \in FreshPlan(c) : ch.kind = "deploy" => Meets(c, ch) BY <1>i, <4>1, FreshPlanMeets
      <4>4. \A ch \in FreshPlan(c) : ch.kind = "deploy" => Meets(c, ch)'
        BY <4>1, <4>3 DEF Meets, Overlooked, PreconditionHolds, DiskOf
      <4>5. NoLeftover(c)' /\ FactsAreTrue(c)' BY <1>i, <4>1, <4>2 DEF NoLeftover, FactsAreTrue
      <4>6. PlanMeets(c)' BY <4>2, <4>4 DEF PlanMeets
      <4>7. PlannedOnce(c)' BY <4>2, FreshPlanOnce DEF PlannedOnce
      <4> QED BY <1>o, <4>5, <4>6, <4>7 DEF AloneRun
    <3> QED BY <3>1, <3>2
  <2>2. CASE LockAcknowledged(c) BY <1>g, <2>2 DEF LockAcknowledged, targetVars
  <2>3. CASE LockLost(c) BY <1>e, <2>3 DEF LockLost
  <2>4. CASE CheckChange(c)
    <3>1. CASE Goto(c, "launch")
      <4>1. /\ pc[c] = "apply" /\ pc'[c] = "launch" /\ UNCHANGED <<plan, applied, script, current, tree>>
        BY <1>0, <2>4, <3>1 DEF CheckChange, Goto, targetVars
      <4>2. \A ch \in Pending(c) : ch.kind = "deploy" => PreconditionHolds(ch)
        BY <1>0, <2>4, <3>1, <4>1, PendingOnce DEF CheckChange, Return, Goto
      <4>3. \A ch \in Pending(c)' : ch.kind = "deploy" => PreconditionHolds(ch)'
        BY <4>1, <4>2 DEF Pending, PreconditionHolds, DiskOf
      <4>4. NoLeftover(c)' /\ FactsAreTrue(c)' BY <1>i, <4>1 DEF NoLeftover, FactsAreTrue
      <4>5. PlanMeets(c)' BY <1>i, <4>1, <4>3 DEF PlanMeets, Meets, Overlooked, PreconditionHolds, DiskOf
      <4>6. PlannedOnce(c)' BY <1>i, <4>1 DEF PlannedOnce
      <4> QED BY <1>o, <4>4, <4>5, <4>6 DEF AloneRun
    <3>2. CASE Return(c, "failed") BY <1>r, <2>4, <3>2 DEF CheckChange, targetVars
    <3> QED BY <2>4, <3>1, <3>2 DEF CheckChange
  <2>5. CASE Launch(c)
    <3>1. PICK ch \in Pending(c) : script' = [script EXCEPT ![c] = [change |-> ch, phase |-> "run"]]
      BY <2>5 DEF Launch
    <3>2. /\ pc[c] = "launch" /\ pc'[c] = "wait" /\ UNCHANGED <<goal, facts, plan, applied, current, tree>>
      BY <1>0, <2>5 DEF Launch, Goto, targetVars
    <3>3. ch \in plan[c] \ applied[c] /\ ch \in Change BY <1>0 DEF Pending, First
    <3>4. script'[c] = [change |-> ch, phase |-> "run"] BY <1>0, <3>1
    <3>5. script'[c] \in Script BY <3>3, <3>4 DEF Script
    <3>6. script'[c] # NoScript /\ script'[c].change = ch BY <3>4, <3>5, ScriptAssumption
    <3>7. NoLeftover(c)' /\ FactsAreTrue(c)' BY <3>2, <3>3, <3>6 DEF NoLeftover, FactsAreTrue
    <3>8. PlanMeets(c)' BY <1>i, <3>2, <3>6 DEF PlanMeets, Meets, Overlooked, PreconditionHolds, DiskOf
    <3>9. PlannedOnce(c)' BY <1>i, <3>2 DEF PlannedOnce
    <3> QED BY <1>o, <3>7, <3>8, <3>9 DEF AloneRun
  <2>6. CASE ScriptReturned(c)
    <3>1. CASE Return(c, "failed") /\ UNCHANGED applied BY <1>r, <2>6, <3>1 DEF ScriptReturned, targetVars
    <3>2. CASE Goto(c, "verify") /\ applied' = [applied EXCEPT ![c] = @ \cup {script[c].change}]
      <4>1. /\ pc[c] = "wait" /\ pc'[c] = "verify" /\ applied'[c] = applied[c] \cup {script[c].change}
            /\ script'[c] = NoScript /\ UNCHANGED <<plan, current, tree>>
        BY <1>0, <2>6, <3>2 DEF ScriptReturned, Awaiting, Goto, targetVars
      <4>2. NoLeftover(c)' /\ FactsAreTrue(c)' BY <4>1 DEF NoLeftover, FactsAreTrue
      <4>3. PlanMeets(c)' BY <1>i, <4>1 DEF PlanMeets, Meets, Overlooked, PreconditionHolds, DiskOf
      <4>4. PlannedOnce(c)' BY <1>i, <4>1 DEF PlannedOnce
      <4> QED BY <1>o, <4>2, <4>3, <4>4 DEF AloneRun
    <3> QED BY <2>6, <3>1, <3>2 DEF ScriptReturned
  <2>7. CASE Verify(c)
    <3>1. /\ pc[c] = "verify" /\ UNCHANGED <<goal, plan, applied, script, current, tree>>
          /\ \E label \in {"replan", "apply", "release"} : Goto(c, label)
      BY <2>7 DEF Verify, Return, targetVars
    <3>2. script[c] = NoScript BY <1>i, <3>1 DEF NoLeftover
    <3> QED BY <1>g, <3>1, <3>2
  <2>8. CASE Converge(c) BY <1>r, <2>8 DEF Converge, targetVars
  <2>9. CASE Release(c) BY <1>e, <2>9 DEF Release
  <2>10. ASSUME NEW s \in Services, Probe(c, s) PROVE AloneInv'
    <3>1. PICK disk, rt :
            /\ facts' = [facts EXCEPT ![c][s] = [disk |-> disk, runtime |-> rt]]
            /\ \/ disk = Reported(c, s)
               \/ disk = NoRelease /\ ("probe" \in Faults \/ c \notin RootSessions)
      BY <2>10 DEF Probe, VisibleDisk
    <3>2. pc[c] # "idle" /\ UNCHANGED <<pc, goal, plan, applied, script, current, tree>>
      BY <2>10 DEF Probe, ProbeTurn, targetVars
    <3>3. facts'[c][s].disk = disk /\ (\A t \in Services \ {s} : facts'[c][t] = facts[c][t])
      BY <1>0, <3>1
    <3>4. FactsAreTrue(c)' BY <1>i, <3>1, <3>2, <3>3 DEF FactsAreTrue, Reported, DiskOf
    <3>5. NoLeftover(c)' /\ PlannedOnce(c)' BY <1>i, <3>2 DEF NoLeftover, PlannedOnce
    <3>6. PlanMeets(c)' BY <1>i, <3>2 DEF PlanMeets, Meets, Overlooked, PreconditionHolds, Pending, DiskOf
    <3> QED BY <1>o, <3>4, <3>5, <3>6 DEF AloneRun
  <2> QED BY <1>3, <2>1, <2>2, <2>3, <2>4, <2>5, <2>6, <2>7, <2>8, <2>9, <2>10 DEF Controller
<1>4. ASSUME NEW c \in Controllers, Remote(c) PROVE AloneInv'
  <2>1. CASE FlockGranted(c) \/ LockScriptEnds(c)
    BY <1>q, <2>1 DEF FlockGranted, LockScriptEnds, controllerVars, targetVars
  <2>2. CASE FlockBusy(c) BY <1>e, <2>2 DEF FlockBusy
  <2>3. CASE DeployClears(c) \/ DeployPlaces(c)
    BY <1>0, <2>3, ScriptKeepsAlone DEF DeployClears, DeployPlaces, Running
  <2>4. CASE DeployActivates(c) BY <1>0, <2>4, ScriptKeepsAlone DEF DeployActivates, Running
  <2>5. CASE StartUp(c)
    <3>1. PICK phase \in {"ok", "failed"} : Phase(c, phase) BY <2>5 DEF StartUp
    <3> QED BY <2>5, <3>1, ScriptKeepsAlone DEF StartUp, Running
  <2>6. CASE StopDown(c)
    <3>1. PICK phase \in {"ok", "failed"} : Phase(c, phase) BY <2>6 DEF StopDown
    <3> QED BY <2>6, <3>1, ScriptKeepsAlone DEF StopDown, Running
  <2>7. CASE RemoveDowns(c) BY <2>7, ScriptKeepsAlone DEF RemoveDowns, Running
  <2>8. CASE RemoveUnlinks(c) BY <1>0, <2>8, ScriptKeepsAlone DEF RemoveUnlinks, Running
  <2>9. CASE OrphanEnds(c)
    <3>1. pc[c] # "wait" /\ script'[c] = NoScript /\ UNCHANGED <<pc, goal, facts, plan, applied, current, tree>>
      BY <1>0, <2>9 DEF OrphanEnds, controllerVars, targetVars
    <3>2. NoLeftover(c)' BY <3>1 DEF NoLeftover
    <3>3. FactsAreTrue(c)' BY <1>i, <3>1 DEF FactsAreTrue, Reported, DiskOf
    <3>4. PlanMeets(c)' BY <1>i, <3>1 DEF PlanMeets, Meets, Overlooked, PreconditionHolds, Pending, DiskOf
    <3>5. PlannedOnce(c)' BY <1>i, <3>1 DEF PlannedOnce
    <3> QED BY <1>o, <3>2, <3>3, <3>4, <3>5 DEF AloneRun
  <2> QED BY <1>4, <2>1, <2>2, <2>3, <2>4, <2>5, <2>6, <2>7, <2>8, <2>9 DEF Remote
<1>5. ASSUME NEW c \in Controllers, Fault(c) PROVE AloneInv'
  <2>1. CASE ScriptFails(c) BY <2>1, ScriptKeepsAlone DEF ScriptFails
  <2>2. CASE ConnectionLost(c) BY <1>r, <2>2 DEF ConnectionLost, targetVars
  <2>3. CASE SessionLost(c) \/ EditSource(c)
    BY <1>q, <2>3 DEF SessionLost, EditSource, controllerVars, targetVars
  <2>4. CASE Timeout(c) BY <1>r, <1>e, <2>4 DEF Timeout, targetVars
  <2>5. CASE Crash(c) BY <1>e, <2>5 DEF Crash
  <2>6. CASE InspectFails(c) BY <1>e, <1>r, <2>6 DEF InspectFails, targetVars
  <2> QED BY <1>5, <2>1, <2>2, <2>3, <2>4, <2>5, <2>6 DEF Fault
<1>6. ASSUME NEW s \in Services, ContainerSettles(s) \/ ContainerExits(s) PROVE AloneInv'
  BY <1>q, <1>6 DEF ContainerSettles, ContainerExits, controllerVars
<1> QED BY <1>1, <1>2, <1>3, <1>4, <1>5, <1>6 DEF Next

\* A controller's first script of a change is the one Launch starts.
LEMMA OnlyLaunchStarts ==
  ASSUME TypeOK, [Next]_vars, NEW c \in Controllers, script[c] = NoScript, script'[c] # NoScript
  PROVE  Launch(c)
<1>0. script \in [Controllers -> Script \cup {NoScript}] BY DEF TypeOK, LockTypeOK
<1>1. script' # script OBVIOUS
<1>2. ASSUME NEW d \in Controllers, NEW new, script[d] # NoScript, script' = [script EXCEPT ![d] = new] PROVE FALSE
  BY <1>0, <1>2
<1>3. \A d \in Controllers : ~User(d) BY <1>1 DEF User, StartApply, Decline, Confirm
<1>4. ASSUME NEW d \in Controllers, Controller(d) PROVE Launch(d) /\ d = c
  <2>1. CASE Launch(d)
    <3>1. PICK new : script' = [script EXCEPT ![d] = new] BY <2>1 DEF Launch
    <3> QED BY <1>0, <2>1, <3>1
  <2>2. ~ScriptReturned(d) BY <1>2 DEF ScriptReturned, Awaiting
  <2>3. CASE Review(d) \/ LockAcknowledged(d) \/ LockLost(d) \/ CheckChange(d) \/ Verify(d) \/ Converge(d)
             \/ Release(d) \/ \E s \in Services : Probe(d, s)
    BY <1>1, <2>3 DEF Review, LockAcknowledged, LockLost, CheckChange, Verify, Converge, Release, Probe
  <2> QED BY <1>4, <2>1, <2>2, <2>3 DEF Controller
<1>5. \A d \in Controllers : ~Remote(d)
  BY <1>1, <1>2 DEF Remote, FlockGranted, FlockBusy, LockScriptEnds, DeployClears, DeployPlaces, DeployActivates,
     StartUp, StopDown, RemoveDowns, RemoveUnlinks, OrphanEnds, Running, Phase
<1>6. \A d \in Controllers : ~Fault(d)
  BY <1>1, <1>2 DEF Fault, ScriptFails, ConnectionLost, SessionLost, Timeout, Crash, EditSource, InspectFails, Phase
<1>7. \A s \in Services : ~ContainerSettles(s) /\ ~ContainerExits(s)
  BY <1>1 DEF ContainerSettles, ContainerExits
<1> QED BY <1>1, <1>3, <1>4, <1>5, <1>6, <1>7 DEF Next, vars

\* AloneInv holds of a controller that works alone, whatever fails.
LEMMA AloneAlways ==
  ASSUME Alone PROVE Spec => [](TypeOK /\ AloneInv)
<1>1. Init => AloneInv
  BY DEF Init, AloneInv, AloneRun, NoLeftover, FactsAreTrue, PlanMeets, PlannedOnce, Unread
<1>2. TypeOK /\ AloneInv /\ [Next]_vars => AloneInv' BY AloneStep
<1> QED BY <1>1, <1>2, TypeCorrect, PTL DEF Spec

\* Wherever an apply was interrupted, once its script has ended the target does not refuse the deploy that a
\* fresh plan asks for, unless the inspection overlooked what is deployed.
THEOREM InterruptedDeploysResume ==
  ASSUME Alone PROVE Spec => []InterruptedDeployResumes
<1>1. AloneInv => InterruptedDeployResumes
  BY DEF AloneInv, AloneRun, PlanMeets, Meets, InterruptedDeployResumes, Pending, First
<1> QED BY <1>1, AloneAlways, PTL

\* No deploy of a service with storage-backed data starts over an active release that keeps its data elsewhere,
\* also when the inspection did not see that release.
THEOREM PlacementIsGuarded ==
  ASSUME Alone PROVE Spec => PlacementGuarded
<1> DEFINE Guarded ==
      \A c \in Controllers :
        LET ch == script'[c].change  active == DiskOf(ch.service) IN
        /\ script[c] = NoScript /\ script'[c] # NoScript
        /\ ch.kind = "deploy" /\ ch.release.placement # NoPlacement
        /\ active \in Releases
        => active.placement = ch.release.placement
<1>1. TypeOK /\ AloneInv /\ [Next]_vars => [Guarded]_vars
  <2> SUFFICES ASSUME TypeOK, AloneInv, [Next]_vars, NEW c \in Controllers,
                      script[c] = NoScript, script'[c] # NoScript, script'[c].change.kind = "deploy",
                      script'[c].change.release.placement # NoPlacement,
                      DiskOf(script'[c].change.service) \in Releases
               PROVE  DiskOf(script'[c].change.service).placement = script'[c].change.release.placement
    OBVIOUS
  <2>1. Launch(c) BY OnlyLaunchStarts
  <2>2. PICK ch \in Pending(c) : script' = [script EXCEPT ![c] = [change |-> ch, phase |-> "run"]]
    BY <2>1 DEF Launch
  <2>3. script'[c].change = ch BY <2>2 DEF TypeOK, LockTypeOK
  <2>4. Meets(c, ch) /\ PreconditionHolds(ch)
    BY <2>1, <2>2, <2>3 DEF AloneInv, AloneRun, PlanMeets, Launch, Pending, First
  <2>5. ~Overlooked(c, ch) BY <2>3, <2>4, ReleasesAssumption DEF Overlooked, PreconditionHolds
  <2> QED BY <2>3, <2>4, <2>5 DEF Meets
<1> QED BY <1>1, AloneAlways, PTL DEF Spec, PlacementGuarded

=============================================================================
