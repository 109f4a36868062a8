---------------------------- MODULE BackupProofs ----------------------------
(* Theorems about Backup for any backups, services, data and faults. *)
EXTENDS Backup, LeastNumber, FiniteSetTheorems, TLAPS

\* The least element of a set of numbers is one of them and below the others.
LEMMA LeastIsLeast ==
  ASSUME NEW T \in SUBSET Nat, T # {}
  PROVE  LeastOf(T) \in T /\ \A y \in T : LeastOf(T) <= y
BY LeastNumberExists DEF LeastOf

-----------------------------------------------------------------------------
(* Types. *)

\* A behaviour starts well typed.
LEMMA InitType == Init => TypeOK
<1> SUFFICES ASSUME Init PROVE TypeOK OBVIOUS
<1>1. NoArchives \in [Services -> [Resources -> Versions \cup {Torn, Nothing}]]
  BY DEF NoArchives
<1>2. \A b \in Backups :
        SomeArchives(b) \in [Services -> [Resources -> Versions \cup {Torn, Nothing}]]
  BY ServicesAssumption DEF SomeArchives, Versions
<1>3. CreateTypeOK BY DEF Init, CreateTypeOK, PCs, AllStopped, Runtimes
<1>4. LockTypeOK BY DEF Init, LockTypeOK
<1>5. StoreTypeOK
  <2>1. archive \in [Backups -> [Services -> [Resources -> Versions \cup {Torn, Nothing}]]]
    BY <1>1, <1>2 DEF Init
  <2>2. 0 \in Versions BY ServicesAssumption DEF Versions
  <2>3. manifest \in [Backups -> SUBSET Services]
    BY ServicesAssumption DEF Init, NoManifest
  <2>4. QED BY <2>1, <2>2, <2>3 DEF Init, StoreTypeOK
<1>6. QED BY <1>3, <1>4, <1>5 DEF TypeOK

\* A process that ends leaves everything well typed.
LEMMA EndType ==
  ASSUME TypeOK, NEW b \in Backups, End(b)
  PROVE  TypeOK'
<1>1. CreateTypeOK'
  BY DEF TypeOK, CreateTypeOK, End, Forget, Goto, Set, PCs, Create, Retain, AllStopped, Runtimes
<1>2. LockTypeOK' BY DEF TypeOK, LockTypeOK, End, Set
<1>3. StoreTypeOK'
  <2>1. NoArchives \in [Services -> [Resources -> Versions \cup {Torn, Nothing}]]
    BY DEF NoArchives
  <2>2. UNCHANGED <<place, runtime, version>> BY DEF End, targetVars
  <2>3. manifest' \in [Backups -> SUBSET Services]
    BY DEF TypeOK, StoreTypeOK, End, Set, NoManifest
  <2>4. archive' \in [Backups -> [Services -> [Resources -> Versions \cup {Torn, Nothing}]]]
    BY <2>1 DEF TypeOK, StoreTypeOK, End, Set
  <2>5. QED BY <2>2, <2>3, <2>4 DEF TypeOK, StoreTypeOK
<1>4. QED BY <1>1, <1>2, <1>3 DEF TypeOK

\* The service being captured is one of the services.
LEMMA CurrentType ==
  ASSUME TypeOK, NEW b \in Backups, Rest(b) # {}
  PROVE  Current(b) \in Services /\ Current(b) \in Request[b]
BY LeastIsLeast, ServicesAssumption DEF Rest, Current

\* Emptied archives are archives.
LEMMA NoArchivesType ==
  NoArchives \in [Services -> [Resources -> Versions \cup {Torn, Nothing}]]
BY DEF NoArchives

\* An error return keeps what Create remembers well typed.
LEMMA FailType ==
  ASSUME CreateTypeOK, NEW b \in Backups,
         NEW outcome \in {"failed", "stop failed", "restart failed"}, Fail(b, outcome),
         UNCHANGED <<facts, atLock, handled, stopped, failed, reading, prune>>
  PROVE  CreateTypeOK'
BY DEF CreateTypeOK, Fail, Goto, Set, PCs, Create

\* A move to another label does, too.
LEMMA GotoType ==
  ASSUME CreateTypeOK, NEW b \in Backups, NEW label \in PCs, Goto(b, label),
         UNCHANGED <<createVars, prune>>
  PROVE  CreateTypeOK'
BY DEF CreateTypeOK, Goto, createVars

\* The command of a backup is for the service it is at.
LEMMA LaunchType ==
  ASSUME TypeOK, NEW b \in Backups, Rest(b) # {}, NEW kind \in {"stop", "up"}, Launch(b, kind),
         UNCHANGED <<holder, job, live>>
  PROVE  LockTypeOK'
BY CurrentType DEF TypeOK, LockTypeOK, Launch, Set, Script

\* A command given up leaves everything well typed.
LEMMA WaitingType ==
  ASSUME TypeOK, NEW b \in Backups, StopWaiting(b)
  PROVE  TypeOK'
<1>1. CreateTypeOK' BY FailType DEF TypeOK, StopWaiting
<1>2. LockTypeOK' BY DEF TypeOK, LockTypeOK, StopWaiting, lockVars
<1>3. StoreTypeOK' BY DEF TypeOK, StoreTypeOK, StopWaiting, targetVars, repositoryVars
<1>4. QED BY <1>1, <1>2, <1>3 DEF TypeOK

\* While a service is being handled there is one left to handle.
AtService ==
  \A b \in Backups : pc[b] \in {"stopping", "capture", "restart", "restarting"} => Rest(b) # {}

\* Every step preserves the types of all variables.
LEMMA NextType == TypeOK /\ AtService /\ [Next]_vars => TypeOK'
<1> SUFFICES ASSUME TypeOK, AtService, [Next]_vars PROVE TypeOK' OBVIOUS
<1>0. CreateTypeOK /\ LockTypeOK /\ StoreTypeOK BY DEF TypeOK
<1>1. CASE UNCHANGED vars
  BY <1>0, <1>1 DEF vars, createVars, lockVars, targetVars, repositoryVars,
                    TypeOK, CreateTypeOK, LockTypeOK, StoreTypeOK
<1>2. ASSUME NEW b \in Backups, Controller(b) PROVE TypeOK'
  <2>1. CASE Inspect(b)
    <3>1. CreateTypeOK' BY <1>0, <2>1 DEF Inspect, CreateTypeOK, StoreTypeOK, Goto, Set, PCs, Runtimes, createVars
    <3>2. LockTypeOK' BY <1>0, <2>1 DEF Inspect, LockTypeOK, Set, lockVars
    <3>3. StoreTypeOK' BY <1>0, <2>1 DEF Inspect, StoreTypeOK, Set, targetVars, repositoryVars
    <3>4. QED BY <3>1, <3>2, <3>3 DEF TypeOK
  <2>2. CASE LockGranted(b)
    <3>1. CreateTypeOK' BY <1>0, <2>2 DEF LockGranted, CreateTypeOK, StoreTypeOK, Goto, Set, PCs, Create, Runtimes, createVars
    <3>2. LockTypeOK' BY <1>0, <2>2 DEF LockGranted, LockTypeOK
    <3>3. StoreTypeOK' BY <1>0, <2>2 DEF LockGranted, StoreTypeOK, Set, targetVars, repositoryVars
    <3>4. QED BY <3>1, <3>2, <3>3 DEF TypeOK
  <2>3. CASE Begin(b)
    <3>1. CreateTypeOK' BY <1>0, <2>3 DEF Begin, CreateTypeOK, Goto, Set, Fail, PCs, Create, Retain, createVars
    <3>2. LockTypeOK' BY <1>0, <2>3 DEF Begin, LockTypeOK, Set, lockVars
    <3>3. StoreTypeOK' BY <1>0, <2>3 DEF Begin, StoreTypeOK, Set, targetVars, repositoryVars
    <3>4. QED BY <3>1, <3>2, <3>3 DEF TypeOK
  <2>4. CASE NextService(b)
    <3>1. CreateTypeOK'
      <4>1. CASE Fail(b, "failed") BY <1>0, <2>4, <4>1, FailType DEF NextService
      <4>2. CASE Goto(b, "stopping") \/ Goto(b, "capture")
        <5>1. CASE UNCHANGED result
          BY <1>0, <2>4, <4>2, <5>1, GotoType DEF NextService, createVars, PCs, Create
        <5>2. CASE Fail(b, "failed") BY <4>1, <5>2
        <5>3. QED BY <2>4, <5>1, <5>2 DEF NextService
      <4>3. QED BY <2>4, <4>1, <4>2 DEF NextService
    <3>2. LockTypeOK'
      <4>1. CASE UNCHANGED script BY <1>0, <2>4, <4>1 DEF NextService, LockTypeOK
      <4>2. CASE Launch(b, "stop") BY <2>4, <4>2, LaunchType DEF NextService
      <4>3. QED BY <2>4, <4>1, <4>2 DEF NextService
    <3>3. StoreTypeOK' BY <1>0, <2>4 DEF NextService, StoreTypeOK, Set, targetVars, repositoryVars
    <3>4. QED BY <3>1, <3>2, <3>3 DEF TypeOK
  <2>5. CASE StopReturned(b)
    <3>1. CreateTypeOK'
      <4>1. CASE Fail(b, "stop failed") /\ UNCHANGED stopped
        BY <1>0, <2>5, <4>1, FailType DEF StopReturned
      <4>2. CASE UNCHANGED result /\ stopped' = Set(stopped, b, TRUE) /\ Goto(b, "capture")
        BY <1>0, <2>5, <4>2 DEF StopReturned, CreateTypeOK, Goto, Set, PCs, Create
      <4>3. QED BY <2>5, <4>1, <4>2 DEF StopReturned
    <3>2. LockTypeOK' BY <1>0, <2>5 DEF StopReturned, LockTypeOK, Set, lockVars
    <3>3. StoreTypeOK' BY <1>0, <2>5 DEF StopReturned, StoreTypeOK, Set, targetVars, repositoryVars
    <3>4. QED BY <3>1, <3>2, <3>3 DEF TypeOK
  <2>6. CASE WaitExpires(b) BY <2>6, WaitingType DEF WaitExpires
  <2>7. CASE CaptureBegins(b)
    <3>1. CreateTypeOK'
      <4>1. Current(b) \in Services BY <2>7, CurrentType DEF CaptureBegins, AtService
      <4>2. version[Current(b)] \in Versions BY <1>0, <4>1 DEF StoreTypeOK
      <4>3. QED BY <1>0, <2>7, <4>2 DEF CaptureBegins, CreateTypeOK, Set
    <3>2. LockTypeOK' BY <1>0, <2>7 DEF CaptureBegins, LockTypeOK, Set, lockVars
    <3>3. StoreTypeOK' BY <1>0, <2>7 DEF CaptureBegins, StoreTypeOK, Set, targetVars, repositoryVars
    <3>4. QED BY <3>1, <3>2, <3>3 DEF TypeOK
  <2>8. CASE CaptureEnds(b)
    <3>1. CreateTypeOK'
      <4>1. Current(b) \in Services BY <2>8, CurrentType DEF CaptureEnds, AtService
      <4>2. handled' \in [Backups -> SUBSET Services]
        <5>1. \/ UNCHANGED handled
              \/ \E set \in {handled[b], handled[b] \cup {Current(b)}} :
                   handled' = Set(handled, b, set)
          BY <2>8 DEF CaptureEnds
        <5>2. handled \in [Backups -> SUBSET Services] BY <1>0 DEF CreateTypeOK
        <5>3. handled[b] \cup {Current(b)} \in SUBSET Services BY <4>1, <5>2
        <5>4. QED BY <5>1, <5>2, <5>3 DEF Set
      <4>3. pc' \in [Backups -> PCs]
        BY <1>0, <2>8 DEF CaptureEnds, CreateTypeOK, AfterCapture, Goto, PCs, Create
      <4>4. QED BY <1>0, <2>8, <4>2, <4>3 DEF CaptureEnds, CreateTypeOK, Set
    <3>2. LockTypeOK' BY <1>0, <2>8 DEF CaptureEnds, LockTypeOK, Set, lockVars
    <3>3. StoreTypeOK' BY <1>0, <2>8 DEF CaptureEnds, StoreTypeOK, Set, targetVars, repositoryVars
    <3>4. QED BY <3>1, <3>2, <3>3 DEF TypeOK
  <2>9. CASE CaptureFails(b)
    <3>1. CreateTypeOK' BY <1>0, <2>9 DEF CaptureFails, CreateTypeOK, Goto, Set, Fail, PCs, Create, Retain, createVars
    <3>2. LockTypeOK' BY <1>0, <2>9 DEF CaptureFails, LockTypeOK, Set, lockVars
    <3>3. StoreTypeOK' BY <1>0, <2>9 DEF CaptureFails, StoreTypeOK, Set, targetVars, repositoryVars
    <3>4. QED BY <3>1, <3>2, <3>3 DEF TypeOK
  <2>10. CASE Restart(b)
    <3>1. CreateTypeOK' BY <1>0, <2>10 DEF Restart, CreateTypeOK, Goto, Set, Fail, PCs, Create, Retain, createVars
    <3>2. LockTypeOK'
      <4>1. CASE UNCHANGED script BY <1>0, <2>10, <4>1 DEF Restart, LockTypeOK
      <4>2. CASE Launch(b, "up") BY <2>10, <4>2, LaunchType DEF Restart, AtService
      <4>3. QED BY <2>10, <4>1, <4>2 DEF Restart
    <3>3. StoreTypeOK' BY <1>0, <2>10 DEF Restart, StoreTypeOK, Set, targetVars, repositoryVars
    <3>4. QED BY <3>1, <3>2, <3>3 DEF TypeOK
  <2>11. CASE RestartReturned(b)
    <3>1. CreateTypeOK'
      <4>1. Current(b) \in Services
        BY <2>11, CurrentType DEF RestartReturned, AtService
      <4>2. UNCHANGED <<facts, atLock, failed, reading, prune>> BY <2>11 DEF RestartReturned
      <4>3. handled' \in [Backups -> SUBSET Services] /\ stopped' \in [Backups -> BOOLEAN]
        <5>1. UNCHANGED handled \/ handled' = Set(handled, b, handled[b] \cup {Current(b)})
          BY <2>11 DEF RestartReturned
        <5>2. UNCHANGED stopped \/ stopped' = Set(stopped, b, FALSE)
          BY <2>11 DEF RestartReturned
        <5>3. handled \in [Backups -> SUBSET Services] /\ stopped \in [Backups -> BOOLEAN]
          BY <1>0 DEF CreateTypeOK
        <5>4. handled[b] \cup {Current(b)} \in SUBSET Services BY <4>1, <5>3
        <5>5. QED BY <5>1, <5>2, <5>3, <5>4 DEF Set
      <4>4. /\ pc' \in [Backups -> PCs]
            /\ result' \in [Backups -> {"none", "ok", "failed", "stop failed", "restart failed"}]
        BY <1>0, <2>11 DEF RestartReturned, Fail, Set, Goto, CreateTypeOK, PCs, Create
      <4>5. QED BY <1>0, <4>2, <4>3, <4>4 DEF CreateTypeOK
    <3>2. LockTypeOK' BY <1>0, <2>11 DEF RestartReturned, LockTypeOK, Set, lockVars
    <3>3. StoreTypeOK' BY <1>0, <2>11 DEF RestartReturned, StoreTypeOK, Set, targetVars, repositoryVars
    <3>4. QED BY <3>1, <3>2, <3>3 DEF TypeOK
  <2>12. CASE Seal(b)
    <3>1. CreateTypeOK'
      <4>1. CASE Fail(b, "failed") BY <1>0, <2>12, <4>1, FailType DEF Seal
      <4>2. CASE Goto(b, "publish") /\ UNCHANGED result
        BY <1>0, <2>12, <4>2, GotoType DEF Seal, createVars, PCs, Create
      <4>3. QED BY <2>12, <4>1, <4>2 DEF Seal, DiskFails
    <3>2. LockTypeOK' BY <1>0, <2>12 DEF Seal, LockTypeOK, Set, lockVars
    <3>3. StoreTypeOK' BY <1>0, <2>12 DEF Seal, CreateTypeOK, StoreTypeOK, Set, targetVars
    <3>4. QED BY <3>1, <3>2, <3>3 DEF TypeOK
  <2>13. CASE Publish(b)
    <3>1. CreateTypeOK'
      <4>1. CASE Fail(b, "failed") BY <1>0, <2>13, <4>1, FailType DEF Publish
      <4>2. CASE Goto(b, "protect") /\ UNCHANGED result
        BY <1>0, <2>13, <4>2, GotoType DEF Publish, createVars, PCs, Create
      <4>3. QED BY <2>13, <4>1, <4>2 DEF Publish, DiskFails
    <3>2. LockTypeOK' BY <1>0, <2>13 DEF Publish, LockTypeOK, Set, lockVars
    <3>3. StoreTypeOK' BY <1>0, <2>13 DEF Publish, StoreTypeOK, Set, targetVars, repositoryVars
    <3>4. QED BY <3>1, <3>2, <3>3 DEF TypeOK
  <2>14. CASE Protect(b)
    <3>1. CreateTypeOK'
      <4>1. CASE Fail(b, "failed") BY <1>0, <2>14, <4>1, FailType DEF Protect
      <4>2. CASE Goto(b, "release") /\ result' = Set(result, b, "ok")
        BY <1>0, <2>14, <4>2 DEF Protect, CreateTypeOK, Goto, Set, PCs, Create
      <4>3. QED BY <2>14, <4>1, <4>2 DEF Protect, DiskFails
    <3>2. LockTypeOK' BY <1>0, <2>14 DEF Protect, LockTypeOK, Set, lockVars
    <3>3. StoreTypeOK' BY <1>0, <2>14 DEF Protect, StoreTypeOK, Set, targetVars, repositoryVars
    <3>4. QED BY <3>1, <3>2, <3>3 DEF TypeOK
  <2>15. CASE Abort(b)
    <3>1. CreateTypeOK' BY <1>0, <2>15 DEF Abort, CreateTypeOK, Goto, Set, Fail, PCs, Create, Retain, createVars
    <3>2. LockTypeOK' BY <1>0, <2>15 DEF Abort, LockTypeOK, Set, lockVars
    <3>3. StoreTypeOK' BY <1>0, <2>15, NoArchivesType DEF Abort, StoreTypeOK, Set, NoManifest, targetVars, repositoryVars
    <3>4. QED BY <3>1, <3>2, <3>3 DEF TypeOK
  <2>16. CASE Release(b)
    <3>1. CASE End(b) BY <3>1, EndType
    <3>2. CASE /\ Goto(b, "retain") /\ Forget(b)
               /\ holder' = IF holder = b THEN Nobody ELSE holder
               /\ UNCHANGED <<prune, job, script, live, targetVars, repositoryVars>>
      <4>1. CreateTypeOK' BY <1>0, <3>2 DEF CreateTypeOK, Forget, Goto, Set, AllStopped, Runtimes, PCs, Retain
      <4>2. LockTypeOK' BY <1>0, <3>2 DEF LockTypeOK, Set, lockVars
      <4>3. StoreTypeOK' BY <1>0, <3>2 DEF StoreTypeOK, targetVars, repositoryVars
      <4>4. QED BY <4>1, <4>2, <4>3 DEF TypeOK
    <3>3. QED BY <2>16, <3>1, <3>2 DEF Release
  <2>17. CASE PlanRetention(b)
    <3>1. CASE End(b) BY <3>1, EndType
    <3>2. CASE /\ prune' = Set(prune, b, Excess) /\ Goto(b, "prune")
               /\ UNCHANGED <<createVars, lockVars, targetVars, repositoryVars>>
      <4>1. CreateTypeOK' 
        <5>1. Excess \subseteq Backups BY BackupsAssumption DEF Excess, Candidates
        <5>2. QED BY <1>0, <3>2, <5>1 DEF CreateTypeOK, Goto, Set, createVars, PCs, Retain
      <4>2. LockTypeOK' BY <1>0, <3>2 DEF LockTypeOK, Set, lockVars
      <4>3. StoreTypeOK' BY <1>0, <3>2 DEF StoreTypeOK, targetVars, repositoryVars
      <4>4. QED BY <4>1, <4>2, <4>3 DEF TypeOK
    <3>3. QED BY <2>17, <3>1, <3>2 DEF PlanRetention
  <2>18. CASE PruneNext(b)
    <3>1. CASE End(b) BY <3>1, EndType
    <3>2. CASE /\ Goto(b, "delete")
               /\ UNCHANGED <<createVars, prune, lockVars, targetVars, repositoryVars>>
      <4>1. CreateTypeOK' BY <1>0, <3>2, GotoType DEF PCs, Retain
      <4>2. LockTypeOK' BY <1>0, <3>2 DEF LockTypeOK, Set, lockVars
      <4>3. StoreTypeOK' BY <1>0, <3>2 DEF StoreTypeOK, targetVars, repositoryVars
      <4>4. QED BY <4>1, <4>2, <4>3 DEF TypeOK
    <3>3. QED BY <2>18, <3>1, <3>2 DEF PruneNext
  <2>19. CASE DeleteBegins(b)
    <3>1. CreateTypeOK' BY <1>0, <2>19 DEF DeleteBegins, CreateTypeOK, Goto, Set, Fail, PCs, Create, Retain, createVars
    <3>2. LockTypeOK' BY <1>0, <2>19 DEF DeleteBegins, LockTypeOK, Set, lockVars
    <3>3. StoreTypeOK' BY <1>0, <2>19, NoArchivesType DEF DeleteBegins, StoreTypeOK, Set, NoManifest, targetVars
    <3>4. QED BY <3>1, <3>2, <3>3 DEF TypeOK
  <2>20. CASE DeleteEnds(b)
    <3>1. CASE End(b) BY <3>1, EndType
    <3>2. CASE /\ LET x == LeastOf(prune[b]) IN
                    /\ place' = Set(place, x, "nowhere")
                    /\ manifest' = Set(manifest, x, NoManifest)
                    /\ archive' = Set(archive, x, NoArchives)
                    /\ prune' = Set(prune, b, prune[b] \ {x})
               /\ Goto(b, "prune")
               /\ UNCHANGED <<createVars, lockVars, targetVars>>
      <4>1. CreateTypeOK' BY <1>0, <3>2 DEF CreateTypeOK, Goto, Set, createVars, PCs, Retain
      <4>2. LockTypeOK' BY <1>0, <3>2 DEF LockTypeOK, Set, lockVars
      <4>3. StoreTypeOK' BY <1>0, <3>2, NoArchivesType DEF StoreTypeOK, Set, NoManifest, targetVars
      <4>4. QED BY <4>1, <4>2, <4>3 DEF TypeOK
    <3>3. QED BY <2>20, <3>1, <3>2 DEF DeleteEnds
  <2>21. CASE NotStarted(b) BY <2>21, EndType DEF NotStarted
  <2>22. QED BY <1>2, <2>1, <2>2, <2>3, <2>4, <2>5, <2>6, <2>7, <2>8, <2>9, <2>10, <2>11, <2>12, <2>13, <2>14, <2>15, <2>16, <2>17, <2>18, <2>19, <2>20, <2>21 DEF Controller
<1>3. ASSUME NEW b \in Backups, StartBackup(b) PROVE TypeOK'
  <2>1. CreateTypeOK' BY <1>0, <1>3 DEF StartBackup, CreateTypeOK, Goto, PCs
  <2>2. LockTypeOK' BY <1>0, <1>3 DEF StartBackup, LockTypeOK
  <2>3. StoreTypeOK' BY <1>0, <1>3 DEF StartBackup, StoreTypeOK, targetVars, repositoryVars
  <2>4. QED BY <2>1, <2>2, <2>3 DEF TypeOK
<1>4. ASSUME NEW b \in Backups, ScriptRuns(b) PROVE TypeOK'
  <2>1. PICK rt \in Runtimes, phase \in {"ok", "failed"} :
          /\ runtime' = [runtime EXCEPT ![script[b].service] = rt]
          /\ script' = Set(script, b,
               [kind |-> script[b].kind, service |-> script[b].service, phase |-> phase])
    BY <1>4 DEF ScriptRuns
  <2>2. script[b] \in Script BY <1>0, <1>4 DEF ScriptRuns, LockTypeOK
  <2>3. CreateTypeOK' BY <1>0, <1>4 DEF ScriptRuns, CreateTypeOK, createVars
  <2>4. LockTypeOK' BY <1>0, <1>4, <2>1, <2>2 DEF ScriptRuns, LockTypeOK, Set, Script
  <2>5. StoreTypeOK' BY <1>0, <1>4, <2>1 DEF ScriptRuns, StoreTypeOK, repositoryVars
  <2>6. QED BY <2>3, <2>4, <2>5 DEF TypeOK
<1>5. ASSUME NEW b \in Backups, OrphanEnds(b) PROVE TypeOK'
  <2>1. CreateTypeOK' BY <1>0, <1>5 DEF OrphanEnds, CreateTypeOK, createVars
  <2>2. LockTypeOK' BY <1>0, <1>5 DEF OrphanEnds, LockTypeOK, Set
  <2>3. StoreTypeOK' BY <1>0, <1>5 DEF OrphanEnds, StoreTypeOK, targetVars, repositoryVars
  <2>4. QED BY <2>1, <2>2, <2>3 DEF TypeOK
<1>6. ASSUME NEW b \in Backups, Timeout(b) PROVE TypeOK'
  <2>1. CreateTypeOK' BY <1>0, <1>6 DEF Timeout, CreateTypeOK, createVars
  <2>2. LockTypeOK' BY <1>0, <1>6 DEF Timeout, LockTypeOK, Set
  <2>3. StoreTypeOK' BY <1>0, <1>6 DEF Timeout, StoreTypeOK, targetVars, repositoryVars
  <2>4. QED BY <2>1, <2>2, <2>3 DEF TypeOK
<1>7. ASSUME NEW b \in Backups, ConnectionLost(b) PROVE TypeOK'
  BY <1>7, WaitingType DEF ConnectionLost
<1>8. ASSUME NEW b \in Backups, Crash(b) PROVE TypeOK'
  BY <1>8, EndType DEF Crash
<1>9. ASSUME NEW s \in Services, OtherCommand(s) \/ ApplicationWrites(s) PROVE TypeOK'
  <2>1. CreateTypeOK'
    BY <1>0, <1>9 DEF OtherCommand, ApplicationWrites, CreateTypeOK, createVars
  <2>2. LockTypeOK' BY <1>0, <1>9 DEF OtherCommand, ApplicationWrites, LockTypeOK, lockVars
  <2>3. StoreTypeOK'
    <3>1. CASE OtherCommand(s) BY <1>0, <3>1 DEF OtherCommand, StoreTypeOK, repositoryVars
    <3>2. CASE ApplicationWrites(s)
      <4>1. version[s] + 1 \in Versions
        BY <1>0, <3>2, ServicesAssumption DEF ApplicationWrites, StoreTypeOK, Versions
      <4>2. QED BY <1>0, <3>2, <4>1 DEF ApplicationWrites, StoreTypeOK, repositoryVars
    <3>3. QED BY <1>9, <3>1, <3>2
  <2>4. QED BY <2>1, <2>2, <2>3 DEF TypeOK
<1>10. ASSUME NEW b \in Backups, LockLost(b) PROVE TypeOK'
  <2>1. CreateTypeOK' BY <1>0, <1>10 DEF LockLost, CreateTypeOK, createVars
  <2>2. LockTypeOK' BY <1>0, <1>10 DEF LockLost, LockTypeOK
  <2>3. StoreTypeOK' BY <1>0, <1>10 DEF LockLost, StoreTypeOK, targetVars, repositoryVars
  <2>4. QED BY <2>1, <2>2, <2>3 DEF TypeOK
<1>11. QED
  BY <1>1, <1>2, <1>3, <1>4, <1>5, <1>6, <1>7, <1>8, <1>9, <1>10, ServicesAssumption
     DEF Next, Environment

\* Every step keeps a service at hand while one is being handled: handled
\* grows only on the way back to the top of the loop.
LEMMA AtServiceStep == TypeOK /\ AtService /\ [Next]_vars => AtService'
<1> SUFFICES ASSUME TypeOK, AtService, [Next]_vars PROVE AtService' OBVIOUS
<1> USE DEF AtService, Rest
<1>0. pc \in [Backups -> PCs] /\ handled \in [Backups -> SUBSET Services]
  BY DEF TypeOK, CreateTypeOK
<1>k. ASSUME UNCHANGED <<pc, handled>> PROVE AtService' BY <1>k
<1>e. ASSUME NEW b \in Backups, End(b) PROVE AtService' BY <1>0, <1>e DEF End, Forget, Goto, Set
<1>w. ASSUME NEW b \in Backups, StopWaiting(b) PROVE AtService'
  BY <1>0, <1>w DEF StopWaiting, Fail, Goto
<1>1. CASE UNCHANGED vars BY <1>1 DEF vars, createVars
<1>2. ASSUME NEW b \in Backups, Controller(b) PROVE AtService'
  <2>1. CASE Inspect(b) BY <1>0, <2>1 DEF Inspect, Goto
  <2>2. CASE LockGranted(b) BY <1>0, <2>2 DEF LockGranted, Goto
  <2>3. CASE Begin(b) BY <1>0, <2>3 DEF Begin, Goto
  <2>4. CASE NextService(b) BY <1>0, <2>4 DEF NextService, Fail, Goto
  <2>5. CASE StopReturned(b) BY <1>0, <2>5 DEF StopReturned, Fail, Goto
  <2>6. CASE WaitExpires(b) BY <1>w, <2>6 DEF WaitExpires
  <2>7. CASE CaptureBegins(b) BY <1>k, <2>7 DEF CaptureBegins
  <2>8. CASE CaptureEnds(b) BY <1>0, <2>8 DEF CaptureEnds, AfterCapture, Set, Goto
  <2>9. CASE CaptureFails(b) BY <1>0, <2>9 DEF CaptureFails, Fail, Goto
  <2>10. CASE Restart(b) BY <1>0, <2>10 DEF Restart, Fail, Goto
  <2>11. CASE RestartReturned(b) BY <1>0, <2>11 DEF RestartReturned, Fail, Set, Goto
  <2>12. CASE Seal(b) BY <1>0, <2>12 DEF Seal, DiskFails, Fail, Goto
  <2>13. CASE Publish(b) BY <1>0, <2>13 DEF Publish, DiskFails, Fail, Goto
  <2>14. CASE Protect(b) BY <1>0, <2>14 DEF Protect, DiskFails, Fail, Goto
  <2>15. CASE Abort(b) BY <1>0, <2>15 DEF Abort, createVars, Goto
  <2>16. CASE Release(b) BY <1>0, <1>e, <2>16 DEF Release, Forget, Set, Goto
  <2>17. CASE PlanRetention(b) BY <1>0, <1>e, <2>17 DEF PlanRetention, createVars, Goto
  <2>18. CASE PruneNext(b) BY <1>0, <1>e, <2>18 DEF PruneNext, createVars, Goto
  <2>19. CASE DeleteBegins(b) BY <1>0, <2>19 DEF DeleteBegins, createVars, Goto
  <2>20. CASE DeleteEnds(b) BY <1>0, <1>e, <2>20 DEF DeleteEnds, createVars, Goto
  <2>21. CASE NotStarted(b) BY <1>e, <2>21 DEF NotStarted
  <2>22. QED BY <1>2, <2>1, <2>2, <2>3, <2>4, <2>5, <2>6, <2>7, <2>8, <2>9, <2>10, <2>11, <2>12, <2>13, <2>14, <2>15, <2>16, <2>17, <2>18, <2>19, <2>20, <2>21 DEF Controller
<1>3. ASSUME NEW b \in Backups, StartBackup(b) PROVE AtService' BY <1>0, <1>3 DEF StartBackup, Goto
<1>4. ASSUME NEW b \in Backups, ScriptRuns(b) \/ OrphanEnds(b) \/ Timeout(b) \/ LockLost(b) PROVE AtService'
  BY <1>k, <1>4 DEF ScriptRuns, OrphanEnds, Timeout, LockLost, createVars
<1>5. ASSUME NEW b \in Backups, ConnectionLost(b) \/ Crash(b) PROVE AtService'
  BY <1>e, <1>w, <1>5 DEF ConnectionLost, Crash
<1>6. ASSUME NEW s \in Services, OtherCommand(s) \/ ApplicationWrites(s) PROVE AtService'
  BY <1>k, <1>6 DEF OtherCommand, ApplicationWrites, createVars
<1>7. QED BY <1>1, <1>2, <1>3, <1>4, <1>5, <1>6, ServicesAssumption DEF Next, Environment

\* Every reachable state is well typed.
THEOREM TypeCorrect == Spec => []TypeOK
<1>1. Init => AtService BY DEF Init, AtService
<1>2. QED BY <1>1, InitType, NextType, AtServiceStep, PTL DEF Spec

-----------------------------------------------------------------------------
(* The repository implements SnapshotStore.  A step touches the snapshot of *)
(* its own backup, which only ever gets better, or is one of the two steps  *)
(* of a deletion; the lease of the job keeps those away from any snapshot a *)
(* backup is still working on.                                              *)

Staged == {"next", "stopping", "capture", "restart", "restarting", "publish"}
Pruning == {"prune", "delete", "deleting"}

\* The snapshots the abstract store has.
Kept == {b \in Backups : Intact(b) /\ pc[b] # "protect"}

\* A scheduled backup under way owns the lease, and only those prune.
JobOK(b) ==
  /\ b \in Scheduled /\ pc[b] \notin {"idle", "done"} => job = b
  /\ pc[b] \in Retain => b \in Scheduled

\* Where the snapshot of a backup is while the backup works on it.
PlaceOK(b) ==
  /\ pc[b] \in {"idle", "inspect", "lock", "begin"} => place[b] = "nowhere"
  /\ pc[b] \in Staged => place[b] = "staging"
  /\ pc[b] = "protect" => Intact(b)

\* What is to be deleted has KeepLast newer snapshots to outlive it.
PruneOK(b) ==
  /\ prune[b] \subseteq Scheduled
  /\ pc[b] \in Pruning =>
       \A x \in prune[b] : Intact(x) => Cardinality(Store!NewerIn(Kept, x)) >= KeepLast
  /\ pc[b] = "delete" => Deletable(b)
  /\ pc[b] = "deleting" =>
       /\ prune[b] # {}
       /\ place[LeastOf(prune[b])] = "snapshots"
       /\ ~Intact(LeastOf(prune[b]))

StoreInv == \A b \in Backups : JobOK(b) /\ PlaceOK(b) /\ PruneOK(b)

SnapshotSame(x) ==
  place'[x] = place[x] /\ manifest'[x] = manifest[x] /\ archive'[x] = archive[x]

\* A step of one backup: what others have is left alone, its own snapshot is
\* not lost, and without a process there is no change at all.
Local(b) ==
  /\ \A c \in Backups \ {b} : pc'[c] = pc[c] /\ prune'[c] = prune[c] /\ SnapshotSame(c)
  /\ b \in Kept => b \in Kept'
  /\ pc[b] \in {"idle", "done"} => SnapshotSame(b)

\* A snapshot nobody touches stays as intact as it is.
LEMMA SameIntact ==
  ASSUME NEW x, SnapshotSame(x)
  PROVE  (Intact(x))' <=> Intact(x)
BY DEF SnapshotSame, Intact, Listed, Verifies, NoManifest

\* A step that leaves the repository alone is local if it neither protects
\* nor takes back.
LEMMA QuietIsLocal ==
  ASSUME TypeOK, NEW b \in Backups, UNCHANGED repositoryVars,
         \A c \in Backups \ {b} : pc'[c] = pc[c] /\ prune'[c] = prune[c],
         pc'[b] = "protect" => pc[b] = "protect"
  PROVE  Local(b)
<1>1. \A c \in Backups : SnapshotSame(c) BY DEF repositoryVars, SnapshotSame
<1>2. b \in Kept => b \in Kept' BY <1>1, SameIntact DEF Kept
<1>3. QED BY <1>1, <1>2 DEF Local

\* The end of a process is local.
LEMMA EndIsLocal ==
  ASSUME TypeOK, NEW b \in Backups, End(b), pc[b] \notin {"idle", "done"}
  PROVE  Local(b) /\ (PlaceOK(b))' /\ (PruneOK(b))'
<1>0. /\ pc \in [Backups -> PCs] /\ place \in [Backups -> {"nowhere", "staging", "snapshots"}]
      /\ DOMAIN manifest = Backups /\ DOMAIN archive = Backups /\ DOMAIN prune = Backups
  BY DEF TypeOK, CreateTypeOK, StoreTypeOK
<1>1. pc' = [pc EXCEPT ![b] = "done"] /\ prune' = [prune EXCEPT ![b] = {}] /\ place' = place
  BY DEF End, Goto, Set
<1>2. \A c \in Backups \ {b} : SnapshotSame(c)
  BY <1>0, <1>1 DEF End, Set, SnapshotSame
<1>3. place[b] # "staging" => SnapshotSame(b) BY <1>1 DEF End, SnapshotSame
<1>4. b \in Kept => b \in Kept'
  <2>1. ASSUME b \in Kept PROVE b \in Kept'
    <3>1. SnapshotSame(b) BY <2>1, <1>3 DEF Kept, Intact, Listed
    <3>2. QED BY <2>1, <3>1, <1>0, <1>1, SameIntact DEF Kept
  <2>2. QED BY <2>1
<1>5. pc'[b] = "done" /\ prune'[b] = {} BY <1>0, <1>1
<1>6. (PlaceOK(b))' BY <1>5 DEF PlaceOK, Staged
<1>7. (PruneOK(b))' BY <1>5 DEF PruneOK, Pruning
<1>8. Local(b) BY <1>0, <1>1, <1>2, <1>4 DEF Local
<1>9. QED BY <1>6, <1>7, <1>8

\* The steps of Create are local, and keep track of the stage.
LEMMA CreateIsLocal ==
  ASSUME TypeOK, NEW b \in Backups, PlaceOK(b), prune[b] \subseteq Scheduled,
         \/ Inspect(b) \/ LockGranted(b) \/ Begin(b) \/ NextService(b) \/ StopReturned(b)
         \/ StopWaiting(b) \/ CaptureBegins(b) \/ CaptureEnds(b) \/ CaptureFails(b)
         \/ Restart(b) \/ RestartReturned(b) \/ Seal(b) \/ Publish(b) \/ Protect(b) \/ Abort(b)
  PROVE  Local(b) /\ (PlaceOK(b))' /\ (PruneOK(b))'
<1> USE DEF PlaceOK, Staged
<1>0. /\ pc \in [Backups -> PCs] /\ place \in [Backups -> {"nowhere", "staging", "snapshots"}]
      /\ DOMAIN manifest = Backups /\ DOMAIN archive = Backups /\ DOMAIN prune = Backups
  BY DEF TypeOK, CreateTypeOK, StoreTypeOK
<1>q. ASSUME NEW label \in PCs \ {"idle", "inspect", "lock", "begin", "protect"},
             Goto(b, label), UNCHANGED <<prune, repositoryVars>>, label \notin Pruning,
             label \in Staged => pc[b] \in Staged
      PROVE  Local(b) /\ (PlaceOK(b))' /\ (PruneOK(b))'
  <2>1. pc'[b] = label /\ \A c \in Backups \ {b} : pc'[c] = pc[c] BY <1>0, <1>q DEF Goto
  <2>2. Local(b) BY <1>q, <2>1, QuietIsLocal
  <2>3. (PlaceOK(b))' BY <1>q, <2>1 DEF repositoryVars
  <2>4. (PruneOK(b))' BY <1>q, <2>1 DEF PruneOK, Pruning
  <2>5. QED BY <2>2, <2>3, <2>4
<1>f. ASSUME NEW outcome, Fail(b, outcome), UNCHANGED <<prune, repositoryVars>>
      PROVE  Local(b) /\ (PlaceOK(b))' /\ (PruneOK(b))'
  BY <1>f, <1>q DEF Fail, Pruning, PCs, Create
<1>s. ASSUME pc[b] \in Staged, UNCHANGED <<place, prune>>, pc'[b] \in Staged,
             \A c \in Backups \ {b} : pc'[c] = pc[c] /\ SnapshotSame(c)
      PROVE  Local(b) /\ (PlaceOK(b))' /\ (PruneOK(b))'
  <2>1. b \notin Kept BY <1>s DEF Kept, Intact, Listed
  <2>2. Local(b) BY <1>s, <2>1 DEF Local
  <2>3. QED BY <1>s, <2>2 DEF PruneOK, Pruning
<1>1. CASE Inspect(b)
  BY <1>0, <1>1, QuietIsLocal DEF Inspect, Goto, PruneOK, Pruning, repositoryVars
<1>2. CASE LockGranted(b)
  BY <1>0, <1>2, QuietIsLocal DEF LockGranted, Goto, PruneOK, Pruning, repositoryVars
<1>3. CASE Begin(b)
  <2>1. CASE Goto(b, "next") /\ place' = Set(place, b, "staging")
    <3>1. UNCHANGED <<prune, manifest, archive>> /\ pc[b] = "begin" BY <1>3 DEF Begin
    <3>2. \A c \in Backups \ {b} : pc'[c] = pc[c] /\ SnapshotSame(c)
      BY <1>0, <2>1, <3>1 DEF Goto, Set, SnapshotSame
    <3>3. b \notin Kept BY <3>1 DEF Kept, Intact, Listed
    <3>4. pc'[b] = "next" /\ place'[b] = "staging" BY <1>0, <2>1 DEF Goto, Set
    <3>5. Local(b) BY <3>1, <3>2, <3>3 DEF Local
    <3>6. QED BY <3>1, <3>4, <3>5 DEF PruneOK, Pruning
  <2>2. CASE Goto(b, "release") /\ UNCHANGED place
    BY <1>3, <1>q, <2>2 DEF Begin, Pruning, PCs, Create, repositoryVars
  <2>3. QED BY <1>3, <2>1, <2>2 DEF Begin
<1>4. CASE NextService(b)
  BY <1>4, <1>f, <1>q DEF NextService, Pruning, PCs, Create, repositoryVars
<1>5. CASE StopReturned(b)
  BY <1>5, <1>f, <1>q DEF StopReturned, Pruning, PCs, Create
<1>6. CASE StopWaiting(b)
  BY <1>6, <1>f DEF StopWaiting
<1>7. CASE CaptureBegins(b)
  BY <1>0, <1>7, QuietIsLocal DEF CaptureBegins, PruneOK, Pruning, repositoryVars
<1>8. CASE CaptureEnds(b)
  <2>1. pc[b] = "capture" /\ UNCHANGED <<prune, place, manifest>> BY <1>8 DEF CaptureEnds
  <2>2. pc'[b] \in Staged /\ \A c \in Backups \ {b} : pc'[c] = pc[c]
    BY <1>0, <1>8 DEF CaptureEnds, AfterCapture, Goto
  <2>3. \A c \in Backups \ {b} : archive'[c] = archive[c] BY <1>0, <1>8 DEF CaptureEnds
  <2>4. QED BY <1>s, <2>1, <2>2, <2>3 DEF SnapshotSame
<1>9. CASE CaptureFails(b)
  BY <1>9, <1>f, <1>q DEF CaptureFails, Pruning, PCs, Create
<1>10. CASE Restart(b)
  BY <1>10, <1>f, <1>q DEF Restart, Pruning, PCs, Create
<1>11. CASE RestartReturned(b)
  BY <1>11, <1>f, <1>q DEF RestartReturned, Pruning, PCs, Create
<1>12. CASE Seal(b)
  <2>1. CASE DiskFails(b) /\ UNCHANGED manifest
    BY <1>12, <1>f, <2>1 DEF Seal, DiskFails, repositoryVars
  <2>2. CASE Goto(b, "publish") /\ manifest' = Set(manifest, b, handled[b])
    <3>1. pc[b] = "next" /\ UNCHANGED <<prune, place, archive>> BY <1>12 DEF Seal
    <3>2. pc'[b] = "publish" /\ \A c \in Backups \ {b} : pc'[c] = pc[c] BY <1>0, <2>2 DEF Goto
    <3>3. \A c \in Backups \ {b} : SnapshotSame(c) BY <1>0, <2>2, <3>1 DEF Set, SnapshotSame
    <3>4. QED BY <1>s, <3>1, <3>2, <3>3
  <2>3. QED BY <1>12, <2>1, <2>2 DEF Seal
<1>13. CASE Publish(b)
  <2>1. pc[b] = "publish" /\ UNCHANGED <<prune, manifest, archive>> BY <1>13 DEF Publish
  <2>2. CASE Fail(b, "failed") /\ UNCHANGED place BY <1>f, <2>1, <2>2 DEF repositoryVars
  <2>3. CASE Verifies(b) /\ place' = Set(place, b, "snapshots") /\ Goto(b, "protect")
    <3>1. pc'[b] = "protect" /\ place'[b] = "snapshots" BY <1>0, <2>3 DEF Goto, Set
    <3>2. \A c \in Backups \ {b} : pc'[c] = pc[c] /\ SnapshotSame(c)
      BY <1>0, <2>1, <2>3 DEF Goto, Set, SnapshotSame
    <3>3. b \notin Kept BY <2>1 DEF Kept, Intact, Listed
    <3>4. Local(b) BY <2>1, <3>2, <3>3 DEF Local
    <3>5. (Verifies(b))' BY <2>1, <2>3 DEF Verifies, NoManifest
    <3>6. (Intact(b))' BY <3>1, <3>5 DEF Intact, Listed, Verifies
    <3>7. QED BY <2>1, <3>1, <3>4, <3>6 DEF PruneOK, Pruning
  <2>4. QED BY <1>13, <2>2, <2>3 DEF Publish, DiskFails
<1>14. CASE Protect(b)
  <2>1. pc[b] = "protect" /\ UNCHANGED <<prune, manifest, archive>> BY <1>14 DEF Protect
  <2>2. pc'[b] \in {"release", "abort"} /\ \A c \in Backups \ {b} : pc'[c] = pc[c]
    BY <1>0, <1>14 DEF Protect, DiskFails, Fail, Goto
  <2>3. \A c \in Backups \ {b} : SnapshotSame(c)
    BY <1>0, <1>14, <2>1 DEF Protect, Set, SnapshotSame
  <2>4. b \notin Kept BY <2>1 DEF Kept
  <2>5. Local(b) BY <2>1, <2>2, <2>3, <2>4 DEF Local
  <2>6. QED BY <2>1, <2>2, <2>5 DEF PruneOK, Pruning
<1>15. CASE Abort(b)
  <2>1. pc[b] = "abort" /\ UNCHANGED prune BY <1>15 DEF Abort
  <2>2. pc'[b] = "release" /\ \A c \in Backups \ {b} : pc'[c] = pc[c] BY <1>0, <1>15 DEF Abort, Goto
  <2>3. \A c \in Backups \ {b} : SnapshotSame(c)
    BY <1>0, <1>15 DEF Abort, Set, SnapshotSame, repositoryVars
  <2>4. place[b] # "staging" => SnapshotSame(b) BY <1>15 DEF Abort, SnapshotSame, repositoryVars
  <2>5. b \in Kept => b \in Kept'
    <3>1. ASSUME b \in Kept PROVE b \in Kept'
      <4>1. SnapshotSame(b) BY <2>4, <3>1 DEF Kept, Intact, Listed
      <4>2. QED BY <2>2, <3>1, <4>1, SameIntact DEF Kept
    <3>2. QED BY <3>1
  <2>6. Local(b) BY <2>1, <2>2, <2>3, <2>5 DEF Local
  <2>7. QED BY <2>1, <2>2, <2>6 DEF PruneOK, Pruning
<1>16. QED BY <1>1, <1>2, <1>3, <1>4, <1>5, <1>6, <1>7, <1>8, <1>9, <1>10, <1>11, <1>12,
              <1>13, <1>14, <1>15

\* Only a process that asked for the lease has it, and retention is for
\* scheduled backups: every step keeps to that.
LEMMA JobStep ==
  ASSUME TypeOK, \A c \in Backups : JobOK(c), [Next]_vars
  PROVE  \A c \in Backups : (JobOK(c))'
<1> USE DEF JobOK, Retain
<1>0. pc \in [Backups -> PCs] /\ Nobody \notin Backups
  BY BackupsAssumption DEF TypeOK, CreateTypeOK
<1>k. ASSUME UNCHANGED <<pc, job>> PROVE \A c \in Backups : (JobOK(c))' BY <1>k
<1>e. ASSUME NEW b \in Backups, End(b) PROVE \A c \in Backups : (JobOK(c))'
  BY <1>0, <1>e DEF End, Goto
<1>g. ASSUME NEW b \in Backups, NEW label, Goto(b, label), UNCHANGED job,
             pc[b] \notin {"idle", "done"}, label \in Retain => b \in Scheduled
      PROVE  \A c \in Backups : (JobOK(c))'
  BY <1>0, <1>g DEF Goto
<1>1. CASE UNCHANGED vars BY <1>1, <1>k DEF vars, lockVars
<1>2. ASSUME NEW b \in Backups, Controller(b) PROVE \A c \in Backups : (JobOK(c))'
  <2>1. CASE Inspect(b) BY <1>g, <2>1 DEF Inspect, lockVars
  <2>2. CASE NotStarted(b) BY <1>e, <2>2 DEF NotStarted
  <2>3. CASE LockGranted(b) BY <1>g, <2>3 DEF LockGranted
  <2>4. CASE Begin(b) BY <1>g, <2>4 DEF Begin, lockVars
  <2>5. CASE NextService(b) BY <1>g, <2>5 DEF NextService, Fail
  <2>6. CASE StopReturned(b) BY <1>g, <2>6 DEF StopReturned, Fail
  <2>7. CASE WaitExpires(b) BY <1>g, <2>7 DEF WaitExpires, StopWaiting, Fail, lockVars
  <2>8. CASE CaptureBegins(b) BY <1>k, <2>8 DEF CaptureBegins, lockVars
  <2>9. CASE CaptureEnds(b)
    BY <1>0, <2>9 DEF CaptureEnds, AfterCapture, Goto, lockVars
  <2>10. CASE CaptureFails(b) BY <1>g, <2>10 DEF CaptureFails, Fail, lockVars
  <2>11. CASE Restart(b) BY <1>g, <2>11 DEF Restart, Fail
  <2>12. CASE RestartReturned(b) BY <1>g, <2>12 DEF RestartReturned, Fail
  <2>13. CASE Seal(b) BY <1>g, <2>13 DEF Seal, DiskFails, Fail, lockVars
  <2>14. CASE Publish(b) BY <1>g, <2>14 DEF Publish, DiskFails, Fail, lockVars
  <2>15. CASE Protect(b) BY <1>g, <2>15 DEF Protect, DiskFails, Fail, lockVars
  <2>16. CASE Abort(b) BY <1>g, <2>16 DEF Abort, lockVars
  <2>17. CASE Release(b) BY <1>e, <1>g, <2>17 DEF Release
  <2>18. CASE PlanRetention(b) BY <1>e, <1>g, <2>18 DEF PlanRetention, lockVars
  <2>19. CASE PruneNext(b) BY <1>e, <1>g, <2>19 DEF PruneNext, lockVars
  <2>20. CASE DeleteBegins(b) BY <1>g, <2>20 DEF DeleteBegins, lockVars
  <2>21. CASE DeleteEnds(b) BY <1>e, <1>g, <2>21 DEF DeleteEnds, lockVars
  <2>22. QED BY <1>2, <2>1, <2>2, <2>3, <2>4, <2>5, <2>6, <2>7, <2>8, <2>9, <2>10, <2>11,
                <2>12, <2>13, <2>14, <2>15, <2>16, <2>17, <2>18, <2>19, <2>20, <2>21 DEF Controller
<1>3. ASSUME NEW b \in Backups, StartBackup(b) PROVE \A c \in Backups : (JobOK(c))'
  BY <1>0, <1>3 DEF StartBackup, Goto
<1>4. ASSUME NEW b \in Backups, ScriptRuns(b) \/ OrphanEnds(b) \/ Timeout(b) \/ LockLost(b)
      PROVE  \A c \in Backups : (JobOK(c))'
  BY <1>k, <1>4 DEF ScriptRuns, OrphanEnds, Timeout, LockLost
<1>5. ASSUME NEW b \in Backups, ConnectionLost(b) \/ Crash(b)
      PROVE  \A c \in Backups : (JobOK(c))'
  BY <1>e, <1>g, <1>5 DEF ConnectionLost, Crash, StopWaiting, Fail, lockVars
<1>6. ASSUME NEW s \in Services, OtherCommand(s) \/ ApplicationWrites(s)
      PROVE  \A c \in Backups : (JobOK(c))'
  BY <1>k, <1>6 DEF OtherCommand, ApplicationWrites, lockVars
<1>7. QED BY <1>1, <1>2, <1>3, <1>4, <1>5, <1>6, ServicesAssumption DEF Next, Environment

\* While one backup prunes, no other scheduled backup is under way.
LEMMA PrunerIsAlone ==
  ASSUME \A c \in Backups : JobOK(c), NEW b \in Backups, pc[b] \in Retain
  PROVE  \A x \in Scheduled \ {b} : pc[x] \in {"idle", "done"}
BY BackupsAssumption DEF JobOK, Retain

\* A plan stays good as long as its snapshots are left alone and no kept
\* snapshot is lost.
LEMMA PlanHolds ==
  ASSUME TypeOK, NEW c \in Backups, PruneOK(c), pc'[c] = pc[c], prune'[c] = prune[c],
         \A x \in prune[c] : SnapshotSame(x), Kept \subseteq Kept'
  PROVE  (PruneOK(c))'
<1>1. \A x \in prune[c] : (Intact(x))' <=> Intact(x) BY SameIntact
<1>2. ASSUME NEW x \in prune[c]
      PROVE  Cardinality(Store!NewerIn(Kept, x)) <= Cardinality(Store!NewerIn(Kept', x))
  <2>1. Store!NewerIn(Kept, x) \subseteq Store!NewerIn(Kept', x) BY DEF Store!NewerIn
  <2>2. Store!NewerIn(Kept, x) \subseteq Backups /\ Store!NewerIn(Kept', x) \subseteq Backups
    BY DEF Store!NewerIn, Kept
  <2>3. IsFiniteSet(Store!NewerIn(Kept', x)) BY <2>2, BackupsAssumption, FS_Subset
  <2>4. QED BY <2>1, <2>3, FS_Subset
<1>3. \A x \in prune[c] : /\ Cardinality(Store!NewerIn(Kept, x)) \in Nat
                          /\ Cardinality(Store!NewerIn(Kept', x)) \in Nat
  <2>1. \A x : Store!NewerIn(Kept, x) \subseteq Backups /\ Store!NewerIn(Kept', x) \subseteq Backups
    BY DEF Store!NewerIn, Kept
  <2>2. QED BY <2>1, BackupsAssumption, FS_Subset, FS_CardinalityType
<1>4. ASSUME prune[c] # {}
      PROVE  \E x \in prune[c] : LeastOf(prune[c]) = x /\ LeastOf(prune'[c]) = x
  <2>1. prune[c] \in SUBSET Nat BY BackupsAssumption DEF TypeOK, CreateTypeOK
  <2>2. LeastOf(prune[c]) \in prune[c] BY <1>4, <2>1, LeastIsLeast
  <2>3. QED BY <2>2
<1>5. prune'[c] \subseteq Scheduled BY DEF PruneOK
<1>6. pc'[c] \in Pruning =>
        \A x \in prune'[c] : (Intact(x))' => Cardinality(Store!NewerIn(Kept', x)) >= KeepLast
  BY <1>1, <1>2, <1>3, BackupsAssumption DEF PruneOK
<1>7. pc'[c] = "delete" => (Deletable(c))'
  <2>1. SUFFICES ASSUME pc[c] = "delete" PROVE (Deletable(c))' OBVIOUS
  <2>2. prune[c] # {} /\ Intact(LeastOf(prune[c])) BY <2>1 DEF PruneOK, Deletable
  <2>3. PICK x \in prune[c] : LeastOf(prune[c]) = x /\ LeastOf(prune'[c]) = x BY <1>4, <2>2
  <2>4. (Intact(x))' BY <1>1, <2>2, <2>3
  <2>5. (Intact(LeastOf(prune[c])))' BY <2>3, <2>4 DEF Intact, Listed, Verifies
  <2>6. QED BY <2>2, <2>5 DEF Deletable
<1>8. pc'[c] = "deleting" =>
        /\ prune'[c] # {}
        /\ place'[LeastOf(prune'[c])] = "snapshots"
        /\ ~(Intact(LeastOf(prune[c])))'
  <2>1. SUFFICES ASSUME pc[c] = "deleting"
                 PROVE  /\ prune'[c] # {}
                        /\ place'[LeastOf(prune'[c])] = "snapshots"
                        /\ ~(Intact(LeastOf(prune[c])))'
    OBVIOUS
  <2>2. /\ prune[c] # {} /\ place[LeastOf(prune[c])] = "snapshots"
        /\ ~Intact(LeastOf(prune[c]))
    BY <2>1 DEF PruneOK
  <2>3. PICK x \in prune[c] : LeastOf(prune[c]) = x /\ LeastOf(prune'[c]) = x BY <1>4, <2>2
  <2>4. ~(Intact(x))' BY <1>1, <2>2, <2>3
  <2>5. ~(Intact(LeastOf(prune[c])))' BY <2>3, <2>4 DEF Intact, Listed, Verifies
  <2>6. place'[x] = "snapshots" BY <2>2, <2>3 DEF SnapshotSame
  <2>7. QED BY <2>2, <2>3, <2>5, <2>6
<1>9. QED BY <1>5, <1>6, <1>7, <1>8 DEF PruneOK

\* A local step that keeps its own backup in order keeps all in order.
LEMMA LocalStep ==
  ASSUME TypeOK, StoreInv, NEW b \in Backups, Local(b), (PlaceOK(b))', (PruneOK(b))',
         \A c \in Backups : (JobOK(c))'
  PROVE  StoreInv'
<1>1. Kept \subseteq Kept'
  <2>1. ASSUME NEW c \in Kept, c # b PROVE c \in Kept'
    BY <2>1, SameIntact DEF Local, Kept
  <2>2. QED BY <2>1 DEF Local
<1>2. ASSUME NEW c \in Backups \ {b} PROVE (PlaceOK(c))' /\ (PruneOK(c))'
  <2>1. pc'[c] = pc[c] /\ prune'[c] = prune[c] /\ SnapshotSame(c) BY DEF Local
  <2>2. (PlaceOK(c))' BY <2>1, SameIntact DEF StoreInv, PlaceOK, SnapshotSame
  <2>3. CASE pc[c] \in Pruning
    <3>1. ASSUME NEW x \in prune[c] PROVE SnapshotSame(x)
      <4>1. x \in Scheduled /\ x \in Backups
        BY BackupsAssumption DEF StoreInv, PruneOK
      <4>2. CASE x # b BY <4>1, <4>2 DEF Local
      <4>3. CASE x = b
        <5>1. pc[b] \in {"idle", "done"}
          BY <2>3, <4>1, <4>3, PrunerIsAlone DEF StoreInv, Pruning, Retain
        <5>2. QED BY <4>3, <5>1 DEF Local
      <4>4. QED BY <4>2, <4>3
    <3>2. PruneOK(c) BY DEF StoreInv
    <3>3. QED BY <1>1, <2>1, <2>2, <3>1, <3>2, PlanHolds
  <2>4. CASE pc[c] \notin Pruning
    <3>1. prune'[c] \subseteq Scheduled /\ pc'[c] \notin Pruning BY <2>1, <2>4 DEF StoreInv, PruneOK
    <3>2. QED BY <2>2, <3>1 DEF PruneOK, Pruning
  <2>5. QED BY <2>3, <2>4
<1>3. QED BY <1>2 DEF StoreInv

\* Steps that concern no snapshot.
LEMMA ElsewhereStep ==
  ASSUME TypeOK, StoreInv, UNCHANGED <<pc, prune, repositoryVars>>,
         \A c \in Backups : (JobOK(c))'
  PROVE  StoreInv' /\ Kept' = Kept
<1>1. \A c \in Backups : SnapshotSame(c) BY DEF repositoryVars, SnapshotSame
<1>2. Kept' = Kept BY <1>1, SameIntact DEF Kept
<1>3. ASSUME NEW c \in Backups PROVE (PlaceOK(c))' /\ (PruneOK(c))'
  <2>1. (PlaceOK(c))' BY <1>1, SameIntact DEF StoreInv, PlaceOK, SnapshotSame
  <2>2. prune[c] \subseteq Backups BY DEF TypeOK, CreateTypeOK
  <2>3. (PruneOK(c))' BY <1>1, <1>2, <2>2, PlanHolds DEF StoreInv
  <2>4. QED BY <2>1, <2>3
<1>4. QED BY <1>2, <1>3 DEF StoreInv

\* The plan is made of what is kept, because no other scheduled backup is
\* about to take its snapshot back.
LEMMA PlanIsGood ==
  ASSUME TypeOK, StoreInv, NEW b \in Backups, pc[b] = "retain"
  PROVE  \A x \in Excess : Cardinality(Store!NewerIn(Kept, x)) >= KeepLast
<1>1. \A x \in Scheduled : x \in Backups /\ pc[x] # "protect"
  BY PrunerIsAlone, BackupsAssumption DEF StoreInv, Retain
<1>2. ASSUME NEW x PROVE NewerIn(Candidates, x) = Store!NewerIn(Kept, x)
  BY <1>1 DEF NewerIn, Candidates, Store!NewerIn, Kept
<1>3. QED BY <1>2 DEF Excess

\* The snapshot next in a plan.
LEMMA NextVictim ==
  ASSUME TypeOK, StoreInv, NEW b \in Backups, prune[b] # {}, pc[b] \in Retain
  PROVE  \E x \in prune[b] :
           /\ x = LeastOf(prune[b]) /\ \A y \in prune[b] : x <= y
           /\ x \in Backups /\ x \in Scheduled /\ x \in Nat
           /\ x = b \/ pc[x] \in {"idle", "done"}
<1>1. prune[b] \in SUBSET Nat BY BackupsAssumption DEF TypeOK, CreateTypeOK
<1>2. PICK x \in prune[b] : x = LeastOf(prune[b]) /\ \A y \in prune[b] : x <= y
  BY <1>1, LeastIsLeast
<1>3. x \in Scheduled /\ x \in Backups BY BackupsAssumption DEF StoreInv, PruneOK
<1>4. x = b \/ pc[x] \in {"idle", "done"} BY <1>3, PrunerIsAlone DEF StoreInv
<1>5. QED BY <1>1, <1>2, <1>3, <1>4

\* The abstract store counts as FiniteSets does.
LEMMA SameCardinality ==
  ASSUME NEW S
  PROVE  Store!Cardinality(S) = Cardinality(S)
BY DEF Store!Cardinality, Cardinality

\* When the files of a snapshot start to go, exactly that one is no longer
\* kept, and KeepLast newer ones are.
LEMMA DeleteBeginsStep ==
  ASSUME TypeOK, StoreInv, NEW b \in Backups, DeleteBegins(b),
         \A c \in Backups : (JobOK(c))'
  PROVE  StoreInv' /\ \E x \in Backups : Store!Prune(x)
<1>0. /\ pc \in [Backups -> PCs] /\ manifest \in [Backups -> SUBSET Services]
      /\ DOMAIN archive = Backups
  BY DEF TypeOK, CreateTypeOK, StoreTypeOK
<1>1. /\ pc[b] = "delete" /\ pc' = [pc EXCEPT ![b] = "deleting"]
      /\ UNCHANGED <<prune, place>>
  BY DEF DeleteBegins, Goto
<1>2. prune[b] # {} /\ Intact(LeastOf(prune[b])) BY <1>1 DEF StoreInv, PruneOK, Deletable
<1>3. PICK x \in prune[b] :
        /\ x = LeastOf(prune[b]) /\ \A y \in prune[b] : x <= y
        /\ x \in Backups /\ x \in Scheduled /\ x \in Nat
        /\ x = b \/ pc[x] \in {"idle", "done"}
  BY <1>1, <1>2, NextVictim DEF Retain
<1>4. Intact(x) BY <1>2, <1>3
<1>5. \A c \in Backups \ {x} : SnapshotSame(c)
  BY <1>0, <1>1, <1>3 DEF DeleteBegins, Set, SnapshotSame
<1>6. ~(Intact(x))'
  <2>1. CASE manifest' = Set(manifest, x, NoManifest)
    BY <1>0, <1>3, <2>1 DEF Set, Intact, Listed
  <2>2. CASE archive' = Set(archive, x, NoArchives) /\ UNCHANGED manifest
    <3>1. PICK s \in manifest[x] : s \in Services
      BY <1>0, <1>3, <1>4 DEF Intact, Listed, NoManifest
    <3>2. PICK r \in Data[s] : r \in Resources BY <3>1, ServicesAssumption DEF Resources
    <3>3. archive'[x][s][r] = Nothing BY <1>0, <1>3, <2>2, <3>1, <3>2 DEF Set, NoArchives
    <3>4. ~(Verifies(x))' BY <2>2, <3>1, <3>2, <3>3 DEF Verifies
    <3>5. QED BY <3>4 DEF Intact, Verifies
  <2>3. QED BY <1>3, <2>1, <2>2 DEF DeleteBegins
<1>7. \A c \in Backups : pc[c] = "protect" <=> pc'[c] = "protect" BY <1>0, <1>1
<1>8. x \in Kept /\ Kept' = Kept \ {x}
  BY <1>1, <1>3, <1>4, <1>5, <1>6, <1>7, SameIntact DEF Kept
<1>9. Cardinality(Store!NewerIn(Kept, x)) >= KeepLast
  BY <1>1, <1>3, <1>4 DEF StoreInv, PruneOK, Pruning
<1>10. Store!Prune(x)
  <2>1. Store!Cardinality(Store!NewerIn(Kept, x)) >= KeepLast BY <1>9, SameCardinality
  <2>2. QED BY <1>3, <1>8, <2>1 DEF Store!Prune, Kept
<1>11. ASSUME NEW c \in Backups PROVE (PlaceOK(c))'
  <2>1. CASE c = b BY <1>0, <1>1, <2>1 DEF PlaceOK, Staged
  <2>2. CASE c # b
    <3>1. pc'[c] = pc[c] /\ place'[c] = place[c] BY <1>0, <1>1, <2>2
    <3>2. pc[c] = "protect" => (Intact(c))'
      BY <1>3, <1>5, <2>2, SameIntact DEF StoreInv, PlaceOK
    <3>3. QED BY <3>1, <3>2 DEF StoreInv, PlaceOK
  <2>3. QED BY <2>1, <2>2
<1>12. ASSUME NEW c \in Backups PROVE (PruneOK(c))'
  <2>1. prune'[c] \subseteq Scheduled BY <1>1 DEF StoreInv, PruneOK
  <2>2. CASE c = b
    <3>1. ASSUME NEW y \in prune[b], (Intact(y))'
          PROVE  Cardinality(Store!NewerIn(Kept', y)) >= KeepLast
      <4>1. y # x BY <3>1, <1>6
      <4>2. y \in Backups /\ y \in Nat /\ x <= y
        BY <1>3, BackupsAssumption DEF TypeOK, CreateTypeOK
      <4>3. Intact(y) BY <1>5, <3>1, <4>1, <4>2, SameIntact
      <4>4. Store!NewerIn(Kept', y) = Store!NewerIn(Kept, y)
        BY <1>3, <1>8, <4>1, <4>2 DEF Store!NewerIn
      <4>5. QED BY <1>1, <4>3, <4>4 DEF StoreInv, PruneOK, Pruning
    <3>2. place'[x] = "snapshots" BY <1>1, <1>4 DEF Intact, Listed
    <3>3. ~(Intact(LeastOf(prune[b])))' BY <1>1, <1>3, <1>6 DEF Intact, Listed, Verifies
    <3>4. pc'[b] = "deleting" BY <1>0, <1>1
    <3>5. QED BY <1>1, <1>2, <1>3, <2>1, <2>2, <3>1, <3>2, <3>3, <3>4 DEF PruneOK
  <2>3. CASE c # b
    <3>1. pc'[c] = pc[c] BY <1>0, <1>1, <2>3
    <3>2. pc[c] \notin Pruning
      BY <1>1, <2>3, PrunerIsAlone DEF StoreInv, JobOK, Pruning, Retain
    <3>3. QED BY <2>1, <3>1, <3>2 DEF PruneOK, Pruning
  <2>4. QED BY <2>2, <2>3
<1>13. QED BY <1>3, <1>10, <1>11, <1>12 DEF StoreInv

\* When they are all gone, nothing that was kept has changed.
LEMMA DeleteEndsStep ==
  ASSUME TypeOK, StoreInv, NEW b \in Backups, pc[b] = "deleting", Goto(b, "prune"),
         place' = Set(place, LeastOf(prune[b]), "nowhere"),
         manifest' = Set(manifest, LeastOf(prune[b]), NoManifest),
         archive' = Set(archive, LeastOf(prune[b]), NoArchives),
         prune' = Set(prune, b, prune[b] \ {LeastOf(prune[b])}),
         \A c \in Backups : (JobOK(c))'
  PROVE  StoreInv' /\ Kept' = Kept
<1>0. /\ pc \in [Backups -> PCs] /\ place \in [Backups -> {"nowhere", "staging", "snapshots"}]
      /\ DOMAIN manifest = Backups /\ DOMAIN archive = Backups /\ DOMAIN prune = Backups
  BY DEF TypeOK, CreateTypeOK, StoreTypeOK
<1>1. /\ prune[b] # {} /\ place[LeastOf(prune[b])] = "snapshots"
      /\ ~Intact(LeastOf(prune[b]))
  BY DEF StoreInv, PruneOK
<1>2. PICK x \in prune[b] :
        /\ x = LeastOf(prune[b]) /\ \A y \in prune[b] : x <= y
        /\ x \in Backups /\ x \in Scheduled /\ x \in Nat
        /\ x = b \/ pc[x] \in {"idle", "done"}
  BY <1>1, NextVictim DEF Retain
<1>3. \A c \in Backups \ {x} : SnapshotSame(c) BY <1>0, <1>2 DEF Set, SnapshotSame
<1>4. place'[x] = "nowhere" BY <1>0, <1>2 DEF Set
<1>5. ~Intact(x) /\ ~(Intact(x))' BY <1>1, <1>2, <1>4 DEF Intact, Listed
<1>6. \A c \in Backups : pc[c] = "protect" <=> pc'[c] = "protect" BY <1>0 DEF Goto
<1>7. Kept' = Kept BY <1>3, <1>5, <1>6, SameIntact DEF Kept
<1>8. ASSUME NEW c \in Backups PROVE (PlaceOK(c))'
  <2>1. CASE c = b BY <1>0, <2>1 DEF PlaceOK, Staged, Goto
  <2>2. CASE c # b /\ c = x
    BY <1>0, <1>2, <1>4, <2>2 DEF PlaceOK, Staged, Goto
  <2>3. CASE c # b /\ c # x
    <3>1. pc'[c] = pc[c] /\ SnapshotSame(c) BY <1>0, <1>3, <2>3 DEF Goto
    <3>2. QED BY <3>1, SameIntact DEF StoreInv, PlaceOK, SnapshotSame
  <2>4. QED BY <2>1, <2>2, <2>3
<1>9. ASSUME NEW c \in Backups PROVE (PruneOK(c))'
  <2>1. CASE c = b
    <3>1. prune'[b] = prune[b] \ {x} /\ pc'[b] = "prune" BY <1>0, <1>2 DEF Goto, Set
    <3>2. prune'[b] \subseteq Scheduled BY <3>1 DEF StoreInv, PruneOK
    <3>3. ASSUME NEW y \in prune[b] \ {x}, (Intact(y))'
          PROVE  Cardinality(Store!NewerIn(Kept', y)) >= KeepLast
      <4>1. y \in Backups BY DEF TypeOK, CreateTypeOK
      <4>2. Intact(y) BY <1>3, <3>3, <4>1, SameIntact
      <4>3. Cardinality(Store!NewerIn(Kept, y)) >= KeepLast
        BY <4>2 DEF StoreInv, PruneOK, Pruning
      <4>4. QED BY <1>7, <4>3
    <3>4. QED BY <2>1, <3>1, <3>2, <3>3 DEF PruneOK
  <2>2. CASE c # b
    <3>1. pc'[c] = pc[c] /\ prune'[c] = prune[c] BY <1>0, <2>2 DEF Goto, Set
    <3>2. pc[c] \notin Pruning
      BY <2>2, PrunerIsAlone DEF StoreInv, JobOK, Pruning, Retain
    <3>3. prune[c] \subseteq Scheduled BY DEF StoreInv, PruneOK
    <3>4. QED BY <3>1, <3>2, <3>3 DEF PruneOK, Pruning
  <2>3. QED BY <2>1, <2>2
<1>10. QED BY <1>7, <1>8, <1>9 DEF StoreInv

\* A local step maps to a publication or to nothing.
LEMMA LocalSimulates ==
  ASSUME NEW b \in Backups, Local(b)
  PROVE  Kept' = Kept \/ Store!Publish(b)
<1>1. \A c \in Backups \ {b} : c \in Kept' <=> c \in Kept
  BY SameIntact DEF Local, Kept
<1>2. Kept \subseteq Backups /\ Kept' \subseteq Backups BY DEF Kept
<1>3. b \in Kept => Kept' = Kept BY <1>1, <1>2 DEF Local
<1>4. b \notin Kept => Kept' = Kept \/ Kept' = Kept \cup {b} BY <1>1, <1>2
<1>5. b \notin Kept /\ Kept' = Kept \cup {b} => Store!Publish(b) BY DEF Store!Publish, Kept
<1>6. QED BY <1>3, <1>4, <1>5

\* Every step keeps the invariant and maps to a step of the store or none.
LEMMA StoreStep ==
  TypeOK /\ StoreInv /\ [Next]_vars
    => StoreInv' /\ (Kept' = Kept \/ \E x \in Backups : Store!Publish(x) \/ Store!Prune(x))
<1> DEFINE Simulates == Kept' = Kept \/ \E x \in Backups : Store!Publish(x) \/ Store!Prune(x)
<1> SUFFICES ASSUME TypeOK, StoreInv, [Next]_vars PROVE StoreInv' /\ Simulates OBVIOUS
<1>j. \A c \in Backups : (JobOK(c))' BY JobStep DEF StoreInv
<1>0. /\ pc \in [Backups -> PCs] /\ DOMAIN prune = Backups
      /\ \A b \in Backups : PlaceOK(b) /\ PruneOK(b) /\ prune[b] \subseteq Scheduled
  BY DEF TypeOK, CreateTypeOK, StoreInv, PruneOK
<1>k. ASSUME UNCHANGED <<pc, prune, repositoryVars>> PROVE StoreInv' /\ Simulates
  BY <1>j, <1>k, ElsewhereStep
<1>l. ASSUME NEW b \in Backups, Local(b), (PlaceOK(b))', (PruneOK(b))'
      PROVE  StoreInv' /\ Simulates
  BY <1>j, <1>l, LocalStep, LocalSimulates
<1>e. ASSUME NEW b \in Backups, End(b), pc[b] \notin {"idle", "done"}
      PROVE  StoreInv' /\ Simulates
  BY <1>e, <1>l, EndIsLocal
<1>q. ASSUME NEW b \in Backups, NEW label, Goto(b, label), UNCHANGED repositoryVars,
             \A c \in Backups \ {b} : prune'[c] = prune[c],
             label # "protect", (PlaceOK(b))', (PruneOK(b))'
      PROVE  StoreInv' /\ Simulates
  <2>1. pc'[b] = label /\ \A c \in Backups \ {b} : pc'[c] = pc[c] BY <1>0, <1>q DEF Goto
  <2>2. Local(b) BY <1>q, <2>1, QuietIsLocal
  <2>3. QED BY <1>l, <1>q, <2>2
<1> HIDE DEF Simulates
<1>1. CASE UNCHANGED vars BY <1>k, <1>1 DEF vars
<1>2. ASSUME NEW b \in Backups, Controller(b) PROVE StoreInv' /\ Simulates
  <2>1. CASE Inspect(b) \/ LockGranted(b) \/ Begin(b) \/ NextService(b) \/ StopReturned(b)
    BY <1>0, <1>l, <2>1, CreateIsLocal
  <2>2. CASE WaitExpires(b) BY <1>0, <1>l, <2>2, CreateIsLocal DEF WaitExpires
  <2>3. CASE CaptureBegins(b) \/ CaptureEnds(b) \/ CaptureFails(b) \/ Restart(b) \/ RestartReturned(b)
    BY <1>0, <1>l, <2>3, CreateIsLocal
  <2>4. CASE Seal(b) \/ Publish(b) \/ Protect(b) \/ Abort(b)
    BY <1>0, <1>l, <2>4, CreateIsLocal
  <2>5. CASE NotStarted(b) BY <1>e, <2>5 DEF NotStarted
  <2>6. CASE Release(b)
    <3>1. CASE End(b) BY <1>e, <2>6, <3>1 DEF Release
    <3>2. CASE Goto(b, "retain") /\ UNCHANGED <<prune, repositoryVars>>
      <4>1. pc'[b] = "retain" BY <1>0, <3>2 DEF Goto
      <4>2. (PlaceOK(b))' BY <4>1 DEF PlaceOK, Staged
      <4>3. (PruneOK(b))' BY <1>0, <3>2, <4>1 DEF PruneOK, Pruning
      <4>4. QED BY <1>q, <3>2, <4>2, <4>3
    <3>3. QED BY <2>6, <3>1, <3>2 DEF Release
  <2>7. CASE PlanRetention(b)
    <3>1. CASE End(b) BY <1>e, <2>7, <3>1 DEF PlanRetention
    <3>2. CASE prune' = Set(prune, b, Excess) /\ Goto(b, "prune") /\ UNCHANGED repositoryVars
      <4>1. pc[b] = "retain" BY <2>7 DEF PlanRetention
      <4>2. pc'[b] = "prune" /\ \A c \in Backups \ {b} : pc'[c] = pc[c]
        BY <1>0, <3>2 DEF Goto
      <4>3. prune'[b] = Excess /\ \A c \in Backups \ {b} : prune'[c] = prune[c]
        BY <1>0, <3>2 DEF Set
      <4>4. \A c \in Backups : SnapshotSame(c) BY <3>2 DEF repositoryVars, SnapshotSame
      <4>5. Kept' = Kept BY <4>1, <4>2, <4>4, SameIntact DEF Kept
      <4>6. (PlaceOK(b))' BY <4>2 DEF PlaceOK, Staged
      <4>7. \A x \in Excess : Cardinality(Store!NewerIn(Kept', x)) >= KeepLast
        BY <4>1, <4>5, PlanIsGood
      <4>8. Excess \subseteq Scheduled BY DEF Excess, Candidates
      <4>9. (PruneOK(b))' BY <4>2, <4>3, <4>7, <4>8 DEF PruneOK
      <4>10. QED BY <1>q, <3>2, <4>3, <4>6, <4>9
    <3>3. QED BY <2>7, <3>1, <3>2 DEF PlanRetention
  <2>8. CASE PruneNext(b)
    <3>1. CASE End(b) BY <1>e, <2>8, <3>1 DEF PruneNext
    <3>2. CASE Deletable(b) /\ Goto(b, "delete") /\ UNCHANGED <<prune, repositoryVars>>
      <4>1. pc[b] = "prune" BY <2>8 DEF PruneNext
      <4>2. pc'[b] = "delete" /\ \A c \in Backups \ {b} : pc'[c] = pc[c]
        BY <1>0, <3>2 DEF Goto
      <4>3. \A c \in Backups : SnapshotSame(c) BY <3>2 DEF repositoryVars, SnapshotSame
      <4>4. Kept' = Kept BY <4>1, <4>2, <4>3, SameIntact DEF Kept
      <4>5. (PlaceOK(b))' BY <4>2 DEF PlaceOK, Staged
      <4>6. \A x \in prune[b] : (Intact(x))' <=> Intact(x)
        BY <4>3, SameIntact DEF TypeOK, CreateTypeOK
      <4>7. \A x \in prune[b] : Intact(x) => Cardinality(Store!NewerIn(Kept, x)) >= KeepLast
        BY <1>0, <4>1 DEF PruneOK, Pruning
      <4>8. (Deletable(b))'
        BY <3>2 DEF Deletable, Intact, Listed, Verifies, repositoryVars, NoManifest
      <4>9. (PruneOK(b))' BY <1>0, <3>2, <4>2, <4>4, <4>6, <4>7, <4>8 DEF PruneOK
      <4>10. QED BY <1>q, <3>2, <4>5, <4>9
    <3>3. QED BY <2>8, <3>1, <3>2 DEF PruneNext
  <2>9. CASE DeleteBegins(b) BY <1>j, <2>9, DeleteBeginsStep DEF Simulates
  <2>10. CASE DeleteEnds(b)
    <3>1. CASE End(b) BY <1>e, <2>10, <3>1 DEF DeleteEnds
    <3>2. CASE ~End(b)
      <4>1. /\ pc[b] = "deleting" /\ Goto(b, "prune")
            /\ place' = Set(place, LeastOf(prune[b]), "nowhere")
            /\ manifest' = Set(manifest, LeastOf(prune[b]), NoManifest)
            /\ archive' = Set(archive, LeastOf(prune[b]), NoArchives)
            /\ prune' = Set(prune, b, prune[b] \ {LeastOf(prune[b])})
        BY <2>10, <3>2 DEF DeleteEnds
      <4>2. QED BY <1>j, <4>1, DeleteEndsStep DEF Simulates
    <3>3. QED BY <3>1, <3>2
  <2>11. QED BY <1>2, <2>1, <2>2, <2>3, <2>4, <2>5, <2>6, <2>7, <2>8, <2>9, <2>10 DEF Controller
<1>3. ASSUME NEW b \in Backups, StartBackup(b) PROVE StoreInv' /\ Simulates
  <2>1. pc[b] = "idle" /\ Goto(b, "inspect") /\ UNCHANGED <<prune, repositoryVars>>
    BY <1>3 DEF StartBackup
  <2>2. pc'[b] = "inspect" BY <1>0, <2>1 DEF Goto
  <2>3. (PlaceOK(b))' BY <1>0, <2>1, <2>2 DEF PlaceOK, Staged, repositoryVars
  <2>4. (PruneOK(b))' BY <1>0, <2>1, <2>2 DEF PruneOK, Pruning
  <2>5. QED BY <1>q, <2>1, <2>3, <2>4
<1>4. ASSUME NEW b \in Backups, ScriptRuns(b) \/ OrphanEnds(b) \/ Timeout(b) \/ LockLost(b)
      PROVE  StoreInv' /\ Simulates
  BY <1>k, <1>4 DEF ScriptRuns, OrphanEnds, Timeout, LockLost
<1>5. ASSUME NEW b \in Backups, ConnectionLost(b) PROVE StoreInv' /\ Simulates
  BY <1>0, <1>l, <1>5, CreateIsLocal DEF ConnectionLost
<1>6. ASSUME NEW b \in Backups, Crash(b) PROVE StoreInv' /\ Simulates
  BY <1>e, <1>6 DEF Crash, Ended
<1>7. ASSUME NEW s \in Services, OtherCommand(s) \/ ApplicationWrites(s)
      PROVE  StoreInv' /\ Simulates
  BY <1>k, <1>7 DEF OtherCommand, ApplicationWrites
<1>8. QED BY <1>1, <1>2, <1>3, <1>4, <1>5, <1>6, <1>7, ServicesAssumption DEF Next, Environment

\* The repository implements the store: whatever fails, a snapshot appears
\* whole, and a managed one goes away only while KeepLast newer ones remain.
THEOREM StoreImplemented == Spec => ImplementsStore
<1>1. Init => StoreInv
  <2>1. SUFFICES ASSUME Init PROVE StoreInv OBVIOUS
  <2>2. \A b \in Backups : pc[b] \in {"idle", "done"} /\ prune[b] = {}
                            /\ (pc[b] = "idle" => place[b] = "nowhere")
    BY <2>1 DEF Init
  <2>3. QED BY <2>2 DEF StoreInv, JobOK, PlaceOK, PruneOK, Retain, Staged, Pruning
<1>2. Init => Store!StoreInit BY DEF Store!StoreInit
<1>3. TypeOK /\ StoreInv /\ [Next]_vars => StoreInv' BY StoreStep
<1>4. TypeOK /\ StoreInv /\ [Next]_vars
        => [Store!StoreNext]_{b \in Backups : Intact(b) /\ pc[b] # "protect"}
  BY StoreStep DEF Kept, Store!StoreNext
<1>5. QED BY <1>1, <1>2, <1>3, <1>4, TypeCorrect, PTL
        DEF Spec, ImplementsStore, Store!StoreSpec

=============================================================================
