---------------------------- MODULE CaptureProofs ----------------------------
(* Theorems about what backups capture and show and how they leave the       *)
(* services, for any backups and faults.                                     *)
EXTENDS BackupProofs

-----------------------------------------------------------------------------
(* What `backup list` shows. *)

\* One of the snapshots ListedIsComplete is about.
ShownOK(b) ==
  Listed(b) => manifest[b] = Request[b] /\ (Verifies(b) \/ archive[b] = NoArchives)

\* What Create has gathered: only what was asked for, and all of it once sealed.
GatheredOK(b) ==
  /\ handled[b] \subseteq Request[b]
  /\ pc[b] = "publish" => manifest[b] \in {Request[b], NoManifest}

ListInv == \A b \in Backups : ShownOK(b) /\ GatheredOK(b)

\* What may happen to a snapshot but for its publication.
Withers(c) ==
  \/ SnapshotSame(c)
  \/ ~(Listed(c))' /\ manifest'[c] \in {manifest[c], NoManifest}
  \/ place'[c] = place[c] /\ manifest'[c] = manifest[c] /\ archive'[c] = NoArchives

\* The process of a snapshot is not about to publish unless it was.
NotSealed(c) == handled'[c] \subseteq Request[c] /\ (pc'[c] = "publish" => pc[c] = "publish")

\* A snapshot that withers shows no less than all, then nothing.
LEMMA WitheringStep ==
  ASSUME NEW c, ShownOK(c), GatheredOK(c), Withers(c), NotSealed(c)
  PROVE  (ShownOK(c))' /\ (GatheredOK(c))'
<1>1. manifest'[c] \in {manifest[c], NoManifest} BY DEF Withers, SnapshotSame
<1>2. (GatheredOK(c))' BY <1>1 DEF GatheredOK, NotSealed, NoManifest
<1>3. (ShownOK(c))'
  <2>1. CASE SnapshotSame(c)
    BY <2>1 DEF ShownOK, SnapshotSame, Listed, Verifies, NoManifest, NoArchives
  <2>2. CASE ~(Listed(c))' BY <2>2 DEF ShownOK
  <2>3. CASE place'[c] = place[c] /\ manifest'[c] = manifest[c] /\ archive'[c] = NoArchives
    BY <2>3 DEF ShownOK, Listed, NoManifest, NoArchives
  <2>4. QED BY <2>1, <2>2, <2>3 DEF Withers
<1>4. QED BY <1>2, <1>3

\* The service at hand was asked for.
LEMMA CurrentIsAskedFor ==
  ASSUME TypeOK, AtService, NEW b \in Backups,
         pc[b] \in {"stopping", "capture", "restart", "restarting"}
  PROVE  Current(b) \in Request[b]
BY CurrentType DEF AtService

\* Every step keeps that.
LEMMA ListStep == TypeOK /\ AtService /\ StoreInv /\ ListInv /\ [Next]_vars => ListInv'
<1> SUFFICES ASSUME TypeOK, AtService, StoreInv, ListInv, [Next]_vars PROVE ListInv' OBVIOUS
<1>0. /\ pc \in [Backups -> PCs] /\ handled \in [Backups -> SUBSET Services]
      /\ place \in [Backups -> {"nowhere", "staging", "snapshots"}]
      /\ DOMAIN manifest = Backups /\ DOMAIN archive = Backups
  BY DEF TypeOK, CreateTypeOK, StoreTypeOK
<1>i. \A c \in Backups : ShownOK(c) /\ GatheredOK(c) /\ PlaceOK(c) /\ handled[c] \subseteq Request[c]
  BY DEF ListInv, StoreInv, GatheredOK
<1>w. ASSUME \A c \in Backups : Withers(c) /\ NotSealed(c) PROVE ListInv'
  BY <1>i, <1>w, WitheringStep DEF ListInv
<1>q. ASSUME UNCHANGED repositoryVars, \A c \in Backups : NotSealed(c) PROVE ListInv'
  <2>1. \A c \in Backups : Withers(c) BY <1>q DEF repositoryVars, Withers, SnapshotSame
  <2>2. QED BY <1>q, <1>w, <2>1
<1>g. ASSUME NEW b \in Backups, NEW label, label # "publish", Goto(b, label),
             UNCHANGED <<handled, repositoryVars>>
      PROVE  ListInv'
  <2>1. \A c \in Backups : NotSealed(c) BY <1>0, <1>i, <1>g DEF NotSealed, Goto
  <2>2. QED BY <1>g, <1>q, <2>1
<1>e. ASSUME NEW b \in Backups, End(b) PROVE ListInv'
  <2>1. \A c \in Backups : NotSealed(c)
    BY <1>0, <1>i, <1>e DEF End, Forget, Set, Goto, NotSealed
  <2>2. place' = place BY <1>e DEF End
  <2>3. CASE place[b] = "staging"
    <3>1. \A c \in Backups \ {b} : SnapshotSame(c)
      BY <1>0, <1>e, <2>2, <2>3 DEF End, Set, SnapshotSame
    <3>2. ~(Listed(b))' /\ manifest'[b] = NoManifest
      BY <1>0, <1>e, <2>2, <2>3 DEF End, Set, Listed
    <3>3. QED BY <1>w, <2>1, <3>1, <3>2 DEF Withers
  <2>4. CASE place[b] # "staging"
    BY <1>e, <1>q, <2>1, <2>2, <2>4 DEF End, repositoryVars
  <2>5. QED BY <2>3, <2>4
<1>k. ASSUME UNCHANGED <<pc, handled, repositoryVars>> PROVE ListInv'
  BY <1>i, <1>k, <1>q DEF NotSealed
<1>s. ASSUME NEW b \in Backups, StopWaiting(b) PROVE ListInv'
  BY <1>g, <1>s DEF StopWaiting, Fail
<1>1. CASE UNCHANGED vars BY <1>k, <1>1 DEF vars, createVars
<1>2. ASSUME NEW b \in Backups, Controller(b) PROVE ListInv'
  <2>1. CASE Inspect(b) BY <1>g, <2>1 DEF Inspect
  <2>2. CASE LockGranted(b) BY <1>g, <2>2 DEF LockGranted
  <2>3. CASE Begin(b)
    <3>1. \A c \in Backups : NotSealed(c) BY <1>0, <1>i, <2>3 DEF Begin, Goto, NotSealed
    <3>2. \A c \in Backups : Withers(c)
      BY <1>0, <2>3 DEF Begin, Set, Withers, SnapshotSame, Listed
    <3>3. QED BY <1>w, <3>1, <3>2
  <2>4. CASE NextService(b) BY <1>g, <2>4 DEF NextService, Fail
  <2>5. CASE StopReturned(b) BY <1>g, <2>5 DEF StopReturned, Fail
  <2>6. CASE WaitExpires(b) BY <1>s, <2>6 DEF WaitExpires
  <2>7. CASE CaptureBegins(b) BY <1>k, <2>7 DEF CaptureBegins
  <2>8. CASE CaptureEnds(b)
    <3>1. pc[b] = "capture" /\ UNCHANGED <<place, manifest>> BY <2>8 DEF CaptureEnds
    <3>2. \A c \in Backups \ {b} : archive'[c] = archive[c] BY <1>0, <2>8 DEF CaptureEnds
    <3>3. ~(Listed(b))' BY <1>i, <3>1 DEF PlaceOK, Staged, Listed
    <3>4. \A c \in Backups : Withers(c) BY <3>1, <3>2, <3>3 DEF Withers, SnapshotSame
    <3>5. \/ handled' = handled
          \/ \E h : handled' = Set(handled, b, h) /\ h \in {handled[b], handled[b] \cup {Current(b)}}
      BY <2>8 DEF CaptureEnds
    <3>6. \A c \in Backups : handled'[c] \subseteq Request[c]
      BY <1>0, <1>i, <3>1, <3>5, CurrentIsAskedFor DEF Set
    <3>7. \A c \in Backups : pc'[c] = "publish" => pc[c] = "publish"
      BY <1>0, <2>8 DEF CaptureEnds, AfterCapture, Goto
    <3>8. QED BY <1>w, <3>4, <3>6, <3>7 DEF NotSealed
  <2>9. CASE CaptureFails(b) BY <1>g, <2>9 DEF CaptureFails, Fail
  <2>10. CASE Restart(b) BY <1>g, <2>10 DEF Restart, Fail
  <2>11. CASE RestartReturned(b)
    <3>1. pc[b] = "restarting" /\ UNCHANGED repositoryVars BY <2>11 DEF RestartReturned
    <3>2. handled' = handled \/ handled' = Set(handled, b, handled[b] \cup {Current(b)})
      BY <2>11 DEF RestartReturned
    <3>3. \A c \in Backups : handled'[c] \subseteq Request[c]
      BY <1>0, <1>i, <3>1, <3>2, CurrentIsAskedFor DEF Set
    <3>4. \A c \in Backups : pc'[c] = "publish" => pc[c] = "publish"
      BY <1>0, <2>11 DEF RestartReturned, Fail, Goto
    <3>5. QED BY <1>q, <3>1, <3>3, <3>4 DEF NotSealed
  <2>12. CASE Seal(b)
    <3>1. CASE Fail(b, "failed") /\ UNCHANGED manifest
      BY <1>g, <2>12, <3>1 DEF Seal, Fail, repositoryVars
    <3>2. CASE Goto(b, "publish") /\ manifest' = Set(manifest, b, handled[b])
      <4>1. pc[b] = "next" /\ Rest(b) = {} /\ UNCHANGED <<handled, place, archive>>
        BY <2>12 DEF Seal
      <4>2. handled[b] = Request[b] BY <1>i, <4>1 DEF Rest
      <4>3. \A c \in Backups \ {b} : Withers(c) /\ NotSealed(c)
        BY <1>0, <1>i, <3>2, <4>1 DEF Goto, Set, Withers, SnapshotSame, NotSealed
      <4>4. \A c \in Backups \ {b} : (ShownOK(c))' /\ (GatheredOK(c))'
        BY <1>i, <4>3, WitheringStep
      <4>5. ~(Listed(b))' BY <1>i, <4>1 DEF PlaceOK, Staged, Listed
      <4>6. (GatheredOK(b))' BY <1>0, <1>i, <3>2, <4>1, <4>2 DEF GatheredOK, Set
      <4>7. QED BY <4>4, <4>5, <4>6 DEF ListInv, ShownOK
    <3>3. QED BY <2>12, <3>1, <3>2 DEF Seal, DiskFails
  <2>13. CASE Publish(b)
    <3>1. CASE Fail(b, "failed") /\ UNCHANGED place
      BY <1>g, <2>13, <3>1 DEF Publish, Fail, repositoryVars
    <3>2. CASE Verifies(b) /\ place' = Set(place, b, "snapshots") /\ Goto(b, "protect")
      <4>1. pc[b] = "publish" /\ UNCHANGED <<handled, manifest, archive>>
        BY <2>13 DEF Publish
      <4>2. manifest[b] = Request[b] BY <1>i, <3>2, <4>1 DEF GatheredOK, Verifies
      <4>3. \A c \in Backups : NotSealed(c) BY <1>0, <1>i, <3>2, <4>1 DEF Goto, NotSealed
      <4>4. \A c \in Backups \ {b} : Withers(c)
        BY <1>0, <3>2, <4>1 DEF Set, Withers, SnapshotSame
      <4>5. \A c \in Backups \ {b} : (ShownOK(c))' /\ (GatheredOK(c))'
        BY <1>i, <4>3, <4>4, WitheringStep
      <4>6. (Verifies(b))' BY <3>2, <4>1 DEF Verifies, NoManifest
      <4>7. (ShownOK(b))' BY <4>1, <4>2, <4>6 DEF ShownOK
      <4>8. (GatheredOK(b))' BY <4>1, <4>2, <4>3 DEF GatheredOK, NotSealed
      <4>9. QED BY <4>5, <4>7, <4>8 DEF ListInv
    <3>3. QED BY <2>13, <3>1, <3>2 DEF Publish, DiskFails
  <2>14. CASE Protect(b)
    <3>1. \A c \in Backups : NotSealed(c)
      BY <1>0, <1>i, <2>14 DEF Protect, DiskFails, Fail, Goto, NotSealed
    <3>2. place[b] = "snapshots" BY <1>i, <2>14 DEF Protect, PlaceOK, Intact, Listed
    <3>3. UNCHANGED <<manifest, archive>> BY <2>14 DEF Protect
    <3>4. \E where \in {"staging", "snapshots"} : place' = Set(place, b, where)
      <4>1. place = Set(place, b, "snapshots") BY <1>0, <3>2 DEF Set
      <4>2. QED BY <2>14, <4>1 DEF Protect
    <3>5. \A c \in Backups : Withers(c)
      BY <1>0, <3>2, <3>3, <3>4 DEF Set, Withers, SnapshotSame, Listed
    <3>6. QED BY <1>w, <3>1, <3>5
  <2>15. CASE Abort(b)
    <3>1. \A c \in Backups : NotSealed(c)
      BY <1>0, <1>i, <2>15 DEF Abort, createVars, Goto, NotSealed
    <3>2. CASE UNCHANGED repositoryVars BY <1>q, <3>1, <3>2
    <3>3. CASE /\ place' = Set(place, b, "nowhere") /\ manifest' = Set(manifest, b, NoManifest)
               /\ archive' = Set(archive, b, NoArchives)
      <4>1. \A c \in Backups : Withers(c)
        BY <1>0, <3>3 DEF Set, Withers, SnapshotSame, Listed
      <4>2. QED BY <1>w, <3>1, <4>1
    <3>4. QED BY <2>15, <3>2, <3>3 DEF Abort
  <2>16. CASE Release(b)
    <3>1. CASE End(b) BY <1>e, <3>1
    <3>2. CASE Goto(b, "retain") /\ Forget(b) /\ UNCHANGED repositoryVars
      <4>1. \A c \in Backups : NotSealed(c)
        BY <1>0, <1>i, <3>2 DEF Goto, Forget, Set, NotSealed
      <4>2. QED BY <1>q, <3>2, <4>1
    <3>3. QED BY <2>16, <3>1, <3>2 DEF Release
  <2>17. CASE PlanRetention(b) BY <1>e, <1>g, <2>17 DEF PlanRetention, createVars
  <2>18. CASE PruneNext(b) BY <1>e, <1>g, <2>18 DEF PruneNext, createVars
  <2>19. CASE DeleteBegins(b)
    <3>1. \A c \in Backups : NotSealed(c)
      BY <1>0, <1>i, <2>19 DEF DeleteBegins, createVars, Goto, NotSealed
    <3>2. \A c \in Backups : Withers(c)
      BY <1>0, <2>19 DEF DeleteBegins, Set, Withers, SnapshotSame, Listed
    <3>3. QED BY <1>w, <3>1, <3>2
  <2>20. CASE DeleteEnds(b)
    <3>1. CASE End(b) BY <1>e, <3>1
    <3>2. CASE ~End(b)
      <4>1. \A c \in Backups : NotSealed(c)
        BY <1>0, <1>i, <2>20, <3>2 DEF DeleteEnds, createVars, Goto, NotSealed
      <4>2. \A c \in Backups : Withers(c)
        BY <1>0, <2>20, <3>2 DEF DeleteEnds, Set, Withers, SnapshotSame, Listed
      <4>3. QED BY <1>w, <4>1, <4>2
    <3>3. QED BY <3>1, <3>2
  <2>21. CASE NotStarted(b) BY <1>e, <2>21 DEF NotStarted
  <2>22. QED BY <1>2, <2>1, <2>2, <2>3, <2>4, <2>5, <2>6, <2>7, <2>8, <2>9, <2>10, <2>11, <2>12, <2>13, <2>14, <2>15, <2>16, <2>17, <2>18, <2>19, <2>20, <2>21 DEF Controller
<1>3. ASSUME NEW b \in Backups, StartBackup(b) PROVE ListInv' BY <1>g, <1>3 DEF StartBackup
<1>4. ASSUME NEW b \in Backups, ScriptRuns(b) \/ OrphanEnds(b) \/ Timeout(b) \/ LockLost(b)
      PROVE  ListInv'
  BY <1>k, <1>4 DEF ScriptRuns, OrphanEnds, Timeout, LockLost, createVars
<1>5. ASSUME NEW b \in Backups, ConnectionLost(b) \/ Crash(b) PROVE ListInv'
  BY <1>e, <1>s, <1>5 DEF ConnectionLost, Crash
<1>6. ASSUME NEW s \in Services, OtherCommand(s) \/ ApplicationWrites(s) PROVE ListInv'
  BY <1>k, <1>6 DEF OtherCommand, ApplicationWrites, createVars
<1>7. QED BY <1>1, <1>2, <1>3, <1>4, <1>5, <1>6, ServicesAssumption DEF Next, Environment

\* The snapshots of earlier backups are whole, but for those that a deletion
\* had emptied.
LEMMA ListInit == Init => ListInv
<1> SUFFICES ASSUME Init, NEW b \in Backups PROVE ShownOK(b) /\ GatheredOK(b) BY DEF ListInv
<1>1. GatheredOK(b) BY DEF Init, GatheredOK
<1>2. CASE b \notin Earlier BY <1>1, <1>2 DEF Init, ShownOK, Listed
<1>3. CASE b \in Earlier
  <2>1. manifest[b] = Request[b] /\ Request[b] # {} /\ Request[b] \subseteq Services
    BY <1>3, ServicesAssumption DEF Init
  <2>2. archive[b] = SomeArchives(b) \/ archive[b] = NoArchives BY DEF Init
  <2>3. CASE archive[b] = SomeArchives(b)
    <3>1. ASSUME NEW s \in Request[b], NEW r \in Data[s] PROVE archive[b][s][r] # Nothing
      <4>1. s \in Services /\ r \in Resources BY <2>1 DEF Resources
      <4>2. archive[b][s][r] = 0 BY <2>3, <4>1 DEF SomeArchives
      <4>3. QED BY <4>2, ServicesAssumption
    <3>2. Verifies(b) BY <2>1, <3>1 DEF Verifies, NoManifest
    <3>3. QED BY <1>1, <2>1, <3>2 DEF ShownOK
  <2>4. QED BY <1>1, <2>1, <2>2, <2>3 DEF ShownOK
<1>4. QED BY <1>2, <1>3

\* The snapshots behind a list are in order in every reachable state.
LEMMA ListedInvariance == Spec => [](TypeOK /\ AtService /\ StoreInv /\ ListInv)
<1>1. Init => StoreInv /\ AtService
  <2>1. SUFFICES ASSUME Init PROVE StoreInv /\ AtService OBVIOUS
  <2>2. \A b \in Backups : pc[b] \in {"idle", "done"} /\ prune[b] = {}
                            /\ (pc[b] = "idle" => place[b] = "nowhere")
    BY <2>1 DEF Init
  <2>3. QED BY <2>2 DEF StoreInv, JobOK, PlaceOK, PruneOK, Retain, Staged, Pruning, AtService
<1>2. TypeOK /\ StoreInv /\ [Next]_vars => StoreInv' BY StoreStep
<1>3. QED BY <1>1, <1>2, AtServiceStep, ListInit, ListStep, TypeCorrect, PTL DEF Spec

\* Whatever fails or overlaps, a listed snapshot has all that was asked for,
\* and all its archives unless a deletion has begun.
THEOREM ListedSnapshotsAreComplete == Spec => []ListedIsComplete
<1>1. ListInv => ListedIsComplete BY DEF ListInv, ShownOK, ListedIsComplete
<1>2. QED BY <1>1, ListedInvariance, PTL

-----------------------------------------------------------------------------
(* What a backup knows of itself. *)

Unheld == {"idle", "inspect", "lock", "begin"}
InService == {"stopping", "capture", "restart", "restarting"}
Returning == {"abort", "release"}
Cut == {"stop failed", "restart failed"}

\* Where it is in its loop: only a service that ran is stopped and started, and
\* what is left to capture has no archive yet.
ProgressOK(b) ==
  /\ holder = b => pc[b] \in Create
  /\ pc[b] \in Unheld => handled[b] = {} /\ archive[b] = NoArchives
  /\ pc[b] \in Unheld \cup {"next", "stopping"} => ~stopped[b] /\ ~failed[b]
  /\ pc[b] # "capture" => reading[b] = Nothing
  /\ pc[b] \in InService \ {"capture"} => NeedsStop(b)
  /\ pc[b] = "capture" => Missing(b) # {} /\ ~failed[b] /\ (stopped[b] <=> NeedsStop(b))
  /\ pc[b] \in InService \cup {"next"} =>
       \A s \in Rest(b) : pc[b] \in {"next", "stopping"} \/ s # Current(b) =>
         \A r \in Data[s] : archive[b][s][r] = Nothing
  /\ pc[b] \in {"publish", "protect"} \/ (pc[b] = "release" /\ result[b] = "ok") => Rest(b) = {}
  /\ pc[b] = "abort" => result[b] # "ok"

\* Its command on the target is the one it waits for, or was cut off, and then
\* the error says so.
CommandOK(b) ==
  /\ pc[b] = "stopping" => script[b] # NoScript /\ script[b].kind = "stop"
  /\ pc[b] = "restarting" => script[b] # NoScript
  /\ script[b] # NoScript =>
       \/ pc[b] \in {"stopping", "restarting"} /\ script[b].service = Current(b)
       \/ pc[b] \in Returning /\ result[b] \in Cut
       \/ pc[b] = "done"

SelfInv == \A b \in Backups : ProgressOK(b) /\ CommandOK(b)

OwnInv == TypeOK /\ AtService /\ StoreInv /\ ListInv /\ SelfInv

\* A step of one backup, and what it leaves of the others.
StepOf(b) ==
  \/ StartBackup(b) \/ Controller(b)
  \/ ScriptRuns(b) \/ OrphanEnds(b) \/ Timeout(b)
  \/ ConnectionLost(b) \/ LockLost(b) \/ Crash(b)

Same(c) ==
  /\ pc'[c] = pc[c] /\ result'[c] = result[c] /\ facts'[c] = facts[c] /\ atLock'[c] = atLock[c]
  /\ handled'[c] = handled[c] /\ stopped'[c] = stopped[c] /\ failed'[c] = failed[c]
  /\ reading'[c] = reading[c] /\ script'[c] = script[c]
  /\ pc[c] # "done" => archive'[c] = archive[c]
  /\ holder' = c => holder = c

\* A deletion is of a snapshot whose backup is over, or of the pruner's own.
LEMMA VictimIsDone ==
  ASSUME TypeOK, StoreInv, NEW b \in Backups, DeleteBegins(b) \/ DeleteEnds(b)
  PROVE  \A c \in Backups \ {b} : pc[c] # "done" => archive'[c] = archive[c]
<1>0. DOMAIN archive = Backups BY DEF TypeOK, StoreTypeOK
<1>1. pc[b] \in {"delete", "deleting"} /\ PruneOK(b) BY DEF DeleteBegins, DeleteEnds, StoreInv
<1>2. prune[b] # {} /\ place[LeastOf(prune[b])] = "snapshots"
  BY <1>1 DEF PruneOK, Deletable, Intact, Listed
<1>3. PICK x \in prune[b] : /\ x = LeastOf(prune[b]) /\ x \in Backups
                            /\ x = b \/ pc[x] \in {"idle", "done"}
  BY <1>1, <1>2, NextVictim DEF Retain
<1>4. x = b \/ pc[x] = "done" BY <1>2, <1>3 DEF StoreInv, PlaceOK
<1>5. UNCHANGED archive \/ archive' = Set(archive, x, NoArchives) \/ (End(b) /\ place[b] # "staging")
      \/ (End(b) /\ archive' = Set(archive, b, NoArchives))
  BY <1>3 DEF DeleteBegins, DeleteEnds, End
<1> QED BY <1>0, <1>3, <1>4, <1>5 DEF Set, End

\* No backup changes what another one has gathered, or gives it the lock.
LEMMA OthersKeep ==
  ASSUME TypeOK, StoreInv, NEW b \in Backups, StepOf(b)
  PROVE  \A c \in Backups \ {b} : Same(c)
<1>0. CreateTypeOK /\ LockTypeOK /\ DOMAIN archive = Backups BY DEF TypeOK, StoreTypeOK
<1>e. ASSUME End(b), \A c \in Backups \ {b} : pc[c] # "done" => archive'[c] = archive[c]
      PROVE  \A c \in Backups \ {b} : Same(c)
  BY <1>0, <1>e, BackupsAssumption DEF Same, End, Forget, Goto, Set, CreateTypeOK, LockTypeOK
<1>f. ASSUME End(b) PROVE \A c \in Backups \ {b} : Same(c)
  BY <1>0, <1>e, <1>f DEF End, Set
<1>w. ASSUME StopWaiting(b) PROVE \A c \in Backups \ {b} : Same(c)
  BY <1>0, <1>w DEF Same, StopWaiting, Fail, Goto, Set, lockVars, repositoryVars, CreateTypeOK, LockTypeOK
<1>1. CASE StartBackup(b) \/ Inspect(b)
  BY <1>0, <1>1 DEF Same, StartBackup, Inspect, Goto, Set, lockVars, repositoryVars, CreateTypeOK, LockTypeOK
<1>2. CASE LockGranted(b) \/ Begin(b)
  BY <1>0, <1>2 DEF Same, LockGranted, Begin, Goto, Set, lockVars, repositoryVars, CreateTypeOK, LockTypeOK
<1>3. CASE NextService(b) \/ Restart(b)
  BY <1>0, <1>3 DEF Same, NextService, Restart, Launch, Fail, Goto, Set, repositoryVars, CreateTypeOK, LockTypeOK
<1>4. CASE StopReturned(b)
  BY <1>0, <1>4 DEF Same, StopReturned, Fail, Goto, Set, repositoryVars, CreateTypeOK, LockTypeOK
<1>r. CASE RestartReturned(b)
  <2>1. \A c \in Backups \ {b} : pc'[c] = pc[c] /\ result'[c] = result[c] /\ handled'[c] = handled[c]
                                 /\ stopped'[c] = stopped[c]
    BY <1>0, <1>r DEF RestartReturned, Fail, Goto, Set, CreateTypeOK
  <2> QED BY <1>0, <1>r, <2>1 DEF Same, RestartReturned, Set, repositoryVars, LockTypeOK
<1>5. CASE CaptureBegins(b) \/ CaptureFails(b)
  BY <1>0, <1>5 DEF Same, CaptureBegins, CaptureFails, Fail, Goto, Set, lockVars, repositoryVars, CreateTypeOK, LockTypeOK
<1>6. CASE CaptureEnds(b)
  <2>1. \A c \in Backups \ {b} : archive'[c] = archive[c] BY <1>0, <1>6 DEF CaptureEnds
  <2>2. \A c \in Backups \ {b} : pc'[c] = pc[c] /\ handled'[c] = handled[c]
    BY <1>0, <1>6 DEF CaptureEnds, AfterCapture, Goto, Set, CreateTypeOK
  <2> QED BY <1>0, <1>6, <2>1, <2>2 DEF Same, CaptureEnds, Set, lockVars, CreateTypeOK
<1>7. CASE Seal(b) \/ Publish(b) \/ Protect(b)
  BY <1>0, <1>7 DEF Same, Seal, Publish, Protect, DiskFails, Fail, Goto, Set, lockVars, CreateTypeOK
<1>8. CASE Abort(b)
  BY <1>0, <1>8 DEF Same, Abort, Goto, Set, createVars, lockVars, repositoryVars, CreateTypeOK
<1>9. CASE Release(b)
  <2>1. CASE End(b) BY <1>f, <2>1
  <2>2. CASE ~End(b)
    <3>1. /\ Goto(b, "retain") /\ Forget(b) /\ holder' = IF holder = b THEN Nobody ELSE holder
          /\ UNCHANGED <<script, archive>>
      BY <1>9, <2>2 DEF Release, repositoryVars
    <3>2. \A c \in Backups : holder' = c => holder = c BY <3>1, BackupsAssumption
    <3> QED BY <1>0, <3>1, <3>2 DEF Same, Forget, Goto, Set, CreateTypeOK
  <2> QED BY <2>1, <2>2
<1>10. CASE PlanRetention(b) \/ PruneNext(b)
  BY <1>0, <1>f, <1>10 DEF Same, PlanRetention, PruneNext, Goto, createVars, lockVars, repositoryVars, CreateTypeOK
<1>11. CASE DeleteBegins(b) \/ DeleteEnds(b)
  BY <1>0, <1>f, <1>11, VictimIsDone
     DEF Same, DeleteBegins, DeleteEnds, Goto, createVars, lockVars, CreateTypeOK
<1>12. CASE ScriptRuns(b) \/ OrphanEnds(b)
  BY <1>0, <1>12 DEF Same, ScriptRuns, OrphanEnds, Set, createVars, repositoryVars, LockTypeOK
<1>13. CASE Timeout(b) \/ LockLost(b)
  BY <1>0, <1>13, BackupsAssumption DEF Same, Timeout, LockLost, createVars, repositoryVars, LockTypeOK
<1> QED BY <1>f, <1>w, <1>r, <1>1, <1>2, <1>3, <1>4, <1>5, <1>6, <1>7, <1>8, <1>9, <1>10, <1>11, <1>12, <1>13
      DEF StepOf, Controller, NotStarted, WaitExpires, ConnectionLost, Crash

\* A backup starts knowing nothing.
LEMMA InitSelf == Init => SelfInv
BY BackupsAssumption
   DEF Init, SelfInv, ProgressOK, CommandOK, Unheld, InService, Returning

\* What it knows of itself depends on what it has gathered and its lock.
LEMMA SameSelf ==
  ASSUME NEW c \in Backups, ProgressOK(c), CommandOK(c), Same(c)
  PROVE  ProgressOK(c)' /\ CommandOK(c)'
<1>1. Rest(c)' = Rest(c) /\ Current(c)' = Current(c) /\ (NeedsStop(c)' <=> NeedsStop(c))
  BY DEF Same, Rest, Current, NeedsStop
<1>2. pc[c] = "capture" => Missing(c)' = Missing(c) BY <1>1 DEF Same, Missing
<1>3. CommandOK(c)' BY <1>1 DEF CommandOK, Same
<1>4. ProgressOK(c)' BY <1>1, <1>2 DEF ProgressOK, Same, Unheld, InService
<1> QED BY <1>3, <1>4

\* A command of a backup is not the absence of one.
LEMMA CommandIsScript ==
  ASSUME NEW s \in Services, NEW kind \in {"stop", "up"}, NEW phase \in {"run", "ok", "failed"}
  PROVE  [kind |-> kind, service |-> s, phase |-> phase] # NoScript
BY ScriptAssumption DEF Script

\* The resource captured next has no archive yet.
LEMMA NextResource ==
  ASSUME TypeOK, NEW b \in Backups, Rest(b) # {}, Missing(b) # {}
  PROVE  /\ LeastOf(Missing(b)) \in Missing(b)
         /\ Missing(b) \subseteq Data[Current(b)] /\ Data[Current(b)] \subseteq Resources
         /\ Current(b) \in Services /\ Current(b) \in Rest(b)
<1>1. Current(b) \in Services BY CurrentType
<1>2. Current(b) \in Rest(b) BY LeastIsLeast, ServicesAssumption DEF Rest, Current
<1>3. Data[Current(b)] \subseteq Nat /\ Data[Current(b)] \subseteq Resources
  BY <1>1, ServicesAssumption DEF Resources
<1>4. Missing(b) \subseteq Data[Current(b)] BY DEF Missing
<1> QED BY <1>1, <1>2, <1>3, <1>4, LeastIsLeast

\* A step of a backup keeps what it knows of itself.
LEMMA SelfStep ==
  ASSUME OwnInv, AtService', ListInv', NEW b \in Backups, StepOf(b)
  PROVE  ProgressOK(b)' /\ CommandOK(b)'
<1>0. CreateTypeOK /\ LockTypeOK /\ StoreTypeOK BY DEF OwnInv, TypeOK
<1>i. ProgressOK(b) /\ CommandOK(b) /\ PlaceOK(b) BY DEF OwnInv, SelfInv, StoreInv
<1>a. pc[b] \in InService => Rest(b) # {} BY DEF OwnInv, AtService, InService
<1>n. pc[b] \in Create /\ pc[b] \notin {"stopping", "restarting"} /\ result[b] \notin Cut => script[b] = NoScript
  BY <1>i DEF CommandOK, Create
<1>e. ASSUME End(b) PROVE ProgressOK(b)' /\ CommandOK(b)'
  <2>1. pc'[b] = "done" /\ holder' # b /\ reading'[b] = Nothing
    BY <1>0, <1>e, BackupsAssumption DEF End, Forget, Goto, Set, CreateTypeOK
  <2> QED BY <2>1 DEF ProgressOK, CommandOK, Unheld, InService, Returning
<1>f. ASSUME NEW o \in {"failed", "stop failed", "restart failed"}, Fail(b, o), pc[b] \in Create,
             UNCHANGED <<facts, holder>>, reading'[b] = Nothing,
             script'[b] = NoScript \/ (script'[b] = script[b] /\ o \in Cut)
      PROVE  ProgressOK(b)' /\ CommandOK(b)'
  <2>1. pc'[b] = "abort" /\ result'[b] = o BY <1>0, <1>f DEF Fail, Goto, Set, CreateTypeOK
  <2> QED BY <1>i, <1>f, <2>1 DEF ProgressOK, CommandOK, Unheld, InService, Returning, Cut, Create
<1>w. ASSUME StopWaiting(b) PROVE ProgressOK(b)' /\ CommandOK(b)'
  <2>1. UNCHANGED <<facts, reading, script, holder>> /\ pc[b] \in {"stopping", "restarting"}
        /\ \E o \in {"stop failed", "restart failed"} : Fail(b, o)
    BY <1>w DEF StopWaiting, lockVars
  <2>2. reading'[b] = Nothing BY <1>i, <2>1 DEF ProgressOK
  <2> QED BY <1>f, <2>1, <2>2 DEF Create, Cut
\* A label at which nothing is known but what holds from the start.
<1>u. ASSUME NEW label, pc'[b] = label, label \notin InService \cup {"next", "publish", "protect", "release", "abort"},
             label \in Unheld => pc[b] \in Unheld /\ UNCHANGED <<handled, stopped, failed>> /\ archive'[b] = archive[b],
             reading'[b] = Nothing, script'[b] = NoScript, holder' = b => label \in Create
      PROVE  ProgressOK(b)' /\ CommandOK(b)'
  BY <1>i, <1>u DEF ProgressOK, CommandOK, Unheld, InService, Returning
<1>1. CASE StartBackup(b) \/ Inspect(b) \/ LockGranted(b)
  <2>1. pc[b] \in Unheld /\ UNCHANGED <<handled, stopped, failed, reading, script, archive>>
    BY <1>1 DEF StartBackup, Inspect, LockGranted, Unheld, lockVars, repositoryVars
  <2>2. reading'[b] = Nothing /\ script'[b] = NoScript
    BY <1>i, <2>1 DEF ProgressOK, CommandOK, Unheld, Returning
  <2>3. pc'[b] \in {"inspect", "lock", "begin"}
    BY <1>0, <1>1 DEF StartBackup, Inspect, LockGranted, Goto, CreateTypeOK
  <2>4. holder' = b => pc'[b] \in Create
    <3>1. CASE LockGranted(b) BY <1>0, <3>1 DEF LockGranted, Goto, CreateTypeOK, Create
    <3>2. CASE StartBackup(b) \/ Inspect(b)
      <4>1. holder' = holder /\ pc[b] \in {"idle", "inspect"} BY <3>2 DEF StartBackup, Inspect, lockVars
      <4> QED BY <1>i, <4>1 DEF ProgressOK, Create
    <3> QED BY <1>1, <3>1, <3>2
  <2> QED BY <1>u, <2>1, <2>2, <2>3, <2>4 DEF Unheld, InService
<1>2. CASE Begin(b)
  <2>1. pc[b] = "begin" /\ UNCHANGED <<facts, handled, stopped, failed, reading, script, holder, archive>>
    BY <1>2 DEF Begin, lockVars
  <2>2. /\ handled[b] = {} /\ archive[b] = NoArchives /\ ~stopped[b] /\ ~failed[b]
        /\ reading[b] = Nothing /\ script[b] = NoScript
    BY <1>i, <2>1 DEF ProgressOK, CommandOK, Unheld, Returning
  <2>3. CASE Goto(b, "next") /\ UNCHANGED result
    <3>1. pc'[b] = "next" BY <1>0, <2>3 DEF Goto, CreateTypeOK
    <3>2. \A s \in Request[b] : s \in Services /\ \A r \in Data[s] : archive'[b][s][r] = Nothing
      BY <2>1, <2>2, ServicesAssumption DEF NoArchives, Resources
    <3> QED BY <1>i, <2>1, <2>2, <3>1, <3>2
            DEF ProgressOK, CommandOK, Unheld, InService, Create, Returning, Rest
  <2>4. CASE Goto(b, "release") /\ result' = Set(result, b, "failed")
    <3>1. pc'[b] = "release" /\ result'[b] = "failed" BY <1>0, <2>4 DEF Goto, Set, CreateTypeOK
    <3> QED BY <2>1, <2>2, <3>1 DEF ProgressOK, CommandOK, Unheld, InService, Create, Returning
  <2> QED BY <1>2, <2>3, <2>4 DEF Begin
\* Into the capture of the service at hand.
<1>c. ASSUME Goto(b, "capture"), pc[b] \in {"next", "stopping"}, Rest(b) # {},
             UNCHANGED <<facts, handled, failed, reading, archive, holder>>,
             stopped'[b] <=> NeedsStop(b), script'[b] = NoScript
      PROVE  ProgressOK(b)' /\ CommandOK(b)'
  <2>1. pc'[b] = "capture" BY <1>0, <1>c DEF Goto, CreateTypeOK
  <2>2. Rest(b)' = Rest(b) /\ Current(b)' = Current(b) /\ Missing(b)' = Missing(b)
        /\ (NeedsStop(b)' <=> NeedsStop(b))
    BY <1>c DEF Rest, Current, Missing, NeedsStop
  <2>3. Missing(b) # {}
    <3>1. Current(b) \in Rest(b) /\ Current(b) \in Services
      BY <1>0, <1>c, LeastIsLeast, ServicesAssumption DEF Rest, Current
    <3>2. \A r \in Data[Current(b)] : archive[b][Current(b)][r] = Nothing
      BY <1>i, <1>c, <3>1 DEF ProgressOK, InService
    <3> QED BY <3>1, <3>2, ServicesAssumption DEF Missing
  <2> QED BY <1>i, <1>c, <2>1, <2>2, <2>3
          DEF ProgressOK, CommandOK, Unheld, InService, Create, Returning
<1>3. CASE NextService(b)
  <2>1. pc[b] = "next" /\ Rest(b) # {}
        /\ UNCHANGED <<facts, handled, stopped, failed, reading, holder, archive>>
    BY <1>3 DEF NextService, repositoryVars
  <2>2. script[b] = NoScript /\ reading[b] = Nothing /\ ~stopped[b]
    BY <1>i, <2>1 DEF ProgressOK, CommandOK, Returning, Unheld
  <2>3. CASE Fail(b, "failed") /\ UNCHANGED script BY <1>f, <2>1, <2>2, <2>3 DEF Create
  <2>4. CASE ~NeedsStop(b) /\ Goto(b, "capture") /\ UNCHANGED script BY <1>c, <2>1, <2>2, <2>4
  <2>5. CASE NeedsStop(b) /\ Goto(b, "stopping") /\ Launch(b, "stop") /\ UNCHANGED result
    <3>x. PICK x : x = [kind |-> "stop", service |-> Current(b), phase |-> "run"] OBVIOUS
    <3>1. pc'[b] = "stopping" /\ script'[b] = x
      BY <1>0, <2>5, <3>x DEF Goto, Launch, Set, CreateTypeOK, LockTypeOK
    <3>2. Rest(b)' = Rest(b) /\ Current(b)' = Current(b) /\ NeedsStop(b)'
      BY <2>1, <2>5 DEF Rest, Current, NeedsStop
    <3>3. x # NoScript /\ x.kind = "stop" /\ x.service = Current(b)
      BY <2>1, <3>x, CurrentType, CommandIsScript DEF OwnInv
    <3> QED BY <1>i, <2>1, <2>2, <3>1, <3>2, <3>3
            DEF ProgressOK, CommandOK, Unheld, InService, Create, Returning
  <2> QED BY <1>3, <2>3, <2>4, <2>5 DEF NextService
<1>4. CASE StopReturned(b)
  <2>1. pc[b] = "stopping" /\ script'[b] = NoScript /\ UNCHANGED <<facts, handled, failed, reading, holder, archive>>
    BY <1>0, <1>4 DEF StopReturned, Set, repositoryVars, LockTypeOK
  <2>2. reading[b] = Nothing /\ NeedsStop(b) BY <1>i, <2>1 DEF ProgressOK, InService
  <2>3. CASE Fail(b, "stop failed") BY <1>f, <2>1, <2>2, <2>3 DEF Create
  <2>4. CASE stopped' = Set(stopped, b, TRUE) /\ Goto(b, "capture")
    <3>1. stopped'[b] BY <1>0, <2>4 DEF Set, CreateTypeOK
    <3> QED BY <1>a, <1>c, <2>1, <2>2, <2>4, <3>1 DEF InService
  <2> QED BY <1>4, <2>3, <2>4 DEF StopReturned
<1>5. CASE CaptureBegins(b)
  <2>1. pc[b] = "capture" /\ UNCHANGED <<pc, result, facts, handled, stopped, failed, script, holder, archive>>
    BY <1>5 DEF CaptureBegins, lockVars, repositoryVars
  <2>2. Rest(b)' = Rest(b) /\ Current(b)' = Current(b) /\ Missing(b)' = Missing(b)
        /\ (NeedsStop(b)' <=> NeedsStop(b))
    BY <2>1 DEF Rest, Current, Missing, NeedsStop
  <2> QED BY <1>i, <2>1, <2>2 DEF ProgressOK, CommandOK, Unheld, InService, Returning
<1>6. CASE CaptureEnds(b)
  <2>1. pc[b] = "capture" /\ UNCHANGED <<result, facts, stopped, failed, script, holder>> /\ script[b] = NoScript
    BY <1>i, <1>6 DEF CaptureEnds, lockVars, CommandOK, Returning
  <2>2. PICK r : r = LeastOf(Missing(b)) OBVIOUS
  <2>3. /\ Rest(b) # {} /\ Missing(b) # {} /\ ~failed[b] /\ (stopped[b] <=> NeedsStop(b))
        /\ r \in Missing(b) /\ Current(b) \in Services /\ Current(b) \in Rest(b)
    BY <1>i, <1>a, <2>1, <2>2, NextResource DEF ProgressOK, InService, OwnInv
  <2>4. reading'[b] = Nothing BY <1>0, <1>6 DEF CaptureEnds, Set, CreateTypeOK
  <2>5. \A t \in Services, q \in Resources : t # Current(b) \/ q # r => archive'[b][t][q] = archive[b][t][q]
    BY <1>0, <1>6, <2>2 DEF CaptureEnds, StoreTypeOK
  <2>6. \A t \in Rest(b) : t \in Services /\ Data[t] \subseteq Resources
    BY ServicesAssumption DEF Rest, Resources
  <2>7. \A t \in Rest(b) \ {Current(b)} : \A q \in Data[t] : archive'[b][t][q] = Nothing
    BY <1>i, <2>1, <2>5, <2>6 DEF ProgressOK, InService
  <2>8. CASE Missing(b) # {r}
    <3>1. UNCHANGED <<pc, handled>> BY <1>6, <2>2, <2>8 DEF CaptureEnds
    <3>2. Rest(b)' = Rest(b) /\ Current(b)' = Current(b) /\ (NeedsStop(b)' <=> NeedsStop(b))
      BY <2>1, <3>1 DEF Rest, Current, NeedsStop
    <3>3. PICK q \in Missing(b) : q # r BY <2>3, <2>8
    <3>4. q \in Missing(b)' BY <2>3, <2>5, <2>6, <3>2, <3>3 DEF Missing
    <3> QED BY <1>i, <2>1, <2>3, <2>4, <2>7, <3>1, <3>2, <3>4
            DEF ProgressOK, CommandOK, Unheld, InService, Returning
  <2>9. CASE Missing(b) = {r}
    <3>1. Goto(b, AfterCapture(b))
          /\ handled' = Set(handled, b, IF stopped[b] THEN handled[b] ELSE handled[b] \cup {Current(b)})
      BY <1>6, <2>2, <2>9 DEF CaptureEnds
    <3>2. CASE stopped[b]
      <4>1. pc'[b] = "restart" /\ handled'[b] = handled[b]
        BY <1>0, <3>1, <3>2 DEF AfterCapture, Goto, Set, CreateTypeOK
      <4>2. Rest(b)' = Rest(b) /\ Current(b)' = Current(b) /\ (NeedsStop(b)' <=> NeedsStop(b))
        BY <2>1, <4>1 DEF Rest, Current, NeedsStop
      <4> QED BY <1>i, <2>1, <2>3, <2>4, <2>7, <3>2, <4>1, <4>2
              DEF ProgressOK, CommandOK, Unheld, InService, Create, Returning
    <3>3. CASE ~stopped[b]
      <4>1. pc'[b] = "next" /\ handled'[b] = handled[b] \cup {Current(b)}
        BY <1>0, <3>1, <3>3 DEF AfterCapture, Goto, Set, CreateTypeOK
      <4>2. Rest(b)' = Rest(b) \ {Current(b)} BY <4>1 DEF Rest
      <4> QED BY <1>i, <2>1, <2>3, <2>4, <2>7, <3>3, <4>1, <4>2
              DEF ProgressOK, CommandOK, Unheld, InService, Create, Returning
    <3> QED BY <3>2, <3>3
  <2> QED BY <2>8, <2>9
<1>7. CASE CaptureFails(b)
  <2>1. /\ pc[b] = "capture" /\ UNCHANGED <<facts, handled, stopped, script, holder, archive>>
        /\ script[b] = NoScript
    BY <1>i, <1>7 DEF CaptureFails, lockVars, repositoryVars, CommandOK, Returning
  <2>2. reading'[b] = Nothing BY <1>0, <1>7 DEF CaptureFails, Set, CreateTypeOK
  <2>3. CASE Fail(b, "failed") BY <1>f, <2>1, <2>2, <2>3 DEF Create
  <2>4. CASE stopped[b] /\ Goto(b, "restart")
    <3>1. pc'[b] = "restart" BY <1>0, <2>4 DEF Goto, CreateTypeOK
    <3>2. Rest(b)' = Rest(b) /\ Current(b)' = Current(b) /\ (NeedsStop(b)' <=> NeedsStop(b))
      BY <2>1 DEF Rest, Current, NeedsStop
    <3> QED BY <1>i, <2>1, <2>2, <2>4, <3>1, <3>2
            DEF ProgressOK, CommandOK, Unheld, InService, Create, Returning
  <2> QED BY <1>7, <2>3, <2>4 DEF CaptureFails
<1>8. CASE Restart(b)
  <2>1. /\ pc[b] = "restart" /\ UNCHANGED <<facts, handled, stopped, failed, reading, holder, archive>>
        /\ script[b] = NoScript /\ reading[b] = Nothing
    BY <1>i, <1>8 DEF Restart, repositoryVars, ProgressOK, CommandOK, Returning
  <2>2. CASE Fail(b, "restart failed") /\ UNCHANGED script BY <1>f, <2>1, <2>2 DEF Create
  <2>3. CASE Launch(b, "up") /\ Goto(b, "restarting")
    <3>x. PICK x : x = [kind |-> "up", service |-> Current(b), phase |-> "run"] OBVIOUS
    <3>1. pc'[b] = "restarting" /\ script'[b] = x
      BY <1>0, <2>3, <3>x DEF Goto, Launch, Set, CreateTypeOK, LockTypeOK
    <3>2. Rest(b)' = Rest(b) /\ Current(b)' = Current(b) /\ (NeedsStop(b)' <=> NeedsStop(b))
      BY <2>1 DEF Rest, Current, NeedsStop
    <3>3. x # NoScript /\ x.service = Current(b)
      BY <1>a, <2>1, <3>x, CurrentType, CommandIsScript DEF OwnInv, InService
    <3> QED BY <1>i, <2>1, <3>1, <3>2, <3>3
            DEF ProgressOK, CommandOK, Unheld, InService, Create, Returning
  <2> QED BY <1>8, <2>2, <2>3 DEF Restart
<1>9. CASE RestartReturned(b)
  <2>1. /\ pc[b] = "restarting" /\ UNCHANGED <<facts, failed, reading, holder, archive>>
        /\ script'[b] = NoScript /\ reading[b] = Nothing
    BY <1>0, <1>i, <1>9 DEF RestartReturned, Set, repositoryVars, ProgressOK, LockTypeOK
  <2>2. CASE \E o \in {"failed", "restart failed"} : Fail(b, o) BY <1>f, <2>1, <2>2 DEF Create
  <2>3. CASE /\ ~failed[b] /\ Goto(b, "next") /\ stopped' = Set(stopped, b, FALSE)
             /\ handled' = Set(handled, b, handled[b] \cup {Current(b)})
    <3>1. pc'[b] = "next" /\ ~stopped'[b] /\ handled'[b] = handled[b] \cup {Current(b)}
      BY <1>0, <2>3 DEF Goto, Set, CreateTypeOK
    <3>2. Rest(b)' = Rest(b) \ {Current(b)} BY <3>1 DEF Rest
    <3> QED BY <1>i, <2>1, <2>3, <3>1, <3>2
            DEF ProgressOK, CommandOK, Unheld, InService, Create, Returning
  <2> QED BY <1>9, <2>2, <2>3 DEF RestartReturned
<1>10. CASE Seal(b) \/ Publish(b) \/ Protect(b)
  <2>1. /\ pc[b] \in {"next", "publish", "protect"} /\ Rest(b) = {} /\ script[b] = NoScript /\ reading[b] = Nothing
        /\ UNCHANGED <<facts, handled, stopped, failed, reading, script, holder, archive>>
    BY <1>i, <1>10 DEF Seal, Publish, Protect, lockVars, ProgressOK, CommandOK, Returning
  <2>2. CASE Fail(b, "failed") BY <1>f, <2>1, <2>2 DEF Create
  <2>3. CASE \E label \in {"publish", "protect", "release"} : Goto(b, label)
    <3>1. pc'[b] \in {"publish", "protect", "release"} BY <1>0, <2>3 DEF Goto, CreateTypeOK
    <3>2. Rest(b)' = {} BY <2>1 DEF Rest
    <3> QED BY <2>1, <3>1, <3>2 DEF ProgressOK, CommandOK, Unheld, InService, Create, Returning
  <2> QED BY <1>10, <2>2, <2>3 DEF Seal, Publish, Protect, DiskFails
<1>11. CASE Abort(b)
  <2>1. pc[b] = "abort" /\ UNCHANGED <<result, reading, script, holder>> BY <1>11 DEF Abort, createVars, lockVars
  <2>2. pc'[b] = "release" BY <1>0, <1>11 DEF Abort, Goto, CreateTypeOK
  <2> QED BY <1>i, <2>1, <2>2 DEF ProgressOK, CommandOK, Unheld, InService, Create, Returning
<1>12. CASE Release(b)
  <2>1. CASE End(b) BY <1>e, <2>1
  <2>2. CASE ~End(b)
    <3>1. /\ pc[b] = "release" /\ result[b] = "ok" /\ Goto(b, "retain") /\ Forget(b)
          /\ holder' = IF holder = b THEN Nobody ELSE holder
          /\ UNCHANGED script
      BY <1>12, <2>2 DEF Release
    <3>2. pc'[b] = "retain" /\ holder' # b /\ reading'[b] = Nothing /\ script'[b] = NoScript
      BY <1>0, <1>n, <3>1, BackupsAssumption DEF Forget, Goto, Set, CreateTypeOK, Create, Cut
    <3> QED BY <1>u, <3>2 DEF Unheld, InService
  <2> QED BY <2>1, <2>2
<1>13. CASE PlanRetention(b) \/ PruneNext(b) \/ DeleteBegins(b) \/ DeleteEnds(b)
  <2>1. CASE End(b) BY <1>e, <2>1
  <2>2. CASE ~End(b)
    <3>1. pc[b] \in Retain /\ UNCHANGED <<reading, script, holder>>
      BY <1>13, <2>2 DEF PlanRetention, PruneNext, DeleteBegins, DeleteEnds, createVars, lockVars, Retain
    <3>2. pc'[b] \in {"prune", "delete", "deleting"}
      BY <1>0, <1>13, <2>2 DEF PlanRetention, PruneNext, DeleteBegins, DeleteEnds, Goto, CreateTypeOK
    <3>3. holder # b /\ reading[b] = Nothing /\ script[b] = NoScript
      BY <1>i, <3>1 DEF ProgressOK, CommandOK, Create, Retain, Returning
    <3> QED BY <1>u, <3>1, <3>2, <3>3 DEF Unheld, InService
  <2> QED BY <2>1, <2>2
<1>k. ASSUME UNCHANGED <<pc, result, facts, handled, stopped, failed, reading, archive>>,
             holder' = b => holder = b,
             pc[b] \in {"stopping", "restarting"} => /\ script'[b] # NoScript
                                                     /\ script'[b].kind = script[b].kind
                                                     /\ script'[b].service = script[b].service,
             script[b] = NoScript => script'[b] = NoScript
      PROVE  ProgressOK(b)' /\ CommandOK(b)'
  <2>1. Rest(b)' = Rest(b) /\ Current(b)' = Current(b) /\ Missing(b)' = Missing(b)
        /\ (NeedsStop(b)' <=> NeedsStop(b))
    BY <1>k DEF Rest, Current, Missing, NeedsStop
  <2>2. ProgressOK(b)' BY <1>i, <1>k, <2>1 DEF ProgressOK, Unheld, InService
  <2>3. CommandOK(b)' BY <1>i, <1>k, <2>1 DEF CommandOK
  <2> QED BY <2>2, <2>3
<1>14. CASE ScriptRuns(b)
  <2>1. PICK phase \in {"ok", "failed"} :
          script' = Set(script, b, [kind |-> script[b].kind, service |-> script[b].service, phase |-> phase])
    BY <1>14 DEF ScriptRuns
  <2>x. PICK x : x = [kind |-> script[b].kind, service |-> script[b].service, phase |-> phase] OBVIOUS
  <2>2. script'[b] = x BY <1>0, <2>1, <2>x DEF Set, LockTypeOK
  <2>3. script[b] \in Script /\ script[b] # NoScript BY <1>0, <1>14 DEF ScriptRuns, LockTypeOK
  <2>4. x # NoScript /\ x.kind = script[b].kind /\ x.service = script[b].service
    BY <2>x, <2>3, CommandIsScript DEF Script
  <2>5. UNCHANGED <<pc, result, facts, handled, stopped, failed, reading, archive, holder>>
    BY <1>14 DEF ScriptRuns, createVars, repositoryVars
  <2> QED BY <1>k, <2>2, <2>3, <2>4, <2>5
<1>15. CASE OrphanEnds(b)
  <2>1. script'[b] = NoScript /\ pc[b] \notin {"stopping", "restarting"}
    BY <1>0, <1>15 DEF OrphanEnds, Set, LockTypeOK
  <2> QED BY <1>k, <1>15, <2>1 DEF OrphanEnds, createVars, repositoryVars
<1>16. CASE Timeout(b) \/ LockLost(b)
  <2>1. UNCHANGED <<pc, createVars, script, repositoryVars>> /\ (holder' = b => holder = b)
    BY <1>16, BackupsAssumption DEF Timeout, LockLost
  <2> QED BY <1>i, <1>k, <2>1 DEF createVars, repositoryVars, CommandOK
<1> QED BY <1>e, <1>w, <1>1, <1>2, <1>3, <1>4, <1>5, <1>6, <1>7, <1>8, <1>9, <1>10, <1>11, <1>12, <1>13,
           <1>14, <1>15, <1>16
      DEF StepOf, Controller, NotStarted, WaitExpires, ConnectionLost, Crash

\* So every reachable state is in order for every backup.
LEMMA OwnStep == OwnInv /\ [Next]_vars => OwnInv'
<1> SUFFICES ASSUME OwnInv, [Next]_vars PROVE OwnInv' OBVIOUS
<1>1. TypeOK' /\ AtService' /\ StoreInv' /\ ListInv'
  BY NextType, AtServiceStep, StoreStep, ListStep DEF OwnInv
<1>2. ASSUME NEW b \in Backups, StepOf(b) PROVE SelfInv'
  <2>1. \A c \in Backups \ {b} : ProgressOK(c)' /\ CommandOK(c)'
    BY <1>2, OthersKeep, SameSelf DEF OwnInv, SelfInv
  <2> QED BY <1>1, <1>2, <2>1, SelfStep DEF SelfInv
<1>3. ASSUME UNCHANGED <<pc, createVars, script, holder, archive>> PROVE SelfInv'
  <2>1. \A c \in Backups : Same(c) BY <1>3 DEF Same, createVars
  <2> QED BY <2>1, SameSelf DEF OwnInv, SelfInv
<1>4. CASE UNCHANGED vars BY <1>1, <1>3, <1>4 DEF vars, lockVars, repositoryVars, OwnInv
<1>5. CASE Environment
  <2>1. UNCHANGED <<pc, createVars, script, holder, archive>>
    BY <1>5 DEF Environment, OtherCommand, ApplicationWrites, lockVars, repositoryVars
  <2> QED BY <1>1, <1>3, <2>1 DEF OwnInv
<1>6. (\E b \in Backups : StepOf(b)) \/ Environment \/ UNCHANGED vars BY DEF Next, StepOf
<1> QED BY <1>1, <1>2, <1>4, <1>5, <1>6 DEF OwnInv

-----------------------------------------------------------------------------
(* What the lock is worth: the services a holder knew are its own. *)

Apart(c, s) ==
  /\ script[c] # NoScript => script[c].service # s
  /\ pc[c] \in Create => s \notin Watched(c)

AsFound(b, s) == runtime[s] = atLock[b][s]

\* A service the holder is not at is as it was found; those behind it are
\* archived at rest, unless the backup has failed.
ServiceOK(b, s) ==
  /\ pc[b] \in {"begin", "next", "publish", "protect"} => AsFound(b, s)
  /\ pc[b] \in InService /\ s # Current(b) => AsFound(b, s)
  /\ pc[b] \in Returning /\ result[b] \notin Cut => AsFound(b, s)
  /\ s \in handled[b] /\ (pc[b] \in Returning => result[b] = "ok") => AtRest(b, s)

\* The one it is at is down while it is archived, so that its data does not
\* change from the first archive to the last.
StoppedOK(b, s) ==
  /\ pc[b] = "stopping" /\ script[b].phase = "ok" => runtime[s] = "stopped"
  /\ pc[b] = "capture" =>
       /\ runtime[s] = "stopped"
       /\ reading[b] \in {Nothing, version[s]}
       /\ \A r \in Data[s] : archive[b][s][r] \in {Nothing, version[s]}
  /\ pc[b] \in {"restart", "restarting"} => failed[b] \/ AtRest(b, s)

KnownOK(b, s) ==
  /\ \A c \in Backups \ {b} : Apart(c, s)
  /\ ServiceOK(b, s)
  /\ pc[b] \in InService /\ s = Current(b) => StoppedOK(b, s)

HeldInv == \A b \in Backups : holder = b => \A s \in Known(b) : KnownOK(b, s)

\* A backup that has no part in a service, and gets no lock, does nothing to it.
LEMMA Elsewhere ==
  ASSUME OwnInv, NEW c \in Backups, NEW s \in Services, Apart(c, s), StepOf(c), holder # Nobody
  PROVE  runtime'[s] = runtime[s] /\ version' = version /\ Apart(c, s)'
<1>0. CreateTypeOK /\ LockTypeOK /\ StoreTypeOK BY DEF OwnInv, TypeOK
<1>i. ProgressOK(c) BY DEF OwnInv, SelfInv
<1>a. pc[c] \in InService => Rest(c) # {} BY DEF OwnInv, AtService, InService
<1>c. Rest(c) # {} /\ NeedsStop(c) => Current(c) \in Watched(c)
  BY CurrentType DEF NeedsStop, Watched, OwnInv
<1>1. ASSUME UNCHANGED targetVars, script'[c] \in {script[c], NoScript},
             pc'[c] \in Create => pc[c] \in Create
      PROVE  runtime'[s] = runtime[s] /\ version' = version /\ Apart(c, s)'
  <2>1. Watched(c)' = Watched(c) BY DEF Watched
  <2> QED BY <1>1, <2>1 DEF Apart, targetVars
<1>e. ASSUME End(c) PROVE UNCHANGED <<script, targetVars>> /\ pc'[c] = "done"
  BY <1>0, <1>e DEF End, Goto, CreateTypeOK
<1>2. CASE NotStarted(c) \/ Release(c) \/ Crash(c)
  <2>1. CASE End(c) BY <1>1, <1>e, <2>1 DEF Create
  <2>2. CASE Goto(c, "retain") /\ UNCHANGED <<script, targetVars>>
    <3>1. pc'[c] = "retain" BY <1>0, <2>2 DEF Goto, CreateTypeOK
    <3> QED BY <1>1, <2>2, <3>1 DEF Create
  <2> QED BY <1>2, <2>1, <2>2 DEF NotStarted, Release, Crash
<1>3. CASE StartBackup(c) \/ Inspect(c)
  <2>1. pc'[c] \in {"inspect", "lock"} BY <1>0, <1>3 DEF StartBackup, Inspect, Goto, CreateTypeOK
  <2> QED BY <1>1, <1>3, <2>1 DEF StartBackup, Inspect, lockVars, Create
<1>4. ~LockGranted(c) BY DEF LockGranted
<1>w. ASSUME StopWaiting(c) PROVE pc[c] \in Create /\ UNCHANGED <<script, targetVars>>
  BY <1>w DEF StopWaiting, lockVars, Create
<1>5. CASE WaitExpires(c) \/ ConnectionLost(c) BY <1>1, <1>w, <1>5 DEF WaitExpires, ConnectionLost
<1>6. CASE \/ Begin(c) \/ CaptureBegins(c) \/ CaptureEnds(c) \/ CaptureFails(c)
           \/ Seal(c) \/ Publish(c) \/ Protect(c) \/ Abort(c)
  <2>1. pc[c] \in Create /\ UNCHANGED <<script, targetVars>>
    BY <1>6 DEF Begin, CaptureBegins, CaptureEnds, CaptureFails, Seal, Publish, Protect, Abort, lockVars, Create
  <2> QED BY <1>1, <2>1
<1>7. CASE StopReturned(c) \/ RestartReturned(c)
  <2>1. pc[c] \in Create /\ script'[c] = NoScript /\ UNCHANGED targetVars
    BY <1>0, <1>7 DEF StopReturned, RestartReturned, Set, LockTypeOK, Create
  <2> QED BY <1>1, <2>1
<1>8. CASE NextService(c) \/ Restart(c)
  <2>1. pc[c] \in Create /\ UNCHANGED targetVars BY <1>8 DEF NextService, Restart, Create
  <2>2. CASE UNCHANGED script BY <1>1, <2>1, <2>2
  <2>3. ASSUME NEW kind \in {"stop", "up"}, Launch(c, kind), Rest(c) # {}, NeedsStop(c)
        PROVE  runtime'[s] = runtime[s] /\ version' = version /\ Apart(c, s)'
    <3>x. PICK x : x = [kind |-> kind, service |-> Current(c), phase |-> "run"] OBVIOUS
    <3>1. script'[c] = x BY <1>0, <2>3, <3>x DEF Launch, Set, LockTypeOK
    <3>2. x.service = Current(c) BY <3>x
    <3>3. Current(c) # s BY <1>c, <2>1, <2>3 DEF Apart
    <3>4. Watched(c)' = Watched(c) BY DEF Watched
    <3> QED BY <2>1, <3>1, <3>2, <3>3, <3>4 DEF Apart, targetVars
  <2>4. UNCHANGED script \/ (Launch(c, "stop") /\ Rest(c) # {} /\ NeedsStop(c))
        \/ (Launch(c, "up") /\ pc[c] = "restart")
    BY <1>8 DEF NextService, Restart
  <2>5. pc[c] = "restart" => Rest(c) # {} /\ NeedsStop(c)
    BY <1>a, <1>i DEF ProgressOK, InService
  <2> QED BY <2>2, <2>3, <2>4, <2>5
<1>9. CASE PlanRetention(c) \/ PruneNext(c) \/ DeleteBegins(c) \/ DeleteEnds(c)
  <2>1. CASE End(c) BY <1>1, <1>e, <2>1 DEF Create
  <2>2. CASE ~End(c)
    <3>1. UNCHANGED <<script, targetVars>>
      BY <1>9, <2>2 DEF PlanRetention, PruneNext, DeleteBegins, DeleteEnds, lockVars
    <3>2. pc'[c] \in {"prune", "delete", "deleting"}
      BY <1>0, <1>9, <2>2 DEF PlanRetention, PruneNext, DeleteBegins, DeleteEnds, Goto, CreateTypeOK
    <3> QED BY <1>1, <3>1, <3>2 DEF Create
  <2> QED BY <2>1, <2>2
<1>10. CASE ScriptRuns(c)
  <2>1. PICK phase \in {"ok", "failed"}, rt \in Runtimes :
          /\ runtime' = [runtime EXCEPT ![script[c].service] = rt]
          /\ script' = Set(script, c,
               [kind |-> script[c].kind, service |-> script[c].service, phase |-> phase])
    BY <1>10 DEF ScriptRuns
  <2>x. PICK x : x = [kind |-> script[c].kind, service |-> script[c].service, phase |-> phase] OBVIOUS
  <2>2. script'[c] = x /\ x.service = script[c].service BY <1>0, <2>1, <2>x DEF Set, LockTypeOK
  <2>3. script[c].service # s /\ UNCHANGED <<pc, version>> BY <1>10 DEF ScriptRuns, Apart
  <2>4. runtime'[s] = runtime[s] BY <1>0, <2>1, <2>3 DEF StoreTypeOK
  <2>5. Watched(c)' = Watched(c) BY DEF Watched
  <2> QED BY <2>2, <2>3, <2>4, <2>5 DEF Apart
<1>11. CASE OrphanEnds(c)
  <2>1. script'[c] = NoScript BY <1>0, <1>11 DEF OrphanEnds, Set, LockTypeOK
  <2> QED BY <1>1, <1>11, <2>1 DEF OrphanEnds
<1>12. CASE Timeout(c) \/ LockLost(c) BY <1>1, <1>12 DEF Timeout, LockLost
<1> QED BY <1>2, <1>3, <1>4, <1>5, <1>6, <1>7, <1>8, <1>9, <1>10, <1>11, <1>12 DEF StepOf, Controller

\* What is known of a service depends on the holder's own, and on the service.
LEMMA SameKnown ==
  ASSUME NEW b \in Backups, NEW s \in Services, pc[b] \in Create, KnownOK(b, s), Same(b),
         \A c \in Backups \ {b} : Apart(c, s)', runtime'[s] = runtime[s],
         pc[b] = "capture" /\ s = Current(b) => version'[s] = version[s]
  PROVE  KnownOK(b, s)'
<1>1. Rest(b)' = Rest(b) /\ Current(b)' = Current(b) BY DEF Same, Rest, Current
<1>2. (AtRest(b, s)' <=> AtRest(b, s)) /\ (AsFound(b, s)' <=> AsFound(b, s))
  BY DEF AtRest, AsFound, Same, Create
<1>3. ServiceOK(b, s)' BY <1>1, <1>2 DEF KnownOK, ServiceOK, Same
<1>4. ASSUME pc[b] \in InService, s = Current(b) PROVE StoppedOK(b, s)'
  BY <1>2, <1>4 DEF KnownOK, StoppedOK, Same, Create
<1> QED BY <1>1, <1>3, <1>4 DEF KnownOK, Same

\* The lock is granted: the facts of before still hold where they are known.
LEMMA HeldGrant ==
  ASSUME OwnInv, NEW b \in Backups, LockGranted(b), NEW s \in Known(b)'
  PROVE  KnownOK(b, s)'
<1>0. CreateTypeOK /\ LockTypeOK BY DEF OwnInv, TypeOK
<1>1. s \in Watched(b) /\ s \in Services /\ facts'[b][s] = atLock'[b][s]
  BY ServicesAssumption DEF Known, Watched
<1>2. /\ pc[b] = "lock" /\ pc'[b] = "begin" /\ \A c \in Backups \ {b} : pc'[c] = pc[c]
      /\ UNCHANGED <<facts, handled, script, runtime>>
  BY <1>0 DEF LockGranted, Goto, CreateTypeOK, targetVars
<1>3. atLock'[b][s] = IF s \notin Watched(b) \/ Unsettled(s) THEN "unsettled" ELSE runtime[s]
  BY <1>0, <1>1 DEF LockGranted, Set, CreateTypeOK
<1>4. facts[b][s] # "unsettled" BY <1>0, <1>1 DEF CreateTypeOK, Runtimes
<1>5. ~Unsettled(s) /\ atLock'[b][s] = runtime[s] BY <1>1, <1>2, <1>3, <1>4
<1>6. \A c \in Backups \ {b} : Apart(c, s)'
  <2>1. \A c \in Backups : Watched(c)' = Watched(c) BY DEF Watched
  <2> QED BY <1>2, <1>5, <2>1 DEF Unsettled, Apart
<1>7. handled'[b] = {} BY <1>2 DEF OwnInv, SelfInv, ProgressOK, Unheld
<1>8. ServiceOK(b, s)' BY <1>2, <1>5, <1>7 DEF ServiceOK, AsFound, InService, Returning
<1> QED BY <1>2, <1>6, <1>8 DEF KnownOK, InService

\* What the holder itself does, step by step.
LEMMA HeldOwn ==
  ASSUME OwnInv, NEW b \in Backups, holder = b, holder' = b, NEW s \in Known(b), KnownOK(b, s), StepOf(b)
  PROVE  KnownOK(b, s)' /\ Known(b)' = Known(b)
<1>0. CreateTypeOK /\ LockTypeOK /\ StoreTypeOK BY DEF OwnInv, TypeOK
<1>i. ProgressOK(b) /\ CommandOK(b) BY DEF OwnInv, SelfInv
<1>l. pc[b] \in Create BY <1>i DEF ProgressOK
<1>s. s \in Services /\ s \in StopServices /\ facts[b][s] = atLock[b][s] /\ Data[s] \subseteq Resources
  BY ServicesAssumption DEF Known, Watched, Resources
<1>a. pc[b] \in InService => Rest(b) # {} BY DEF OwnInv, AtService, InService
<1>c. Rest(b) # {} => Current(b) \in Rest(b) /\ Current(b) \in Services
  BY LeastIsLeast, ServicesAssumption DEF Rest, Current
<1>g. /\ \A c \in Backups \ {b} : Apart(c, s)
      /\ ServiceOK(b, s)
      /\ pc[b] \in InService /\ s = Current(b) => StoppedOK(b, s)
  BY DEF KnownOK
<1>o. \A c \in Backups \ {b} : Apart(c, s)'
  <2>1. \A c \in Backups \ {b} : Same(c) BY OthersKeep DEF OwnInv
  <2>2. \A c \in Backups : Watched(c)' = Watched(c) BY DEF Watched
  <2> QED BY <1>g, <2>1, <2>2 DEF Apart, Same
<1>e. ~End(b) BY BackupsAssumption DEF End
<1>n. /\ ~LockGranted(b) /\ ~StartBackup(b) /\ ~Inspect(b) /\ ~Timeout(b) /\ ~LockLost(b)
      /\ ~NotStarted(b) /\ ~Crash(b) /\ ~Release(b)
      /\ ~PlanRetention(b) /\ ~PruneNext(b) /\ ~DeleteBegins(b) /\ ~DeleteEnds(b)
  BY <1>l, <1>e, BackupsAssumption
     DEF LockGranted, StartBackup, Inspect, Timeout, LockLost, NotStarted, Crash, Release,
         PlanRetention, PruneNext, DeleteBegins, DeleteEnds, Create
<1>k. UNCHANGED <<facts, atLock>> => Known(b)' = Known(b) BY DEF Known, Watched
<1>v. Known(b)' = Known(b)
  <2>1. UNCHANGED <<facts, atLock>>
    BY <1>n DEF StepOf, Controller, Begin, NextService, StopReturned, WaitExpires, StopWaiting, CaptureBegins,
                CaptureEnds, CaptureFails, Restart, RestartReturned, Seal, Publish, Protect, Abort, ScriptRuns,
                OrphanEnds, ConnectionLost, createVars
  <2> QED BY <1>k, <2>1
<1> SUFFICES KnownOK(b, s)' BY <1>v
\* Create returns an error.
<1>f. ASSUME NEW o \in {"failed", "stop failed", "restart failed"}, Fail(b, o),
             UNCHANGED <<atLock, runtime>>, o \in Cut \/ AsFound(b, s)
      PROVE  KnownOK(b, s)'
  <2>1. pc'[b] = "abort" /\ result'[b] = o BY <1>0, <1>f DEF Fail, Goto, Set, CreateTypeOK
  <2>2. o \notin Cut => AsFound(b, s)' BY <1>f DEF AsFound
  <2>3. ServiceOK(b, s)' BY <2>1, <2>2 DEF ServiceOK, InService, Returning
  <2> QED BY <1>o, <2>1, <2>3 DEF KnownOK, InService
<1>1. CASE Begin(b)
  <2>1. pc[b] = "begin" /\ UNCHANGED <<atLock, handled, runtime>> BY <1>1 DEF Begin, targetVars
  <2>2. AsFound(b, s)' /\ handled'[b] = {}
    BY <1>g, <1>i, <2>1 DEF ServiceOK, AsFound, ProgressOK, Unheld
  <2>3. pc'[b] \in {"next", "release"} BY <1>0, <1>1 DEF Begin, Goto, CreateTypeOK
  <2>4. ServiceOK(b, s)' BY <2>2, <2>3 DEF ServiceOK, InService
  <2> QED BY <1>o, <2>3, <2>4 DEF KnownOK, InService
<1>2. CASE NextService(b)
  <2>1. pc[b] = "next" /\ Rest(b) # {} /\ UNCHANGED <<atLock, facts, handled, archive, reading, runtime, version>>
    BY <1>2 DEF NextService, targetVars, repositoryVars
  <2>2. AsFound(b, s) /\ (s \in handled[b] => AtRest(b, s)) BY <1>g, <2>1 DEF ServiceOK, Returning
  <2>3. AsFound(b, s)' /\ (s \in handled'[b] => AtRest(b, s)')
    BY <2>1, <2>2 DEF AsFound, AtRest
  <2>4. Current(b)' = Current(b) BY <2>1 DEF Current, Rest
  <2>5. CASE Fail(b, "failed") BY <1>f, <2>1, <2>2, <2>5
  <2>6. CASE NeedsStop(b) /\ Goto(b, "stopping") /\ Launch(b, "stop")
    <3>x. PICK x : x = [kind |-> "stop", service |-> Current(b), phase |-> "run"] OBVIOUS
    <3>1. pc'[b] = "stopping" /\ script'[b] = x /\ x.phase = "run"
      BY <1>0, <2>6, <3>x DEF Goto, Launch, Set, CreateTypeOK, LockTypeOK
    <3>2. ServiceOK(b, s)' /\ StoppedOK(b, s)' BY <2>3, <3>1 DEF ServiceOK, StoppedOK, InService, Returning
    <3> QED BY <1>o, <3>2 DEF KnownOK
  <2>7. CASE ~NeedsStop(b) /\ Goto(b, "capture")
    <3>1. pc'[b] = "capture" BY <1>0, <2>7 DEF Goto, CreateTypeOK
    <3>2. ServiceOK(b, s)' BY <2>3, <3>1 DEF ServiceOK, InService, Returning
    <3>3. ASSUME s = Current(b) PROVE StoppedOK(b, s)'
      <4>1. facts[b][s] # "running" BY <1>s, <2>7, <3>3 DEF NeedsStop
      <4>2. runtime'[s] = "stopped" BY <1>0, <1>s, <2>1, <2>2, <4>1 DEF AsFound, StoreTypeOK, Runtimes
      <4>3. reading'[b] = Nothing /\ \A r \in Data[s] : archive'[b][s][r] = Nothing
        BY <1>i, <1>c, <2>1, <3>3 DEF ProgressOK, InService
      <4> QED BY <3>1, <4>2, <4>3 DEF StoppedOK
    <3> QED BY <1>o, <2>4, <3>2, <3>3 DEF KnownOK
  <2> QED BY <1>2, <2>5, <2>6, <2>7 DEF NextService
<1>3. CASE StopReturned(b)
  <2>1. pc[b] = "stopping" /\ UNCHANGED <<atLock, facts, handled, archive, reading, runtime, version>>
    BY <1>3 DEF StopReturned, targetVars, repositoryVars
  <2>2. CASE Fail(b, "stop failed") BY <1>f, <2>1, <2>2 DEF Cut
  <2>3. CASE script[b].phase = "ok" /\ Goto(b, "capture")
    <3>1. pc'[b] = "capture" BY <1>0, <2>3 DEF Goto, CreateTypeOK
    <3>2. Current(b)' = Current(b) BY <2>1 DEF Current, Rest
    <3>3. ServiceOK(b, s)'
      BY <1>g, <2>1, <3>1, <3>2 DEF ServiceOK, AsFound, AtRest, InService, Returning
    <3>4. ASSUME s = Current(b) PROVE StoppedOK(b, s)'
      <4>1. runtime'[s] = "stopped" BY <1>g, <2>1, <2>3, <3>4 DEF StoppedOK, InService
      <4>2. reading'[b] = Nothing /\ \A r \in Data[s] : archive'[b][s][r] = Nothing
        BY <1>i, <1>a, <1>c, <2>1, <3>4 DEF ProgressOK, InService
      <4> QED BY <3>1, <4>1, <4>2 DEF StoppedOK
    <3> QED BY <1>o, <3>2, <3>3, <3>4 DEF KnownOK
  <2> QED BY <1>3, <2>2, <2>3 DEF StopReturned
<1>4. CASE StopWaiting(b)
  <2>1. UNCHANGED <<atLock, runtime>> /\ \E o \in {"stop failed", "restart failed"} : Fail(b, o)
    BY <1>4 DEF StopWaiting, targetVars
  <2> QED BY <1>f, <2>1 DEF Cut
<1>5. CASE CaptureBegins(b)
  <2>1. pc[b] = "capture" /\ UNCHANGED <<pc, result, atLock, handled, archive, runtime, version>>
    BY <1>5 DEF CaptureBegins, targetVars, repositoryVars
  <2>2. Current(b)' = Current(b) BY <2>1 DEF Current, Rest
  <2>3. reading'[b] = version[Current(b)] BY <1>0, <1>5 DEF CaptureBegins, Set, CreateTypeOK
  <2>4. ServiceOK(b, s)' BY <1>g, <2>1, <2>2 DEF ServiceOK, AsFound, AtRest
  <2>5. s = Current(b) => StoppedOK(b, s)' BY <1>g, <2>1, <2>3 DEF StoppedOK, InService
  <2> QED BY <1>o, <2>2, <2>4, <2>5 DEF KnownOK
\* A service that did not run is as it was found when its capture ends.
<1>h. pc[b] = "capture" /\ ~stopped[b] => AsFound(b, s)
  <2> SUFFICES ASSUME pc[b] = "capture", ~stopped[b], s = Current(b) PROVE AsFound(b, s)
    BY <1>g DEF ServiceOK, InService
  <2>1. facts[b][s] # "running" BY <1>i, <1>s DEF ProgressOK, NeedsStop
  <2>2. runtime[s] = "stopped" BY <1>g DEF StoppedOK, InService
  <2> QED BY <1>0, <1>s, <2>1, <2>2 DEF AsFound, CreateTypeOK, Runtimes
<1>6. CASE CaptureEnds(b)
  <2>1. pc[b] = "capture" /\ reading[b] # Nothing /\ UNCHANGED <<result, atLock, failed, runtime, version>>
    BY <1>6 DEF CaptureEnds, targetVars
  <2>2. PICK r : r = LeastOf(Missing(b)) OBVIOUS
  <2>3. Rest(b) # {} /\ r \in Missing(b) /\ Missing(b) \subseteq Resources
        /\ Current(b) \in Services /\ Current(b) \in Rest(b)
    BY <1>i, <1>a, <2>1, <2>2, NextResource DEF ProgressOK, InService, OwnInv
  <2>4. archive' = [archive EXCEPT ![b][Current(b)][r] =
                      IF version[Current(b)] = reading[b] THEN version[Current(b)] ELSE Torn]
    BY <1>6, <2>2 DEF CaptureEnds
  <2>5. s # Current(b) => archive'[b][s] = archive[b][s] BY <1>0, <1>s, <2>3, <2>4 DEF StoreTypeOK
  <2>6. s # Current(b) => (AtRest(b, s)' <=> AtRest(b, s)) BY <2>5 DEF AtRest
  <2>7. AsFound(b, s)' <=> AsFound(b, s) BY <2>1 DEF AsFound
  <2>8. ASSUME s = Current(b)
        PROVE  /\ runtime'[s] = "stopped"
               /\ \A q \in Data[s] : archive'[b][s][q] \in {Nothing, version[s]}
               /\ \A q \in Data[s] : q \notin Missing(b) \/ q = r => archive'[b][s][q] = version[s]
    <3>1. runtime[s] = "stopped" /\ reading[b] = version[s]
          /\ \A q \in Data[s] : archive[b][s][q] \in {Nothing, version[s]}
      BY <1>g, <2>1, <2>8 DEF StoppedOK, InService
    <3>2. archive'[b][s][r] = version[s] BY <1>0, <1>s, <2>3, <2>4, <2>8, <3>1 DEF StoreTypeOK
    <3>3. \A q \in Data[s] : q # r => archive'[b][s][q] = archive[b][s][q]
      BY <1>0, <1>s, <2>3, <2>4, <2>8 DEF StoreTypeOK
    <3>4. \A q \in Data[s] : q \notin Missing(b) => archive[b][s][q] # Nothing BY <2>8 DEF Missing
    <3> QED BY <2>1, <3>1, <3>2, <3>3, <3>4
  <2>9. reading'[b] = Nothing BY <1>0, <1>6 DEF CaptureEnds, Set, CreateTypeOK
  <2>10. CASE Missing(b) # {r}
    <3>1. UNCHANGED <<pc, handled>> BY <1>6, <2>2, <2>10 DEF CaptureEnds
    <3>2. Current(b)' = Current(b) BY <3>1 DEF Current, Rest
    <3>3. s = Current(b) => s \notin handled[b] BY <2>3 DEF Rest
    <3>4. ServiceOK(b, s)'
      BY <1>g, <2>1, <2>6, <2>7, <3>1, <3>2, <3>3 DEF ServiceOK, InService, Returning
    <3>5. s = Current(b) => StoppedOK(b, s)' BY <2>1, <2>8, <2>9, <3>1 DEF StoppedOK
    <3> QED BY <1>o, <3>2, <3>4, <3>5 DEF KnownOK
  <2>11. CASE Missing(b) = {r}
    <3>1. Goto(b, AfterCapture(b))
          /\ handled' = Set(handled, b, IF stopped[b] THEN handled[b] ELSE handled[b] \cup {Current(b)})
      BY <1>6, <2>2, <2>11 DEF CaptureEnds
    <3>2. s = Current(b) => AtRest(b, s)'
      <4>1. s = Current(b) => \A q \in Data[s] : archive'[b][s][q] = version[s] BY <2>8, <2>11
      <4>2. version[s] \in Versions BY <1>0, <1>s DEF StoreTypeOK
      <4> QED BY <4>1, <4>2 DEF AtRest
    <3>3. CASE stopped[b]
      <4>1. pc'[b] = "restart" /\ handled'[b] = handled[b]
        BY <1>0, <3>1, <3>3 DEF AfterCapture, Goto, Set, CreateTypeOK
      <4>2. Current(b)' = Current(b) BY <4>1 DEF Current, Rest
      <4>3. ServiceOK(b, s)'
        BY <1>g, <2>1, <2>6, <2>7, <3>2, <4>1, <4>2 DEF ServiceOK, InService, Returning
      <4>4. s = Current(b) => StoppedOK(b, s)' BY <3>2, <4>1 DEF StoppedOK
      <4> QED BY <1>o, <4>2, <4>3, <4>4 DEF KnownOK
    <3>4. CASE ~stopped[b]
      <4>1. pc'[b] = "next" /\ handled'[b] = handled[b] \cup {Current(b)}
        BY <1>0, <3>1, <3>4 DEF AfterCapture, Goto, Set, CreateTypeOK
      <4>2. AsFound(b, s)' BY <1>h, <2>1, <2>7, <3>4
      <4>3. s \in handled'[b] => AtRest(b, s)'
        BY <1>g, <2>1, <2>6, <3>2, <4>1 DEF ServiceOK, Returning
      <4>4. ServiceOK(b, s)' BY <4>1, <4>2, <4>3 DEF ServiceOK, InService
      <4> QED BY <1>o, <4>1, <4>4 DEF KnownOK, InService
    <3> QED BY <3>3, <3>4
  <2> QED BY <2>10, <2>11
<1>7. CASE CaptureFails(b)
  <2>1. pc[b] = "capture" /\ UNCHANGED <<atLock, handled, archive, runtime>>
    BY <1>7 DEF CaptureFails, targetVars, repositoryVars
  <2>2. CASE ~stopped[b] /\ Fail(b, "failed") BY <1>f, <1>h, <2>1, <2>2
  <2>3. CASE Goto(b, "restart") /\ failed' = Set(failed, b, TRUE)
    <3>1. pc'[b] = "restart" /\ failed'[b] BY <1>0, <2>3 DEF Goto, Set, CreateTypeOK
    <3>2. Current(b)' = Current(b) BY <2>1 DEF Current, Rest
    <3>3. ServiceOK(b, s)'
      BY <1>g, <2>1, <3>1, <3>2 DEF ServiceOK, AsFound, AtRest, InService, Returning
    <3>4. StoppedOK(b, s)' BY <3>1 DEF StoppedOK
    <3> QED BY <1>o, <3>3, <3>4 DEF KnownOK
  <2> QED BY <1>7, <2>2, <2>3 DEF CaptureFails
<1>8. CASE Restart(b)
  <2>1. pc[b] = "restart" /\ UNCHANGED <<atLock, handled, failed, archive, runtime>>
    BY <1>8 DEF Restart, targetVars, repositoryVars
  <2>2. CASE Fail(b, "restart failed") BY <1>f, <2>1, <2>2 DEF Cut
  <2>3. CASE Goto(b, "restarting")
    <3>1. pc'[b] = "restarting" BY <1>0, <2>3 DEF Goto, CreateTypeOK
    <3>2. Current(b)' = Current(b) BY <2>1 DEF Current, Rest
    <3>3. ServiceOK(b, s)'
      BY <1>g, <2>1, <3>1, <3>2 DEF ServiceOK, AsFound, AtRest, InService, Returning
    <3>4. s = Current(b) => StoppedOK(b, s)' BY <1>g, <2>1, <3>1 DEF StoppedOK, AtRest, InService
    <3> QED BY <1>o, <3>2, <3>3, <3>4 DEF KnownOK
  <2> QED BY <1>8, <2>2, <2>3 DEF Restart
<1>9. CASE RestartReturned(b)
  <2>1. pc[b] = "restarting" /\ UNCHANGED <<atLock, archive, runtime>> /\ NeedsStop(b)
    BY <1>9, <1>i DEF RestartReturned, targetVars, repositoryVars, ProgressOK, InService
  <2>2. CASE Fail(b, "restart failed") BY <1>f, <2>1, <2>2 DEF Cut
  <2>3. CASE runtime[Current(b)] = "running" /\ ~Fail(b, "restart failed")
    <3>1. AsFound(b, s)
      <4>1. CASE s = Current(b) BY <1>s, <2>1, <2>3, <4>1 DEF AsFound, NeedsStop
      <4>2. CASE s # Current(b) BY <1>g, <2>1, <4>2 DEF ServiceOK, InService
      <4> QED BY <4>1, <4>2
    <3>2. CASE Fail(b, "failed") BY <1>f, <2>1, <3>1, <3>2
    <3>3. CASE ~failed[b] /\ Goto(b, "next") /\ handled' = Set(handled, b, handled[b] \cup {Current(b)})
      <4>1. pc'[b] = "next" /\ handled'[b] = handled[b] \cup {Current(b)}
        BY <1>0, <3>3 DEF Goto, Set, CreateTypeOK
      <4>2. s \in handled'[b] => AtRest(b, s)
        BY <1>g, <2>1, <3>3, <4>1 DEF ServiceOK, StoppedOK, InService, Returning
      <4>3. AsFound(b, s)' /\ (s \in handled'[b] => AtRest(b, s)') BY <2>1, <3>1, <4>2 DEF AsFound, AtRest
      <4>4. ServiceOK(b, s)' BY <4>1, <4>3 DEF ServiceOK, InService
      <4> QED BY <1>o, <4>1, <4>4 DEF KnownOK, InService
    <3> QED BY <1>9, <2>3, <3>2, <3>3 DEF RestartReturned
  <2> QED BY <1>9, <2>2, <2>3 DEF RestartReturned
<1>10. CASE Seal(b) \/ Publish(b) \/ Protect(b)
  <2>1. /\ pc[b] \in {"next", "publish", "protect"}
        /\ UNCHANGED <<atLock, handled, archive, runtime>>
    BY <1>10 DEF Seal, Publish, Protect, targetVars
  <2>2. AsFound(b, s) /\ (s \in handled[b] => AtRest(b, s)) BY <1>g, <2>1 DEF ServiceOK, Returning
  <2>3. AsFound(b, s)' /\ (s \in handled'[b] => AtRest(b, s)') BY <2>1, <2>2 DEF AsFound, AtRest
  <2>4. CASE Fail(b, "failed") BY <1>f, <2>1, <2>2, <2>4
  <2>5. CASE \E label \in {"publish", "protect", "release"} : Goto(b, label)
    <3>1. pc'[b] \in {"publish", "protect", "release"} BY <1>0, <2>5 DEF Goto, CreateTypeOK
    <3>2. ServiceOK(b, s)' BY <2>3, <3>1 DEF ServiceOK, InService
    <3> QED BY <1>o, <3>1, <3>2 DEF KnownOK, InService
  <2> QED BY <1>10, <2>4, <2>5 DEF Seal, Publish, Protect, DiskFails
<1>11. CASE Abort(b)
  <2>1. pc[b] = "abort" /\ UNCHANGED <<result, atLock, runtime>> BY <1>11 DEF Abort, createVars, targetVars
  <2>2. pc'[b] = "release" /\ result'[b] # "ok"
    BY <1>0, <1>11, <1>i, <2>1 DEF Abort, Goto, CreateTypeOK, ProgressOK
  <2>3. ServiceOK(b, s)' BY <1>g, <2>1, <2>2 DEF ServiceOK, AsFound, InService, Returning
  <2> QED BY <1>o, <2>2, <2>3 DEF KnownOK, InService
<1>12. CASE ScriptRuns(b)
  <2>1. PICK phase \in {"ok", "failed"}, rt \in Runtimes :
          /\ script[b].kind = "stop" /\ phase = "ok" => rt = "stopped"
          /\ runtime' = [runtime EXCEPT ![script[b].service] = rt]
          /\ script' = Set(script, b,
               [kind |-> script[b].kind, service |-> script[b].service, phase |-> phase])
    BY <1>12 DEF ScriptRuns
  <2>x. PICK x : x = [kind |-> script[b].kind, service |-> script[b].service, phase |-> phase] OBVIOUS
  <2>2. script'[b] = x /\ x.phase = phase BY <1>0, <2>1, <2>x DEF Set, LockTypeOK
  <2>3. script[b] # NoScript
        /\ UNCHANGED <<pc, result, facts, atLock, handled, failed, reading, archive, version>>
    BY <1>12 DEF ScriptRuns, createVars, repositoryVars
  <2>4. Current(b)' = Current(b) BY <2>3 DEF Current, Rest
  <2>5. \/ pc[b] \in {"stopping", "restarting"} /\ script[b].service = Current(b)
        \/ pc[b] \in Returning /\ result[b] \in Cut
    BY <1>i, <1>l, <2>3 DEF CommandOK, Create
  <2>6. pc[b] \in {"stopping", "restarting"} /\ s # Current(b) => runtime'[s] = runtime[s]
    BY <1>0, <2>1, <2>5 DEF StoreTypeOK, Returning
  <2>7. AtRest(b, s)' <=> AtRest(b, s) BY <2>3 DEF AtRest
  <2>8. ServiceOK(b, s)'
    BY <1>g, <2>3, <2>4, <2>5, <2>6, <2>7 DEF ServiceOK, AsFound, InService, Returning, Cut
  <2>9. ASSUME pc[b] \in InService, s = Current(b) PROVE StoppedOK(b, s)'
    <3>1. pc[b] \in {"stopping", "restarting"} /\ script[b].service = s BY <2>5, <2>9 DEF InService, Returning
    <3>2. runtime'[s] = rt BY <1>0, <1>s, <2>1, <3>1 DEF StoreTypeOK
    <3>3. pc[b] = "stopping" => (phase = "ok" => rt = "stopped") BY <1>i, <2>1 DEF CommandOK
    <3>4. StoppedOK(b, s) BY <1>g, <2>9
    <3> QED BY <2>2, <2>3, <2>7, <3>1, <3>2, <3>3, <3>4 DEF StoppedOK
  <2> QED BY <1>o, <2>3, <2>4, <2>8, <2>9 DEF KnownOK
<1>13. CASE OrphanEnds(b)
  <2>1. pc[b] \notin {"stopping", "restarting"}
        /\ UNCHANGED <<pc, result, facts, atLock, handled, failed, reading, archive, runtime, version>>
    BY <1>13 DEF OrphanEnds, createVars, targetVars, repositoryVars
  <2>2. Current(b)' = Current(b) BY <2>1 DEF Current, Rest
  <2>3. ServiceOK(b, s)' BY <1>g, <2>1, <2>2 DEF ServiceOK, AsFound, AtRest
  <2>4. pc[b] \in InService /\ s = Current(b) => StoppedOK(b, s)'
    BY <1>g, <2>1 DEF StoppedOK, AtRest
  <2> QED BY <1>o, <2>1, <2>2, <2>3, <2>4 DEF KnownOK
<1> QED BY <1>n, <1>1, <1>2, <1>3, <1>4, <1>5, <1>6, <1>7, <1>8, <1>9, <1>10, <1>11, <1>12, <1>13
      DEF StepOf, Controller, WaitExpires, ConnectionLost

\* Nobody comes to the lock but by being granted it.
LEMMA OnlyGranted ==
  ASSUME NEW b \in Backups, StepOf(b), holder' = b
  PROVE  holder = b \/ LockGranted(b)
<1>1. ASSUME End(b) PROVE FALSE BY <1>1, BackupsAssumption DEF End
<1>2. ASSUME Controller(b), ~Release(b) PROVE holder = b \/ LockGranted(b)
  BY <1>1, <1>2
     DEF Controller, Inspect, NotStarted, Begin, NextService, StopReturned, WaitExpires, StopWaiting,
         CaptureBegins, CaptureEnds, CaptureFails, Restart, RestartReturned, Seal, Publish, Protect, Abort,
         PlanRetention, PruneNext, DeleteBegins, DeleteEnds, lockVars
<1>3. ASSUME Release(b) PROVE FALSE BY <1>1, <1>3, BackupsAssumption DEF Release
<1>4. CASE \/ StartBackup(b) \/ ScriptRuns(b) \/ OrphanEnds(b) \/ Timeout(b)
           \/ ConnectionLost(b) \/ LockLost(b) \/ Crash(b)
  BY <1>1, <1>4, BackupsAssumption
     DEF StartBackup, ScriptRuns, OrphanEnds, Timeout, ConnectionLost, StopWaiting, LockLost, Crash, lockVars
<1> QED BY <1>2, <1>3, <1>4 DEF StepOf

\* The holder keeps what it knows, whoever takes the next step.
LEMMA HeldStep == OwnInv /\ HeldInv /\ [Next]_vars => HeldInv'
<1> SUFFICES ASSUME OwnInv, HeldInv, [Next]_vars, NEW b \in Backups, holder' = b, NEW s \in Known(b)'
             PROVE  KnownOK(b, s)'
  BY DEF HeldInv
<1>0. \A c \in Backups : Known(c) \subseteq Services /\ Known(c)' \subseteq Services
  BY ServicesAssumption DEF Known, Watched
<1>h. holder = b => pc[b] \in Create BY DEF OwnInv, SelfInv, ProgressOK
<1>k. ASSUME Same(b), holder = b PROVE Known(b)' = Known(b) /\ KnownOK(b, s)
  BY <1>k DEF Same, Known, Watched, HeldInv
<1>1. ASSUME StepOf(b) PROVE KnownOK(b, s)'
  <2>1. CASE LockGranted(b) BY <2>1, HeldGrant
  <2>2. CASE holder = b
    <3>1. \A t \in Known(b) : KnownOK(b, t)' /\ Known(b)' = Known(b)
      BY <1>1, <2>2, HeldOwn DEF HeldInv
    <3>2. s \in Known(b)
      <4>1. ~End(b) /\ ~LockGranted(b) /\ ~Release(b) /\ ~Inspect(b)
        BY <1>h, <2>2, BackupsAssumption DEF End, LockGranted, Release, Inspect, Create
      <4>2. UNCHANGED <<facts, atLock>>
        BY <1>1, <4>1
           DEF StepOf, StartBackup, Controller, NotStarted, Begin, NextService, StopReturned, WaitExpires,
               StopWaiting, CaptureBegins, CaptureEnds, CaptureFails, Restart, RestartReturned, Seal, Publish,
               Protect, Abort, PlanRetention, PruneNext, DeleteBegins, DeleteEnds, ScriptRuns, OrphanEnds,
               Timeout, ConnectionLost, LockLost, Crash, createVars
      <4> QED BY <4>2 DEF Known, Watched
    <3> QED BY <3>1, <3>2
  <2> QED BY <1>1, <2>1, <2>2, OnlyGranted
<1>2. ASSUME NEW c \in Backups \ {b}, StepOf(c) PROVE KnownOK(b, s)'
  <2>1. \A d \in Backups \ {c} : Same(d) BY <1>2, OthersKeep DEF OwnInv
  <2>2. holder = b /\ KnownOK(b, s) /\ s \in Services BY <1>0, <1>k, <2>1 DEF Same
  <2>3. runtime'[s] = runtime[s] /\ version' = version /\ Apart(c, s)'
    BY <1>2, <2>2, Elsewhere, BackupsAssumption DEF KnownOK
  <2>4. \A d \in Backups : Watched(d)' = Watched(d) BY DEF Watched
  <2>5. \A d \in Backups \ {b} : Apart(d, s)'
    BY <2>1, <2>2, <2>3, <2>4 DEF KnownOK, Apart, Same
  <2> QED BY <1>h, <2>1, <2>2, <2>3, <2>5, SameKnown
<1>3. ASSUME UNCHANGED <<pc, createVars, script, holder, archive, runtime>>,
             \A t \in Services : version'[t] = version[t] \/ runtime[t] = "running"
      PROVE  KnownOK(b, s)'
  <2>1. Same(b) /\ holder = b BY <1>3 DEF Same, createVars
  <2>2. KnownOK(b, s) /\ s \in Services BY <1>0, <1>k, <2>1
  <2>3. \A d \in Backups : Watched(d)' = Watched(d) BY DEF Watched
  <2>4. \A d \in Backups \ {b} : Apart(d, s)' BY <1>3, <2>2, <2>3 DEF KnownOK, Apart
  <2>5. pc[b] = "capture" /\ s = Current(b) => version'[s] = version[s]
    BY <1>3, <2>2 DEF KnownOK, StoppedOK, InService
  <2> QED BY <1>3, <1>h, <2>1, <2>2, <2>4, <2>5, SameKnown
<1>4. CASE Environment
  <2>1. ASSUME NEW t \in Services, OtherCommand(t) PROVE FALSE
    <3>1. holder = Nobody /\ holder' = holder BY <2>1 DEF OtherCommand, lockVars
    <3> QED BY <3>1, BackupsAssumption
  <2>2. ASSUME NEW t \in Services, ApplicationWrites(t) PROVE KnownOK(b, s)'
    <3>1. UNCHANGED <<pc, createVars, script, holder, archive, runtime>>
      BY <2>2 DEF ApplicationWrites, lockVars, repositoryVars
    <3>2. \A u \in Services : version'[u] = version[u] \/ runtime[u] = "running"
      BY <2>2 DEF ApplicationWrites, OwnInv, TypeOK, StoreTypeOK
    <3> QED BY <1>3, <3>1, <3>2
  <2> QED BY <1>4, <2>1, <2>2, ServicesAssumption DEF Environment
<1>5. CASE UNCHANGED vars BY <1>3, <1>5 DEF vars, lockVars, targetVars, repositoryVars
<1> QED BY <1>1, <1>2, <1>4, <1>5 DEF Next, StepOf

Inv == OwnInv /\ HeldInv

\* So the holder's knowledge is true in every reachable state.
LEMMA Invariance == Spec => []Inv
<1>1. Init => SelfInv /\ HeldInv BY InitSelf, BackupsAssumption DEF Init, HeldInv
<1>2. TypeOK /\ AtService /\ StoreInv /\ ListInv /\ SelfInv /\ HeldInv => Inv BY DEF Inv, OwnInv
<1>3. Inv /\ [Next]_vars => Inv' BY OwnStep, HeldStep DEF Inv
<1> QED BY <1>1, <1>2, <1>3, ListedInvariance, PTL DEF Spec

\* A snapshot of a service with consistency = "stop" is at rest: whatever
\* happens beside it, all its archives are whole and of one moment, if the lock
\* was kept and the service was then as it had been inspected.
THEOREM StoppedIsConsistent == Spec => []StopIsConsistent
<1>1. Inv => StopIsConsistent
  <2> SUFFICES ASSUME Inv, NEW b \in Backups, pc[b] = "release", holder = b, result[b] = "ok",
                      NEW s \in Known(b)
               PROVE  AtRest(b, s)
    BY DEF StopIsConsistent
  <2>1. Rest(b) = {} BY DEF Inv, OwnInv, SelfInv, ProgressOK
  <2>2. s \in handled[b] BY <2>1 DEF Rest, Known, Watched
  <2> QED BY <2>2 DEF Inv, HeldInv, KnownOK, ServiceOK
<1> QED BY <1>1, Invariance, PTL

\* Whatever fails, a service is left as it was found, or the error says that
\* its stop or the recovery restart failed.
THEOREM ServicesAreLeftAsFound == Spec => []LeftAsFound
<1>1. Inv => LeftAsFound
  BY DEF LeftAsFound, Inv, HeldInv, KnownOK, ServiceOK, AsFound, Returning, Cut
<1> QED BY <1>1, Invariance, PTL

=============================================================================
