----------------------------- MODULE ComposePlan -----------------------------
(***************************************************************************)
(* The pure part of the services module (internal/modules/compose.go): the *)
(* observation a plan is computed from, the changes it consists of and the *)
(* order in which they run.                                                *)
(*                                                                         *)
(* A release stands for everything internal/services resolves from a       *)
(* service's source directory: the digest of its non-secret files, which   *)
(* also names its directory on the target, the keyed marker of its secret  *)
(* environment file and the fingerprint of its persistent-data placement.  *)
(* Services are numbered in the lexical order of their names.              *)
(***************************************************************************)
EXTENDS Naturals

CONSTANTS
  Services,     \* the declared Compose services
  Releases,     \* what their sources can resolve to: [digest, secret, placement]
  NoRelease,    \* no (readable) deployment
  Foreign,      \* `current` is not a symlink into the service's releases
  NoSecret,     \* the service declares no secret_env_file
  NoPlacement   \* the service declares no storage-backed data

ASSUME ServicesAssumption == Services \subseteq Nat

ASSUME ReleasesAssumption ==
  /\ NoRelease \notin Releases
  /\ Foreign \notin Releases
  /\ NoRelease # Foreign
  /\ \A r \in Releases : r.digest \notin {NoRelease, Foreign}

Digests == {r.digest : r \in Releases}

Goals == {"running", "stopped", "absent"}

Runtimes == {"missing", "stopped", "starting", "running", "unhealthy", "unknown"}

\* facts.Service: what one inspection reports of one service.
Observation == [disk : Releases \cup {NoRelease, Foreign}, runtime : Runtimes]

Kinds == {"deploy", "start", "stop", "remove"}

\* plan.Change as the services module fills it in. `was` is the digest that
\* the precondition of a deploy pins, NoRelease when it pins an absent path.
Change == [service : Services, kind : Kinds, release : Releases,
           was : Digests \cup {NoRelease}, blocked : BOOLEAN]

-----------------------------------------------------------------------------
Present(obs) == obs.disk \in Releases

Unsafe(obs) == obs.disk = Foreign

\* Mutant: placement is compared only along with changed content.
MutPlacementChanged(r, obs) ==
  /\ Present(obs)
  /\ r.placement # NoPlacement
  /\ obs.disk.digest # r.digest
  /\ obs.disk.placement # r.placement

PlacementChanged(r, obs) ==
  /\ Present(obs)
  /\ r.placement # NoPlacement
  /\ obs.disk.placement # r.placement

DeploymentChanged(r, obs) ==
  \/ ~Present(obs)
  \/ obs.disk.digest # r.digest
  \/ r.secret # NoSecret /\ obs.disk.secret # r.secret
  \/ PlacementChanged(r, obs)

ServiceChange(s, kind, r, obs, blocked) ==
  [service |-> s, kind |-> kind, release |-> r,
   was |-> IF Present(obs) THEN obs.disk.digest ELSE NoRelease,
   blocked |-> blocked]

\* Mutant: a removal is never blocked.
MutRemoveChanges(s, r, obs) ==
  {ch \in {ServiceChange(s, "remove", r, obs, FALSE)} :
     Present(obs) \/ Unsafe(obs) \/ obs.runtime # "missing"}

RemoveChanges(s, r, obs) ==
  {ch \in {ServiceChange(s, "remove", r, obs, Unsafe(obs))} :
     Present(obs) \/ Unsafe(obs) \/ obs.runtime # "missing"}

DeployChanges(s, r, obs) ==
  {ch \in {ServiceChange(s, "deploy", r, obs,
                         Unsafe(obs) \/ PlacementChanged(r, obs))} :
     DeploymentChanged(r, obs)}

StartChanges(s, r, obs) ==
  {ch \in {ServiceChange(s, "start", r, obs, Unsafe(obs))} :
     DeploymentChanged(r, obs) \/ obs.runtime # "running"}

StopChanges(s, r, obs) ==
  {ch \in {ServiceChange(s, "stop", r, obs, Unsafe(obs))} :
     obs.runtime \notin {"stopped", "missing"}}

\* Compose.Plan for one service.
ServicePlan(s, goal, r, obs) ==
  IF goal = "absent"
  THEN RemoveChanges(s, r, obs)
  ELSE DeployChanges(s, r, obs) \cup
       (IF goal = "running" THEN StartChanges(s, r, obs) ELSE StopChanges(s, r, obs))

Plan(goal, source, facts) ==
  UNION {ServicePlan(s, goal[s], source[s], facts[s]) : s \in Services}

Executable(changes) == {ch \in changes : ~ch.blocked}

\* plan.SortChanges on service changes: identifiers are `service.<name>.<verb>`
\* and a start or stop depends on the deploy of its service.
Precedes(a, b) ==
  \/ a.service < b.service
  \/ a.service = b.service /\ a.kind = "deploy" /\ b.kind # "deploy"

First(changes) == {ch \in changes : \A other \in changes \ {ch} : Precedes(ch, other)}

=============================================================================
