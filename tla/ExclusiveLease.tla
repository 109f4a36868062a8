--------------------------- MODULE ExclusiveLease ---------------------------
(***************************************************************************)
(* What the target-side apply lock promises, with no mention of sessions,  *)
(* scripts or plans: one controller at a time owns the lease, deployments  *)
(* on the target are rewritten only by a writer that owns it, and the      *)
(* lease does not change hands while a write is in progress.               *)
(***************************************************************************)
CONSTANTS Owners, Nobody

VARIABLES
  owner,       \* who owns the lease
  writers,     \* the owners with a write in progress on the target
  deployments  \* the state the lease protects

leaseVars == <<owner, writers, deployments>>

LeaseInit == owner = Nobody /\ writers = {}

Grant(o) ==
  /\ owner = Nobody
  /\ owner' = o
  /\ UNCHANGED <<writers, deployments>>

Surrender(o) ==
  /\ owner = o /\ writers = {}
  /\ owner' = Nobody
  /\ UNCHANGED <<writers, deployments>>

\* A write starts, ends, or rewrites deployments in between.
BeginWrite(o) ==
  /\ owner = o /\ writers = {}
  /\ writers' = {o}
  /\ UNCHANGED <<owner, deployments>>

Rewrite(o) ==
  /\ owner = o /\ writers = {o}
  /\ writers' \in {writers, {}}
  /\ UNCHANGED owner

LeaseNext == \E o \in Owners : Grant(o) \/ Surrender(o) \/ BeginWrite(o) \/ Rewrite(o)

LeaseSpec == LeaseInit /\ [][LeaseNext]_leaseVars
=============================================================================
