---------------------------- MODULE SnapshotStore ----------------------------
(***************************************************************************)
(* What the backup repository promises of its snapshots, with no mention   *)
(* of stages, manifests or files: a snapshot appears whole, and one that   *)
(* retention manages goes away only while KeepLast newer ones are there.   *)
(***************************************************************************)
EXTENDS Naturals, FiniteSets

CONSTANTS
  Snapshots,   \* numbered in the order retention sorts them
  Managed,     \* the snapshots of the scope that retention prunes
  KeepLast     \* maintenance.jobs.retention.keep_last

VARIABLE store \* the snapshots that are complete and verify

\* Newer managed snapshots of a set.
NewerIn(set, x) == {y \in set \cap Managed : y > x}

StoreInit == store \in SUBSET Snapshots

Publish(x) == x \notin store /\ store' = store \cup {x}

Prune(x) ==
  /\ x \in store \cap Managed
  /\ Cardinality(NewerIn(store, x)) >= KeepLast
  /\ store' = store \ {x}

StoreNext == \E x \in Snapshots : Publish(x) \/ Prune(x)

StoreSpec == StoreInit /\ [][StoreNext]_store
=============================================================================
