------------------------------ MODULE MCRestore ------------------------------
(***************************************************************************)
(* Instances of Restore for TLC.                                           *)
(***************************************************************************)
EXTENDS Restore

\* Restore 1 runs as root and meets every fault; restore 2 runs with sudo, and
\* may die or see its commands fail.
Two == {1, 2}
One == {1}
AllFaults == {"script", "session", "timeout", "crash", "retention"}
FaultsOfBoth == <<AllFaults, {"crash", "script"}>>

\* Both restore the one service.  Its resource has a number no service has, so
\* that the two cannot be taken for each other.
DataOfOne == <<{2}>>
RequestsOfOne == <<{1}, {1}>>
=============================================================================
