------------------------------ MODULE MCBackup ------------------------------
(***************************************************************************)
(* Instances of Backup for TLC.                                            *)
(***************************************************************************)
EXTENDS Backup

Four == {1, 2, 3, 4}
\* Two snapshots are there, 1 a manual and 2 a scheduled one.
FirstTwo == {1, 2}
LastThree == {2, 3, 4}
One == {1}

\* Service 1 has two resources and service 2 has one.
TwoServices == {1, 2}
DataOfTwo == <<{1, 2}, {1}>>
Requests == <<{2}, {2}, {1, 2}, {1}>>

DataOfOne == <<{1, 2}>>
RequestOne == <<{1}>>
=============================================================================
