------------------------------- MODULE MCTimers -------------------------------
(* Small instances of Timers. *)
EXTENDS Timers

CONSTANTS v1, v2

EveryBackend == {"systemd-user", "launchd"}
TwoJobs == {1, 2}
OneOldJob == {1}
TwoVersions == {v1, v2}
EveryFault == {"command", "hand"}

\* The first job may be given another schedule; the second is switched off or
\* leaves the configuration, and comes back.
OffersOfTwo == <<{v1, v2}, {v1, "off", "gone"}>>
=============================================================================
