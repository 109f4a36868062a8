------------------------------- MODULE MCApply -------------------------------
(* Instances of Apply for TLC: one service, few releases, one or two controllers. *)
EXTENDS Apply, TLC

CONSTANTS c1, c2

Rel(digest, secret, placement) ==
  [digest |-> digest, secret |-> secret, placement |-> placement]

Declare(g, r) == [goal |-> [s \in Services |-> g], source |-> [s \in Services |-> r]]

\* Two users disagree about the content and the presence of the service.
RelA == Rel("d1", "k1", NoPlacement)
RelB == Rel("d2", "k1", NoPlacement)
TwoReleases == {RelA, RelB}
ContentConfigs == {Declare("running", RelA), Declare("stopped", RelB), Declare("absent", RelA)}

\* One content, to be brought up.
OneRelease == {RelA}
StartConfigs == {Declare("running", RelA)}

\* One content with persistent data, a rotated secret and another storage.
DataHere == Rel("d1", "k1", "p1")
DataRotated == Rel("d1", "k2", "p1")
DataElsewhere == Rel("d1", "k1", "p2")
DataReleases == {DataHere, DataRotated, DataElsewhere}
DataConfigs == {Declare(g, r) : g \in {"running", "stopped", "absent"}, r \in DataReleases}

MCSymmetry == Permutations(Controllers)
=============================================================================
