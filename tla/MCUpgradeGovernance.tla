------------------------- MODULE MCUpgradeGovernance -------------------------
(* Values of the constants of UpgradeGovernance for TLC. *)
EXTENDS UpgradeGovernance

CONSTANTS k1, k2, k3

\* Rotation: overlapping guardian sets, a duplicate, and an empty vector.
RotationVecs == {<<>>, <<k1, k2>>, <<k2, k3>>, <<k1, k2, k3>>, <<k2, k2>>}

\* Two proposals: one guardian set of two, a smaller one, a duplicate.
PairVecs == {<<k1, k2>>, <<k2>>, <<k1, k1>>}
RotationTimelocks == {-1, 0, 1}
PairTimelocks == {-1, 1}
===============================================================================
