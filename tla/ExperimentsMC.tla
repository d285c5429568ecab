--------------------------- MODULE ExperimentsMC ---------------------------
(***************************************************************************)
(* Instances of Experiments for TLC.                                       *)
(***************************************************************************)
EXTENDS Experiments

CONSTANTS v1, v2, v3, c1, c2

TwoVersions == {v1, v2}
ThreeVersions == {v1, v2, v3}
OneWriter   == {c1}
TwoWriters  == {c1, c2}

=============================================================================
