--------------------------- MODULE MCSnapshotStore ---------------------------
(* Instances of SnapshotStore for TLC.  Captures and places are told apart by *)
(* nothing but their names.                                                   *)
EXTENDS SnapshotStore, TLC

CONSTANTS c1, c2, d1

CaptureSymmetry == Permutations(Captures)
=============================================================================
