-------------------------- MODULE MCServerLifecycle --------------------------
(* Instances of ServerLifecycle for TLC.  Processes, workspaces and fresh     *)
(* identifiers are told apart by nothing but their names.                     *)
EXTENDS ServerLifecycle, TLC

CONSTANTS p1, p2, w1, i1, i2, i3

LifecycleSymmetry == Permutations(Processes) \cup Permutations(Ids)
=============================================================================
