-------------------------- MODULE MCRequestReceipts --------------------------
(* Instances of RequestReceipts for TLC.  Request ids are random and compared  *)
(* for equality only, so they are symmetric.                                   *)
EXTENDS RequestReceipts, TLC

CONSTANTS r1, r2, r3, r4

RequestSymmetry == Permutations(Requests)
==============================================================================
