-------------------------- MODULE TenureRefinement --------------------------
(* The supervised runtime as an implementation of ExclusiveTenure.  A tenure  *)
(* is a claim row; it is over when its time is up, whether or not the         *)
(* authority has written that down; an actor works while it believes.         *)
EXTENDS SupervisedRuntime

PhaseOf(row) ==
    CASE row.state = "free" -> "none"
      [] row.state = "held" /\ row.left > 0 -> "held"
      [] row.state = "released" -> "revoked"
      [] OTHER -> "over"

Promise == INSTANCE ExclusiveTenure WITH
    Tenures <- Claims,
    phase <- [c \in Claims |-> PhaseOf(claims[c])],
    issue <- [c \in Claims |-> claims[c].issue],
    works <- [a \in Actors |-> IF Believes(a) THEN actor[a].active.claim ELSE 0]

\* KeepsPromise.  The runtime implements ExclusiveTenure: through slow and lost
\* answers, retries, deaths and restarts (runtime_core.go execute, tick) every
\* step of it is one that the promise allows, or none.
KeepsPromise == Promise!TenureSpec
=============================================================================
