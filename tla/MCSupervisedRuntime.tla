------------------------- MODULE MCSupervisedRuntime -------------------------
(* Instances of SupervisedRuntime for TLC: one or two actors of one harness    *)
(* process (a thread and its subagent).  The restricted relation leaves out    *)
(* pauses, looks and the ends of processes, which MCSupervisedCheckout has, so  *)
(* that the bounds on tenures and time can be larger.                          *)
EXTENDS TenureRefinement, TLC

CONSTANTS a1, a2, p1, s1

OneProcess == [a \in Actors |-> p1]
OneSession == [a \in Actors |-> s1]

\* The actors of one process and session are alike.
Symmetry == Permutations(Actors)

\* Two running actors, humans, the sweeper and time; no process ends, nobody
\* pauses.
NextContention ==
    \/ \E i \in Instances : Register(i)
    \/ Advance \/ Authority
    \/ \E a \in Actors :
          \/ \E i \in Issues : StartClaim(a, i)
          \/ StartHeld(a, "release") \/ StartClose(a) \/ Resend(a)
          \/ DispatchFails(a)
          \/ ShowIssue(a) \/ AcquireLease(a) \/ AcquireIsDenied(a)
          \/ ConfirmIssue(a) \/ CleanupClaim(a)
          \/ RenewLease(a) \/ ReleaseLease(a) \/ CloseIssue(a)
          \/ FinishUnknown(a) \/ FinishRejected(a)
          \/ FinishClaim(a) \/ FinishRenew(a) \/ FinishRelease(a) \/ FinishClose(a)
          \/ TickLapsed(a) \/ TickRenew(a)

SpecContention == Init /\ [][NextContention]_vars
==============================================================================
