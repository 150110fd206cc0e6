------------------------- MODULE MCSupervisedCheckout -------------------------
(* Instances of SupervisedCheckout for TLC: one actor and one workspace.  The   *)
(* restricted relations leave out what differs only in its answer (looks        *)
(* without a prompt) and what MCSupervisedRuntime runs (renewals by a client,   *)
(* the background sweeper: every transaction expires leases as well).           *)
EXTENDS SupervisedCheckout

CONSTANTS a1, p1, s1, w1

OneProcess == [a \in Actors |-> p1]
OneSession == [a \in Actors |-> s1]

CommandStep(a) ==
    \/ SessionEnd(a)
    \/ \E i \in Issues : StartClaim(a, i)
    \/ StartHeld(a, "release") \/ StartClose(a) \/ Resend(a)
    \/ Pause(a) \/ PromptLocally(a)

NextCheckouts ==
    \/ /\ \/ \E i \in Instances : Register(i) \/ ProcessExit(i)
          \/ Advance \/ RetireDead
          \/ /\ \E i \in Issues : HumanClose(i) \/ HumanReopen(i) \/ ForceRelease(i)
             /\ UNCHANGED runtimeVars
          \/ \E a \in Actors : \/ CommandStep(a) \/ Touch(a) \/ StartRefresh(a, "prompt")
                               \/ KataStep(a) \/ FinishStep(a) \/ TickStep(a)
       /\ UNCHANGED <<job, target>>
    \/ CheckoutRestart
    \/ \E a \in Actors : CheckoutStep(a)
    \/ \E w \in Workspaces : JobStep(w)

SpecCheckouts == CheckoutInit /\ [][NextCheckouts]_checkoutVars

\* For liveness: one tenure of an actor whose session or process ends in any way.
NextFair ==
    \/ /\ \/ \E i \in Instances : \/ Register(i) \/ ProcessExit(i)
                                  \/ \E normal \in BOOLEAN : EndInstance(i, normal)
          \/ Advance \/ RetireDead
          \/ \E i \in Issues : HumanClose(i) /\ UNCHANGED runtimeVars
          \/ \E a \in Actors : CommandStep(a) \/ KataStep(a) \/ FinishStep(a) \/ TickStep(a)
       /\ UNCHANGED <<job, target>>
    \/ \E a \in Actors : StartCheckout(a) \/ FinishCheckout(a)
    \/ \E w \in Workspaces : JobStep(w)

FairSpec == CheckoutInit /\ [][NextFair]_checkoutVars /\ Fairness
===============================================================================
