--------------------------- MODULE MCPiController ---------------------------
(* Instances of PiController for TLC.  A behaviour draws from one of two sets *)
(* of calls, each of which leaves out what the other has; all properties are  *)
(* checked with both.                                                         *)
EXTENDS PiController

CONSTANT p1

VARIABLE calls          \* the set of calls that is made, "gate" or "retained"

\* The gate: every call but checkout and retryPending, which the other set has.
Gate(p) ==
    \/ ReadState(p) \/ StartRenew(p) \/ StartRelease(p) \/ StartLook(p)
    \/ /\ Running(p) /\ Idle(p)
       /\ \/ \E i \in Issues : NewClaim(p, i, FALSE)
          \/ AgainClaim(p, FALSE) \/ LookFirst(p, "close", FALSE) \/ AgainClose(p, FALSE)

\* A request that is given up on is lost.
NoStrays == \A p \in Controllers, s \in Slots \ {0} : req[p][s] = NoRequest

NextGate ==
    /\ \/ Advance \/ Authority
       \/ \E p \in Controllers :
             Gate(p) \/ Timer(p) \/ ServerStep(p) \/ Finish(p) \/ GiveUp(p) \/ Shutdown(p)
    /\ NoStrays'

\* Retained and abandoned requests: no heartbeat, whose renewals prolong what
\* is held, no host, no shutdown, no look but those of a close or checkout.
NextRetained ==
    \/ Advance
    \/ \E p \in Controllers :
          \/ StartRetained(p) \/ StartRelease(p)
          \/ CallRetry(p) \/ RunRetry(p)
          \/ ServerStep(p) \/ Finish(p) \/ Loss(p) \/ Crash(p)

InitPi == Init /\ calls \in {"gate", "retained"}
NextPi ==
    /\ \/ calls = "gate" /\ NextGate
       \/ calls = "retained" /\ NextRetained
    /\ UNCHANGED calls
SpecPi == InitPi /\ [][NextPi]_<<vars, calls>>
=============================================================================
