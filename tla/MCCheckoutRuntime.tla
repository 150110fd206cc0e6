-------------------------- MODULE MCCheckoutRuntime --------------------------
(* CheckoutRuntime for TLC.  Hosts close the issue and take it away; reopening *)
(* and the sweeper, which other runs have, are left out.                       *)
EXTENDS CheckoutRuntime

NextCheckout ==
    \/ Command \/ Shutdown \/ Agent \/ Finish \/ Tick \/ Beat
    \/ CommandFails \/ Interrupt \/ Crash
    \/ (\E s \in 0..1 : ServerStep(s)) \/ GiveUp \/ Advance
    \/ /\ \E i \in Issues : HumanClose(i) \/ ForceRelease(i)
       /\ UNCHANGED runtimeVars

SpecCheckout == Init /\ [][NextCheckout]_vars /\ Fairness
==============================================================================
