---------------------------- MODULE MCWorkerCheckout ----------------------------
(* WorkerCheckout for TLC.  Only the first tenure makes workspaces; the second   *)
(* one shares its gate.  Closed issues are not reopened, which the runs of       *)
(* SupervisedRuntime do.                                                         *)
EXTENDS WorkerCheckout

NextTenures ==
    \/ \E i \in Issues : Claim(i)
    \/ \E c \in Claims : StartRelease(c) \/ StartClose(c)
    \/ \E r \in Requests : StartCheckout(1, r)
    \/ /\ Lapse \/ Sweep \/ \E i \in Issues : HumanClose(i) \/ ForceRelease(i)
       /\ UNCHANGED workerVars
    \/ Restart
    \/ \E g \in GateIds : Inside(g) \/ TakeMutex(g)
    \/ \E w \in Workspaces : Archive(w) \/ JobStep(w)

SpecTenures == Init /\ [][NextTenures]_vars /\ Fairness
===============================================================================
