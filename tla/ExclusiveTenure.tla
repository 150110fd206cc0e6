--------------------------- MODULE ExclusiveTenure ---------------------------
(***************************************************************************)
(* What the lease runtime promises, with no leases, clocks, messages or     *)
(* retries in it: work on an issue is done under tenures, each of them      *)
(* granted once and worked on by one actor, and one tenure of an issue      *)
(* begins only after every earlier one was revoked or is over.  A tenure    *)
(* may be revoked under its worker; it is never over under it.              *)
(***************************************************************************)
EXTENDS Naturals

CONSTANTS Actors, Issues,
          Tenures,      \* none of them is 0
          NoIssue       \* no issue

VARIABLES phase,        \* tenure -> what became of it
          issue,        \* tenure -> the issue it was granted for
          works         \* actor -> the tenure it works under, or 0

tenureVars == <<phase, issue, works>>

TenureTypeOK ==
    /\ phase \in [Tenures -> {"none", "held", "revoked", "over"}]
    /\ issue \in [Tenures -> Issues \cup {NoIssue}]
    /\ works \in [Actors -> Tenures \cup {0}]

TenureInit ==
    /\ phase = [t \in Tenures |-> "none"]
    /\ issue = [t \in Tenures |-> NoIssue]
    /\ works = [a \in Actors |-> 0]

Held(i) == {t \in Tenures : phase[t] = "held" /\ issue[t] = i}

Grant(t, i) ==
    /\ phase[t] = "none"
    /\ Held(i) = {}
    /\ phase' = [phase EXCEPT ![t] = "held"]
    /\ issue' = [issue EXCEPT ![t] = i]
    /\ UNCHANGED works

\* The news of a grant may come after its revocation, and work may be taken up
\* again; not by another actor, and not when the tenure is over.
StartWork(a, t) ==
    /\ works[a] = 0
    /\ phase[t] \in {"held", "revoked"}
    /\ \A b \in Actors : works[b] # t
    /\ works' = [works EXCEPT ![a] = t]
    /\ UNCHANGED <<phase, issue>>

\* By its worker, by the completion of the work, or by a host.
Revoke(t) ==
    /\ phase[t] = "held"
    /\ phase' = [phase EXCEPT ![t] = "revoked"]
    /\ UNCHANGED <<issue, works>>

\* Time passes or a daemon dies: some actors stop, and what nobody works under
\* may be over.
Pass ==
    /\ \A a \in Actors : works'[a] \in {0, works[a]}
    /\ \A t \in Tenures :
          \/ phase'[t] = phase[t]
          \/ /\ phase[t] = "held" /\ phase'[t] = "over"
             /\ \A a \in Actors : works'[a] # t
    /\ UNCHANGED issue

TenureNext ==
    \/ Pass
    \/ \E t \in Tenures : \/ Revoke(t)
                          \/ \E a \in Actors : StartWork(a, t)
                          \/ \E i \in Issues : Grant(t, i)

TenureSpec == TenureInit /\ [][TenureNext]_tenureVars
=============================================================================
