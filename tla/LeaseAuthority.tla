--------------------------- MODULE LeaseAuthority ---------------------------
(***************************************************************************)
(* The issue and lease authority the forge daemon embeds: the patched Kata  *)
(* service, reached synchronously through internal/forge/tools.go.  Kata's  *)
(* own repository is not here; what is modelled is what patches/kata states *)
(* of it (guarded close, receipts, opportunistic expiry, sweeper) and how   *)
(* tools.go uses it.                                                        *)
(*                                                                          *)
(* A claim row is never deleted, so every tenure ever granted is a row of   *)
(* `claims`, and a row says whether its tenure ended by an explicit release *)
(* ("released") or by its time running out ("expired").  Real time is       *)
(* abstracted to the time each row has `left`: Elapse lets one unit pass.   *)
(*                                                                          *)
(* The operators are the effects of one Kata transaction each.  They are    *)
(* composed with their callers in SupervisedRuntime and its extensions.     *)
(***************************************************************************)
EXTENDS Naturals

CONSTANTS Issues,       \* issues of the one project a daemon serves
          NoIssue,      \* "no issue" in a record
          TTL,          \* ttl_seconds of a timed claim, in time units
          MaxClaims     \* bound: tenures granted in a behaviour

ASSUME AuthorityAssumption ==
    /\ NoIssue \notin Issues
    /\ TTL \in Nat \ {0}
    /\ MaxClaims \in Nat

VARIABLES status,       \* issue -> "open" | "closed"
          claims,       \* claim UID -> row of issue_claims
          nextClaim,    \* the UID the next granted tenure gets
          receipts      \* Idempotency-Keys of the closes that committed

authorityVars == <<status, claims, nextClaim, receipts>>

Claims == 1..MaxClaims
NoClaim == 0
NoHolder == 0
Row == [issue : Issues \cup {NoIssue}, holder : Nat, left : 0..TTL,
        state : {"free", "held", "released", "expired"}]
FreeRow == [issue |-> NoIssue, holder |-> NoHolder, left |-> 0, state |-> "free"]

AuthorityTypeOK ==
    /\ status \in [Issues -> {"open", "closed"}]
    /\ claims \in [Claims -> Row]
    /\ nextClaim \in 1..(MaxClaims + 1)
    /\ receipts \subseteq Nat

AuthorityInit ==
    /\ status = [i \in Issues |-> "open"]
    /\ claims = [c \in Claims |-> FreeRow]
    /\ nextClaim = 1
    /\ receipts = {}

-----------------------------------------------------------------------------
(* Reading the rows.  A held row whose time is up stays "held" until an      *)
(* operation or the sweeper expires it: unreleased is not the same as live.  *)

Live(i) == {c \in Claims : /\ claims[c].issue = i
                           /\ claims[c].state = "held"
                           /\ claims[c].left > 0}

LiveOf(i, h) == {c \in Live(i) : claims[c].holder = h}

Swept == [c \in Claims |->
            IF claims[c].state = "held" /\ claims[c].left = 0
            THEN [claims[c] EXCEPT !.state = "expired"] ELSE claims[c]]

ReleasedFrom(rows, S) == [c \in Claims |->
            IF c \in S THEN [rows[c] EXCEPT !.state = "released", !.left = 0]
                       ELSE rows[c]]

-----------------------------------------------------------------------------
(* Transactions an execution asks for.                                       *)

\* Mutant: arbitration looks only at the caller's own rows.
AcquireIgnoringOthers(i, h, c) ==
    /\ LiveOf(i, h) = {}
    /\ c = nextClaim /\ c \in Claims
    /\ claims' = [Swept EXCEPT ![c] = [issue |-> i, holder |-> h, left |-> TTL, state |-> "held"]]
    /\ nextClaim' = nextClaim + 1
    /\ UNCHANGED <<status, receipts>>

\* Acquire: the same principal gets its live claim back, otherwise a new
\* tenure starts; expiry of lapsed rows commits with it.
Acquire(i, h, c) ==
    /\ \/ /\ c \in LiveOf(i, h)
          /\ claims' = Swept
          /\ UNCHANGED nextClaim
       \/ /\ Live(i) = {}
          /\ c = nextClaim /\ c \in Claims
          /\ claims' = [Swept EXCEPT ![c] = [issue |-> i, holder |-> h,
                                             left |-> TTL, state |-> "held"]]
          /\ nextClaim' = nextClaim + 1
    /\ UNCHANGED <<status, receipts>>

\* Another principal holds the issue: the denied transaction rolls back.
AcquireDenied(i, h) == Live(i) \ LiveOf(i, h) # {}

\* Renew and release name only the principal, never the claim.
Renew(i, h, c) ==
    /\ c \in LiveOf(i, h)
    /\ claims' = [Swept EXCEPT ![c].left = TTL]
    /\ UNCHANGED <<status, nextClaim, receipts>>

Release(i, h) ==
    /\ LiveOf(i, h) # {}
    /\ claims' = ReleasedFrom(Swept, LiveOf(i, h))
    /\ UNCHANGED <<status, nextClaim, receipts>>

NotHeld(i, h) == LiveOf(i, h) = {}

\* ValidateClaimGuard: the exact claim, unexpired, of the exact principal.
GuardHolds(i, h, c) == c \in LiveOf(i, h)

\* The receipt lookup precedes the guard, so an exact retry is answered
\* from the first commit even though the tenure is gone.
CloseReplay(k) == k \in receipts /\ UNCHANGED authorityVars

\* Mutant: the guard validates the issue's live tenure, whoever holds it.
CloseUnguarded(i, h, c, k) ==
    /\ Live(i) # {} /\ status[i] = "open"
    /\ status' = [status EXCEPT ![i] = "closed"]
    /\ claims' = ReleasedFrom(claims, Live(i))
    /\ receipts' = receipts \cup {k}
    /\ UNCHANGED nextClaim

\* Close, release of the guarded claim and the receipt are one transaction.
\* A guarded close of an already closed issue changes nothing.
CloseCommit(i, h, c, k) ==
    /\ k \notin receipts
    /\ GuardHolds(i, h, c)
    /\ IF status[i] = "open"
       THEN /\ status' = [status EXCEPT ![i] = "closed"]
            /\ claims' = ReleasedFrom(claims, {c})
            /\ receipts' = receipts \cup {k}
            /\ UNCHANGED nextClaim
       ELSE UNCHANGED authorityVars

\* Mutant: the live guard runs before the receipt lookup.
CloseRefusedBeforeReceipt(i, h, c, k) == ~GuardHolds(i, h, c)

CloseRefused(i, h, c, k) == k \notin receipts /\ ~GuardHolds(i, h, c)

-----------------------------------------------------------------------------
(* What happens to the authority behind the daemon's back.                   *)

\* A host closes without a guard; a live claim is released with the close,
\* a lapsed one is left to the expiry paths.
HumanClose(i) ==
    /\ status[i] = "open"
    /\ status' = [status EXCEPT ![i] = "closed"]
    /\ claims' = ReleasedFrom(claims, Live(i))
    /\ UNCHANGED <<nextClaim, receipts>>

HumanReopen(i) ==
    /\ status[i] = "closed"
    /\ status' = [status EXCEPT ![i] = "open"]
    /\ UNCHANGED <<claims, nextClaim, receipts>>

ForceRelease(i) ==
    /\ Live(i) # {}
    /\ claims' = ReleasedFrom(Swept, Live(i))
    /\ UNCHANGED <<status, nextClaim, receipts>>

\* The background sweeper.
Sweep ==
    /\ Swept # claims
    /\ claims' = Swept
    /\ UNCHANGED <<status, nextClaim, receipts>>

Monus(x, y) == IF x >= y THEN x - y ELSE 0

\* One unit of time passes for every row.
Elapse ==
    /\ claims' = [c \in Claims |-> [claims[c] EXCEPT !.left = Monus(@, 1)]]
    /\ UNCHANGED <<status, nextClaim, receipts>>

-----------------------------------------------------------------------------
(* Facts about the rows.                                                     *)

\* Rows not granted yet are free, the others name an issue; one issue has at
\* most one unreleased row.
RowsOK ==
    /\ \A c \in Claims : c >= nextClaim => claims[c] = FreeRow
    /\ \A c \in Claims : claims[c].state # "free" => claims[c].issue \in Issues
    /\ \A c, d \in Claims :
          (/\ claims[c].state = "held" /\ claims[d].state = "held"
           /\ claims[c].issue = claims[d].issue) => c = d

\* Claim c lasts for at least `left` more, unless it was released.
Lasts(c, left) ==
    /\ c \in Claims
    /\ \/ claims[c].state = "released"
       \/ claims[c].state = "held" /\ claims[c].left >= left
       \/ claims[c].state = "expired" /\ left = 0

\* Claim c was granted to principal h for issue i and lasts.
Backed(i, h, c, left) ==
    Lasts(c, left) /\ claims[c].issue = i /\ claims[c].holder = h

\* While claim c is live its issue is open.
OnOpenWork(c) ==
    (claims[c].state = "held" /\ claims[c].left > 0) => status[claims[c].issue] = "open"
=============================================================================
