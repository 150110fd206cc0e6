---------------------------- MODULE PiController ----------------------------
(***************************************************************************)
(* The client-side owner of a lease: Controller of pi-extension/controller.ts *)
(* (a Pi session, or the session broker of the CLI) against the authority   *)
(* of LeaseAuthority, which it reaches through the daemon's tool facade.    *)
(*                                                                          *)
(* A controller runs its operations one at a time (#exclusive) and gives up *)
(* the thread only where it awaits a request, so an operation is the action *)
(* that sends a request and the action that applies its answer.  In between *)
(* timers fire, the state is read, the runtime is shut down, other runtimes *)
(* and hosts act, and time passes.                                          *)
(*                                                                          *)
(* req[p][0] is the request p awaits.  A request that p stopped waiting for *)
(* (time limit, abort, shutdown) may still be on its way to the authority:  *)
(* it lives on in a slot of its own until it commits or is lost.            *)
(***************************************************************************)
EXTENDS LeaseAuthority

CONSTANTS Controllers,   \* controllers, each with a runtime id of its own
          Margin,        \* what #deadline takes off a lease: one second
          RenewEvery,    \* heartbeat period: min(ttl/3, 30 s)
          RenewRetry,    \* delay after an uncertain renewal: one second
          MaxMinted,     \* bound: attempt ids and Idempotency-Keys drawn
          MaxBeats,      \* bound: heartbeats queued behind an operation
          MaxStrays      \* bound: abandoned requests of a controller

ASSUME ControllerAssumption ==
    /\ Margin \in 1..TTL
    /\ RenewEvery \in 1..TTL /\ RenewRetry \in 1..TTL
    /\ MaxMinted \in Nat /\ MaxBeats \in Nat /\ MaxStrays \in Nat

VARIABLES ctl,           \* the private fields of each controller
          req,           \* requests awaited (slot 0) or abandoned
          minted         \* attempt ids and keys drawn so far

clientVars == <<ctl, req, minted>>
vars == <<status, claims, nextClaim, receipts, ctl, req, minted>>

Off == TTL + 1           \* timer === undefined

Tenure == [issue : Issues \cup {NoIssue}, holder : Nat, claim : Nat, left : 0..TTL]
NoTenure == [issue |-> NoIssue, holder |-> NoHolder, claim |-> NoClaim, left |-> 0]

\* Retained requests are told apart by the number drawn for them: the attempt
\* id of a claim, the key of a close or a checkout.
PendingClaim == [issue : Issues \cup {NoIssue}, id : Nat]
NoPendingClaim == [issue |-> NoIssue, id |-> 0]
PendingClose == [issue : Issues \cup {NoIssue}, holder : Nat, claim : Nat, id : Nat]
NoPendingClose == [issue |-> NoIssue, holder |-> NoHolder, claim |-> NoClaim, id |-> 0]

\* The request a retryPending captured: its tool, its issue and its number.
Captured == [op : {"none", "claim", "close", "checkout"},
             issue : Issues \cup {NoIssue}, id : Nat]
NotCaptured == [op |-> "none", issue |-> NoIssue, id |-> 0]

Controller == [mode : {"idle", "claim-pending", "live", "stop-editing", "stopped"},
               active : Tenure,
               bound : Issues \cup {NoIssue},
               pclaim : PendingClaim,
               pclose : PendingClose,
               pcheckout : Nat,
               timer : 0..Off,         \* time until the heartbeat, or Off
               beats : 0..MaxBeats,    \* heartbeats that wait in the queue
               retry : Captured]       \* by a retryPending that waits, too
NewController == [mode |-> "idle", active |-> NoTenure, bound |-> NoIssue,
                  pclaim |-> NoPendingClaim, pclose |-> NoPendingClose,
                  pcheckout |-> 0, timer |-> Off, beats |-> 0,
                  retry |-> NotCaptured]

Slots == 0..MaxStrays
Request == [op : {"none", "claim", "renew", "release", "close", "look",
                  "checkout", "farewell"},
            tool : {"none", "issue_claim", "issue_renew", "issue_release",
                    "issue_close", "issue_get", "checkout"},
            stage : {"none", "show", "acquire", "confirm", "cleanup", "kata", "reply"},
            issue : Issues \cup {NoIssue},
            holder : Nat, claim : Nat, key : Nat,      \* what is sent
            retry : BOOLEAN,                           \* asked for by retryPending
            age : 0..TTL,                              \* time since `started`
            got : Nat, span : 0..TTL,                  \* lease in the answer
            out : {"none", "ok", "rejected", "lost", "unknown"}]
NoRequest == [op |-> "none", tool |-> "none", stage |-> "none", issue |-> NoIssue,
              holder |-> NoHolder, claim |-> NoClaim, key |-> 0, retry |-> FALSE,
              age |-> 0, got |-> NoClaim, span |-> 0, out |-> "none"]

ControllerTypeOK ==
    /\ ctl \in [Controllers -> Controller]
    /\ req \in [Controllers -> [Slots -> Request]]
    /\ minted \in Nat

\* Every variable has its declared shape, whatever callback last wrote it.
TypeOK == AuthorityTypeOK /\ ControllerTypeOK

Init ==
    /\ AuthorityInit
    /\ ctl = [p \in Controllers |-> NewController]
    /\ req = [p \in Controllers |-> [s \in Slots |-> NoRequest]]
    /\ minted = 0

-----------------------------------------------------------------------------
(* The private methods, as functions on a controller's fields.               *)

Has(k) == k.active # NoTenure

\* #stop, and #stop with lost = true.
Stopped(k) == IF k.mode = "stopped" THEN k
              ELSE [k EXCEPT !.mode = "stop-editing", !.timer = Off]
Lost(k) == IF k.mode = "stopped" THEN k ELSE [Stopped(k) EXCEPT !.active = NoTenure]

\* #checkExpiry
Unlapsed(k) == IF Has(k) /\ k.active.left = 0 THEN Lost(k) ELSE k

Smaller(x, y) == IF x <= y THEN x ELSE y

\* #schedule
Scheduled(k, delay) ==
    LET off == [k EXCEPT !.timer = Off] IN
    IF ~Has(k) \/ k.pclose # NoPendingClose \/ k.mode = "stopped" THEN off
    ELSE IF k.active.left = 0 THEN Unlapsed(off)
    ELSE [k EXCEPT !.timer = Smaller(delay, k.active.left)]

\* Mutant: the deadline is counted from the arrival of the answer.
LeftFromArrival(q) == Monus(Smaller(q.span, TTL), Margin)

\* #deadline: what is left of started + min(ttl, expires_at - now) - 1 s.
AnswerLeft(q) == Monus(Monus(Smaller(q.span, TTL), Margin), q.age)

\* The deadline only moves earlier.
Sooner(k, q) == Unlapsed([k EXCEPT !.active.left = Smaller(@, AnswerLeft(q))])

\* Mutant: a look while a close is unresolved opens the gate again.
MayReopenAnyway(k) == Has(k)

MayReopen(k) == Has(k) /\ k.pclose = NoPendingClose

\* Mutant: a confirmation does not restart the heartbeat that a failed look,
\* an uncertain release or a refused close stopped.
ReopenedOnly(k) == [k EXCEPT !.mode = "live"]

\* A heartbeat already scheduled is not postponed.
Reopened(k) == LET g == [k EXCEPT !.mode = "live"] IN
               IF g.timer = Off THEN Scheduled(g, RenewEvery) ELSE g

\* #observe: the lease shown must be the exact tenure.
Observed(k, q) ==
    LET e == Unlapsed(k)
        f == Sooner(e, q)
    IN  IF ~Has(e) THEN e
        ELSE IF q.got # e.active.claim THEN Lost(e)
        ELSE IF MayReopen(f) THEN Reopened(f) ELSE f

\* #clearTenure
Cleared(k) == [k EXCEPT !.active = NoTenure, !.pclaim = NoPendingClaim,
                        !.timer = Off, !.mode = "idle"]

\* #requireActive for the issue held.
Requires(k) == Has(Unlapsed(k))

-----------------------------------------------------------------------------
(* Operations up to their request.  A call that is refused changes nothing   *)
(* beyond what ReadState does.                                               *)

Running(p) == ctl[p].mode # "stopped"
Idle(p) == req[p][0] = NoRequest
SetCtl(p, k) == ctl' = [ctl EXCEPT ![p] = k]

\* #request(tool, ...) on behalf of op; `retry` says who asked for op.
Send(p, op, tool, issue, holder, claim, key, retry) ==
    req' = [req EXCEPT ![p][0] =
        [NoRequest EXCEPT !.op = op, !.tool = tool, !.issue = issue, !.holder = holder,
                          !.claim = claim, !.key = key, !.retry = retry,
                          !.stage = IF tool = "issue_claim" THEN "show" ELSE "kata"]]

SendHeld(p, op, tool, t) == Send(p, op, tool, t.issue, t.holder, t.claim, 0, FALSE)

\* The queued retryPending, if that is what runs, has left the queue.
Dequeued(k, retry) == IF retry THEN [k EXCEPT !.retry = NotCaptured] ELSE k

\* state() and the checks that end a refused call: a lapsed tenure is dropped.
ReadState(p) ==
    /\ Unlapsed(ctl[p]) # ctl[p]
    /\ SetCtl(p, Unlapsed(ctl[p]))
    /\ UNCHANGED <<authorityVars, req, minted>>

\* issue_claim with nothing retained: a fresh attempt id, kept before the
\* request is sent.
NewClaim(p, i, retry) ==
    /\ LET k == Unlapsed(ctl[p]) IN
       /\ k.pclose = NoPendingClose /\ k.pcheckout = 0 /\ ~Has(k)
       /\ k.pclaim = NoPendingClaim
       /\ minted < MaxMinted
       /\ minted' = minted + 1
       /\ SetCtl(p, Dequeued([k EXCEPT !.pclaim = [issue |-> i, id |-> minted + 1],
                                       !.mode = "claim-pending"], retry))
       /\ Send(p, "claim", "issue_claim", i, minted + 1, NoClaim, 0, retry)
    /\ UNCHANGED authorityVars

\* The original issue_claim again, by its arguments or by retryPending.
AgainClaim(p, retry) ==
    /\ LET k == Unlapsed(ctl[p]) IN
       /\ k.pclose = NoPendingClose /\ k.pcheckout = 0 /\ ~Has(k)
       /\ k.pclaim # NoPendingClaim
       /\ SetCtl(p, Dequeued([k EXCEPT !.mode = "claim-pending"], retry))
       /\ Send(p, "claim", "issue_claim", k.pclaim.issue, k.pclaim.id, NoClaim, 0, retry)
    /\ UNCHANGED <<authorityVars, minted>>

\* issue_renew of a caller.
StartRenew(p) ==
    /\ Running(p) /\ Idle(p)
    /\ Requires(ctl[p]) /\ ctl[p].pclose = NoPendingClose
    /\ SendHeld(p, "renew", "issue_renew", ctl[p].active)
    /\ UNCHANGED <<authorityVars, ctl, minted>>

\* The heartbeat's timer fires and its callback is queued.
Fire(p) ==
    /\ ctl[p].timer = 0 /\ ctl[p].beats < MaxBeats
    /\ SetCtl(p, [ctl[p] EXCEPT !.timer = Off, !.beats = @ + 1])
    /\ UNCHANGED <<authorityVars, req, minted>>

\* The heartbeat reaches the head of the queue.
Heartbeat(p) ==
    /\ Idle(p) /\ ctl[p].beats > 0
    /\ LET k == [ctl[p] EXCEPT !.beats = @ - 1] IN
       IF ~Has(k) \/ k.pclose # NoPendingClose \/ ~Requires(k)
       THEN SetCtl(p, Unlapsed(k)) /\ UNCHANGED req
       ELSE SetCtl(p, k) /\ SendHeld(p, "renew", "issue_renew", k.active)
    /\ UNCHANGED <<authorityVars, minted>>

StartRelease(p) ==
    /\ Running(p) /\ Idle(p)
    /\ Requires(ctl[p]) /\ ctl[p].pclose = NoPendingClose /\ ctl[p].pcheckout = 0
    /\ SetCtl(p, Stopped(ctl[p]))
    /\ SendHeld(p, "release", "issue_release", ctl[p].active)
    /\ UNCHANGED <<authorityVars, minted>>

\* guardTool, context() and issue_get of the bound issue: #refresh.
StartLook(p) ==
    /\ Running(p) /\ Idle(p)
    /\ ctl[p].bound # NoIssue
    /\ Send(p, "look", "issue_get", ctl[p].bound, NoHolder, NoClaim, 0, FALSE)
    /\ UNCHANGED <<authorityVars, ctl, minted>>

MayBegin(k, op) ==
    /\ Requires(k) /\ k.pclose = NoPendingClose /\ k.pcheckout = 0
    /\ op = "checkout" => k.pclaim = NoPendingClaim

\* issue_close and checkout with nothing retained look at the issue first.
LookFirst(p, op, retry) ==
    LET k == ctl[p] IN
    /\ MayBegin(k, op)
    /\ SetCtl(p, Dequeued(k, retry))
    /\ Send(p, op, "issue_get", k.bound, k.active.holder, k.active.claim, 0, retry)
    /\ UNCHANGED <<authorityVars, minted>>

\* The retained close is sent as it was, whatever became of the tenure.
AgainClose(p, retry) ==
    LET c == ctl[p].pclose IN
    /\ c # NoPendingClose /\ ctl[p].pcheckout = 0
    /\ SetCtl(p, Dequeued(Stopped(ctl[p]), retry))
    /\ Send(p, "close", "issue_close", c.issue, c.holder, c.claim, c.id, retry)
    /\ UNCHANGED <<authorityVars, minted>>

AgainCheckout(p, retry) ==
    /\ ctl[p].pcheckout # 0
    /\ ctl[p].pclose = NoPendingClose /\ ctl[p].pclaim = NoPendingClaim
    /\ SetCtl(p, Dequeued(ctl[p], retry))
    /\ Send(p, "checkout", "checkout", NoIssue, NoHolder, NoClaim, ctl[p].pcheckout, retry)
    /\ UNCHANGED <<authorityVars, minted>>

\* An operation of a caller that begins or repeats one with retained state.
StartRetained(p) ==
    /\ Running(p) /\ Idle(p)
    /\ \/ \E i \in Issues : NewClaim(p, i, FALSE)
       \/ AgainClaim(p, FALSE)
       \/ \E op \in {"close", "checkout"} : LookFirst(p, op, FALSE)
       \/ AgainClose(p, FALSE) \/ AgainCheckout(p, FALSE)

-----------------------------------------------------------------------------
(* retryPending: it captures what is retained when it is called, and its     *)
(* turn comes after every operation called before it.                        *)

\* The numbers of the requests p retains.
Retained(k) == {k.pclaim.id, k.pclose.id, k.pcheckout} \ {0}

\* pendingCheckout ?? pendingClose ?? pendingClaim.  While a checkout is
\* retained nothing else is claimed, and the issue bound is the checkout's.
Pending(k) ==
    CASE k.pcheckout # 0 -> [op |-> "checkout", issue |-> k.bound, id |-> k.pcheckout]
      [] k.pcheckout = 0 /\ k.pclose # NoPendingClose ->
            [op |-> "close", issue |-> k.pclose.issue, id |-> k.pclose.id]
      [] k.pcheckout = 0 /\ k.pclose = NoPendingClose ->
            [op |-> "claim", issue |-> k.pclaim.issue, id |-> k.pclaim.id]

CallRetry(p) ==
    /\ Running(p) /\ ctl[p].retry = NotCaptured
    /\ Retained(ctl[p]) # {}
    /\ SetCtl(p, [ctl[p] EXCEPT !.retry = Pending(ctl[p])])
    /\ UNCHANGED <<authorityVars, req, minted>>

\* What `execute` does with a captured call, as with any other: it repeats what
\* is retained if that is a call with the same arguments, and else begins anew.
Execute(p, r) ==
    \/ /\ r.op = "claim"
       /\ \/ NewClaim(p, r.issue, TRUE)
          \/ ctl[p].pclaim.issue = r.issue /\ AgainClaim(p, TRUE)
    \/ /\ r.op = "close"
       /\ \/ ctl[p].active.issue = r.issue /\ LookFirst(p, "close", TRUE)
          \/ ctl[p].pclose.issue = r.issue /\ AgainClose(p, TRUE)
    \/ /\ r.op = "checkout"
       /\ \/ ctl[p].active.issue = r.issue /\ LookFirst(p, "checkout", TRUE)
          \/ ctl[p].bound = r.issue /\ AgainCheckout(p, TRUE)

\* Mutant: the identity of what was captured is not checked again.
WasRetained(k) == k.retry # NotCaptured

\* The very request that was captured is still retained.
StillRetained(k) == k.retry.id \in Retained(k)

\* Its turn.  It ends at once if that request is not retained any more, if its
\* caller has aborted it, or if `execute` refuses it.
RunRetry(p) ==
    /\ Running(p) /\ Idle(p) /\ ctl[p].retry # NotCaptured
    /\ \/ StillRetained(ctl[p]) /\ Execute(p, ctl[p].retry)
       \/ /\ SetCtl(p, Dequeued(ctl[p], TRUE))
          /\ UNCHANGED <<authorityVars, req, minted>>

-----------------------------------------------------------------------------
(* The daemon's side of a request: the Kata steps of tools.go, for a request *)
(* that is awaited and for one that no longer is.                            *)

At(p, s, tool, stage) == req[p][s].tool = tool /\ req[p][s].stage = stage

\* The answer of an abandoned request goes nowhere.
Answer(p, s, out) ==
    req' = [req EXCEPT ![p][s] =
        IF s = 0 THEN [@ EXCEPT !.stage = "reply", !.out = out] ELSE NoRequest]

\* The same with a lease in it.
AnswerLease(p, s, c, span) ==
    req' = [req EXCEPT ![p][s] =
        IF s = 0 THEN [@ EXCEPT !.stage = "reply", !.out = "ok", !.got = c, !.span = span]
        ELSE NoRequest]

ShowIssue(p, s) ==
    /\ At(p, s, "issue_claim", "show")
    /\ IF status[req[p][s].issue] = "open"
       THEN req' = [req EXCEPT ![p][s].stage = "acquire"]
       ELSE Answer(p, s, "rejected")
    /\ UNCHANGED <<authorityVars, ctl, minted>>

AcquireLease(p, s) ==
    /\ At(p, s, "issue_claim", "acquire")
    /\ \/ \E c \in Claims :
             /\ Acquire(req[p][s].issue, req[p][s].holder, c)
             /\ req' = [req EXCEPT ![p][s].stage = "confirm", ![p][s].got = c,
                                   ![p][s].span = IF s = 0 THEN claims'[c].left ELSE 0]
       \/ /\ AcquireDenied(req[p][s].issue, req[p][s].holder)
          /\ Answer(p, s, "rejected")
          /\ UNCHANGED authorityVars
    /\ UNCHANGED <<ctl, minted>>

ConfirmIssue(p, s) ==
    /\ At(p, s, "issue_claim", "confirm")
    /\ IF status[req[p][s].issue] = "open"
       THEN AnswerLease(p, s, req[p][s].got, req[p][s].span)
       ELSE req' = [req EXCEPT ![p][s].stage = "cleanup"]
    /\ UNCHANGED <<authorityVars, ctl, minted>>

CleanupClaim(p, s) ==
    /\ At(p, s, "issue_claim", "cleanup")
    /\ \/ Release(req[p][s].issue, req[p][s].holder)
       \/ UNCHANGED authorityVars
    /\ Answer(p, s, "rejected")
    /\ UNCHANGED <<ctl, minted>>

RenewLease(p, s) ==
    /\ At(p, s, "issue_renew", "kata")
    /\ \/ \E c \in Claims : /\ Renew(req[p][s].issue, req[p][s].holder, c)
                            /\ AnswerLease(p, s, c, TTL)
       \/ /\ NotHeld(req[p][s].issue, req[p][s].holder)
          /\ Answer(p, s, "rejected")
          /\ UNCHANGED authorityVars
    /\ UNCHANGED <<ctl, minted>>

ReleaseLease(p, s) ==
    /\ At(p, s, "issue_release", "kata")
    /\ \/ /\ Release(req[p][s].issue, req[p][s].holder)
          /\ Answer(p, s, "ok")
       \/ /\ NotHeld(req[p][s].issue, req[p][s].holder)
          /\ Answer(p, s, "rejected")
          /\ UNCHANGED authorityVars
    /\ UNCHANGED <<ctl, minted>>

\* "lost" is a 409 that names the claim; "rejected" a refusal of the content
\* (evidence, revision, children), after the receipt lookup, without effect.
CloseIssue(p, s) ==
    /\ At(p, s, "issue_close", "kata")
    /\ LET q == req[p][s] IN
       \/ /\ CloseReplay(q.key) \/ CloseCommit(q.issue, q.holder, q.claim, q.key)
          /\ Answer(p, s, "ok")
       \/ /\ CloseRefused(q.issue, q.holder, q.claim, q.key)
          /\ Answer(p, s, "lost")
          /\ UNCHANGED authorityVars
       \/ /\ q.key \notin receipts
          /\ Answer(p, s, "rejected")
          /\ UNCHANGED authorityVars
    /\ UNCHANGED <<ctl, minted>>

\* issue_get shows the unreleased row, lapsed or not.
ShownRows(i) == {c \in Claims : claims[c].issue = i /\ claims[c].state = "held"}

LookAtIssue(p) ==
    /\ At(p, 0, "issue_get", "kata")
    /\ IF ShownRows(req[p][0].issue) = {} THEN AnswerLease(p, 0, NoClaim, 0)
       ELSE \E c \in ShownRows(req[p][0].issue) : AnswerLease(p, 0, c, claims[c].left)
    /\ UNCHANGED <<authorityVars, ctl, minted>>

\* A checkout leaves leases alone.
PrepareCheckout(p, s) ==
    /\ At(p, s, "checkout", "kata")
    /\ \E out \in {"ok", "rejected"} : Answer(p, s, out)
    /\ UNCHANGED <<authorityVars, ctl, minted>>

\* A 5xx before the next transaction commits.
DispatchFails(p) ==
    /\ req[p][0].stage \in {"show", "acquire", "confirm", "kata"}
    /\ Answer(p, 0, "unknown")
    /\ UNCHANGED <<authorityVars, ctl, minted>>

ServerStep(p) ==
    \/ LookAtIssue(p) \/ DispatchFails(p)
    \/ \E s \in Slots :
          \/ ShowIssue(p, s) \/ AcquireLease(p, s) \/ ConfirmIssue(p, s) \/ CleanupClaim(p, s)
          \/ RenewLease(p, s) \/ ReleaseLease(p, s) \/ CloseIssue(p, s) \/ PrepareCheckout(p, s)

-----------------------------------------------------------------------------
(* Requests nobody waits for any more.                                       *)

GoesOn(q) == q.stage \notin {"none", "reply"} /\ q.tool # "issue_get"
Stray(q) == [q EXCEPT !.age = 0, !.span = 0]

\* What p's slots may be once it stops waiting for slot 0 and has r there: the
\* request is lost, or goes on unless it was answered or only reads.
Abandoned(p, r) ==
    {[req[p] EXCEPT ![0] = r]} \cup
    {[req[p] EXCEPT ![0] = r, ![s] = Stray(req[p][0])] :
        s \in {x \in Slots \ {0} : GoesOn(req[p][0]) /\ req[p][x] = NoRequest}}

\* The time limit of a request, its caller's abort, or a lost answer.
GiveUp(p) ==
    /\ req[p][0].stage # "none" /\ req[p][0].out # "unknown"
    /\ \E slots \in Abandoned(p, [req[p][0] EXCEPT !.stage = "reply", !.out = "unknown"]) :
          req' = [req EXCEPT ![p] = slots]
    /\ UNCHANGED <<authorityVars, ctl, minted>>

Vanish(p, s) ==
    /\ s # 0 /\ req[p][s] # NoRequest
    /\ req' = [req EXCEPT ![p][s] = NoRequest]
    /\ UNCHANGED <<authorityVars, ctl, minted>>

\* The fields of a runtime that will never act again.
StoppedForGood(k) == [NewController EXCEPT !.mode = "stopped", !.bound = k.bound]

\* shutdown: invalidated first, the operation under way aborted, then one
\* release with the tenure's own token that nobody waits for.
Shutdown(p) ==
    /\ Running(p)
    /\ LET t == ctl[p].active
           farewell == IF t = NoTenure THEN NoRequest
                       ELSE [NoRequest EXCEPT !.op = "farewell", !.tool = "issue_release",
                                !.stage = "kata", !.issue = t.issue, !.holder = t.holder,
                                !.claim = t.claim]
       IN  \E slots \in Abandoned(p, farewell) : req' = [req EXCEPT ![p] = slots]
    /\ SetCtl(p, StoppedForGood(ctl[p]))
    /\ UNCHANGED <<authorityVars, minted>>

\* The process dies; the authority's ttl is all that is left.
Crash(p) ==
    /\ Running(p)
    /\ \E slots \in Abandoned(p, NoRequest) : req' = [req EXCEPT ![p] = slots]
    /\ SetCtl(p, StoppedForGood(ctl[p]))
    /\ UNCHANGED <<authorityVars, minted>>

-----------------------------------------------------------------------------
(* The end of an operation: its answer is applied.                           *)

Replied(p, op, tool) == At(p, 0, tool, "reply") /\ req[p][0].op = op

\* The operation ends and leaves the fields k.
End(p, k) ==
    /\ SetCtl(p, k)
    /\ req' = [req EXCEPT ![p][0] = NoRequest]
    /\ UNCHANGED <<authorityVars, minted>>

\* Mutant: the attempt is not forgotten when it is granted.
GrantedKept(k, q) ==
    [k EXCEPT !.mode = "live", !.bound = q.issue,
              !.active = [issue |-> q.issue, holder |-> q.holder,
                          claim |-> q.got, left |-> AnswerLeft(q)]]

Granted(k, q) ==
    [k EXCEPT !.mode = "live", !.bound = q.issue, !.pclaim = NoPendingClaim,
              !.active = [issue |-> q.issue, holder |-> q.holder,
                          claim |-> q.got, left |-> AnswerLeft(q)]]

\* Granted: a tenure, live unless its answer took too long.  Refused: the
\* attempt is over.  Otherwise it is retained.
FinishClaim(p) ==
    LET k == ctl[p]
        q == req[p][0]
    IN  /\ Replied(p, "claim", "issue_claim")
        /\ End(p, CASE q.out = "ok" -> Scheduled(Unlapsed(Granted(k, q)), RenewEvery)
                    [] q.out = "rejected" -> Stopped([k EXCEPT !.pclaim = NoPendingClaim])
                    [] OTHER -> Stopped(k))

\* Mutant: the deadline that passed meanwhile is not looked at.
RenewsLate(k, q) == q.out = "ok" /\ q.got = q.claim /\ Has(k)

\* The answer names the exact tenure, and the tenure has not lapsed since.
Renews(k, q) == q.out = "ok" /\ q.got = q.claim /\ Has(Unlapsed(k))

\* An uncertain outcome stops editing and is tried again soon; a refusal ends
\* the tenure.
FinishRenew(p) ==
    LET k == ctl[p]
        q == req[p][0]
        renewed == [k EXCEPT !.active.left = AnswerLeft(q), !.mode = "live"]
    IN  /\ Replied(p, "renew", "issue_renew")
        /\ End(p, CASE Renews(k, q) -> Scheduled(Unlapsed(renewed), RenewEvery)
                    [] q.out = "unknown" -> Scheduled(Stopped(k), RenewRetry)
                    [] OTHER -> Lost(k))

FinishRelease(p) ==
    LET k == ctl[p] IN
    /\ Replied(p, "release", "issue_release")
    /\ End(p, CASE req[p][0].out = "ok" -> Cleared(k)
                [] req[p][0].out = "unknown" -> Stopped(k)
                [] OTHER -> Lost(k))

\* What #refresh leaves behind.
Refreshed(k, q) == IF q.out = "ok" THEN Observed(k, q) ELSE Stopped(k)

FinishLook(p) ==
    /\ Replied(p, "look", "issue_get")
    /\ End(p, Refreshed(ctl[p], req[p][0]))

\* The look before a close or a checkout confirmed the tenure it began with.
Confirmed(k, q) == q.out = "ok" /\ k.mode = "live" /\ k.active.claim = q.claim

\* ... and the operation goes on: a new key is drawn and retained before the
\* request is sent; a close stops editing first.
GoOn(p, k) ==
    LET q == req[p][0]
        t == k.active
        key == minted + 1
    IN  /\ minted < MaxMinted
        /\ minted' = key
        /\ \/ /\ q.op = "close"
              /\ SetCtl(p, Stopped([k EXCEPT !.pclose = [issue |-> t.issue, holder |-> t.holder,
                                                         claim |-> t.claim, id |-> key]]))
              /\ Send(p, "close", "issue_close", t.issue, t.holder, t.claim, key, q.retry)
           \/ /\ q.op = "checkout"
              /\ SetCtl(p, [k EXCEPT !.pcheckout = key])
              /\ Send(p, "checkout", "checkout", NoIssue, NoHolder, NoClaim, key, q.retry)
        /\ UNCHANGED authorityVars

AfterLook(p) ==
    LET k == Refreshed(ctl[p], req[p][0]) IN
    /\ \E op \in {"close", "checkout"} : Replied(p, op, "issue_get")
    /\ IF Confirmed(k, req[p][0]) THEN GoOn(p, k) ELSE End(p, k)

\* A close refused for its claim ends the tenure, one refused for its content
\* keeps it and its heartbeat, an unknown outcome is retained.
FinishClose(p) ==
    LET k == [ctl[p] EXCEPT !.pclose = NoPendingClose] IN
    /\ Replied(p, "close", "issue_close")
    /\ End(p, CASE req[p][0].out = "ok" -> Cleared(k)
                [] req[p][0].out = "lost" -> Lost(k)
                [] req[p][0].out = "rejected" -> Scheduled(Stopped(k), RenewEvery)
                [] OTHER -> ctl[p])

FinishCheckout(p) ==
    /\ Replied(p, "checkout", "checkout")
    /\ End(p, IF req[p][0].out = "unknown" THEN ctl[p] ELSE [ctl[p] EXCEPT !.pcheckout = 0])

FinishFarewell(p) ==
    /\ Replied(p, "farewell", "issue_release")
    /\ End(p, ctl[p])

-----------------------------------------------------------------------------
(* Time, and what happens behind every controller's back.                    *)

\* Only answers that set a deadline measure time.
MeasuresTime(q) ==
    /\ q.tool \in {"issue_claim", "issue_renew", "issue_get"}
    /\ q.stage # "cleanup" /\ q.out \in {"none", "ok"}

Aged(q) ==
    [q EXCEPT !.age = IF MeasuresTime(q) THEN Smaller(q.age + 1, TTL) ELSE q.age,
              !.span = IF q.stage = "confirm" THEN Monus(q.span, 1) ELSE q.span]

Advance ==
    /\ Elapse
    /\ ctl' = [p \in Controllers |-> [ctl[p] EXCEPT
                  !.active.left = Monus(@, 1),
                  !.timer = IF @ = Off THEN Off ELSE Monus(@, 1)]]
    /\ req' = [p \in Controllers |-> [req[p] EXCEPT ![0] = Aged(@)]]
    /\ UNCHANGED minted

Authority ==
    /\ \/ \E i \in Issues : HumanClose(i) \/ HumanReopen(i) \/ ForceRelease(i)
       \/ Sweep
    /\ UNCHANGED clientVars

-----------------------------------------------------------------------------
Call(p) ==
    \/ ReadState(p) \/ StartRetained(p) \/ StartRenew(p) \/ StartRelease(p)
    \/ StartLook(p) \/ CallRetry(p) \/ RunRetry(p)

Timer(p) == Fire(p) \/ Heartbeat(p)

Finish(p) ==
    \/ FinishClaim(p) \/ FinishRenew(p) \/ FinishRelease(p) \/ FinishLook(p)
    \/ AfterLook(p) \/ FinishClose(p) \/ FinishCheckout(p)
    \/ FinishFarewell(p)

Loss(p) == GiveUp(p) \/ \E s \in Slots : Vanish(p, s)

ControllerStep(p) ==
    Call(p) \/ Timer(p) \/ ServerStep(p) \/ Finish(p) \/ Loss(p) \/ Shutdown(p) \/ Crash(p)

Next == Advance \/ Authority \/ \E p \in Controllers : ControllerStep(p)

Spec == Init /\ [][Next]_vars

-----------------------------------------------------------------------------
(* Properties.                                                               *)

\* The edit gate: what guardTool and state() take for permission to edit.
Editing(p) == Unlapsed(ctl[p]).mode = "live"
RowOf(p) == claims[ctl[p].active.claim]

\* EditCover.  While the gate is open there is a tenure, and the authority
\* keeps it at least as long as the gate will stay open, or somebody released
\* it: no slow, late or repeated answer outlives the lease.
EditCover ==
    \A p \in Controllers : Editing(p) =>
        /\ Has(ctl[p])
        /\ RowOf(p).issue = ctl[p].active.issue /\ RowOf(p).holder = ctl[p].active.holder
        /\ \/ RowOf(p).state = "released"
           \/ RowOf(p).state = "held" /\ RowOf(p).left >= ctl[p].active.left

\* UnresolvedStopsEditing.  While the outcome of a close or a claim is unknown
\* nothing opens the gate: not a look that still sees the lease, not a
\* heartbeat that was queued before, not a checkout.
UnresolvedStopsEditing ==
    \A p \in Controllers :
        (ctl[p].pclose # NoPendingClose \/ ctl[p].pclaim # NoPendingClaim) => ~Editing(p)

\* LiveIsRenewed.  An open gate with nothing under way always has a heartbeat
\* coming: the operations that stop it leave nobody editing on a lease that
\* runs out.
LiveIsRenewed ==
    \A p \in Controllers :
        (Editing(p) /\ Idle(p)) => ctl[p].timer # Off \/ ctl[p].beats > 0

\* NoLateRevival.  "A response arriving after the previous deadline cannot
\* revive it" (pi-extension/README.md:76): a tenure past its deadline is never
\* given time again, whatever answer arrives.
NoLateRevival ==
    [][\A p \in Controllers : (Has(ctl[p]) /\ ctl[p].active.left = 0)
         => ctl'[p].active \in {NoTenure, ctl[p].active}]_vars

\* RetryBeginsNothing.  retryPending only repeats: an operation it asked for
\* never retains a request that was not retained before, although what it
\* captured may be resolved, and a new tenure begun, before its turn comes.
RetryBeginsNothing ==
    [][\A p \in Controllers : req'[p][0].retry
         => Retained(ctl'[p]) \subseteq Retained(ctl[p])]_vars

\* LateRequestsSpareTheTenure.  A release or close sent under one tenure and
\* carried out late, when its sender has given up on it and claimed the issue
\* again, never ends another tenure: the one its sender holds then, if that has
\* time left.  (Of the tenure it was sent under it may well be the end.)
LateRequestsSpareTheTenure ==
    [][\A p \in Controllers, s \in Slots :
         (/\ req[p][s].tool \in {"issue_release", "issue_close"}
          /\ req'[p][s] # req[p][s]
          /\ Has(ctl[p]) /\ req[p][s].claim # ctl[p].active.claim
          /\ RowOf(p).state = "held" /\ RowOf(p).left > 0)
             => claims'[ctl[p].active.claim].state = "held"]_vars
-----------------------------------------------------------------------------
(* The inductive invariant behind the properties: what holds of a controller's *)
(* fields, of the operation under way, of its answer, and of every request.    *)

\* The gate is open only under a tenure and with no close unresolved; a claim
\* is retained only without a tenure.
FieldsOK(k) ==
    /\ k.mode = "live" => Has(k) /\ k.pclose = NoPendingClose
    /\ k.mode = "stopped" => ~Has(k)
    /\ k.pclaim # NoPendingClaim => ~Has(k) /\ k.pclaim.issue \in Issues

\* The authority backs the tenure until its deadline.
Covered(k) ==
    Has(k) => Backed(k.active.issue, k.active.holder, k.active.claim, k.active.left)

\* An open gate has a heartbeat scheduled or queued.
Beating(k) == k.mode = "live" => k.timer # Off \/ k.beats > 0

\* While its answer is awaited an operation finds what it began with: a claim
\* the attempt it retained, a renewal the tenure it names, if any.
OperationOK(k, q) ==
    /\ q.op \notin {"none", "farewell"} => k.mode # "stopped"
    /\ q.op = "claim" => /\ k.pclaim = [issue |-> q.issue, id |-> q.holder]
                         /\ k.pclaim # NoPendingClaim /\ k.pclose = NoPendingClose
    /\ q.op = "renew" =>
          /\ k.pclose = NoPendingClose
          /\ Has(k) => /\ k.active.issue = q.issue /\ k.active.holder = q.holder
                       /\ k.active.claim = q.claim
    /\ q.op # "renew" => Beating(k)
    /\ q.tool = "issue_get" => ~q.retry

\* The authority backs a lease from its grant to the end of its operation.
AnswerOK(q) ==
    /\ q.stage = "confirm" => Backed(q.issue, q.holder, q.got, q.span)
    /\ q.out = "ok" => q.stage = "reply"
    /\ (q.out = "ok" /\ q.tool \in {"issue_claim", "issue_renew"})
          => Backed(q.issue, q.holder, q.got, Monus(q.span, q.age))

\* What ends claim c of principal h would end no other claim of the controller:
\* an attempt id is granted to it once.  m is the last number drawn.
Agrees(k, h, c, m) ==
    /\ h <= m
    /\ k.pclaim # NoPendingClaim => k.pclaim.id # h
    /\ (Has(k) /\ k.active.holder = h) => k.active.claim = c

RequestOK(k, q, m) ==
    /\ q.tool = "issue_claim" => q.issue \in Issues
    /\ q.tool \in {"issue_release", "issue_close"} => Agrees(k, q.holder, q.claim, m)

RequestsOK(k, r, m) ==
    /\ k.pclaim.id <= m
    /\ Has(k) => k.active.holder <= m
    /\ k.pclose # NoPendingClose => Agrees(k, k.pclose.holder, k.pclose.claim, m)
    /\ \A s \in Slots : RequestOK(k, r[s], m)

ControllerInv ==
    /\ TypeOK /\ RowsOK
    /\ \A p \in Controllers :
          /\ FieldsOK(ctl[p]) /\ Covered(ctl[p])
          /\ OperationOK(ctl[p], req[p][0]) /\ AnswerOK(req[p][0])
          /\ RequestsOK(ctl[p], req[p], minted)
=============================================================================
