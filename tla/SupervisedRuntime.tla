-------------------------- MODULE SupervisedRuntime --------------------------
(***************************************************************************)
(* The daemon's supervised lease runtime (internal/forge/runtime_core.go,   *)
(* runtime_events.go) over the authority of LeaseAuthority.                 *)
(*                                                                          *)
(* Every handler that touches an actor runs under the actor's mutex and     *)
(* makes at most one tool dispatch, which itself is one to four Kata        *)
(* transactions.  `call[a]` is the handler that holds actor a's mutex: an    *)
(* action Start.. takes the mutex, the Kata steps of its dispatch follow one *)
(* by one, and an action Finish.. assigns the actor's fields and unlocks.   *)
(* Other actors, humans, the sweeper, process deaths and time interleave    *)
(* between the steps.                                                       *)
(*                                                                          *)
(* Deadlines are kept as the time left until them, so a behaviour is not    *)
(* bounded in time.  A dispatch may end in a 5xx at any step, before or      *)
(* after its transaction committed: out = "unknown".                        *)
(***************************************************************************)
EXTENDS LeaseAuthority

CONSTANTS Actors,         \* supervised actor identities (harness threads)
          NoActor,
          Instances,      \* harness instances (one process each)
          Sessions,
          InstanceOf,     \* Actors -> Instances
          SessionOf,      \* Actors -> Sessions, the key of m.ended
          Workspaces,     \* workspace records the store can hold
          Margin,         \* what the runtime takes off a lease: one second
          RenewEvery,     \* heartbeat period after a grant
          RenewRetry,     \* heartbeat period while renewals fail
          MaxNonces       \* bound: runtimeNonce() draws in a behaviour

ASSUME RuntimeAssumption ==
    /\ NoActor \notin Actors
    /\ InstanceOf \in [Actors -> Instances]
    /\ SessionOf \in [Actors -> Sessions]
    /\ Margin \in 1..TTL
    /\ RenewEvery \in 0..TTL /\ RenewRetry \in 0..TTL
    /\ MaxNonces \in Nat

VARIABLES instance,       \* registered instances and what became of them
          ended,          \* sessions that reported session_end
          actor,          \* supervisedActor records
          call,           \* the handler holding each actor's mutex
          ws,             \* workspace records
          minted          \* nonces drawn by runtimeNonce()

runtimeVars == <<instance, ended, actor, call, ws, minted>>
vars == <<status, claims, nextClaim, receipts,
          instance, ended, actor, call, ws, minted>>

Tenure == [issue : Issues \cup {NoIssue}, holder : Nat, claim : Nat, left : 0..TTL]
NoTenure == [issue |-> NoIssue, holder |-> NoHolder, claim |-> NoClaim, left |-> 0]

PendingOps == {"claim", "renew", "release", "close"}
Pending == [op : PendingOps \cup {"none"}, issue : Issues \cup {NoIssue},
            holder : Nat, claim : Nat, key : Nat]
NoPending == [op |-> "none", issue |-> NoIssue, holder |-> NoHolder,
              claim |-> NoClaim, key |-> 0]

Actor == [retired : BOOLEAN, paused : BOOLEAN, unknown : BOOLEAN,
          active : Tenure, pending : Pending, renewIn : 0..TTL]
FreshActor == [retired |-> FALSE, paused |-> FALSE, unknown |-> FALSE,
               active |-> NoTenure, pending |-> NoPending, renewIn |-> 0]

\* Calls of refreshActor: "look" on behalf of status, context and stop_check,
\* "prompt" of a prompt, "checkout" and "prepare" of a checkout's checks.
RefreshOps == {"look", "prompt", "checkout", "prepare"}
\* "final" is the release a retirement sends; "observe" and "archive" belong to
\* SupervisedCheckout.
CallOps == PendingOps \cup RefreshOps \cup {"none", "final", "observe", "archive"}
Call == [op : CallOps, stage : {"none", "show", "acquire", "confirm", "cleanup", "kata", "reply"},
         age : 0..TTL,     \* time since `started`
         span : 0..TTL,    \* expires_at minus server_now of the answer
         claim : Nat,      \* claim UID of the answer
         begun : BOOLEAN,  \* the held tenure was unexpired at `started`
         out : {"none", "ok", "rejected", "unknown"}]
NoCall == [op |-> "none", stage |-> "none", age |-> 0, span |-> 0,
           claim |-> NoClaim, begun |-> FALSE, out |-> "none"]

WorkspaceStates == {"none", "preparing", "ready", "paused", "orphaned",
                    "failed", "archived", "archive_pending"}
Workspace == [state : WorkspaceStates, owner : Actors \cup {NoActor},
              issue : Issues \cup {NoIssue}, claim : Nat]
NoWorkspace == [state |-> "none", owner |-> NoActor, issue |-> NoIssue, claim |-> NoClaim]

\* The process behind an instance: never registered, running, gone without
\* the daemon having noticed, or retired with and without a normal end.
InstanceStates == {"unregistered", "live", "exited", "retired", "retired_normal"}

RuntimeTypeOK ==
    /\ instance \in [Instances -> InstanceStates]
    /\ ended \in [Sessions -> BOOLEAN]
    /\ actor \in [Actors -> Actor]
    /\ call \in [Actors -> Call]
    /\ ws \in [Workspaces -> Workspace]
    /\ minted \in Nat

\* Every variable has its declared shape, whatever handler last wrote it.
TypeOK == AuthorityTypeOK /\ RuntimeTypeOK

Init ==
    /\ AuthorityInit
    /\ instance = [i \in Instances |-> "unregistered"]
    /\ ended = [s \in Sessions |-> FALSE]
    /\ actor = [a \in Actors |-> FreshActor]
    /\ call = [a \in Actors |-> NoCall]
    /\ ws = [w \in Workspaces |-> NoWorkspace]
    /\ minted = 0

-----------------------------------------------------------------------------
(* Helpers.                                                                  *)

Active(a) == actor[a].active.claim # NoClaim
HasPending(a) == actor[a].pending.op # "none"

\* The actor may act on its tenure: it holds one whose deadline is ahead.
Believes(a) == Active(a) /\ actor[a].active.left > 0

\* The lazy expiry every command and status performs on the held tenure.
Unlapsed(t) == IF t.left = 0 THEN NoTenure ELSE t

\* The session is over, or the instance retired or normally ended.
Stopped(a) == instance[InstanceOf[a]] \in {"retired", "retired_normal"}
              \/ ended[SessionOf[a]]
EndedNormally(a) == instance[InstanceOf[a]] = "retired_normal" \/ ended[SessionOf[a]]

\* A request of a gets the actor's mutex and passes the checks made under it.
\* m.alive was consulted before the wait for the mutex, so the process may
\* have gone since.
Serves(a) ==
    /\ instance[InstanceOf[a]] \in {"live", "exited"}
    /\ ~ended[SessionOf[a]]
    /\ ~actor[a].retired
    /\ call[a] = NoCall

SetActor(a, r) == actor' = [actor EXCEPT ![a] = r]

\* Mutant: orphaned records move, too.
MarkedOrphans(a, t, to) ==
    [w \in Workspaces |->
        IF /\ ws[w].owner = a
           /\ ws[w].state \in {"ready", "paused", "orphaned"}
           /\ to \in {"ready", "paused"} => t.claim # NoClaim /\ ws[w].claim = t.claim
        THEN [ws[w] EXCEPT !.state = to] ELSE ws[w]]

\* markWorkspaces(t, state): only a's ready or paused records move, and to
\* ready or paused only those of the tenure t held at the call.
Marked(a, t, to) ==
    [w \in Workspaces |->
        IF /\ ws[w].owner = a
           /\ ws[w].state \in {"ready", "paused"}
           /\ to \in {"ready", "paused"} => t.claim # NoClaim /\ ws[w].claim = t.claim
        THEN [ws[w] EXCEPT !.state = to] ELSE ws[w]]

\* archiveWorkspaces(t, claim); the records of F could not be written.
Archived(a, c, F) ==
    [w \in Workspaces |->
        IF ws[w].owner = a /\ ws[w].claim = c /\ c # NoClaim
        THEN [ws[w] EXCEPT !.state = IF w \in F THEN "archive_pending" ELSE "archived"]
        ELSE ws[w]]

\* Mutant: a close does not wait for preparations.
CheckoutNeverBusy(a) == FALSE

\* checkoutBusy(t): a workspace of the held tenure is still preparing.
CheckoutBusy(a) ==
    \E w \in Workspaces : /\ ws[w].claim = actor[a].active.claim
                          /\ ws[w].issue = actor[a].active.issue
                          /\ ws[w].state = "preparing" /\ Active(a)

\* dispatch: take the mutex of a for op, the held tenure being t.
Begin(a, op, t) ==
    call' = [call EXCEPT ![a] = [NoCall EXCEPT
                !.op = op,
                !.stage = IF op = "claim" THEN "show" ELSE "kata",
                !.begun = t.left > 0]]

\* An answer that carries no lease.
Reply(a, out) ==
    call' = [call EXCEPT ![a] = [NoCall EXCEPT !.op = call[a].op, !.stage = "reply",
                                              !.out = out]]

Unlock(a) == call' = [call EXCEPT ![a] = NoCall]

AtStage(a, op, stage) == call[a].op = op /\ call[a].stage = stage

-----------------------------------------------------------------------------
(* Instances and sessions.                                                   *)

\* register; a repeated registration of a live instance changes nothing.
Register(i) ==
    /\ instance[i] = "unregistered"
    /\ instance' = [instance EXCEPT ![i] = "live"]
    /\ UNCHANGED <<authorityVars, ended, actor, call, ws, minted>>

\* end, which reports whether the harness shut down normally.
EndInstance(i, normal) ==
    /\ instance[i] \in {"live", "exited"}
    /\ instance' = [instance EXCEPT ![i] = IF normal THEN "retired_normal" ELSE "retired"]
    /\ UNCHANGED <<authorityVars, ended, actor, call, ws, minted>>

ProcessExit(i) ==
    /\ instance[i] = "live"
    /\ instance' = [instance EXCEPT ![i] = "exited"]
    /\ UNCHANGED <<authorityVars, ended, actor, call, ws, minted>>

\* Mutant: the scan does not mark what it found.
RetireDeadUnmarked ==
    /\ \E i \in Instances : instance[i] = "exited"
    /\ UNCHANGED vars

\* The scan with which every tick starts.
RetireDead ==
    /\ \E i \in Instances : instance[i] = "exited"
    /\ instance' = [i \in Instances |-> IF instance[i] = "exited" THEN "retired" ELSE instance[i]]
    /\ UNCHANGED <<authorityVars, ended, actor, call, ws, minted>>

\* session_end needs a registered instance, not a running one.
SessionEnd(a) ==
    /\ instance[InstanceOf[a]] # "unregistered"
    /\ ~ended[SessionOf[a]]
    /\ ended' = [ended EXCEPT ![SessionOf[a]] = TRUE]
    /\ UNCHANGED <<authorityVars, instance, actor, call, ws, minted>>

-----------------------------------------------------------------------------
(* Execution commands, up to the dispatch.                                   *)

\* issue_claim with nothing pending: a fresh attempt nonce, kept in pending
\* before the dispatch.
StartClaim(a, i) ==
    /\ Serves(a) /\ ~HasPending(a)
    /\ Unlapsed(actor[a].active) = NoTenure
    /\ minted < MaxNonces
    /\ minted' = minted + 1
    /\ SetActor(a, [actor[a] EXCEPT
           !.active = NoTenure,
           !.pending = [op |-> "claim", issue |-> i, holder |-> minted + 1,
                        claim |-> NoClaim, key |-> 0]])
    /\ Begin(a, "claim", NoTenure)
    /\ UNCHANGED <<authorityVars, instance, ended, ws>>

\* The pending record of an operation on the held tenure.
HeldPending(a, op, key) ==
    [op |-> op, issue |-> actor[a].active.issue, holder |-> actor[a].active.holder,
     claim |-> actor[a].active.claim, key |-> key]

\* issue_renew and issue_release with nothing pending.
StartHeld(a, op) ==
    /\ op \in {"renew", "release"}
    /\ Serves(a) /\ ~HasPending(a) /\ Believes(a)
    /\ SetActor(a, [actor[a] EXCEPT !.pending = HeldPending(a, op, 0)])
    /\ Begin(a, op, actor[a].active)
    /\ UNCHANGED <<authorityVars, instance, ended, ws, minted>>

\* issue_close: refused while a checkout of the tenure prepares; its
\* Idempotency-Key is drawn once and kept with the pending operation.
StartClose(a) ==
    /\ Serves(a) /\ ~HasPending(a) /\ Believes(a)
    /\ ~CheckoutBusy(a)
    /\ minted < MaxNonces
    /\ minted' = minted + 1
    /\ SetActor(a, [actor[a] EXCEPT !.pending = HeldPending(a, "close", minted + 1)])
    /\ Begin(a, "close", actor[a].active)
    /\ UNCHANGED <<authorityVars, instance, ended, ws>>

\* Mutant: a re-sent operation is given a new nonce.
ResendFresh(a) ==
    /\ Serves(a) /\ HasPending(a)
    /\ minted < MaxNonces
    /\ minted' = minted + 1
    /\ IF actor[a].pending.op = "claim"
       THEN SetActor(a, [actor[a] EXCEPT !.pending.holder = minted + 1])
       ELSE SetActor(a, [actor[a] EXCEPT !.pending.key = minted + 1])
    /\ Begin(a, actor[a].pending.op, actor[a].active)
    /\ UNCHANGED <<authorityVars, instance, ended, ws>>

\* `retry`, or the same operation with the same parameters sent again, while
\* an outcome is unknown: the recorded attempt or key is sent as it was.  The
\* held tenure is not looked at.  A close repeated as issue_close still meets
\* checkoutBusy; `retry` does not, so the guard is not one of this action.
Resend(a) ==
    /\ Serves(a) /\ HasPending(a)
    /\ Begin(a, actor[a].pending.op, actor[a].active)
    /\ UNCHANGED <<authorityVars, instance, ended, actor, ws, minted>>

-----------------------------------------------------------------------------
(* Events and status.                                                        *)

\* start, touch, and any execution command that ends in lease_required: a
\* lapsed tenure is dropped.
Touch(a) ==
    /\ Serves(a) /\ Active(a) /\ ~Believes(a)
    /\ SetActor(a, [actor[a] EXCEPT !.active = NoTenure])
    /\ UNCHANGED <<authorityVars, instance, ended, call, ws, minted>>

\* pause and interrupt: workspaces first, then the status of the reply.
Pause(a) ==
    /\ Serves(a)
    /\ ws' = Marked(a, actor[a].active, "paused")
    /\ SetActor(a, [actor[a] EXCEPT !.paused = TRUE, !.active = Unlapsed(@)])
    /\ UNCHANGED <<authorityVars, instance, ended, call, minted>>

\* refreshActor looks at Kata only with a tenure held and no close pending.
Refreshes(a) == Active(a) /\ actor[a].pending.op # "close"

\* What a prompt does to a's workspaces once it has refreshed r.
Prompted(a, r) ==
    Marked(a, r.active,
           IF r.active.claim # NoClaim /\ ~r.unknown THEN "ready" ELSE "orphaned")

StartRefresh(a, op) ==
    /\ op \in {"look", "prompt"}
    /\ Serves(a) /\ Refreshes(a)
    /\ SetActor(a, IF op = "prompt" THEN [actor[a] EXCEPT !.paused = FALSE] ELSE actor[a])
    /\ Begin(a, op, actor[a].active)
    /\ UNCHANGED <<authorityVars, instance, ended, ws, minted>>

\* A prompt with nothing to look at is answered from memory.
PromptLocally(a) ==
    /\ Serves(a) /\ ~Refreshes(a)
    /\ ws' = Prompted(a, actor[a])
    /\ SetActor(a, [actor[a] EXCEPT !.paused = FALSE, !.active = Unlapsed(@)])
    /\ UNCHANGED <<authorityVars, instance, ended, call, minted>>

-----------------------------------------------------------------------------
(* The Kata steps of a dispatch (tools.go).                                  *)

\* The dispatch fails with a 5xx before its next transaction commits.
DispatchFails(a) ==
    /\ call[a].stage \in {"show", "acquire", "confirm", "kata"}
    /\ Reply(a, "unknown")
    /\ UNCHANGED <<authorityVars, instance, ended, actor, ws, minted>>

\* issue_claim resolves the ref and refuses an issue that is not open.
ShowIssue(a) ==
    /\ AtStage(a, "claim", "show")
    /\ IF status[actor[a].pending.issue] = "open"
       THEN call' = [call EXCEPT ![a].stage = "acquire"]
       ELSE Reply(a, "rejected")
    /\ UNCHANGED <<authorityVars, instance, ended, actor, ws, minted>>

AcquireLease(a) ==
    /\ AtStage(a, "claim", "acquire")
    /\ \E c \in Claims :
          /\ Acquire(actor[a].pending.issue, actor[a].pending.holder, c)
          /\ call' = [call EXCEPT ![a].stage = "confirm", ![a].claim = c,
                                  ![a].span = claims'[c].left]
    /\ UNCHANGED <<instance, ended, actor, ws, minted>>

AcquireIsDenied(a) ==
    /\ AtStage(a, "claim", "acquire")
    /\ AcquireDenied(actor[a].pending.issue, actor[a].pending.holder)
    /\ Reply(a, "rejected")
    /\ UNCHANGED <<authorityVars, instance, ended, actor, ws, minted>>

\* The claim is answered with the lease of the acquire, its token and server_now.
Granted(a) == call' = [call EXCEPT ![a].stage = "reply", ![a].out = "ok"]

\* Mutant: no second look at the issue after the acquire.
ConfirmNothing(a) ==
    /\ AtStage(a, "claim", "confirm")
    /\ Granted(a)
    /\ UNCHANGED <<authorityVars, instance, ended, actor, ws, minted>>

\* A host close may have raced the first look: look again before the
\* execution token is signed and server_now stamped.
ConfirmIssue(a) ==
    /\ AtStage(a, "claim", "confirm")
    /\ IF status[actor[a].pending.issue] = "open"
       THEN Granted(a)
       ELSE call' = [call EXCEPT ![a] = [NoCall EXCEPT !.op = "claim", !.stage = "cleanup"]]
    /\ UNCHANGED <<authorityVars, instance, ended, actor, ws, minted>>

\* The lease acquired on closed work is given back; the claim is refused
\* whether or not that release succeeds (cleanup_pending).
CleanupClaim(a) ==
    /\ AtStage(a, "claim", "cleanup")
    /\ \/ Release(actor[a].pending.issue, actor[a].pending.holder)
       \/ UNCHANGED authorityVars
    /\ Reply(a, "rejected")
    /\ UNCHANGED <<instance, ended, actor, ws, minted>>

\* Renew, release and close may commit and still be answered by a 5xx.
Answers == {"ok", "unknown"}

RenewLease(a) ==
    /\ AtStage(a, "renew", "kata")
    /\ \/ \E c \in Claims, out \in Answers :
             /\ Renew(actor[a].pending.issue, actor[a].pending.holder, c)
             /\ IF out = "ok"
                THEN call' = [call EXCEPT ![a].stage = "reply", ![a].out = "ok",
                                          ![a].claim = c, ![a].span = TTL]
                ELSE Reply(a, out)
       \/ /\ NotHeld(actor[a].pending.issue, actor[a].pending.holder)
          /\ Reply(a, "rejected")
          /\ UNCHANGED authorityVars
    /\ UNCHANGED <<instance, ended, actor, ws, minted>>

ReleaseLease(a) ==
    /\ AtStage(a, "release", "kata")
    /\ \/ /\ Release(actor[a].pending.issue, actor[a].pending.holder)
          /\ \E out \in Answers : Reply(a, out)
       \/ /\ NotHeld(actor[a].pending.issue, actor[a].pending.holder)
          /\ Reply(a, "rejected")
          /\ UNCHANGED authorityVars
    /\ UNCHANGED <<instance, ended, actor, ws, minted>>

\* The close-v2 request carries the key and the claim of the pending record.
\* A close may also be refused for reasons of its content (evidence, open
\* children, revision), after the receipt lookup and without effect.
CloseIssue(a) ==
    /\ AtStage(a, "close", "kata")
    /\ LET p == actor[a].pending IN
       \/ /\ CloseReplay(p.key) \/ CloseCommit(p.issue, p.holder, p.claim, p.key)
          /\ \E out \in Answers : Reply(a, out)
       \/ /\ \/ CloseRefused(p.issue, p.holder, p.claim, p.key)
             \/ p.key \notin receipts
          /\ Reply(a, "rejected")
          /\ UNCHANGED authorityVars
    /\ UNCHANGED <<instance, ended, actor, ws, minted>>

\* issue_get for refreshActor: the lease shown is the issue's unreleased row,
\* lapsed or not.
LookAtIssue(a) ==
    /\ call[a].op \in RefreshOps /\ call[a].stage = "kata"
    /\ LET t == actor[a].active IN
       IF status[t.issue] = "open" /\ t.claim \in Claims /\ claims[t.claim].state = "held"
       THEN call' = [call EXCEPT ![a].stage = "reply", ![a].out = "ok",
                                 ![a].claim = t.claim, ![a].span = claims[t.claim].left]
       ELSE Reply(a, "rejected")
    /\ UNCHANGED <<authorityVars, instance, ended, actor, ws, minted>>

\* The release a retirement sends; its answer is not looked at.
FinalRelease(a) ==
    /\ AtStage(a, "final", "kata")
    /\ \/ Release(actor[a].active.issue, actor[a].active.holder)
       \/ UNCHANGED authorityVars
    /\ Reply(a, "ok")
    /\ UNCHANGED <<instance, ended, actor, ws, minted>>

-----------------------------------------------------------------------------
(* The end of a handler: the answer is applied and the mutex unlocked.       *)

Smaller(x, y) == IF x <= y THEN x ELSE y

\* Mutant: the deadline is counted from the arrival of the answer.
LeftFromArrival(c) == Monus(Smaller(c.span, TTL), Margin)

\* Mutant: an answer that arrives past its deadline is not refused.
LeftUnchecked(c) == Smaller(c.span, TTL) - Margin - c.age

\* What is left of started + min(expires_at - server_now, ttl) - 1s.
GrantedLeft(c) == Monus(Monus(Smaller(c.span, TTL), Margin), c.age)

\* 5xx or an answer that cannot be parsed: nothing is assigned, the pending
\* operation stays for an exact retry.
FinishUnknown(a) ==
    /\ call[a].op \in PendingOps
    /\ call[a].stage = "reply" /\ call[a].out = "unknown"
    /\ Unlock(a)
    /\ UNCHANGED <<authorityVars, instance, ended, actor, ws, minted>>

\* 4xx: the operation is over; a refused renew or release also ends the
\* local tenure, a refused close keeps it for corrected evidence.
FinishRejected(a) ==
    /\ call[a].op \in PendingOps
    /\ call[a].stage = "reply" /\ call[a].out = "rejected"
    /\ SetActor(a, [actor[a] EXCEPT
           !.pending = NoPending,
           !.active = IF call[a].op \in {"renew", "release"} THEN NoTenure ELSE @])
    /\ Unlock(a)
    /\ UNCHANGED <<authorityVars, instance, ended, ws, minted>>

\* lease_lost: the answer arrived too late to be of use.
LoseLease(a) ==
    /\ SetActor(a, [actor[a] EXCEPT !.pending = NoPending, !.active = NoTenure])
    /\ UNCHANGED ws

\* A granted claim: leftovers of earlier tenures are orphaned, the pause ends.
FinishClaim(a) ==
    /\ AtStage(a, "claim", "reply") /\ call[a].out = "ok"
    /\ LET left == GrantedLeft(call[a])
           p == actor[a].pending
       IN IF left = 0 THEN LoseLease(a)
          ELSE /\ ws' = Marked(a, actor[a].active, "orphaned")
               /\ SetActor(a, [actor[a] EXCEPT
                     !.active = [issue |-> p.issue, holder |-> p.holder,
                                 claim |-> call[a].claim, left |-> left],
                     !.pending = NoPending, !.unknown = FALSE, !.paused = FALSE,
                     !.renewIn = RenewEvery])
    /\ Unlock(a)
    /\ UNCHANGED <<authorityVars, instance, ended, minted>>

\* The answer renews the tenure that was held, unexpired, when it was sent.
RenewsHeldTenure(a) ==
    Active(a) /\ actor[a].active.claim = call[a].claim /\ call[a].begun

FinishRenew(a) ==
    /\ AtStage(a, "renew", "reply") /\ call[a].out = "ok"
    /\ LET left == GrantedLeft(call[a]) IN
       IF ~RenewsHeldTenure(a) \/ left = 0 THEN LoseLease(a)
       ELSE /\ SetActor(a, [actor[a] EXCEPT
                  !.active.left = left, !.pending = NoPending,
                  !.unknown = FALSE, !.renewIn = RenewEvery])
            /\ UNCHANGED ws
    /\ Unlock(a)
    /\ UNCHANGED <<authorityVars, instance, ended, minted>>

FinishRelease(a) ==
    /\ AtStage(a, "release", "reply") /\ call[a].out = "ok"
    /\ ws' = Marked(a, actor[a].active, "orphaned")
    /\ SetActor(a, [actor[a] EXCEPT !.pending = NoPending, !.active = NoTenure,
                                    !.unknown = FALSE])
    /\ Unlock(a)
    /\ UNCHANGED <<authorityVars, instance, ended, minted>>

FinishClose(a) ==
    /\ AtStage(a, "close", "reply") /\ call[a].out = "ok"
    /\ \E F \in SUBSET Workspaces : ws' = Archived(a, actor[a].pending.claim, F)
    /\ SetActor(a, [actor[a] EXCEPT !.pending = NoPending, !.active = NoTenure,
                                    !.unknown = FALSE])
    /\ Unlock(a)
    /\ UNCHANGED <<authorityVars, instance, ended, minted>>

\* refreshActor: the deadline only ever moves earlier.
RefreshedTenure(t, c) ==
    [t EXCEPT !.left = Smaller(t.left, Monus(Monus(c.span, Margin), c.age))]

\* Actor a after refreshActor got the answer of call c.
Refreshed(a, c) ==
    CASE c.out = "unknown"  -> [actor[a] EXCEPT !.unknown = TRUE]
      [] c.out = "rejected" -> [actor[a] EXCEPT !.unknown = FALSE, !.active = NoTenure]
      [] OTHER -> [actor[a] EXCEPT !.unknown = FALSE,
                      !.active = Unlapsed(RefreshedTenure(actor[a].active, c))]

\* The refresh, what the event does with it, and the status of the reply.
FinishRefresh(a) ==
    /\ call[a].op \in {"look", "prompt"} /\ call[a].stage = "reply"
    /\ LET r == Refreshed(a, call[a]) IN
       /\ ws' = IF call[a].op = "prompt" THEN Prompted(a, r) ELSE ws
       /\ SetActor(a, [r EXCEPT !.active = Unlapsed(@)])
    /\ Unlock(a)
    /\ UNCHANGED <<authorityVars, instance, ended, minted>>

-----------------------------------------------------------------------------
(* tick(), for one actor.                                                    *)

\* A retirement releases the tenure only after a normal end.
ReleasesOnRetire(a) == EndedNormally(a) /\ Active(a)

\* Retirement.  A tenure that is not released is left to Kata's expiry.
RetireActor(a) ==
    /\ Stopped(a) /\ ~actor[a].retired
    /\ call[a] = NoCall
    /\ ws' = Marked(a, actor[a].active, "orphaned")
    /\ IF ReleasesOnRetire(a)
       THEN /\ SetActor(a, [actor[a] EXCEPT !.retired = TRUE])
            /\ Begin(a, "final", actor[a].active)
       ELSE /\ SetActor(a, [actor[a] EXCEPT !.retired = TRUE, !.active = NoTenure,
                                            !.pending = NoPending])
            /\ UNCHANGED call
    /\ UNCHANGED <<authorityVars, instance, ended, minted>>

\* More than 30 minutes without a request of the actor, at any time here.
RetireIdle(a) ==
    /\ ~Stopped(a) /\ ~actor[a].retired
    /\ call[a] = NoCall
    /\ ws' = Marked(a, actor[a].active, "orphaned")
    /\ SetActor(a, [actor[a] EXCEPT !.retired = TRUE, !.active = NoTenure,
                                    !.pending = NoPending])
    /\ UNCHANGED <<authorityVars, instance, ended, call, minted>>

FinishFinal(a) ==
    /\ AtStage(a, "final", "reply")
    /\ SetActor(a, [actor[a] EXCEPT !.active = NoTenure, !.pending = NoPending])
    /\ Unlock(a)
    /\ UNCHANGED <<authorityVars, instance, ended, ws, minted>>

\* The tick reaches a running actor.
Ticks(a) == ~Stopped(a) /\ ~actor[a].retired /\ call[a] = NoCall

\* Mutant: any pending operation shields the workspaces.
TickLapsedUnlessPending(a) ==
    /\ Ticks(a)
    /\ \/ /\ ~Active(a) /\ ~HasPending(a)
          /\ UNCHANGED actor
       \/ /\ Active(a) /\ ~Believes(a) /\ ~actor[a].paused
          /\ SetActor(a, [actor[a] EXCEPT !.active = NoTenure])
    /\ ws' = Marked(a, actor[a].active, "orphaned")
    /\ UNCHANGED <<authorityVars, instance, ended, call, minted>>

\* Without a tenure, or past its deadline, workspaces are orphaned.  A close
\* still pending shields them while no tenure is held.
TickLapsed(a) ==
    /\ Ticks(a)
    /\ \/ /\ ~Active(a) /\ actor[a].pending.op # "close"
          /\ UNCHANGED actor
       \/ /\ Active(a) /\ ~Believes(a) /\ ~actor[a].paused
          /\ SetActor(a, [actor[a] EXCEPT !.active = NoTenure])
    /\ ws' = Marked(a, actor[a].active, "orphaned")
    /\ UNCHANGED <<authorityVars, instance, ended, call, minted>>

\* The heartbeat, through the same execute() as a client's issue_renew: it
\* starts a renewal, re-sends a pending one, and is refused by another pending
\* operation or by a renewal a client asked for under another name of the
\* issue.  Not while paused, nor while a close is pending.
TickRenew(a) ==
    /\ Ticks(a) /\ Believes(a) /\ ~actor[a].paused
    /\ actor[a].pending.op # "close"
    /\ actor[a].renewIn = 0
    /\ LET later == [actor[a] EXCEPT !.renewIn = RenewRetry] IN
       \/ /\ ~HasPending(a)
          /\ SetActor(a, [later EXCEPT !.pending = HeldPending(a, "renew", 0)])
          /\ Begin(a, "renew", actor[a].active)
       \/ /\ actor[a].pending.op = "renew"
          /\ SetActor(a, later)
          /\ Begin(a, "renew", actor[a].active)
       \/ /\ HasPending(a)
          /\ SetActor(a, later)
          /\ UNCHANGED call
    /\ UNCHANGED <<authorityVars, instance, ended, ws, minted>>

-----------------------------------------------------------------------------
(* The daemon and time.                                                      *)

\* Workspace records survive a restart, none as live execution.  One whose last
\* state could not be written comes back as an earlier state says.
Restarted(s) ==
    CASE s \in {"preparing", "ready", "paused"} -> {"orphaned"}
      [] s = "failed" -> {"orphaned", "failed"}
      [] s = "archive_pending" -> {"orphaned", "failed", "archived"}
      [] OTHER -> {s}

\* The daemon (and the authority inside it) dies and comes back: registrations,
\* ended sessions, actors and handlers are gone, Kata's rows are not.  The
\* processes that still run register again, the others never do.
DaemonRestart ==
    /\ instance' = [i \in Instances |->
                       CASE instance[i] = "live"   -> "unregistered"
                         [] instance[i] = "exited" -> "retired"
                         [] OTHER -> instance[i]]
    /\ ended' = [s \in Sessions |-> FALSE]
    /\ actor' = [a \in Actors |-> FreshActor]
    /\ call' = [a \in Actors |-> NoCall]
    /\ \E s \in [Workspaces -> WorkspaceStates] :
          /\ \A w \in Workspaces : s[w] \in Restarted(ws[w].state)
          /\ ws' = [w \in Workspaces |-> [ws[w] EXCEPT !.state = s[w]]]
    /\ UNCHANGED <<authorityVars, minted>>

\* Only answers that will set a deadline measure time.  The span of a claim's
\* answer is fixed when server_now is stamped, after the confirmation; the
\* lease runs on in between.
MeasuresTime(c) ==
    /\ c.op \in {"claim", "renew"} \cup RefreshOps
    /\ c.stage # "cleanup" /\ c.out \in {"none", "ok"}

Aged(c) ==
    [c EXCEPT !.age = IF MeasuresTime(c) THEN Smaller(c.age + 1, TTL) ELSE c.age,
              !.span = IF c.stage = "confirm" THEN Monus(c.span, 1) ELSE c.span]

\* One unit of time passes everywhere.
Advance ==
    /\ Elapse
    /\ actor' = [a \in Actors |-> [actor[a] EXCEPT
                    !.active.left = Monus(@, 1), !.renewIn = Monus(@, 1)]]
    /\ call' = [a \in Actors |-> Aged(call[a])]
    /\ UNCHANGED <<instance, ended, ws, minted>>

-----------------------------------------------------------------------------
Authority ==
    /\ \/ \E i \in Issues : HumanClose(i) \/ HumanReopen(i) \/ ForceRelease(i)
       \/ Sweep
    /\ UNCHANGED runtimeVars

Environment ==
    \/ \E i \in Instances : \/ Register(i) \/ ProcessExit(i)
                            \/ \E normal \in BOOLEAN : EndInstance(i, normal)
    \/ RetireDead
    \/ Advance
    \/ Authority

ClientStep(a) ==
    \/ SessionEnd(a)
    \/ \E i \in Issues : StartClaim(a, i)
    \/ \E op \in {"renew", "release"} : StartHeld(a, op)
    \/ StartClose(a) \/ Resend(a)
    \/ Touch(a) \/ Pause(a) \/ PromptLocally(a)
    \/ \E op \in {"look", "prompt"} : StartRefresh(a, op)

KataStep(a) ==
    \/ DispatchFails(a)
    \/ ShowIssue(a) \/ AcquireLease(a) \/ AcquireIsDenied(a)
    \/ ConfirmIssue(a) \/ CleanupClaim(a)
    \/ RenewLease(a) \/ ReleaseLease(a) \/ CloseIssue(a)
    \/ LookAtIssue(a) \/ FinalRelease(a)

FinishStep(a) ==
    \/ FinishUnknown(a) \/ FinishRejected(a)
    \/ FinishClaim(a) \/ FinishRenew(a) \/ FinishRelease(a) \/ FinishClose(a)
    \/ FinishRefresh(a) \/ FinishFinal(a)

TickStep(a) == RetireActor(a) \/ RetireIdle(a) \/ TickLapsed(a) \/ TickRenew(a)

ActorStep(a) == ClientStep(a) \/ KataStep(a) \/ FinishStep(a) \/ TickStep(a)

Next == Environment \/ DaemonRestart \/ \E a \in Actors : ActorStep(a)

Spec == Init /\ [][Next]_vars

-----------------------------------------------------------------------------
(* Properties.                                                               *)

Row_(a) == claims[actor[a].active.claim]

\* LeaseCover.  While an actor believes in its tenure, that tenure's row is
\* held by the actor's principal at least as long as the actor will go on
\* believing, unless somebody released it explicitly: no interleaving of slow
\* answers, lost answers, renewals and the sweeper lets the authority expire a
\* tenure before the runtime stops acting on it.
LeaseCover ==
    \A a \in Actors : Believes(a) =>
        /\ Row_(a).issue = actor[a].active.issue
        /\ Row_(a).holder = actor[a].active.holder
        /\ \/ Row_(a).state = "released"
           \/ Row_(a).state = "held" /\ Row_(a).left >= actor[a].active.left

\* ExclusiveBelief.  Two actors act on one issue at a time only if the tenure
\* of one of them was released under it by a host.
ExclusiveBelief ==
    \A a, b \in Actors :
        (/\ a # b /\ Believes(a) /\ Believes(b)
         /\ actor[a].active.issue = actor[b].active.issue)
            => Row_(a).state = "released" \/ Row_(b).state = "released"

\* ClosedWorkNotHeld.  An actor never holds a live tenure on closed work, even
\* when a host closes the issue between the look and the acquire of its claim.
ClosedWorkNotHeld ==
    \A a \in Actors : (Believes(a) /\ status[actor[a].active.issue] = "closed")
        => Row_(a).state = "released"

\* RejectedCloseDidNothing.  The runtime forgets a close key when the close is
\* rejected, so a rejected close must not have committed: the receipt of an
\* earlier ambiguous attempt is found before the lease is validated.
RejectedCloseDidNothing ==
    \A a \in Actors : (AtStage(a, "close", "reply") /\ call[a].out = "rejected")
        => actor[a].pending.key \notin receipts

\* CloseLeavesOthersWork.  However late a close arrives, or how often it is
\* sent again, it neither closes an issue that another actor works on nor ends
\* that actor's tenure: the closer's own lease may have run out by then and the
\* issue have passed to the other, or have been closed and reopened.
CloseLeavesOthersWork ==
    [][\A a, b \in Actors :
         (/\ a # b /\ AtStage(a, "close", "kata") /\ call'[a].stage = "reply"
          /\ Believes(b) /\ Row_(b).state = "held")
             => /\ status'[actor[b].active.issue] = status[actor[b].active.issue]
                /\ claims'[actor[b].active.claim].state = "held"]_vars

\* AttemptIsStable.  An operation whose outcome is unknown is neither replaced
\* nor given another attempt nonce or close key until it is resolved.
AttemptIsStable ==
    [][\A a \in Actors : (HasPending(a) /\ actor'[a].pending.op # "none")
         => actor'[a].pending = actor[a].pending]_vars

\* OverIssuesAreFreed.  When every session is over, killed ones included, each
\* issue becomes free: by the release of a normal end or, after a crash or a
\* lost release, by an expiry that no heartbeat and no late answer puts off.
OverIssuesAreFreed ==
    (\A a \in Actors : Stopped(a) \/ instance[InstanceOf[a]] = "exited")
        ~> \A i \in Issues : Live(i) = {}

\* "A late response cannot revive a locally expired tenure."
\* docs/harness-adapters.md:222
NoLateRevival ==
    [][\A a \in Actors : (Active(a) /\ ~Believes(a))
         => actor'[a].active \in {NoTenure, actor[a].active}]_vars

-----------------------------------------------------------------------------
(* The inductive invariant behind the state properties above.                *)

\* What is still good of the lease in an answer that waits to be applied.
AnswerLeft(c) == Monus(c.span, c.age)

\* A held tenure is backed by its row and its principal is a nonce drawn.
TenureOK(a) == Active(a) =>
    LET t == actor[a].active IN
    /\ Backed(t.issue, t.holder, t.claim, t.left)
    /\ OnOpenWork(t.claim)
    /\ t.holder \in 1..minted

PendingOK(a) ==
    LET p == actor[a].pending IN
    /\ HasPending(a) => p.issue \in Issues /\ p.holder \in 1..minted
    /\ p.op = "close" => p.key \in 1..minted

\* A call carries out the pending operation, and what its answer promises
\* is backed by the authority until the answer is applied.
CallOK(a) ==
    LET c == call[a]
        p == actor[a].pending
        answered == c.stage = "reply" /\ c.out = "ok"
    IN  /\ c.op \in PendingOps => p.op = c.op
        /\ AtStage(a, "claim", "confirm") => Backed(p.issue, p.holder, c.claim, c.span)
        /\ (c.op = "claim" /\ answered) =>
              Backed(p.issue, p.holder, c.claim, AnswerLeft(c)) /\ OnOpenWork(c.claim)
        /\ (c.op = "renew" /\ answered) => Lasts(c.claim, AnswerLeft(c))
        /\ (AtStage(a, "close", "reply") /\ c.out = "rejected") => p.key \notin receipts

\* The principals an actor acts or may yet act under.
PrincipalsOf(a) ==
    (IF Active(a) THEN {actor[a].active.holder} ELSE {})
    \cup (IF HasPending(a) THEN {actor[a].pending.holder} ELSE {})

\* Nonces are not shared: not as principals, not as close keys.
Apart(a, b) ==
    /\ PrincipalsOf(a) \cap PrincipalsOf(b) = {}
    /\ (actor[a].pending.op = "close" /\ actor[b].pending.op = "close")
          => actor[a].pending.key # actor[b].pending.key

\* RuntimeInv.  Inductive, and implies LeaseCover, ExclusiveBelief,
\* ClosedWorkNotHeld and RejectedCloseDidNothing.
RuntimeInv ==
    /\ TypeOK /\ RowsOK
    /\ \A a \in Actors : TenureOK(a) /\ PendingOK(a) /\ CallOK(a)
    /\ \A a, b \in Actors : a # b => Apart(a, b)
=============================================================================
