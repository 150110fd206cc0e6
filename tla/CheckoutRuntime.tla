--------------------------- MODULE CheckoutRuntime ---------------------------
(***************************************************************************)
(* `forged checkout`: one process that claims an issue, captures and        *)
(* restores a workspace, starts an agent in it, renews the lease while the  *)
(* agent runs and releases it at the end (cmd/forged/checkout.go over       *)
(* internal/checkout/runtime.go), against the authority of LeaseAuthority.  *)
(*                                                                          *)
(* The command, the heartbeat goroutine and the handlers of the agent's     *)
(* socket share the Runtime and its mutex, which each of them holds over    *)
(* its requests: req[0] is the request the holder awaits.  A request that   *)
(* was given up on (five seconds, a cancelled context, a lost connection)   *)
(* may still be carried out: it goes on as req[1].                          *)
(*                                                                          *)
(* Left out are requests that read, or add to the tracker and change no     *)
(* field here: the agent's comments and links, and the note of a failed     *)
(* command.  They hold the mutex as long as any other request, and the      *)
(* actions that wait for it may be late anyway.                             *)
(***************************************************************************)
EXTENDS LeaseAuthority, Sequences

CONSTANTS Margin,       \* what setLease takes off a lease: one second
          RenewEvery,   \* period of the heartbeat: min(ttl/3, 30 s)
          Tries,        \* sendings of a claim or a registration: three
          MaxKeys       \* bound: Idempotency-Keys of closes drawn

ASSUME RuntimeAssumption ==
    /\ Margin \in 0..TTL
    /\ RenewEvery \in 0..TTL
    /\ Tries \in Nat \ {0}
    /\ MaxKeys \in Nat

VARIABLES rt,           \* the Runtime's fields
          req,          \* request awaited (0) and request given up on (1)
          phase,        \* where runCheckout is
          launched,     \* the agent was started
          minted,       \* keys of closes drawn so far
          posted        \* workspace observations in the issue's history

runtimeVars == <<rt, req, phase, launched, minted, posted>>
vars == <<status, claims, nextClaim, receipts,
          rt, req, phase, launched, minted, posted>>

Me == 1                 \* the principal of the process's one attempt

\* `claim` is r.claim, `proof` says whether r.proof is set; `left` is the time
\* until r.deadline, `beat` the time until the ticker fires, `due` its channel.
Runtime == [claim : Nat, proof : BOOLEAN, issue : Issues \cup {NoIssue}, left : 0..TTL,
            active : BOOLEAN, stopped : BOOLEAN, lost : BOOLEAN, pending : Nat,
            beating : BOOLEAN, beat : 0..RenewEvery, due : BOOLEAN]
NewRuntime == [claim |-> NoClaim, proof |-> FALSE, issue |-> NoIssue, left |-> 0,
               active |-> FALSE, stopped |-> FALSE, lost |-> FALSE, pending |-> 0,
               beating |-> FALSE, beat |-> 0, due |-> FALSE]

Ops == {"claim", "beat", "guard", "preparing", "ready", "close", "shutdown"}
Request == [op : {"none"} \cup Ops,
            tool : {"none", "issue_claim", "issue_renew", "issue_workspace",
                    "issue_close", "issue_release"},
            stage : {"none", "show", "acquire", "confirm", "cleanup", "kata",
                     "comment", "reply"},
            issue : Issues \cup {NoIssue}, claim : Nat, key : Nat,
            try : 0..Tries,
            age : 0..TTL,                          \* time since `started`
            got : Nat, span : 0..TTL,              \* lease in the answer
            out : {"none", "ok", "rejected", "unknown"}]
NoRequest == [op |-> "none", tool |-> "none", stage |-> "none", issue |-> NoIssue,
              claim |-> NoClaim, key |-> 0, try |-> 0, age |-> 0, got |-> NoClaim,
              span |-> 0, out |-> "none"]

Phases == {"claim", "capture", "preparing", "restore", "ready", "guard", "launch",
           "agent", "kill", "leaving", "shutdown", "over"}

\* Every variable has its declared shape.
TypeOK ==
    /\ AuthorityTypeOK
    /\ rt \in Runtime
    /\ req \in [0..1 -> Request]
    /\ phase \in Phases
    /\ launched \in BOOLEAN
    /\ minted \in 0..MaxKeys
    /\ posted \in Seq({"preparing", "ready"})

Init ==
    /\ AuthorityInit
    /\ rt = NewRuntime
    /\ req = [s \in 0..1 |-> NoRequest]
    /\ phase = "claim"
    /\ launched = FALSE
    /\ minted = 0
    /\ posted = <<>>

-----------------------------------------------------------------------------
(* The Runtime's private methods.                                            *)

Smaller(x, y) == IF x <= y THEN x ELSE y

\* The mutex is free.
Free == req[0] = NoRequest

Send(q) == req' = [req EXCEPT ![0] = q]
Ask(op, tool) ==
    [NoRequest EXCEPT !.op = op, !.tool = tool, !.issue = rt.issue, !.claim = rt.claim,
                      !.stage = IF tool = "issue_claim" THEN "show" ELSE "kata", !.try = 1]
Again(q) == [Ask(q.op, q.tool) EXCEPT !.issue = q.issue, !.try = q.try + 1]
Done == Send(NoRequest)

\* Mutant: the deadline is counted from the arrival of the answer.
LeftFromArrival(q) == Monus(Smaller(q.span, TTL), Margin)

\* setLease: what is left of started + min(ttl, expires - now) - 1 s.
AnswerLeft(q) == Monus(Monus(Smaller(q.span, TTL), Margin), q.age)

\* fail: the channel `lost` is closed once and for all.
Failed(k) == [k EXCEPT !.active = FALSE, !.lost = TRUE]

\* The conditions under which renew sends a request at all.
MayRenew(k) == ~k.stopped /\ k.active /\ k.left > 0

\* setLease after a renewal: the deadline moves unless the lease is replaced,
\* and the renewal fails if it has passed already.
Renewed(k, q) ==
    LET l == [k EXCEPT !.left = AnswerLeft(q)] IN
    IF q.out # "ok" \/ q.got # k.claim THEN Failed(k)
    ELSE IF AnswerLeft(q) = 0 THEN Failed(l) ELSE [l EXCEPT !.active = TRUE]

\* renew for op, or its failure at once, which every caller turns into fail.
RenewFor(op) ==
    IF MayRenew(rt) THEN Send(Ask(op, "issue_renew")) /\ UNCHANGED rt
                    ELSE rt' = Failed(rt) /\ UNCHANGED req

Replied(op, tool) ==
    req[0].op = op /\ req[0].tool = tool /\ req[0].stage = "reply"

GoTo(p) == phase' = p
Same == UNCHANGED <<authorityVars, launched, minted, posted>>

-----------------------------------------------------------------------------
(* runCheckout up to the agent.                                              *)

StartClaim(i) ==
    /\ phase = "claim" /\ Free
    /\ Send([Ask("claim", "issue_claim") EXCEPT !.issue = i])
    /\ UNCHANGED <<rt, phase>> /\ Same

\* An answer that arrives past its deadline is an error, but leaves the proof.
Granted(q) ==
    LET k == [rt EXCEPT !.claim = q.got, !.proof = TRUE, !.issue = q.issue,
                        !.left = AnswerLeft(q)] IN
    IF k.left > 0
    THEN rt' = [k EXCEPT !.active = TRUE, !.beating = TRUE, !.beat = RenewEvery] /\ GoTo("capture")
    ELSE rt' = k /\ GoTo("leaving")

\* The same attempt is sent again while the outcome is unknown.
FinishClaim ==
    LET q == req[0] IN
    /\ Replied("claim", "issue_claim")
    /\ \/ q.out = "ok" /\ Granted(q) /\ Done
       \/ q.out = "unknown" /\ q.try < Tries /\ Send(Again(q)) /\ UNCHANGED <<rt, phase>>
       \/ q.out # "ok" /\ GoTo("leaving") /\ Done /\ UNCHANGED rt
    /\ Same

\* Capture or Load, then Restore.
Captured ==
    /\ phase = "capture" /\ GoTo("preparing")
    /\ UNCHANGED <<rt, req>> /\ Same
Restored ==
    /\ phase = "restore" /\ GoTo("ready")
    /\ UNCHANGED <<rt, req>> /\ Same

\* They fail, the agent cannot be started, or the context was cancelled.
CommandFails ==
    /\ phase \in {"capture", "restore", "launch"} /\ GoTo("leaving")
    /\ UNCHANGED <<rt, req>> /\ Same

\* Register and the Guard before the start renew first.
StartConfirm ==
    /\ phase \in {"preparing", "ready", "guard"} /\ Free
    /\ RenewFor(phase)
    /\ IF MayRenew(rt) THEN UNCHANGED phase ELSE GoTo("leaving")
    /\ Same

FinishConfirm ==
    /\ phase \in {"preparing", "ready", "guard"} /\ Replied(phase, "issue_renew")
    /\ rt' = Renewed(rt, req[0])
    /\ IF rt'.lost THEN GoTo("leaving") /\ Done
       ELSE IF phase = "guard" THEN GoTo("launch") /\ Done
       ELSE Send(Ask(phase, "issue_workspace")) /\ UNCHANGED phase
    /\ Same

Registered(q) == q.out = "ok"

FinishRegister ==
    LET q == req[0] IN
    /\ phase \in {"preparing", "ready"} /\ Replied(phase, "issue_workspace")
    /\ \/ /\ Registered(q) /\ Done
          /\ GoTo(IF phase = "preparing" THEN "restore" ELSE "guard")
       \/ q.out = "unknown" /\ q.try < Tries /\ Send(Again(q)) /\ UNCHANGED phase
       \/ /\ ~Registered(q) /\ (q.out = "unknown" => q.try = Tries)
          /\ Done /\ GoTo("leaving")
    /\ UNCHANGED rt /\ Same

Launch ==
    /\ phase = "launch" /\ ~rt.lost /\ GoTo("agent")
    /\ launched' = TRUE
    /\ UNCHANGED <<authorityVars, rt, req, minted, posted>>
LostBeforeLaunch ==
    /\ phase = "launch" /\ rt.lost /\ GoTo("leaving")
    /\ UNCHANGED <<rt, req>> /\ Same

-----------------------------------------------------------------------------
(* The agent: it runs in the phases "agent" and "kill", and its socket may    *)
(* still have a call waiting for the mutex when it is gone.                  *)

AgentRuns == phase \in {"agent", "kill"}
AgentCalls == launched /\ Free /\ phase # "over"

StartGuard ==
    /\ AgentCalls /\ rt.pending = 0
    /\ RenewFor("guard")
    /\ UNCHANGED phase /\ Same

FinishGuard ==
    /\ launched /\ Replied("guard", "issue_renew")
    /\ rt' = Renewed(rt, req[0]) /\ Done
    /\ UNCHANGED phase /\ Same

StartClose ==
    /\ AgentCalls /\ ~rt.stopped /\ rt.pending = 0 /\ minted < MaxKeys
    /\ RenewFor("close")
    /\ UNCHANGED phase /\ Same

\* The close's key is drawn, and kept, before it is sent.
SendClose ==
    /\ Replied("close", "issue_renew")
    /\ LET k == Renewed(rt, req[0]) IN
       IF k.lost
       THEN rt' = k /\ Done /\ UNCHANGED minted
       ELSE /\ minted' = minted + 1
            /\ rt' = [k EXCEPT !.pending = minted']
            /\ Send([Ask("close", "issue_close") EXCEPT !.key = minted'])
    /\ UNCHANGED <<authorityVars, phase, launched, posted>>

\* "retry": the original request again, whatever became of the lease.
RetryClose ==
    /\ AgentCalls /\ ~rt.stopped /\ rt.pending # 0
    /\ Send([Ask("close", "issue_close") EXCEPT !.key = rt.pending])
    /\ UNCHANGED <<rt, phase>> /\ Same

FinishClose ==
    /\ Replied("close", "issue_close")
    /\ rt' = CASE req[0].out = "ok" -> [rt EXCEPT !.pending = 0, !.active = FALSE]
               [] req[0].out = "rejected" -> [rt EXCEPT !.pending = 0]
               [] OTHER -> rt
    /\ Done
    /\ UNCHANGED phase /\ Same

\* The agent exits, or the select sees the lost lease or the signal.
AgentEnds ==
    /\ phase = "agent" /\ GoTo("leaving")
    /\ UNCHANGED <<rt, req>> /\ Same
LoseAgent ==
    /\ phase = "agent" /\ rt.lost /\ GoTo("kill")
    /\ UNCHANGED <<rt, req>> /\ Same
Interrupt ==
    /\ phase = "agent" /\ GoTo("kill")
    /\ UNCHANGED <<rt, req>> /\ Same
AgentKilled ==
    /\ phase = "kill" /\ GoTo("leaving")
    /\ UNCHANGED <<rt, req>> /\ Same

-----------------------------------------------------------------------------
(* The heartbeat.                                                            *)

\* The ticker drops a tick that finds the channel full.
Tick ==
    /\ rt.beating /\ rt.beat = 0
    /\ rt' = [rt EXCEPT !.beat = RenewEvery, !.due = TRUE]
    /\ UNCHANGED <<req, phase>> /\ Same

\* Mutant: a lease is not renewed while a close is pending, and nothing else
\* looks at its deadline.
LapsedPending(k) == FALSE

\* A close is pending and the deadline has passed.
Lapsed(k) == k.pending # 0 /\ k.left = 0

Beat ==
    /\ rt.due /\ Free
    /\ LET k == [rt EXCEPT !.due = FALSE] IN
       IF k.active /\ k.pending = 0 /\ MayRenew(k)
       THEN rt' = k /\ Send(Ask("beat", "issue_renew"))
       ELSE /\ rt' = IF (k.active /\ k.pending = 0) \/ Lapsed(k) THEN Failed(k) ELSE k
            /\ UNCHANGED req
    /\ UNCHANGED phase /\ Same

FinishBeat ==
    /\ Replied("beat", "issue_renew")
    /\ rt' = Renewed(rt, req[0]) /\ Done
    /\ UNCHANGED phase /\ Same

-----------------------------------------------------------------------------
(* Shutdown, once, and the end of the process.                               *)

\* Mutant: `done` is not closed, and the Runtime is not marked.
StoppedStillBeating(k) == [k EXCEPT !.proof = FALSE]

Stopped(k) == [k EXCEPT !.stopped = TRUE, !.active = FALSE, !.proof = FALSE,
                        !.beating = FALSE, !.due = FALSE]

Shutdown ==
    /\ phase = "leaving" /\ Free
    /\ rt' = Stopped(rt)
    /\ IF rt.proof THEN Send(Ask("shutdown", "issue_release")) /\ GoTo("shutdown")
                   ELSE GoTo("over") /\ UNCHANGED req
    /\ Same

FinishShutdown ==
    /\ Replied("shutdown", "issue_release")
    /\ Done /\ GoTo("over")
    /\ UNCHANGED rt /\ Same

-----------------------------------------------------------------------------
(* The daemon's side: the Kata steps of tools.go and workspace.go.           *)

At(s, tool, stage) == req[s].tool = tool /\ req[s].stage = stage

\* The answer to request 1 goes nowhere.
Answered(s, q) == [req EXCEPT ![s] = IF s = 0 THEN [q EXCEPT !.stage = "reply"] ELSE NoRequest]
Answer(s, out) == req' = Answered(s, [req[s] EXCEPT !.out = out])
AnswerLease(s, c, span) ==
    req' = Answered(s, [req[s] EXCEPT !.out = "ok", !.got = c, !.span = span])
Forward(s, stage) == req' = [req EXCEPT ![s].stage = stage]

ShowIssue(s) ==
    /\ At(s, "issue_claim", "show")
    /\ IF status[req[s].issue] = "open" THEN Forward(s, "acquire") ELSE Answer(s, "rejected")
    /\ UNCHANGED <<authorityVars, posted>>

AcquireLease(s) ==
    /\ At(s, "issue_claim", "acquire")
    /\ \/ \E c \in Claims :
             /\ Acquire(req[s].issue, Me, c)
             /\ req' = [req EXCEPT ![s].stage = "confirm", ![s].got = c,
                                   ![s].span = IF s = 0 THEN claims'[c].left ELSE 0]
       \/ /\ AcquireDenied(req[s].issue, Me)
          /\ Answer(s, "rejected")
          /\ UNCHANGED authorityVars
    /\ UNCHANGED posted

ConfirmIssue(s) ==
    /\ At(s, "issue_claim", "confirm")
    /\ IF status[req[s].issue] = "open" THEN AnswerLease(s, req[s].got, req[s].span)
                                        ELSE Forward(s, "cleanup")
    /\ UNCHANGED <<authorityVars, posted>>

CleanupClaim(s) ==
    /\ At(s, "issue_claim", "cleanup")
    /\ Release(req[s].issue, Me) \/ UNCHANGED authorityVars
    /\ Answer(s, "rejected")
    /\ UNCHANGED posted

RenewLease(s) ==
    /\ At(s, "issue_renew", "kata")
    /\ \/ \E c \in Claims : Renew(req[s].issue, Me, c) /\ AnswerLease(s, c, TTL)
       \/ NotHeld(req[s].issue, Me) /\ Answer(s, "rejected") /\ UNCHANGED authorityVars
    /\ UNCHANGED posted

ReleaseLease(s) ==
    /\ At(s, "issue_release", "kata")
    /\ \/ Release(req[s].issue, Me) /\ Answer(s, "ok")
       \/ NotHeld(req[s].issue, Me) /\ Answer(s, "rejected") /\ UNCHANGED authorityVars
    /\ UNCHANGED posted

\* The content of a close may be refused whatever the lease says.
CloseIssue(s) ==
    /\ At(s, "issue_close", "kata")
    /\ LET q == req[s] IN
       \/ (CloseReplay(q.key) \/ CloseCommit(q.issue, Me, q.claim, q.key)) /\ Answer(s, "ok")
       \/ q.key \notin receipts /\ Answer(s, "rejected") /\ UNCHANGED authorityVars
    /\ UNCHANGED posted

\* An observation needs the exact live lease when it is looked at ...
LookBeforeComment(s) ==
    /\ At(s, "issue_workspace", "kata")
    /\ IF status[req[s].issue] = "open" /\ GuardHolds(req[s].issue, Me, req[s].claim)
       THEN Forward(s, "comment") ELSE Answer(s, "rejected")
    /\ UNCHANGED <<authorityVars, posted>>

\* Mutant: each delivery posts a comment.
PostedAgain(state) == Append(posted, state)

\* Its Idempotency-Key is that of the workspace and the state.
Posted(state) == IF \E n \in DOMAIN posted : posted[n] = state THEN posted
                 ELSE Append(posted, state)

\* ... and is posted later.
PostComment(s) ==
    /\ At(s, "issue_workspace", "comment")
    /\ posted' = Posted(req[s].op)
    /\ Answer(s, "ok")
    /\ UNCHANGED authorityVars

ServerStep(s) ==
    /\ \/ ShowIssue(s) \/ AcquireLease(s) \/ ConfirmIssue(s) \/ CleanupClaim(s)
       \/ RenewLease(s) \/ ReleaseLease(s) \/ CloseIssue(s)
       \/ LookBeforeComment(s) \/ PostComment(s)
    /\ UNCHANGED <<rt, phase, launched, minted>>

\* What req[1] may be when request 0 is given up on: that request may be lost,
\* or on its way.
LeftBehind ==
    IF req[1] = NoRequest /\ req[0].stage \notin {"none", "reply"}
    THEN {NoRequest, [req[0] EXCEPT !.age = 0, !.span = 0, !.try = 0]}
    ELSE {req[1]}

\* The time limit, a cancelled context, a lost answer; or an answer of 5xx, 408
\* or 429 in place of the next transaction, after which nothing goes on.
GiveUp ==
    /\ req[0].stage # "none" /\ req[0].out # "unknown"
    /\ \E stray \in LeftBehind :
          req' = [req EXCEPT ![0].stage = "reply", ![0].out = "unknown", ![1] = stray]
    /\ UNCHANGED <<rt, phase>> /\ Same

\* SIGKILL: nothing is released, and nobody renews.
Crash ==
    /\ phase # "over" /\ GoTo("over")
    /\ \E stray \in LeftBehind : req' = [req EXCEPT ![0] = NoRequest, ![1] = stray]
    /\ rt' = Stopped(rt)
    /\ Same

-----------------------------------------------------------------------------
(* Time, and everybody else.                                                 *)

\* Only answers that set a deadline measure time.
Aged(q) ==
    IF q.tool \in {"issue_claim", "issue_renew"} /\ q.out \in {"none", "ok"}
    THEN [q EXCEPT !.age = Smaller(@ + 1, TTL),
                   !.span = IF q.stage = "confirm" THEN Monus(@, 1) ELSE @]
    ELSE q

Advance ==
    /\ Elapse
    /\ rt' = [rt EXCEPT !.left = Monus(@, 1), !.beat = Monus(@, 1)]
    /\ req' = [req EXCEPT ![0] = Aged(@)]
    /\ UNCHANGED <<phase, launched, minted, posted>>

\* Hosts and the sweeper.  An execution that takes the issue once it is free is
\* left out: it refuses requests that a free issue refuses, too.
Others ==
    /\ \/ \E i \in Issues :
             HumanClose(i) \/ HumanReopen(i) \/ ForceRelease(i)
       \/ Sweep
    /\ UNCHANGED runtimeVars

-----------------------------------------------------------------------------
Command ==
    \/ \E i \in Issues : StartClaim(i)
    \/ FinishClaim \/ Captured \/ StartConfirm \/ FinishConfirm \/ FinishRegister
    \/ Restored \/ Launch \/ LostBeforeLaunch \/ LoseAgent \/ AgentKilled \/ FinishShutdown

Agent == StartGuard \/ StartClose \/ RetryClose \/ AgentEnds

Finish == FinishGuard \/ SendClose \/ FinishClose \/ FinishBeat

Next ==
    \/ Command \/ Shutdown \/ Agent \/ Finish \/ Tick \/ Beat
    \/ CommandFails \/ Interrupt \/ Crash
    \/ (\E s \in 0..1 : ServerStep(s)) \/ GiveUp \/ Advance \/ Others

Spec == Init /\ [][Next]_vars

\* Time passes, goroutines run, the daemon or the time limit ends a request,
\* and sync.Mutex starves no waiter for ever, so that the heartbeat and the
\* shutdown get it although the agent keeps calling.  Nothing makes the agent
\* call or exit, nor hosts act.
Fairness ==
    /\ WF_vars(Advance)
    /\ WF_vars(Command) /\ WF_vars(Finish) /\ WF_vars(Tick)
    /\ SF_vars(Beat) /\ SF_vars(Shutdown)
    /\ WF_vars(GiveUp) /\ \A s \in 0..1 : WF_vars(ServerStep(s))

FairSpec == Spec /\ Fairness

-----------------------------------------------------------------------------
(* Properties.                                                               *)

\* DeadlineCover.  While the Runtime believes in its lease the authority keeps
\* the claim at least as long, or somebody released it: no answer that was
\* slow, and no attempt whose first answer was lost, outlives the lease.
DeadlineCover ==
    (rt.active /\ rt.left > 0) => Backed(rt.issue, Me, rt.claim, rt.left)

\* RegisteredInOrder.  Whatever registrations were lost, sent again or carried
\* out late, the issue's history says "preparing" and then "ready", each once,
\* and an agent was started only after both ("publishes `ready`, confirms the
\* lease again, and starts the command", docs/code-checkout.md:73).
RegisteredInOrder ==
    /\ posted \in {<<>>, <<"preparing">>, <<"preparing", "ready">>}
    /\ launched => posted = <<"preparing", "ready">>

\* LostStopsAgent.  An agent whose lease lapsed, was released or was taken by
\* another does not run on, unless its own close has ended the work: also when
\* a close is pending, during which nothing is renewed.
LostStopsAgent ==
    (AgentRuns /\ ~GuardHolds(rt.issue, Me, rt.claim) /\ receipts = {})
        ~> (~AgentRuns \/ receipts # {})

\* LeavesNoLease.  When the process is gone, killed at any moment, its issue
\* becomes free and stays so: no claim carried out late, and no release that
\* was lost, keeps it for longer than a ttl.
LeavesNoLease == <>[](phase = "over" => \A i \in Issues : LiveOf(i, Me) = {})

-----------------------------------------------------------------------------
(* The inductive invariant behind the safety properties.                     *)

\* The authority backs a lease from its grant to the end of its request, for
\* what its span leaves of the age of the request.
AnswerOK(q) ==
    /\ q.out # "none" => q.stage = "reply"
    /\ q.stage = "confirm" => q.tool = "issue_claim" /\ Backed(q.issue, Me, q.got, q.span)
    /\ (q.out = "ok" /\ q.tool \in {"issue_claim", "issue_renew"})
          => Backed(q.issue, Me, q.got, Monus(q.span, q.age))

\* A renewal is of the Runtime's issue, and a close that renews first will find
\* a key to draw.
AwaitedOK(q) ==
    q.tool = "issue_renew" => q.issue = rt.issue /\ (q.op = "close" => minted < MaxKeys)

IsPosted(state) == \E n \in DOMAIN posted : posted[n] = state

\* A claim names an issue; "ready" is registered once "preparing" is in the
\* history, and an answer says what is.
RequestOK(q) ==
    /\ q.tool = "issue_claim" => q.issue \in Issues
    /\ q.tool = "issue_workspace" =>
        /\ q.op \in {"preparing", "ready"}
        /\ q.op = "ready" => posted # <<>>
        /\ q.out = "ok" => IsPosted(q.op)

\* How far runCheckout is, the history is.
ProgressOK ==
    /\ phase \in {"restore", "ready"} => posted # <<>>
    /\ phase \in {"guard", "launch", "agent", "kill"} => posted = <<"preparing", "ready">>

CommandInv ==
    /\ TypeOK /\ RowsOK
    /\ DeadlineCover /\ RegisteredInOrder /\ ProgressOK
    /\ AnswerOK(req[0]) /\ AwaitedOK(req[0])
    /\ \A s \in 0..1 : RequestOK(req[s])
=============================================================================
