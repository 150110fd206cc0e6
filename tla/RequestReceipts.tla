--------------------------- MODULE RequestReceipts ---------------------------
(***************************************************************************)
(* Logical requests of one actor: the bounded retry of the CLI facade       *)
(* (codex/facade.ts, claude/facade.ts, client/runtime-transport.ts) against *)
(* the receipts of the supervised runtime (internal/forge/                  *)
(* runtime_receipts.go, command).                                           *)
(*                                                                          *)
(* A request handler holds the actor's mutex from the receipt lookup to the *)
(* answer, so it is one action, Handle.  Outside it, copies of a request    *)
(* wait for the mutex, get lost or are answered too late, the commands of   *)
(* concurrent CLI processes overtake each other, the heartbeat runs and the *)
(* tenure lapses.                                                           *)
(*                                                                          *)
(* What a dispatch does at the authority is abstracted to its outcome       *)
(* (SupervisedRuntime has the steps); an attempt is what one nonce, key or  *)
(* write identifies there.                                                  *)
(***************************************************************************)
EXTENDS Naturals, FiniteSets, Sequences

CONSTANTS Requests,      \* request ids, one per logical command
          Operations,    \* operations the commands use
          MaxTries,      \* copies of a request a facade sends: 3
          Kept,          \* bodies kept per actor: 32
          MaxReceipts,   \* receipts kept per actor: 4096
          MaxAttempts    \* bound: attempts begun in a behaviour

\* "comment" stands for every write that is not an execution command.
ExecutionOps == {"claim", "renew", "release", "close"}
MutationOps == ExecutionOps \cup {"retry", "comment"}

\* Who begins an attempt but a request: the heartbeat, or nobody yet.
Heartbeat == "heartbeat"
Nobody == "nobody"

ASSUME ReceiptsAssumption ==
    /\ Heartbeat \notin Requests /\ Nobody \notin Requests
    /\ Operations \subseteq MutationOps
    /\ MaxTries \in Nat \ {0} /\ Kept \in Nat \ {0}
    /\ MaxReceipts \in Nat /\ MaxAttempts \in Nat

VARIABLES op,         \* request -> operation of its command, or "none"
          tries,      \* request -> copies sent
          wire,       \* request -> copies not handled yet
          client,     \* request -> "idle" | "waiting" | "gone"
          receipt,    \* request -> supervisedReceipt
          order,      \* receiptOrder: requests whose bodies are kept
          pending,    \* t.pending
          active,     \* attempt of the claim whose tenure is held, or NoAttempt
          last,       \* lastExecution and lastOperation
          attempts,   \* attempts begun
          begunBy     \* history: attempt -> request that began it, or Heartbeat

vars == <<op, tries, wire, client, receipt, order, pending, active, last,
          attempts, begunBy>>
clientVars == <<op, tries, client>>
receiptVars == <<receipt, order, last>>
runtimeVars == <<pending, active, attempts, begunBy>>

NoAttempt == 0
Attempts == 1..MaxAttempts

Outs == {"ok", "rejected", "unknown"}
\* An answer: how the operation ended and which attempt it tells of.
Answer == [out : Outs, op : MutationOps \cup {"none"}, attempt : 0..MaxAttempts]
NoAnswer == [out |-> "unknown", op |-> "none", attempt |-> NoAttempt]
Pending == [op : ExecutionOps \cup {"none"}, attempt : 0..MaxAttempts]
NoPending == [op |-> "none", attempt |-> NoAttempt]
\* "open" is a receipt without a status; a final one is a tombstone once its
\* body was evicted.
Receipt == [state : {"none", "open", "final", "tombstone"}, answer : Answer]
NoReceipt == [state |-> "none", answer |-> NoAnswer]

\* Every variable has its declared shape.
TypeOK ==
    /\ op \in [Requests -> MutationOps \cup {"none"}]
    /\ tries \in [Requests -> 0..MaxTries]
    /\ wire \in [Requests -> 0..MaxTries]
    /\ client \in [Requests -> {"idle", "waiting", "gone"}]
    /\ receipt \in [Requests -> Receipt]
    /\ order \in Seq(Requests)
    /\ pending \in Pending
    /\ active \in 0..MaxAttempts
    /\ last \in Answer
    /\ attempts \in 0..MaxAttempts
    /\ begunBy \in [Attempts -> Requests \cup {Heartbeat, Nobody}]

Init ==
    /\ op = [r \in Requests |-> "none"]
    /\ tries = [r \in Requests |-> 0]
    /\ wire = [r \in Requests |-> 0]
    /\ client = [r \in Requests |-> "idle"]
    /\ receipt = [r \in Requests |-> NoReceipt]
    /\ order = <<>>
    /\ pending = NoPending
    /\ active = NoAttempt
    /\ last = NoAnswer
    /\ attempts = 0
    /\ begunBy = [n \in Attempts |-> Nobody]

-----------------------------------------------------------------------------
(* The facade: one request id per command, at most MaxTries copies of it.    *)

SendCopy(r) ==
    /\ tries' = [tries EXCEPT ![r] = @ + 1]
    /\ wire' = [wire EXCEPT ![r] = @ + 1]

Start(r, o) ==
    /\ client[r] = "idle"
    /\ op' = [op EXCEPT ![r] = o]
    /\ client' = [client EXCEPT ![r] = "waiting"]
    /\ SendCopy(r)
    /\ UNCHANGED <<receiptVars, runtimeVars>>

MayResend(r) == tries[r] < MaxTries

\* A timeout, a broken connection or an ambiguous answer: another copy, or the
\* command ends with its outcome unknown.  Earlier copies stay on their way.
TryAgain(r) ==
    /\ client[r] = "waiting"
    /\ IF MayResend(r)
       THEN SendCopy(r) /\ UNCHANGED client
       ELSE client' = [client EXCEPT ![r] = "gone"] /\ UNCHANGED <<tries, wire>>
    /\ UNCHANGED <<op, receiptVars, runtimeVars>>

LoseCopy(r) ==
    /\ wire[r] > 0
    /\ wire' = [wire EXCEPT ![r] = @ - 1]
    /\ UNCHANGED <<clientVars, receiptVars, runtimeVars>>

\* A definite answer ends the command if it reaches it.
Answered(r, definite) ==
    /\ wire' = [wire EXCEPT ![r] = @ - 1]
    /\ \/ definite /\ client' = [client EXCEPT ![r] = "gone"]
       \/ UNCHANGED client
    /\ UNCHANGED <<op, tries>>
-----------------------------------------------------------------------------
(* execute(): what one command does to the actor, and how it is answered.    *)

\* The dispatch of p ends: rejected, confirmed, or unknown, and then p stays
\* pending.  A renewal or release that is rejected ends the tenure, too.
Dispatched(p, answer) ==
    /\ answer \in [out : Outs, op : {p.op}, attempt : {p.attempt}]
    /\ pending' = IF answer.out = "unknown" THEN p ELSE NoPending
    /\ active' = CASE answer.out = "unknown" -> active
                   [] answer.out = "ok" /\ p.op = "claim" -> p.attempt
                   [] answer.out = "ok" /\ p.op \in {"release", "close"} -> NoAttempt
                   [] answer.out = "rejected" /\ p.op \in {"renew", "release"} -> NoAttempt
                   [] OTHER -> active

Begins(by) ==
    /\ attempts < MaxAttempts
    /\ attempts' = attempts + 1
    /\ begunBy' = [begunBy EXCEPT ![attempts + 1] = by]

\* pending_operation, lease_active, lease_required, no_pending, lease_lost.
Refused(answer) ==
    /\ answer = [NoAnswer EXCEPT !.out = "rejected"]
    /\ UNCHANGED runtimeVars

\* An execution command with o, asked for by `by`.  A pending operation is sent
\* again by the command that matches it and refuses every other.
ExecuteLease(o, by, answer) ==
    \/ /\ pending = NoPending
       /\ IF o = "claim" THEN active = NoAttempt ELSE active # NoAttempt
       /\ Begins(by)
       /\ Dispatched([op |-> o, attempt |-> attempts + 1], answer)
    \/ /\ pending = NoPending
       /\ IF o = "claim" THEN active # NoAttempt ELSE active = NoAttempt
       /\ Refused(answer)
    \/ /\ pending.op = o
       /\ Dispatched(pending, answer)
       /\ UNCHANGED <<attempts, begunBy>>
    \/ /\ pending # NoPending
       /\ Refused(answer)

\* A collaborative write: nothing of the execution state moves.
ExecuteWrite(by, answer) ==
    /\ Begins(by)
    /\ answer \in [out : Outs, op : {"comment"}, attempt : {attempts + 1}]
    /\ UNCHANGED <<pending, active>>

\* retry: the pending operation, the last confirmed result, or no_pending.
ExecuteRetry(answer) ==
    \/ /\ pending # NoPending
       /\ Dispatched(pending, answer)
       /\ UNCHANGED <<attempts, begunBy>>
    \/ /\ pending = NoPending
       /\ answer = IF last # NoAnswer THEN last ELSE [NoAnswer EXCEPT !.out = "rejected"]
       /\ UNCHANGED runtimeVars

Execute(r, answer) ==
    CASE op[r] = "retry"   -> ExecuteRetry(answer)
      [] op[r] = "comment" -> ExecuteWrite(r, answer)
      [] OTHER             -> ExecuteLease(op[r], r, answer)

-----------------------------------------------------------------------------
(* command(): the receipts around it.                                        *)

\* Mutant: any 5xx leaves the receipt open.
RetryableAlways(o) == TRUE

\* A 5xx of a write is its answer for good; one of an execution command or a
\* retry leaves the receipt open.
Retryable(o) == o \in ExecutionOps \cup {"retry"}

\* Mutant: a retry is not remembered as the last execution.
RemembersOwn(o) == o \in {"claim", "close", "release"}

\* Operations whose confirmed result retry will return.
Remembers(o) == o \in {"claim", "close", "release", "retry"}

\* Mutant: eviction forgets the request id with the body.
EvictedWhole(receipts, S) ==
    [r \in Requests |-> IF r \in S THEN NoReceipt ELSE receipts[r]]

Evicted(receipts, S) ==
    [r \in Requests |-> IF r \in S THEN [receipts[r] EXCEPT !.state = "tombstone",
                                                           !.answer = NoAnswer]
                        ELSE receipts[r]]

\* The oldest body goes when there are too many.
Finalised(r, answer) ==
    LET full == [receipt EXCEPT ![r] = [state |-> "final", answer |-> answer]]
    IN  IF Len(order) < Kept
        THEN receipt' = full /\ order' = Append(order, r)
        ELSE receipt' = Evicted(full, {Head(order)}) /\ order' = Append(Tail(order), r)

Recorded(r, answer) ==
    IF answer.out = "unknown" /\ Retryable(op[r])
    THEN /\ receipt' = [receipt EXCEPT ![r] = [state |-> "open", answer |-> NoAnswer]]
         /\ UNCHANGED <<order, last>>
    ELSE /\ Finalised(r, answer)
         /\ last' = IF answer.out = "ok" /\ Remembers(op[r]) THEN answer ELSE last

Known(r) == receipt[r].state \in {"final", "tombstone"}

\* The id has its answer: replay it, or result_evicted.
Replay(r) ==
    /\ wire[r] > 0 /\ Known(r)
    /\ Answered(r, receipt[r].state = "tombstone" \/ receipt[r].answer.out # "unknown")
    /\ UNCHANGED <<receiptVars, runtimeVars>>

\* request_limit, which the transport takes for ambiguous.
Limited(r) ==
    /\ wire[r] > 0 /\ receipt[r].state = "none"
    /\ Cardinality({q \in Requests : receipt[q].state # "none"}) >= MaxReceipts
    /\ Answered(r, FALSE)
    /\ UNCHANGED <<receiptVars, runtimeVars>>

Handle(r) ==
    /\ wire[r] > 0 /\ ~Known(r)
    /\ receipt[r].state = "none" =>
          Cardinality({q \in Requests : receipt[q].state # "none"}) < MaxReceipts
    /\ \E answer \in Answer :
          /\ Execute(r, answer)
          /\ Recorded(r, answer)
          /\ Answered(r, answer.out # "unknown")

\* The heartbeat renews without a request id, and so without a receipt.
Renew ==
    /\ active # NoAttempt
    /\ pending.op # "close"
    /\ \E answer \in Answer : ExecuteLease("renew", Heartbeat, answer)
    /\ UNCHANGED <<clientVars, wire, receiptVars>>

\* The local deadline passes.
Lapse ==
    /\ active # NoAttempt
    /\ active' = NoAttempt
    /\ UNCHANGED <<clientVars, wire, receiptVars, pending, attempts, begunBy>>

-----------------------------------------------------------------------------
ClientStep(r) == (\E o \in Operations : Start(r, o)) \/ TryAgain(r) \/ LoseCopy(r)
DaemonStep(r) == Replay(r) \/ Limited(r) \/ Handle(r)

Next == \/ \E r \in Requests : ClientStep(r) \/ DaemonStep(r)
        \/ Renew \/ Lapse

Spec == Init /\ [][Next]_vars

-----------------------------------------------------------------------------
(* Properties.                                                               *)

BegunBy(r) == {n \in Attempts : begunBy[n] = r}

\* WritesOnce.  However often a write's request is repeated, whatever was lost
\* and evicted in between, it is executed at most once: "Unknown non-idempotent
\* collaborative writes are not automatically reexecuted", docs/codex.md:112.
WritesOnce == \A r \in Requests : op[r] = "comment" => Cardinality(BegunBy(r)) <= 1

\* AnsweredIsFenced.  An id that has its answer keeps it for good and never
\* begins another attempt, even after its body was evicted: "Evicted results
\* fail explicitly without reexecution", docs/codex.md:116.
AnsweredIsFenced ==
    [][\A r \in Requests :
          Known(r) => Known(r)' /\ BegunBy(r)' = BegunBy(r)]_vars

\* RetryTellsNewest.  The result a retry would return is the newest claim, close
\* or release that any request was told is confirmed, also when a retry
\* resolved it for another request.
RetryTellsNewest ==
    \A r \in Requests :
        (receipt[r].state = "final" /\ receipt[r].answer.out = "ok"
         /\ receipt[r].answer.op \in {"claim", "close", "release"})
            => last.attempt >= receipt[r].answer.attempt

\* "a bounded transport retry after an ambiguous outcome replays the same
\* logical request: forged resolves the original receipt instead of starting a
\* second execution attempt", claude/facade.ts:32.
OneAttemptPerRequest == \A r \in Requests : Cardinality(BegunBy(r)) <= 1

-----------------------------------------------------------------------------
(* The inductive invariant behind the properties above.                      *)

\* The receipt of r tells of a confirmed claim, close or release.
Tells(r) ==
    /\ receipt[r].state = "final" /\ receipt[r].answer.out = "ok"
    /\ receipt[r].answer.op \in {"claim", "close", "release"}

\* Attempts are numbered in the order they begin.
AttemptsOK ==
    /\ \A n \in Attempts : n > attempts => begunBy[n] = Nobody
    /\ pending.attempt <= attempts /\ last.attempt <= attempts

\* A command that has not begun sent nothing, and no more copies are on their
\* way than were sent.
ClientsOK ==
    \A r \in Requests :
        /\ client[r] = "idle" <=> op[r] = "none"
        /\ op[r] = "none" => tries[r] = 0
        /\ wire[r] <= tries[r]

\* A write without its answer was not executed; one with it, once.
WritesOK ==
    \A r \in Requests :
        /\ op[r] \in {"none", "comment"} => receipt[r].state # "open"
        /\ op[r] = "none" \/ (op[r] = "comment" /\ receipt[r].state = "none")
              => BegunBy(r) = {}
        /\ op[r] = "comment" => \A m, n \in BegunBy(r) : m = n

\* No receipt tells of an attempt newer than `last` or than what is pending.
NewestOK ==
    \A r \in Requests : Tells(r) =>
        /\ receipt[r].answer.attempt <= last.attempt
        /\ pending # NoPending => receipt[r].answer.attempt <= pending.attempt

ReceiptsInv == TypeOK /\ AttemptsOK /\ ClientsOK /\ WritesOK /\ NewestOK
=============================================================================
