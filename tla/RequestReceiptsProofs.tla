------------------------ MODULE RequestReceiptsProofs ------------------------
(***************************************************************************)
(* Theorems about the receipts of one actor, for any commands, any number   *)
(* of copies, and any room for receipts and bodies.                          *)
(***************************************************************************)
EXTENDS RequestReceipts, FiniteSetTheorems, TLAPS

-----------------------------------------------------------------------------
(* What execute() does.                                                      *)

\* Whether and by whom an attempt begins.
BeginsOrNot(by) ==
    \/ UNCHANGED <<attempts, begunBy>>
    \/ Begins(by)

\* What follows from an answer that is confirmed: nothing is pending any more,
\* and no receipt tells of a newer attempt.
ConfirmedNewest(answer) ==
    (answer.out = "ok" /\ answer.op # "comment") =>
        /\ pending' = NoPending
        /\ \A r \in Requests : Tells(r) => receipt[r].answer.attempt <= answer.attempt

\* What is pending after a command is at least as new as every receipt.
PendingNewest ==
    pending' # NoPending =>
        \A r \in Requests : Tells(r) => receipt[r].answer.attempt <= pending'.attempt

ExecuteOK(by, answer) ==
    /\ BeginsOrNot(by)
    /\ answer \in Answer /\ answer.attempt <= attempts'
    /\ pending' \in Pending /\ pending'.attempt <= attempts'
    /\ active' \in 0..MaxAttempts
    /\ ConfirmedNewest(answer) /\ PendingNewest

\* The empty records have their types.
LEMMA NullTypes ==
    NoAnswer \in Answer /\ NoPending \in Pending /\ NoReceipt \in Receipt
  <1>1. 0 \in 0..MaxAttempts
    BY ReceiptsAssumption
  <1>2. NoAnswer \in Answer /\ NoPending \in Pending
    BY <1>1 DEF NoAnswer, Answer, NoPending, Pending, Outs, NoAttempt
  <1> QED BY <1>2 DEF NoReceipt, Receipt

\* The room a new attempt takes.
LEMMA BeginsTypes ==
    ASSUME ReceiptsInv, NEW by \in Requests \cup {Heartbeat}, Begins(by)
    PROVE  /\ attempts' = attempts + 1 /\ attempts' \in 1..MaxAttempts /\ attempts \in Nat
           /\ begunBy' = [begunBy EXCEPT ![attempts + 1] = by]
           /\ begunBy' \in [Attempts -> Requests \cup {Heartbeat, Nobody}]
           /\ \A r \in Requests : Tells(r) => receipt[r].answer.attempt <= attempts
  <1>1. attempts \in 0..MaxAttempts /\ MaxAttempts \in Nat
        /\ begunBy \in [Attempts -> Requests \cup {Heartbeat, Nobody}]
        /\ last.attempt \in 0..MaxAttempts /\ receipt \in [Requests -> Receipt]
    BY ReceiptsAssumption DEF ReceiptsInv, TypeOK, Answer
  <1>2. \A r \in Requests : receipt[r].answer.attempt \in 0..MaxAttempts
    BY <1>1 DEF Receipt, Answer
  <1>3. \A r \in Requests : Tells(r) => receipt[r].answer.attempt <= attempts
    BY <1>1, <1>2 DEF ReceiptsInv, NewestOK, AttemptsOK
  <1> QED BY <1>1, <1>3 DEF Begins, Attempts

\* The outcome of a dispatch of p, which is as new as every receipt.
LEMMA DispatchedOK ==
    ASSUME ReceiptsInv, NEW p \in Pending, NEW answer, Dispatched(p, answer),
           p.attempt <= attempts',
           \A r \in Requests : Tells(r) => receipt[r].answer.attempt <= p.attempt
    PROVE  /\ answer \in Answer /\ answer.attempt <= attempts'
           /\ answer.op = p.op /\ answer.attempt = p.attempt
           /\ pending' \in Pending /\ active' \in 0..MaxAttempts
           /\ ConfirmedNewest(answer) /\ PendingNewest
  <1>1. /\ answer \in Answer /\ answer.op = p.op /\ answer.attempt = p.attempt
        /\ p.attempt \in 0..MaxAttempts /\ active \in 0..MaxAttempts /\ NoAttempt \in 0..MaxAttempts
    BY ReceiptsAssumption
    DEF Dispatched, Answer, Pending, MutationOps, ReceiptsInv, TypeOK, NoAttempt
  <1>2. pending' \in {p, NoPending} /\ (answer.out = "ok" => pending' = NoPending)
    BY DEF Dispatched
  <1>3. active' \in 0..MaxAttempts
    <2>1. active' \in {active, p.attempt, NoAttempt}
      BY DEF Dispatched
    <2> QED BY <1>1, <2>1
  <1> QED BY <1>1, <1>2, <1>3, NullTypes DEF ConfirmedNewest, PendingNewest

\* An execution command, a write and a retry all do what ExecuteOK says.
LEMMA ExecuteLeaseOK ==
    ASSUME ReceiptsInv, NEW o \in ExecutionOps, NEW by \in Requests \cup {Heartbeat},
           NEW answer, ExecuteLease(o, by, answer)
    PROVE  ExecuteOK(by, answer) /\ answer.op \in {o, "none"}
  <1>0. /\ pending \in Pending /\ active \in 0..MaxAttempts
        /\ pending.attempt <= attempts /\ attempts \in Nat
        /\ \A r \in Requests : Tells(r) /\ pending # NoPending
              => receipt[r].answer.attempt <= pending.attempt
    BY ReceiptsAssumption DEF ReceiptsInv, TypeOK, AttemptsOK, NewestOK
  <1>1. CASE Refused(answer)
    <2>1. answer \in Answer /\ answer.out = "rejected" /\ answer.attempt = 0 /\ answer.op = "none"
      BY <1>1, NullTypes DEF Refused, NoAnswer, Answer, Outs, NoAttempt
    <2>2. ConfirmedNewest(answer) /\ PendingNewest
      BY <1>0, <1>1, <2>1 DEF ConfirmedNewest, PendingNewest, Refused, runtimeVars
    <2> QED BY <1>0, <1>1, <2>1, <2>2 DEF Refused, runtimeVars, ExecuteOK, BeginsOrNot
  <1>2. CASE Begins(by) /\ Dispatched([op |-> o, attempt |-> attempts + 1], answer)
    <2> DEFINE p == [op |-> o, attempt |-> attempts + 1]
    <2>1. p \in Pending /\ p.attempt = attempts' /\ p.op = o
      BY <1>0, <1>2, BeginsTypes DEF Pending
    <2>2. \A r \in Requests : Tells(r) => receipt[r].answer.attempt <= p.attempt
      <3>1. \A r \in Requests : receipt[r].answer.attempt \in Nat
        BY ReceiptsAssumption DEF ReceiptsInv, TypeOK, Receipt, Answer
      <3> QED BY <1>0, <1>2, <3>1, BeginsTypes
    <2>3. Dispatched(p, answer) /\ p.attempt <= attempts'
      BY <1>0, <1>2, <2>1, BeginsTypes
    <2> HIDE DEF p
    <2>4. /\ answer \in Answer /\ answer.attempt <= attempts' /\ answer.op = p.op
          /\ pending' \in Pending /\ active' \in 0..MaxAttempts
          /\ ConfirmedNewest(answer) /\ PendingNewest
      BY <2>1, <2>2, <2>3, DispatchedOK
    <2>5. pending' \in {p, NoPending}
      BY <2>3 DEF Dispatched
    <2>6. pending'.attempt <= attempts'
      BY <1>0, <1>2, <2>1, <2>5, BeginsTypes DEF NoPending, NoAttempt
    <2> QED BY <1>2, <2>1, <2>4, <2>6 DEF ExecuteOK, BeginsOrNot
  <1>3. CASE pending.op = o /\ Dispatched(pending, answer) /\ UNCHANGED <<attempts, begunBy>>
    <2>1. pending # NoPending
      BY <1>3 DEF NoPending, ExecutionOps
    <2>2. /\ answer \in Answer /\ answer.attempt <= attempts' /\ answer.op = pending.op
          /\ pending' \in Pending /\ active' \in 0..MaxAttempts
          /\ ConfirmedNewest(answer) /\ PendingNewest
      BY <1>0, <1>3, <2>1, DispatchedOK
    <2>3. pending' \in {pending, NoPending}
      BY <1>3 DEF Dispatched
    <2>4. pending'.attempt <= attempts'
      BY <1>0, <1>3, <2>3 DEF NoPending, NoAttempt
    <2> QED BY <1>3, <2>2, <2>4 DEF ExecuteOK, BeginsOrNot
  <1> QED BY <1>1, <1>2, <1>3 DEF ExecuteLease

\* A command of r begins one attempt at most, and a confirmed claim, close or
\* release is an answer of a request that is remembered.
LEMMA ExecuteAllOK ==
    ASSUME ReceiptsInv, NEW r \in Requests, op[r] \in MutationOps,
           NEW answer \in Answer, Execute(r, answer)
    PROVE  /\ ExecuteOK(r, answer)
           /\ answer.out = "ok" /\ answer.op \in {"claim", "close", "release"}
                 => Remembers(op[r])
           /\ answer.out = "ok" /\ Remembers(op[r]) =>
                 /\ pending' = NoPending
                 /\ \A q \in Requests : Tells(q) => receipt[q].answer.attempt <= answer.attempt
  <1>0. /\ pending \in Pending /\ active \in 0..MaxAttempts
        /\ pending.attempt <= attempts /\ attempts \in Nat
        /\ last \in Answer /\ last.attempt <= attempts
        /\ \A q \in Requests : Tells(q) =>
              /\ receipt[q].answer.attempt <= last.attempt
              /\ pending # NoPending => receipt[q].answer.attempt <= pending.attempt
    BY ReceiptsAssumption DEF ReceiptsInv, TypeOK, AttemptsOK, NewestOK
  <1>1. CASE op[r] \in ExecutionOps
    <2>1. ExecuteLease(op[r], r, answer)
      BY <1>1 DEF Execute, ExecutionOps
    <2>2. ExecuteOK(r, answer) /\ answer.op \in {op[r], "none"}
      BY <1>1, <2>1, ExecuteLeaseOK
    <2>3. answer.op # "comment" /\ ConfirmedNewest(answer)
      BY <1>1, <2>2 DEF ExecutionOps, ExecuteOK
    <2> QED BY <2>2, <2>3 DEF Remembers, ConfirmedNewest
  <1>2. CASE op[r] = "comment"
    <2>1. ExecuteWrite(r, answer)
      BY <1>2 DEF Execute
    <2>2. /\ Begins(r) /\ answer.op = "comment" /\ answer.attempt = attempts + 1
          /\ pending' = pending /\ active' = active
      BY <2>1 DEF ExecuteWrite
    <2>3. ConfirmedNewest(answer) /\ PendingNewest
      BY <1>0, <2>2 DEF ConfirmedNewest, PendingNewest
    <2>4. attempts' = attempts + 1
      BY <2>2, BeginsTypes
    <2>5. pending.attempt \in Nat
      BY <1>0, ReceiptsAssumption DEF Pending
    <2>6. ExecuteOK(r, answer)
      BY <1>0, <2>2, <2>3, <2>4, <2>5 DEF ExecuteOK, BeginsOrNot
    <2> QED BY <1>2, <2>2, <2>6 DEF Remembers
  <1>3. CASE op[r] = "retry"
    <2>0. ExecuteRetry(answer) /\ Remembers(op[r])
      BY <1>3 DEF Execute, Remembers
    <2>1. CASE pending # NoPending
      <3>1. Dispatched(pending, answer) /\ UNCHANGED <<attempts, begunBy>>
        BY <2>0, <2>1 DEF ExecuteRetry
      <3>2. /\ answer.attempt <= attempts' /\ pending' \in Pending /\ active' \in 0..MaxAttempts
            /\ ConfirmedNewest(answer) /\ PendingNewest
        BY <1>0, <2>1, <3>1, DispatchedOK
      <3>3. pending' \in {pending, NoPending}
        BY <3>1 DEF Dispatched
      <3>4. pending'.attempt <= attempts'
        BY <1>0, <3>1, <3>3 DEF NoPending, NoAttempt
      <3>5. answer.op # "comment"
        BY <1>0, <3>1 DEF Dispatched, Pending, ExecutionOps
      <3> QED BY <2>0, <3>1, <3>2, <3>4, <3>5 DEF ExecuteOK, BeginsOrNot, ConfirmedNewest
    <2>2. CASE pending = NoPending
      <3>1. /\ UNCHANGED runtimeVars
            /\ answer = IF last # NoAnswer THEN last ELSE [NoAnswer EXCEPT !.out = "rejected"]
        BY <2>0, <2>2 DEF ExecuteRetry
      <3>2. answer = last \/ (answer.out = "rejected" /\ answer.attempt = 0)
        BY <3>1 DEF NoAnswer, NoAttempt
      <3>3. ConfirmedNewest(answer) /\ PendingNewest
        BY <1>0, <2>2, <3>1, <3>2 DEF ConfirmedNewest, PendingNewest, runtimeVars
      <3>4. ExecuteOK(r, answer)
        BY <1>0, <3>1, <3>2, <3>3 DEF ExecuteOK, BeginsOrNot, runtimeVars
      <3>5. answer.out = "ok" => answer = last /\ pending' = NoPending
        BY <2>2, <3>1, <3>2 DEF runtimeVars
      <3> QED BY <1>0, <2>0, <3>4, <3>5
    <2> QED BY <2>1, <2>2
  <1> QED BY <1>1, <1>2, <1>3 DEF MutationOps

-----------------------------------------------------------------------------
(* What command() does with the answer.                                      *)

\* The receipts after r was answered: those of others stay or lose their bodies,
\* that of r is open, or tells the answer, or has lost it again.
ReceiptsOK(r, answer) ==
    /\ receipt' \in [Requests -> Receipt] /\ order' \in Seq(Requests)
    /\ last' = IF answer.out = "ok" /\ Remembers(op[r]) THEN answer ELSE last
    /\ receipt'[r].state # "none" /\ (receipt'[r].state = "open" => Retryable(op[r]))
    /\ receipt'[r].state = "final" => receipt'[r].answer = answer
    /\ \A q \in Requests \ {r} :
          receipt'[q] = receipt[q] \/ receipt'[q].state = "tombstone"

\* What recording an answer does to the receipt, and to none but evicted others.
LEMMA RecordedOK ==
    ASSUME TypeOK, NEW r \in Requests, NEW answer \in Answer, Recorded(r, answer)
    PROVE  ReceiptsOK(r, answer)
  <1>0. receipt \in [Requests -> Receipt] /\ order \in Seq(Requests) /\ Kept \in Nat \ {0}
        /\ NoAnswer \in Answer
    BY ReceiptsAssumption, NullTypes DEF TypeOK
  <1>1. CASE answer.out = "unknown" /\ Retryable(op[r])
    <2>1. /\ receipt' = [receipt EXCEPT ![r] = [state |-> "open", answer |-> NoAnswer]]
          /\ order' = order /\ last' = last
      BY <1>1 DEF Recorded
    <2>2. [state |-> "open", answer |-> NoAnswer] \in Receipt
      BY <1>0 DEF Receipt
    <2> QED BY <1>0, <1>1, <2>1, <2>2 DEF ReceiptsOK
  <1>2. CASE ~(answer.out = "unknown" /\ Retryable(op[r]))
    <2> DEFINE full == [receipt EXCEPT ![r] = [state |-> "final", answer |-> answer]]
    <2>1. /\ Finalised(r, answer)
          /\ last' = IF answer.out = "ok" /\ Remembers(op[r]) THEN answer ELSE last
      BY <1>2 DEF Recorded
    <2>2. [state |-> "final", answer |-> answer] \in Receipt
      BY DEF Receipt
    <2>3. full \in [Requests -> Receipt]
      BY <1>0, <2>2
    <2>4. CASE Len(order) < Kept
      <3>1. receipt' = full /\ order' = Append(order, r)
        BY <2>1, <2>4 DEF Finalised
      <3> QED BY <1>0, <2>1, <2>3, <3>1 DEF ReceiptsOK
    <2>5. CASE ~(Len(order) < Kept)
      <3> DEFINE S == {Head(order)}
      <3>1. receipt' = Evicted(full, S) /\ order' = Append(Tail(order), r)
        BY <2>1, <2>5 DEF Finalised
      <3>2. order' \in Seq(Requests)
        BY <1>0, <2>5, <3>1
      <3>3. \A q \in Requests : [full[q] EXCEPT !.state = "tombstone", !.answer = NoAnswer] \in Receipt
        BY <1>0, <2>3 DEF Receipt
      <3> HIDE DEF S
      <3>4. \A q \in Requests :
              receipt'[q] = IF q \in S THEN [full[q] EXCEPT !.state = "tombstone", !.answer = NoAnswer]
                            ELSE full[q]
        BY <3>1 DEF Evicted
      <3>5. \A q \in Requests : receipt'[q] \in Receipt
                                /\ (receipt'[q] = full[q] \/ receipt'[q].state = "tombstone")
        <4>1. \A q \in Requests :
                [full[q] EXCEPT !.state = "tombstone", !.answer = NoAnswer].state = "tombstone"
          BY <2>3 DEF Receipt
        <4> QED BY <2>3, <3>3, <3>4, <4>1
      <3>6. receipt' \in [Requests -> Receipt]
        BY <3>1, <3>5 DEF Evicted
      <3>7. full[r] = [state |-> "final", answer |-> answer]
            /\ \A q \in Requests \ {r} : full[q] = receipt[q]
        BY <1>0
      <3> HIDE DEF full
      <3> QED BY <2>1, <3>2, <3>5, <3>6, <3>7 DEF ReceiptsOK
    <2> QED BY <2>4, <2>5
  <1> QED BY <1>1, <1>2

-----------------------------------------------------------------------------
(* What begins leaves of the other requests.                                 *)

\* An attempt that begins is nobody's before, and changes no other's attempts.
LEMMA BegunOK ==
    ASSUME ReceiptsInv, NEW by \in Requests \cup {Heartbeat}, BeginsOrNot(by)
    PROVE  /\ attempts' \in 0..MaxAttempts /\ attempts <= attempts'
           /\ begunBy' \in [Attempts -> Requests \cup {Heartbeat, Nobody}]
           /\ \A n \in Attempts : n > attempts' => begunBy'[n] = Nobody
           /\ \A q \in Requests \ {by} : BegunBy(q)' = BegunBy(q)
           /\ BegunBy(by) = {} => \A m, n \in BegunBy(by)' : m = n
           /\ UNCHANGED begunBy \/ begunBy'[attempts + 1] = by
  <1>0. /\ attempts \in 0..MaxAttempts /\ MaxAttempts \in Nat
        /\ begunBy \in [Attempts -> Requests \cup {Heartbeat, Nobody}]
        /\ \A n \in Attempts : n > attempts => begunBy[n] = Nobody
        /\ Nobody \notin Requests /\ Heartbeat \notin Requests
    BY ReceiptsAssumption DEF ReceiptsInv, TypeOK, AttemptsOK
  <1>1. CASE UNCHANGED <<attempts, begunBy>>
    BY <1>0, <1>1 DEF BegunBy
  <1>2. CASE Begins(by)
    <2>1. /\ attempts' = attempts + 1 /\ attempts' \in 1..MaxAttempts
          /\ begunBy' = [begunBy EXCEPT ![attempts + 1] = by]
          /\ begunBy' \in [Attempts -> Requests \cup {Heartbeat, Nobody}]
      BY <1>2, BeginsTypes
    <2>2. attempts + 1 \in Attempts /\ begunBy[attempts + 1] = Nobody
      BY <1>0, <2>1 DEF Attempts
    <2>3. \A n \in Attempts : begunBy'[n] = IF n = attempts + 1 THEN by ELSE begunBy[n]
      BY <1>0, <2>1
    <2>4. \A n \in Attempts : n > attempts' => begunBy'[n] = Nobody
      BY <1>0, <2>1, <2>3 DEF Attempts
    <2>5. ASSUME NEW q \in Requests \ {by} PROVE BegunBy(q)' = BegunBy(q)
      BY <1>0, <2>2, <2>3, <2>5 DEF BegunBy
    <2>6. ASSUME BegunBy(by) = {} PROVE \A m, n \in BegunBy(by)' : m = n
      BY <2>3, <2>6 DEF BegunBy
    <2> QED BY <1>0, <2>1, <2>2, <2>3, <2>4, <2>5, <2>6
  <1> QED BY <1>1, <1>2 DEF BeginsOrNot

-----------------------------------------------------------------------------
(* Each step keeps the invariant.                                            *)

\* A step of the clients or the daemon that touches no receipt and no attempt.
LEMMA OutsideStep ==
    ASSUME ReceiptsInv, TypeOK', ClientsOK', UNCHANGED <<receiptVars, runtimeVars>>,
           \A r \in Requests : op'[r] = op[r] \/ op[r] = "none"
    PROVE  ReceiptsInv'
  <1>1. AttemptsOK' /\ NewestOK'
    BY DEF ReceiptsInv, AttemptsOK, NewestOK, Tells, receiptVars, runtimeVars
  <1>2. WritesOK'
    <2>1. \A r \in Requests : BegunBy(r)' = BegunBy(r)
      BY DEF BegunBy, runtimeVars
    <2>2. \A r \in Requests : BegunBy(r) = {} => \A m, n \in BegunBy(r) : m = n
      OBVIOUS
    <2> QED BY <2>1, <2>2 DEF ReceiptsInv, WritesOK, receiptVars
  <1> QED BY <1>1, <1>2 DEF ReceiptsInv

\* A client that sends, waits, or gives up keeps the invariant.
LEMMA ClientStepOK ==
    ASSUME ReceiptsInv, NEW r \in Requests, ClientStep(r)
    PROVE  ReceiptsInv'
  <1>0. /\ TypeOK /\ ClientsOK /\ MaxTries \in Nat \ {0}
        /\ op \in [Requests -> MutationOps \cup {"none"}]
        /\ tries \in [Requests -> 0..MaxTries] /\ wire \in [Requests -> 0..MaxTries]
        /\ client \in [Requests -> {"idle", "waiting", "gone"}]
        /\ "none" \notin MutationOps /\ Operations \subseteq MutationOps
    BY ReceiptsAssumption DEF ReceiptsInv, TypeOK, MutationOps, ExecutionOps
  <1>1. ASSUME NEW o \in Operations, Start(r, o) PROVE ReceiptsInv'
    <2>1. /\ op[r] = "none" /\ tries[r] = 0 /\ wire[r] = 0
          /\ op' = [op EXCEPT ![r] = o] /\ client' = [client EXCEPT ![r] = "waiting"]
          /\ tries' = [tries EXCEPT ![r] = 1] /\ wire' = [wire EXCEPT ![r] = 1]
          /\ UNCHANGED <<receiptVars, runtimeVars>>
      <3>1. op[r] = "none" /\ tries[r] = 0 /\ wire[r] = 0
        BY <1>0, <1>1 DEF Start, ClientsOK
      <3>2. /\ op' = [op EXCEPT ![r] = o] /\ client' = [client EXCEPT ![r] = "waiting"]
            /\ tries' = [tries EXCEPT ![r] = tries[r] + 1] /\ wire' = [wire EXCEPT ![r] = wire[r] + 1]
            /\ UNCHANGED <<receiptVars, runtimeVars>>
        BY <1>1 DEF Start, SendCopy
      <3> QED BY <3>1, <3>2
    <2>2. TypeOK'
      BY <1>0, <2>1 DEF TypeOK, receiptVars, runtimeVars
    <2>3. ClientsOK'
      BY <1>0, <2>1 DEF ClientsOK
    <2>4. \A q \in Requests : op'[q] = op[q] \/ op[q] = "none"
      BY <1>0, <2>1
    <2> QED BY <2>1, <2>2, <2>3, <2>4, OutsideStep
  <1>2. CASE TryAgain(r)
    <2>1. op' = op /\ UNCHANGED <<receiptVars, runtimeVars>> /\ client[r] = "waiting"
      BY <1>2 DEF TryAgain
    <2>2. \/ /\ tries' = [tries EXCEPT ![r] = tries[r] + 1] /\ tries[r] < MaxTries
             /\ wire' = [wire EXCEPT ![r] = wire[r] + 1] /\ client' = client
          \/ tries' = tries /\ wire' = wire /\ client' = [client EXCEPT ![r] = "gone"]
      BY <1>2 DEF TryAgain, SendCopy, MayResend
    <2>3. TypeOK' /\ ClientsOK'
      <3>1. tries[r] \in 0..MaxTries /\ wire[r] \in 0..MaxTries /\ wire[r] <= tries[r]
        BY <1>0 DEF ClientsOK
      <3>2. CASE tries' = tries /\ wire' = wire /\ client' = [client EXCEPT ![r] = "gone"]
        <4>1. TypeOK'
          BY <1>0, <2>1, <3>1, <3>2 DEF TypeOK, receiptVars, runtimeVars
        <4>2. ClientsOK'
          BY <1>0, <2>1, <3>1, <3>2 DEF ClientsOK
        <4> QED BY <4>1, <4>2
      <3>3. CASE /\ tries' = [tries EXCEPT ![r] = tries[r] + 1] /\ tries[r] < MaxTries
                 /\ wire' = [wire EXCEPT ![r] = wire[r] + 1] /\ client' = client
        <4>1. TypeOK'
          BY <1>0, <2>1, <3>1, <3>3 DEF TypeOK, receiptVars, runtimeVars
        <4>2. ClientsOK'
          BY <1>0, <2>1, <3>1, <3>3 DEF ClientsOK
        <4> QED BY <4>1, <4>2
      <3> QED BY <2>2, <3>2, <3>3
    <2> QED BY <2>1, <2>3, OutsideStep
  <1>3. CASE LoseCopy(r)
    <2>1. /\ wire' = [wire EXCEPT ![r] = wire[r] - 1] /\ wire[r] > 0
          /\ UNCHANGED <<op, tries, client, receiptVars, runtimeVars>>
      BY <1>3 DEF LoseCopy, clientVars
    <2>2. TypeOK'
      BY <1>0, <2>1 DEF TypeOK, receiptVars, runtimeVars
    <2>3. ClientsOK'
      BY <1>0, <2>1 DEF ClientsOK
    <2> QED BY <2>1, <2>2, <2>3, OutsideStep
  <1> QED BY <1>1, <1>2, <1>3 DEF ClientStep

\* What the arrival of an answer does at the client.
LEMMA AnsweredOK ==
    ASSUME ReceiptsInv, NEW r \in Requests, NEW definite \in BOOLEAN,
           wire[r] > 0, Answered(r, definite)
    PROVE  /\ op' = op /\ tries' = tries /\ op[r] \in MutationOps
           /\ wire' \in [Requests -> 0..MaxTries]
           /\ client' \in [Requests -> {"idle", "waiting", "gone"}]
           /\ ClientsOK'
  <1>0. /\ ClientsOK /\ MaxTries \in Nat \ {0}
        /\ op \in [Requests -> MutationOps \cup {"none"}]
        /\ tries \in [Requests -> 0..MaxTries] /\ wire \in [Requests -> 0..MaxTries]
        /\ client \in [Requests -> {"idle", "waiting", "gone"}]
    BY ReceiptsAssumption DEF ReceiptsInv, TypeOK
  <1>1. op[r] # "none"
    BY <1>0 DEF ClientsOK
  <1>2. /\ op' = op /\ tries' = tries /\ wire' = [wire EXCEPT ![r] = wire[r] - 1]
        /\ client' = client \/ client' = [client EXCEPT ![r] = "gone"]
    BY DEF Answered
  <1>3. wire' \in [Requests -> 0..MaxTries] /\ client' \in [Requests -> {"idle", "waiting", "gone"}]
    BY <1>0, <1>2
  <1>4. ClientsOK'
    BY <1>0, <1>1, <1>2 DEF ClientsOK
  <1> QED BY <1>0, <1>1, <1>2, <1>3, <1>4

\* A request executed from its receipt on keeps the invariant, and known answers.
LEMMA HandleStep ==
    ASSUME ReceiptsInv, NEW r \in Requests, Handle(r)
    PROVE  /\ ReceiptsInv'
           /\ \A q \in Requests : Known(q) => Known(q)' /\ BegunBy(q)' = BegunBy(q)
  <1>1. PICK answer \in Answer :
          Execute(r, answer) /\ Recorded(r, answer) /\ Answered(r, answer.out # "unknown")
    BY DEF Handle
  <1>2. /\ op' = op /\ tries' = tries /\ op[r] \in MutationOps
        /\ wire' \in [Requests -> 0..MaxTries]
        /\ client' \in [Requests -> {"idle", "waiting", "gone"}] /\ ClientsOK'
    <2>1. wire[r] > 0
      BY DEF Handle
    <2> QED BY <1>1, <2>1, AnsweredOK
  <1>3. ReceiptsOK(r, answer)
    BY <1>1, RecordedOK DEF ReceiptsInv
  <1>4. /\ ExecuteOK(r, answer)
        /\ answer.out = "ok" /\ answer.op \in {"claim", "close", "release"} => Remembers(op[r])
        /\ answer.out = "ok" /\ Remembers(op[r]) =>
              /\ pending' = NoPending
              /\ \A q \in Requests : Tells(q) => receipt[q].answer.attempt <= answer.attempt
    BY <1>1, <1>2, ExecuteAllOK
  <1>5. /\ attempts' \in 0..MaxAttempts /\ attempts <= attempts'
        /\ begunBy' \in [Attempts -> Requests \cup {Heartbeat, Nobody}]
        /\ \A n \in Attempts : n > attempts' => begunBy'[n] = Nobody
        /\ \A q \in Requests \ {r} : BegunBy(q)' = BegunBy(q)
        /\ BegunBy(r) = {} => \A m, n \in BegunBy(r)' : m = n
    BY <1>4, BegunOK DEF ExecuteOK
  <1>6. last \in Answer /\ last.attempt <= attempts /\ last.attempt \in Nat /\ attempts \in Nat
        /\ answer.attempt \in Nat
    BY ReceiptsAssumption DEF ReceiptsInv, TypeOK, AttemptsOK, Answer
  <1>7. TypeOK'
    BY <1>2, <1>3, <1>4, <1>5, <1>6 DEF ReceiptsInv, TypeOK, ReceiptsOK, ExecuteOK
  <1>8. AttemptsOK'
    BY <1>3, <1>4, <1>5, <1>6 DEF AttemptsOK, ReceiptsOK, ExecuteOK
  <1>9. WritesOK'
    <2> SUFFICES ASSUME NEW q \in Requests
                 PROVE  /\ op[q] \in {"none", "comment"} => receipt'[q].state # "open"
                        /\ op[q] = "none" \/ (op[q] = "comment" /\ receipt'[q].state = "none")
                              => BegunBy(q)' = {}
                        /\ op[q] = "comment" => \A m, n \in BegunBy(q)' : m = n
      BY <1>2 DEF WritesOK
    <2>1. CASE q = r
      <3>1. op[r] = "comment" => receipt[r].state = "none"
        BY <1>2 DEF Handle, Known, ReceiptsInv, WritesOK, TypeOK, Receipt
      <3>2. op[r] = "comment" => \A m, n \in BegunBy(r)' : m = n
        BY <1>5, <3>1 DEF ReceiptsInv, WritesOK
      <3>3. op[r] # "none"
        BY <1>2 DEF MutationOps, ExecutionOps
      <3> QED BY <1>3, <2>1, <3>2, <3>3 DEF ReceiptsOK, Retryable, ExecutionOps
    <2>2. CASE q # r
      <3>1. BegunBy(q)' = BegunBy(q)
        BY <1>5, <2>2
      <3>2. receipt'[q] = receipt[q] \/ receipt'[q].state = "tombstone"
        BY <1>3, <2>2 DEF ReceiptsOK
      <3> QED BY <3>1, <3>2 DEF ReceiptsInv, WritesOK
    <2> QED BY <2>1, <2>2
  <1>10. NewestOK'
    <2> SUFFICES ASSUME NEW q \in Requests, Tells(q)'
                 PROVE  /\ receipt'[q].answer.attempt <= last'.attempt
                        /\ pending' # NoPending => receipt'[q].answer.attempt <= pending'.attempt
      BY DEF NewestOK
    <2>1. CASE q = r
      <3>1. receipt'[r].answer = answer /\ answer.out = "ok"
            /\ answer.op \in {"claim", "close", "release"}
        BY <1>3, <2>1 DEF Tells, ReceiptsOK
      <3>2. last' = answer /\ pending' = NoPending
        BY <1>3, <1>4, <3>1 DEF ReceiptsOK
      <3> QED BY <1>6, <2>1, <3>1, <3>2
    <2>2. CASE q # r
      <3>1. receipt'[q] = receipt[q] /\ Tells(q)
        BY <1>3, <2>2 DEF Tells, ReceiptsOK
      <3>2. receipt[q].answer.attempt <= last.attempt
        BY <3>1 DEF ReceiptsInv, NewestOK
      <3>3. pending' # NoPending => receipt[q].answer.attempt <= pending'.attempt
        BY <1>4, <3>1 DEF ExecuteOK, PendingNewest
      <3>4. receipt[q].answer.attempt <= last'.attempt
        BY <1>3, <1>4, <3>1, <3>2 DEF ReceiptsOK
      <3> QED BY <3>1, <3>3, <3>4
    <2> QED BY <2>1, <2>2
  <1>11. ASSUME NEW q \in Requests, Known(q) PROVE Known(q)' /\ BegunBy(q)' = BegunBy(q)
    <2>1. q # r
      BY <1>11 DEF Handle
    <2> QED BY <1>3, <1>5, <1>11, <2>1 DEF ReceiptsOK, Known
  <1> QED BY <1>2, <1>7, <1>8, <1>9, <1>10, <1>11 DEF ReceiptsInv

\* So does whatever the daemon does with a copy of a request.
LEMMA DaemonStepOK ==
    ASSUME ReceiptsInv, NEW r \in Requests, DaemonStep(r)
    PROVE  /\ ReceiptsInv'
           /\ \A q \in Requests : Known(q) => Known(q)' /\ BegunBy(q)' = BegunBy(q)
  <1>1. CASE Replay(r) \/ Limited(r)
    <2>1. /\ UNCHANGED <<receiptVars, runtimeVars>> /\ wire[r] > 0
          /\ \E definite \in BOOLEAN : Answered(r, definite)
      BY <1>1 DEF Replay, Limited
    <2>2. /\ op' = op /\ tries' = tries
          /\ wire' \in [Requests -> 0..MaxTries]
          /\ client' \in [Requests -> {"idle", "waiting", "gone"}] /\ ClientsOK'
      BY <2>1, AnsweredOK
    <2>3. TypeOK'
      BY <2>1, <2>2 DEF ReceiptsInv, TypeOK, receiptVars, runtimeVars
    <2>4. ReceiptsInv'
      BY <2>1, <2>2, <2>3, OutsideStep
    <2> QED BY <2>1, <2>4 DEF Known, BegunBy, receiptVars, runtimeVars
  <1> QED BY <1>1, HandleStep DEF DaemonStep

\* So does the heartbeat.
LEMMA RenewStep ==
    ASSUME ReceiptsInv, Renew
    PROVE  /\ ReceiptsInv'
           /\ \A q \in Requests : Known(q) => Known(q)' /\ BegunBy(q)' = BegunBy(q)
  <1>1. PICK answer \in Answer : ExecuteLease("renew", Heartbeat, answer)
    BY DEF Renew
  <1>2. UNCHANGED <<op, tries, client, wire, receipt, order, last>>
    BY DEF Renew, clientVars, receiptVars
  <1>3. ExecuteOK(Heartbeat, answer)
    BY <1>1, ExecuteLeaseOK DEF ExecutionOps
  <1>4. /\ attempts' \in 0..MaxAttempts /\ attempts <= attempts'
        /\ begunBy' \in [Attempts -> Requests \cup {Heartbeat, Nobody}]
        /\ \A n \in Attempts : n > attempts' => begunBy'[n] = Nobody
        /\ \A q \in Requests : BegunBy(q)' = BegunBy(q)
    BY <1>3, BegunOK, ReceiptsAssumption DEF ExecuteOK
  <1>5. last.attempt <= attempts /\ last.attempt \in Nat /\ attempts \in Nat
    BY ReceiptsAssumption DEF ReceiptsInv, TypeOK, AttemptsOK, Answer
  <1>6. TypeOK'
    BY <1>2, <1>3, <1>4 DEF ReceiptsInv, TypeOK, ExecuteOK
  <1>7. AttemptsOK' /\ ClientsOK' /\ WritesOK'
    BY <1>2, <1>3, <1>4, <1>5 DEF ReceiptsInv, AttemptsOK, ClientsOK, WritesOK, ExecuteOK
  <1>8. NewestOK'
    BY <1>2, <1>3 DEF ReceiptsInv, NewestOK, Tells, ExecuteOK, PendingNewest
  <1> QED BY <1>2, <1>4, <1>6, <1>7, <1>8 DEF ReceiptsInv, Known

\* A tenure that lapses keeps the invariant.
LEMMA LapseStep ==
    ASSUME ReceiptsInv, Lapse
    PROVE  ReceiptsInv'
  <1>1. /\ UNCHANGED <<op, tries, client, wire, receipt, order, last, pending, attempts, begunBy>>
        /\ active' \in 0..MaxAttempts
    BY ReceiptsAssumption DEF Lapse, clientVars, receiptVars, NoAttempt
  <1>2. TypeOK'
    BY <1>1 DEF ReceiptsInv, TypeOK
  <1> QED BY <1>1, <1>2
      DEF ReceiptsInv, AttemptsOK, ClientsOK, WritesOK, NewestOK, Tells, BegunBy

-----------------------------------------------------------------------------
(* Theorems.                                                                 *)

\* Every copy that is handled, lost or replayed, every renewal and every lapse
\* keeps the invariant, whatever order they come in.
THEOREM ReceiptsInvIsInductive == ReceiptsInv /\ [Next]_vars => ReceiptsInv'
  <1> SUFFICES ASSUME ReceiptsInv, [Next]_vars PROVE ReceiptsInv'
    OBVIOUS
  <1>1. CASE Next
    BY <1>1, ClientStepOK, DaemonStepOK, RenewStep, LapseStep DEF Next
  <1>2. CASE UNCHANGED vars
    BY <1>2 DEF vars, ReceiptsInv, TypeOK, AttemptsOK, ClientsOK, WritesOK, NewestOK, Tells, BegunBy
  <1> QED BY <1>1, <1>2

\* ReceiptsInv holds in every reachable state.
THEOREM ReceiptsInvariance == Spec => []ReceiptsInv
  <1>1. Init => ReceiptsInv
    <2> SUFFICES ASSUME Init PROVE ReceiptsInv
      OBVIOUS
    <2>1. 0 \in 0..MaxAttempts /\ 0 \in 0..MaxTries /\ <<>> \in Seq(Requests)
      BY ReceiptsAssumption
    <2>2. TypeOK
      BY <2>1, NullTypes DEF Init, TypeOK, NoAttempt
    <2>3. \A r \in Requests : BegunBy(r) = {}
      BY ReceiptsAssumption DEF Init, BegunBy
    <2>4. AttemptsOK /\ ClientsOK /\ WritesOK /\ NewestOK
      BY <2>3 DEF Init, AttemptsOK, ClientsOK, WritesOK, NewestOK, Tells, NoReceipt, NoAnswer,
                  NoPending, NoAttempt
    <2> QED BY <2>2, <2>4 DEF ReceiptsInv
  <1> QED BY <1>1, ReceiptsInvIsInductive, PTL DEF Spec

\* However often the request of a collaborative write is repeated, it is
\* executed at most once (runtime_receipts.go command).
THEOREM WritesHappenOnce == Spec => []WritesOnce
  <1>1. ReceiptsInv => WritesOnce
    <2> SUFFICES ASSUME ReceiptsInv, NEW r \in Requests, op[r] = "comment"
                 PROVE  Cardinality(BegunBy(r)) <= 1
      BY DEF WritesOnce
    <2>1. \A m, n \in BegunBy(r) : m = n
      BY DEF ReceiptsInv, WritesOK
    <2>2. CASE BegunBy(r) = {}
      BY <2>2, FS_EmptySet
    <2>3. CASE BegunBy(r) # {}
      <3>1. PICK n : BegunBy(r) = {n}
        BY <2>1, <2>3
      <3> QED BY <3>1, FS_Singleton
    <2> QED BY <2>2, <2>3
  <1> QED BY <1>1, ReceiptsInvariance, PTL

\* The result retry returns is the newest one any request was told of
\* (runtime_receipts.go command, lastExecution).
THEOREM RetriesTellNewest == Spec => []RetryTellsNewest
  <1>1. ReceiptsInv => RetryTellsNewest
    <2> SUFFICES ASSUME ReceiptsInv, NEW r \in Requests, Tells(r)
                 PROVE  last.attempt >= receipt[r].answer.attempt
      BY DEF RetryTellsNewest, Tells
    <2>1. last.attempt \in Nat /\ receipt[r].answer.attempt \in Nat
      BY ReceiptsAssumption DEF ReceiptsInv, TypeOK, Receipt, Answer
    <2> QED BY <2>1 DEF ReceiptsInv, NewestOK
  <1> QED BY <1>1, ReceiptsInvariance, PTL

\* A request that has its answer keeps it and begins nothing more, also once
\* its body was evicted (runtime_receipts.go command).
THEOREM AnsweredAreFenced == Spec => AnsweredIsFenced
  <1> DEFINE Fenced == \A r \in Requests : Known(r) => Known(r)' /\ BegunBy(r)' = BegunBy(r)
  <1>1. ReceiptsInv /\ [Next]_vars => Fenced
    <2> SUFFICES ASSUME ReceiptsInv, [Next]_vars PROVE Fenced
      OBVIOUS
    <2>1. CASE UNCHANGED <<receipt, begunBy>>
      BY <2>1 DEF Known, BegunBy
    <2>2. ASSUME NEW r \in Requests, ClientStep(r) PROVE UNCHANGED <<receipt, begunBy>>
      BY <2>2 DEF ClientStep, Start, TryAgain, LoseCopy, receiptVars, runtimeVars
    <2>3. Lapse \/ UNCHANGED vars => UNCHANGED <<receipt, begunBy>>
      BY DEF Lapse, vars, receiptVars
    <2> QED BY <2>1, <2>2, <2>3, DaemonStepOK, RenewStep DEF Next
  <1>2. AnsweredIsFenced <=> [][Fenced]_vars
    BY DEF AnsweredIsFenced
  <1> HIDE DEF Fenced
  <1> QED BY <1>1, <1>2, ReceiptsInvariance, PTL DEF Spec
=============================================================================
