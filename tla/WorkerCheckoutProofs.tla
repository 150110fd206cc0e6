------------------------- MODULE WorkerCheckoutProofs -------------------------
(***************************************************************************)
(* WorkerInv holds in every reachable state, for any numbers of issues,     *)
(* tenures, workspaces, requests, gates and slots.  From it follow the      *)
(* three safety properties of WorkerCheckout.                               *)
(***************************************************************************)
EXTENDS WorkerCheckout, LeaseAuthorityProofs

\* What every step does to the rows: none is freed, and no end is undone.
RowsStay ==
    /\ AuthorityTypeOK' /\ RowsOK'
    /\ \A c \in Claims : /\ TenureOK(c)'
                         /\ claims[c].state # "free" => claims'[c].state # "free"
                         /\ Over(c) => Over(c)'

\* The parts of WorkerInv, by name.
LEMMA WorkerFacts ==
    ASSUME WorkerInv
    PROVE  /\ AuthorityOK /\ claims \in [Claims -> Row] /\ receipts \subseteq Nat
           /\ call \in [GateIds -> Call] /\ active \in [Claims -> BOOLEAN]
           /\ ws \in [Workspaces -> Record]
           /\ disk \in [Workspaces -> {"none", "failed", "orphaned", "archived"}]
           /\ job \in [Workspaces -> Phases]
           /\ answered \in [Claims -> {"nothing", "released", "closed"}]
           /\ \A w \in Workspaces : /\ ws[w].state = "preparing" <=> job[w] # "none"
                                    /\ ws[w].state = "none" => disk[w] = "none"
           /\ \A c \in Claims : TenureOK(c) /\ EndOK(c)
           /\ \A g \in GateIds : CallOK(g)
           /\ \A w \in Workspaces : RecordOK(w)
  BY DEF WorkerInv, TypeOK, AuthorityOK, AuthorityTypeOK

\* Whoever has a workspace, or is about to, was not told of an end.
LEMMA ObservedUntold ==
    ASSUME WorkerInv, NEW w \in Workspaces, ws[w].state = "ready" \/ job[w] = "observed"
    PROVE  answered[ws[w].claim] = "nothing"
  <1>1. CASE ws[w].state = "ready"
    BY <1>1 DEF WorkerInv, AnsweredLeavesNoneReady
  <1>2. CASE job[w] = "observed"
    <2>1. ws[w].state = "preparing" /\ RecordOK(w)
      BY <1>2, WorkerFacts
    <2> QED BY <1>2, <2>1 DEF RecordOK, NoRecord
  <1> QED BY <1>1, <1>2

\* "No claim" is none, and every claim has a gate.
LEMMA ClaimFacts ==
    /\ NoClaim \notin Claims /\ NoClaim = 0
    /\ \A c \in Claims : c \in Nat /\ GateOf(c) \in GateIds
  <1>1. MaxClaims \in Nat /\ Gates \in Nat \ {0}
    BY AuthorityAssumption, WorkerAssumption
  <1>2. ASSUME NEW c \in Claims PROVE c \in Nat /\ GateOf(c) \in GateIds
    BY <1>1 DEF Claims, GateOf, GateIds
  <1> QED BY <1>1, <1>2 DEF Claims, NoClaim

-----------------------------------------------------------------------------
(* Steps of the authority.                                                   *)

\* A granted tenure stays granted, keeps its principal and ends once.
LEMMA GrantedStays ==
    ASSUME WorkerInv, Transaction, NEW c \in Claims, claims[c].state # "free"
    PROVE  /\ TenureOK(c)' /\ claims'[c].state # "free"
           /\ Over(c) => Over(c)'
  <1>1. AuthorityOK /\ TenureOK(c)
    BY WorkerFacts
  <1>2. RowKept(c)
    BY <1>1, TransactionKeepsRows
  <1>3. OnOpenWork(c)'
    BY <1>1, TransactionOpenWork DEF TenureOK
  <1>4. claims'[c].state # "free"
    BY <1>2 DEF RowKept
  <1>5. TenureOK(c)'
    BY <1>1, <1>2, <1>3 DEF TenureOK, RowKept
  <1>6. Over(c) => Over(c)'
    BY <1>2, <1>4 DEF Over, RowKept
  <1> QED BY <1>4, <1>5, <1>6

\* A transaction that grants nothing.
LEMMA GrantlessTransaction ==
    ASSUME WorkerInv, Transaction, nextClaim' = nextClaim
    PROVE  RowsStay
  <1>1. AuthorityOK
    BY WorkerFacts
  <1>2. AuthorityTypeOK' /\ RowsOK'
    BY <1>1, TransactionType, TransactionRows DEF AuthorityOK
  <1>3. ASSUME NEW c \in Claims, claims[c].state = "free"
        PROVE  claims'[c].state = "free"
    <2>1. nextClaim \in Nat
      BY <1>1, AuthorityAssumption DEF AuthorityOK, AuthorityTypeOK
    <2> QED BY <1>1, <1>3, <2>1, TransactionOnFreeRows
  <1>4. ASSUME NEW c \in Claims
        PROVE  /\ TenureOK(c)'
               /\ claims[c].state # "free" => claims'[c].state # "free"
               /\ Over(c) => Over(c)'
    <2>1. CASE claims[c].state = "free"
      BY <1>3, <2>1 DEF TenureOK, Over
    <2>2. CASE claims[c].state # "free"
      BY <2>2, GrantedStays
    <2> QED BY <2>1, <2>2
  <1> QED BY <1>2, <1>4 DEF RowsStay

\* A step that leaves the authority alone.
LEMMA NothingMoves ==
    ASSUME WorkerInv, UNCHANGED authorityVars
    PROVE  RowsStay
  BY GrantlessTransaction DEF Transaction, authorityVars

\* A claim grants the next tenure to a principal of its own, on open work.
LEMMA ClaimMoves ==
    ASSUME WorkerInv, NEW i \in Issues, Claim(i)
    PROVE  RowsStay /\ UNCHANGED <<receipts, workerVars>>
  <1>1. AuthorityOK /\ claims \in [Claims -> Row] /\ \A c \in Claims : TenureOK(c)
    BY WorkerFacts
  <1>2. status[i] = "open" /\ UNCHANGED workerVars
    BY DEF Claim
  <1>3. PICK c \in Claims : Acquire(i, nextClaim, c)
    BY DEF Claim
  <1>4. nextClaim \in Nat /\ receipts' = receipts /\ status' = status
    BY <1>1, <1>3, AuthorityAssumption DEF AuthorityOK, AuthorityTypeOK, Acquire
  <1>5. Transaction
    BY <1>3, <1>4 DEF Transaction
  <1>6. AuthorityTypeOK' /\ RowsOK'
    BY <1>1, <1>5, TransactionType, TransactionRows DEF AuthorityOK
  <1>7. c = nextClaim
    <2>1. SUFFICES ASSUME c \in LiveOf(i, nextClaim) PROVE FALSE
      BY <1>3 DEF Acquire
    <2>2. claims[c].state = "held" /\ claims[c].holder = nextClaim
      BY <2>1 DEF LiveOf, Live
    <2>3. claims[c].holder = c
      BY <1>1, <2>2 DEF TenureOK
    <2>4. claims[nextClaim] = FreeRow
      BY <1>1, <1>4, <2>2, <2>3 DEF AuthorityOK, RowsOK
    <2> QED BY <2>2, <2>3, <2>4 DEF FreeRow
  <1>8. claims[c] = FreeRow /\ claims[c].state = "free"
    BY <1>1, <1>4, <1>7 DEF AuthorityOK, RowsOK, FreeRow
  <1>9. claims' = [Swept EXCEPT ![c] = [issue |-> i, holder |-> nextClaim, left |-> TTL,
                                        state |-> "held"]]
    BY <1>3, <1>8 DEF Acquire, LiveOf, Live
  <1>10. claims'[c] = [issue |-> i, holder |-> nextClaim, left |-> TTL, state |-> "held"]
    BY <1>9 DEF Swept
  <1>11. ASSUME NEW d \in Claims
         PROVE  /\ TenureOK(d)'
                /\ claims[d].state # "free" => claims'[d].state # "free"
                /\ Over(d) => Over(d)'
    <2>1. CASE d = c
      BY <1>2, <1>4, <1>7, <1>8, <1>10, <2>1 DEF TenureOK, OnOpenWork, Over
    <2>2. CASE d # c /\ claims[d].state = "free"
      <3>1. claims'[d] = claims[d]
        BY <1>9, <2>2 DEF Swept
      <3> QED BY <2>2, <3>1 DEF TenureOK, Over
    <2>3. CASE claims[d].state # "free"
      BY <1>5, <2>3, GrantedStays
    <2> QED BY <2>1, <2>2, <2>3
  <1> QED BY <1>2, <1>4, <1>6, <1>11 DEF RowsStay

\* Hosts, the sweeper and time.
LEMMA AuthorityMoves ==
    ASSUME WorkerInv, Authority
    PROVE  RowsStay /\ UNCHANGED <<receipts, workerVars>>
  <1>1. CASE Lapse
    <2>1. AuthorityOK /\ claims \in [Claims -> Row] /\ \A c \in Claims : TenureOK(c)
      BY WorkerFacts
    <2>2. Elapse
      BY <1>1 DEF Lapse
    <2>3. /\ AuthorityTypeOK' /\ RowsOK'
          /\ \A c \in Claims : OnOpenWork(c) => OnOpenWork(c)'
      BY <2>1, <2>2, ElapseKeeps
    <2>4. ASSUME NEW c \in Claims
          PROVE  /\ TenureOK(c)'
                 /\ claims[c].state # "free" => claims'[c].state # "free"
                 /\ Over(c) => Over(c)'
      <3>1. claims[c] \in Row /\ claims'[c] = [claims[c] EXCEPT !.left = Monus(claims[c].left, 1)]
        BY <2>1, <2>2 DEF Elapse
      <3>2. /\ claims'[c].state = claims[c].state /\ claims'[c].holder = claims[c].holder
            /\ claims'[c].left = Monus(claims[c].left, 1) /\ claims[c].left \in Nat
        BY <3>1, AuthorityAssumption DEF Row
      <3>3. claims'[c].left > 0 => claims[c].left > 0
        BY <3>2 DEF Monus
      <3> QED BY <2>1, <2>3, <3>2, <3>3 DEF TenureOK, Over
    <2>5. UNCHANGED <<receipts, workerVars>>
      BY <2>2 DEF Elapse, Authority
    <2> QED BY <2>3, <2>4, <2>5 DEF RowsStay
  <1>2. CASE Sweep \/ \E i \in Issues : HumanClose(i) \/ HumanReopen(i) \/ ForceRelease(i)
    <2>1. Transaction
      BY <1>2 DEF Transaction
    <2>2. UNCHANGED <<nextClaim, receipts>>
      BY <1>2 DEF Sweep, HumanClose, HumanReopen, ForceRelease
    <2> QED BY <2>1, <2>2, GrantlessTransaction DEF Authority
  <1> QED BY <1>1, <1>2 DEF Authority

-----------------------------------------------------------------------------
(* Steps of the workers, by what they change.                                *)

\* While nobody is told and no close gets a receipt, ends stay as they are.
LEMMA SameEnds ==
    ASSUME WorkerInv, RowsStay, receipts' = receipts, answered' = answered
    PROVE  /\ \A c \in Claims : EndOK(c)'
           /\ \A w \in Workspaces : ws[w].state = "preparing" => ws[w].claim \notin receipts'
           /\ \A w \in Workspaces : (ws[w].state = "ready" \/ job[w] = "observed")
                                       => answered'[ws[w].claim] = "nothing"
  <1>1. \A c \in Claims : EndOK(c)'
    BY WorkerFacts DEF EndOK, RowsStay
  <1>2. \A w \in Workspaces : ws[w].state = "preparing" => ws[w].claim \notin receipts'
    BY DEF WorkerInv, ClosedHasNonePreparing
  <1> QED BY <1>1, <1>2, ObservedUntold

\* What a call has found stays true if records of its tenure are neither made
\* nor begun again.
LEMMA CallStays ==
    ASSUME WorkerInv, RowsStay, NEW h \in GateIds, call'[h] = call[h],
           \A w \in Workspaces :
              \/ ws'[w].claim # call[h].claim
              \/ /\ ws'[w].claim = ws[w].claim /\ ws'[w].request = ws[w].request
                 /\ ws'[w].state = "preparing" => ws[w].state = "preparing"
    PROVE  CallOK(h)'
  <1>1. CallOK(h)
    BY WorkerFacts
  <1>2. CASE call[h] = NoCall
    BY <1>2 DEF CallOK
  <1>3. CASE call[h] # NoCall
    <2>1. /\ call[h].claim \in Claims /\ claims[call[h].claim].state # "free"
          /\ GateOf(call[h].claim) = h
      BY <1>1, <1>3 DEF CallOK
    <2>2. claims'[call[h].claim].state # "free" /\ (Over(call[h].claim) => Over(call[h].claim)')
      BY <2>1 DEF RowsStay
    <2>3. Of(call[h].claim)' \subseteq Of(call[h].claim)
      BY <2>1 DEF Of
    <2>4. Known(call[h].claim, call[h].request)' => Known(call[h].claim, call[h].request)
      BY <2>1 DEF Of, Known
    <2>5. Busy(call[h].claim)' => Busy(call[h].claim)
      BY <2>1 DEF Of, Busy
    <2> QED BY <1>1, <1>3, <2>1, <2>2, <2>3, <2>4, <2>5 DEF CallOK
  <1> QED BY <1>2, <1>3

\* A handler goes on, or answers, without a record being written.
LEMMA GateMoves ==
    ASSUME WorkerInv, RowsStay, UNCHANGED <<ws, disk, job>>,
           NEW g \in GateIds, NEW k \in Call, call' = [call EXCEPT ![g] = k], CallOK(g)',
           active' \in [Claims -> BOOLEAN],
           answered' \in [Claims -> {"nothing", "released", "closed"}],
           \A c \in Claims : EndOK(c)',
           \A w \in Workspaces : ws[w].state = "preparing" => ws[w].claim \notin receipts',
           \A w \in Workspaces : (ws[w].state = "ready" \/ job[w] = "observed")
                                    => answered'[ws[w].claim] = "nothing"
    PROVE  WorkerInv'
  <1>1. TypeOK'
    BY WorkerFacts DEF TypeOK, RowsStay
  <1>2. ASSUME NEW h \in GateIds PROVE CallOK(h)'
    <2>1. CASE h = g
      BY <2>1
    <2>2. CASE h # g
      BY <2>2, WorkerFacts, CallStays
    <2> QED BY <2>1, <2>2
  <1>3. ASSUME NEW w \in Workspaces PROVE RecordOK(w)'
    BY WorkerFacts DEF RecordOK, RowsStay
  <1>4. ClosedHasNonePreparing' /\ AnsweredLeavesNoneReady'
    BY DEF ClosedHasNonePreparing, AnsweredLeavesNoneReady
  <1>5. OneJobPerRequest'
    BY DEF WorkerInv, OneJobPerRequest
  <1> QED BY <1>1, <1>2, <1>3, <1>4, <1>5 DEF WorkerInv, RowsStay

\* Records change their states, and calls that end do so with an answer.
LEMMA RecordsMove ==
    ASSUME WorkerInv, UNCHANGED authorityVars, TypeOK',
           \A w \in Workspaces :
              \/ ws'[w] = ws[w]
              \/ /\ ws[w].state # "none" /\ ws'[w].state # "none"
                 /\ ws'[w].claim = ws[w].claim /\ ws'[w].request = ws[w].request
                 /\ ws'[w].state # "preparing",
           \A h \in GateIds : call'[h] = call[h] \/ call'[h] = NoCall,
           \A c \in Claims : answered'[c] = answered[c] \/ Over(c),
           \A w \in Workspaces : (ws'[w].state = "ready" \/ job'[w] = "observed")
                                    => answered'[ws[w].claim] = "nothing"
    PROVE  WorkerInv'
  <1>1. RowsStay
    BY NothingMoves
  <1>2. ASSUME NEW h \in GateIds PROVE CallOK(h)'
    <2>1. CASE call'[h] = NoCall
      BY <2>1 DEF CallOK
    <2>2. CASE call'[h] = call[h]
      BY <1>1, <2>2, CallStays
    <2> QED BY <2>1, <2>2
  <1>3. ASSUME NEW w \in Workspaces PROVE RecordOK(w)'
    <2>1. RecordOK(w)
      BY WorkerFacts
    <2>2. CASE ws'[w] = NoRecord
      BY <2>2 DEF RecordOK
    <2>3. CASE ws'[w] # NoRecord
      <3>1. ws[w] # NoRecord
        BY <2>3 DEF NoRecord
      <3>2. /\ ws'[w].state # "none" /\ ws'[w].request \in Requests
            /\ ws'[w].claim = ws[w].claim /\ ws[w].claim \in Claims
            /\ claims[ws[w].claim].state # "free"
        BY <2>1, <3>1 DEF RecordOK
      <3>3. claims'[ws'[w].claim].state # "free"
        BY <1>1, <3>2 DEF RowsStay
      <3> QED BY <3>2, <3>3 DEF RecordOK
    <2> QED BY <2>2, <2>3
  <1>4. ASSUME NEW c \in Claims PROVE EndOK(c)'
    <2>1. receipts' = receipts /\ EndOK(c) /\ (Over(c) => Over(c)')
      BY <1>1, WorkerFacts DEF authorityVars, RowsStay
    <2> QED BY <2>1 DEF EndOK
  <1>5. ClosedHasNonePreparing'
    <2>1. receipts' = receipts /\ ClosedHasNonePreparing
      BY DEF authorityVars, WorkerInv
    <2> QED BY <2>1 DEF ClosedHasNonePreparing
  <1>6. AnsweredLeavesNoneReady'
    BY DEF AnsweredLeavesNoneReady
  <1>7. OneJobPerRequest'
    <2>1. OneJobPerRequest
      BY DEF WorkerInv
    <2>2. \A w \in Workspaces : /\ ws'[w].claim = ws[w].claim /\ ws'[w].request = ws[w].request
                                /\ ws'[w].state # "none" => ws[w].state # "none"
      OBVIOUS
    <2> QED BY <2>1, <2>2 DEF OneJobPerRequest
  <1> QED BY <1>1, <1>2, <1>3, <1>4, <1>5, <1>6, <1>7 DEF WorkerInv, RowsStay

-----------------------------------------------------------------------------
(* Calls.                                                                    *)

\* An empty gate and an empty record have their declared shapes.
LEMMA NoCallType == NoCall \in Call /\ NoRecord \in Record
  BY DEF NoCall, Call, NoRecord, Record, States

\* A gate's call goes to stage "mutex", or further on what it has just seen.
LEMMA EnterKeeps ==
    ASSUME WorkerInv, NEW c \in Claims, NEW k \in Call, Enter(c, k),
           \/ k.op = "checkout" /\ k.request \in Requests /\ k.stage = "mutex" /\ ~k.locked
           \/ k.op = "release" /\ k.stage = "kata" /\ ~k.locked
           \/ k.op = "close" /\ k.stage = "mutex" /\ ~k.locked
           \/ k.op = "close" /\ k.stage = "kata" /\ ~k.locked /\ Of(c) = {}
    PROVE  WorkerInv'
  <1> DEFINE n == [k EXCEPT !.claim = c]
  <1>1. /\ claims[c].state # "free" /\ call' = [call EXCEPT ![GateOf(c)] = n]
        /\ UNCHANGED <<authorityVars, active, ws, disk, job, answered>>
    BY DEF Enter
  <1>2. /\ n \in Call /\ n.claim = c /\ n.op = k.op /\ n.stage = k.stage
        /\ n.locked = k.locked /\ n.request = k.request
    BY DEF Call
  <1> HIDE DEF n
  <1>3. GateOf(c) \in GateIds /\ call'[GateOf(c)] = n
    BY <1>1, ClaimFacts, WorkerFacts
  <1>4. RowsStay /\ receipts' = receipts /\ claims' = claims /\ answered' = answered
    BY <1>1, NothingMoves DEF authorityVars
  <1>5. Of(c)' = Of(c)
    BY <1>1 DEF Of
  <1>6. CallOK(GateOf(c))'
    BY <1>1, <1>2, <1>3, <1>4, <1>5 DEF CallOK
  <1>7. /\ \A d \in Claims : EndOK(d)'
        /\ \A w \in Workspaces : ws[w].state = "preparing" => ws[w].claim \notin receipts'
        /\ \A w \in Workspaces : (ws[w].state = "ready" \/ job[w] = "observed")
                                    => answered'[ws[w].claim] = "nothing"
    BY <1>4, SameEnds
  <1> QED BY <1>1, <1>2, <1>3, <1>4, <1>6, <1>7, WorkerFacts, GateMoves

\* A call that enters its gate keeps the invariant.
LEMMA StartsKeep ==
    ASSUME WorkerInv, NEW c \in Claims,
           \/ StartRelease(c) \/ StartClose(c) \/ \E r \in Requests : StartCheckout(c, r)
    PROVE  WorkerInv'
  <1>1. CASE StartRelease(c)
    <2> DEFINE k == [NoCall EXCEPT !.op = "release", !.stage = "kata"]
    <2>1. k \in Call /\ k.op = "release" /\ k.stage = "kata" /\ ~k.locked
      BY NoCallType DEF NoCall, Call
    <2>2. Enter(c, k)
      BY <1>1 DEF StartRelease
    <2> HIDE DEF k
    <2> QED BY <2>1, <2>2, EnterKeeps
  <1>2. CASE StartClose(c)
    <2> DEFINE k == [NoCall EXCEPT !.op = "close", !.stage = IF Of(c) = {} THEN "kata" ELSE "mutex"]
    <2>1. /\ k \in Call /\ k.op = "close" /\ ~k.locked
          /\ k.stage = "mutex" \/ (k.stage = "kata" /\ Of(c) = {})
      BY NoCallType DEF NoCall, Call
    <2>2. Enter(c, k)
      BY <1>2 DEF StartClose
    <2> HIDE DEF k
    <2> QED BY <2>1, <2>2, EnterKeeps
  <1>3. ASSUME NEW r \in Requests, StartCheckout(c, r) PROVE WorkerInv'
    <2> DEFINE k == [NoCall EXCEPT !.op = "checkout", !.request = r, !.stage = "mutex"]
    <2>1. /\ k \in Call /\ k.op = "checkout" /\ k.request \in Requests
          /\ k.stage = "mutex" /\ ~k.locked
      BY NoCallType DEF NoCall, Call
    <2>2. Enter(c, k)
      BY <1>3 DEF StartCheckout
    <2> HIDE DEF k
    <2> QED BY <2>1, <2>2, EnterKeeps
  <1> QED BY <1>1, <1>2, <1>3

\* The call that holds gate g, at stage s of op.
LEMMA AtFacts ==
    ASSUME WorkerInv, NEW g \in GateIds, NEW op, NEW s, op # "none", At(g, op, s)
    PROVE  /\ CallOK(g) /\ call[g] # NoCall /\ call[g] \in Call
           /\ call[g].op = op /\ call[g].stage = s
           /\ call[g].claim \in Claims /\ claims[call[g].claim].state # "free"
           /\ GateOf(call[g].claim) = g
           /\ s \in {"look", "archive"} => call[g].locked
           /\ op = "release" \/ s = "mutex" => ~call[g].locked
           /\ op = "checkout" => call[g].request \in Requests
           /\ s = "look" => ~Known(call[g].claim, call[g].request)
           /\ s \in {"retire", "archive"} => Over(call[g].claim)
           /\ op = "close" /\ s # "mutex" =>
                 IF call[g].locked THEN ~Busy(call[g].claim) ELSE Of(call[g].claim) = {}
  <1>1. CallOK(g) /\ call[g].op = op /\ call[g].stage = s /\ call[g] \in Call
    BY WorkerFacts DEF At
  <1>2. call[g] # NoCall
    BY <1>1 DEF NoCall
  <1> QED BY <1>1, <1>2 DEF CallOK

\* An answer that tells nothing, and no record written.
LEMMA AnswerKeeps ==
    ASSUME WorkerInv, NEW g \in GateIds, Answer(g), active' \in [Claims -> BOOLEAN],
           UNCHANGED <<authorityVars, ws, disk, job, answered>>
    PROVE  WorkerInv'
  <1>1. TypeOK'
    BY WorkerFacts, NoCallType DEF TypeOK, Answer, authorityVars, AuthorityOK, AuthorityTypeOK
  <1>2. \A h \in GateIds : call'[h] = call[h] \/ call'[h] = NoCall
    BY WorkerFacts DEF Answer
  <1>3. \A w \in Workspaces : (ws'[w].state = "ready" \/ job'[w] = "observed")
                                    => answered'[ws[w].claim] = "nothing"
    BY ObservedUntold
  <1> QED BY <1>1, <1>2, <1>3, RecordsMove

\* A call goes on; GateMoves says what has to be shown.
LEMMA GoesOn ==
    ASSUME WorkerInv, NEW g \in GateIds, NEW s \in {"look", "kata", "retire", "archive"}, Go(g, s)
    PROVE  \E k \in Call : /\ call' = [call EXCEPT ![g] = k]
                           /\ k.op = call[g].op /\ k.claim = call[g].claim /\ k.stage = s
                           /\ k.request = call[g].request /\ k.locked = call[g].locked
  <1> DEFINE n == [call[g] EXCEPT !.stage = s]
  <1>1. call[g] \in Call /\ call' = [call EXCEPT ![g] = n]
    BY WorkerFacts DEF Go
  <1>2. /\ n \in Call /\ n.op = call[g].op /\ n.claim = call[g].claim /\ n.stage = s
        /\ n.request = call[g].request /\ n.locked = call[g].locked
    BY <1>1 DEF Call
  <1> HIDE DEF n
  <1> QED BY <1>1, <1>2

\* The same, with the mutex of its thread.
LEMMA LocksOn ==
    ASSUME WorkerInv, NEW g \in GateIds, NEW s \in {"look", "kata", "retire", "archive"},
           GoLocked(g, s)
    PROVE  \E k \in Call : /\ call' = [call EXCEPT ![g] = k]
                           /\ k.op = call[g].op /\ k.claim = call[g].claim /\ k.stage = s
                           /\ k.request = call[g].request /\ k.locked
  <1> DEFINE n == [call[g] EXCEPT !.stage = s, !.locked = TRUE]
  <1>1. call[g] \in Call
    BY WorkerFacts
  <1>2. call' = [call EXCEPT ![g] = n]
    BY WorkerFacts DEF GoLocked
  <1>3. /\ n \in Call /\ n.op = call[g].op /\ n.claim = call[g].claim /\ n.stage = s
        /\ n.request = call[g].request /\ n.locked
    BY <1>1 DEF Call
  <1> HIDE DEF n
  <1> QED BY <1>2, <1>3

\* A checkout takes the mutex; a known request is answered.
LEMMA LockCheckoutKeeps ==
    ASSUME WorkerInv, NEW g \in GateIds, LockCheckout(g)
    PROVE  WorkerInv'
  <1> DEFINE c == call[g].claim
  <1>0. At(g, "checkout", "mutex") /\ UNCHANGED <<authorityVars, ws, disk, job, answered>>
    BY DEF LockCheckout
  <1>1. /\ c \in Claims /\ claims[c].state # "free" /\ GateOf(c) = g
        /\ call[g].op = "checkout" /\ call[g].request \in Requests
    BY <1>0, AtFacts
  <1>2. CASE Known(c, call[g].request)
    <2>1. Answer(g) /\ active' = active
      BY <1>2 DEF LockCheckout
    <2> QED BY <1>0, <2>1, AnswerKeeps, WorkerFacts
  <1>3. CASE ~Known(c, call[g].request)
    <2>1. GoLocked(g, "look") /\ active' = [active EXCEPT ![c] = TRUE]
      BY <1>3 DEF LockCheckout
    <2>2. PICK k \in Call : /\ call' = [call EXCEPT ![g] = k]
                            /\ k.op = call[g].op /\ k.claim = call[g].claim /\ k.stage = "look"
                            /\ k.request = call[g].request /\ k.locked
      BY <2>1, LocksOn
    <2>3. RowsStay /\ receipts' = receipts /\ claims' = claims /\ answered' = answered
      BY <1>0, NothingMoves DEF authorityVars
    <2>4. ~Known(k.claim, k.request)'
      BY <1>0, <1>3, <2>2 DEF Known, Of
    <2>5. call'[g] = k
      BY <2>2, WorkerFacts
    <2>6. CallOK(g)'
      BY <1>1, <2>2, <2>3, <2>4, <2>5 DEF CallOK
    <2>7. active' \in [Claims -> BOOLEAN]
      BY <2>1, WorkerFacts
    <2>8. /\ \A d \in Claims : EndOK(d)'
          /\ \A w \in Workspaces : ws[w].state = "preparing" => ws[w].claim \notin receipts'
          /\ \A w \in Workspaces : (ws[w].state = "ready" \/ job[w] = "observed")
                                      => answered'[ws[w].claim] = "nothing"
      BY <2>3, SameEnds
    <2> QED BY <1>0, <2>2, <2>3, <2>6, <2>7, <2>8, GateMoves, WorkerFacts
  <1> QED BY <1>2, <1>3

\* Who sees a tenure held has not ended it.
LEMMA HeldFacts ==
    ASSUME WorkerInv, NEW c \in Claims, IsHeld(c)
    PROVE  c \notin receipts /\ answered[c] = "nothing" /\ claims[c].state # "free"
  <1>1. claims[c].state = "held" /\ claims[c].left > 0
    BY DEF IsHeld, GuardHolds, LiveOf, Live
  <1>2. ~Over(c) /\ EndOK(c)
    BY <1>1, WorkerFacts DEF Over
  <1> QED BY <1>1, <1>2 DEF EndOK

\* A record is made under a gate and the mutex, for a request not known.
LEMMA CreateKeeps ==
    ASSUME WorkerInv, NEW g \in GateIds, At(g, "checkout", "look"), Answer(g),
           IsHeld(call[g].claim), NEW w \in Workspaces, ws[w] = NoRecord,
           Recorded(call[g].claim, call[g].request, w),
           active' \in [Claims -> BOOLEAN], UNCHANGED <<authorityVars, answered>>
    PROVE  WorkerInv'
  <1>1. PICK c \in Claims : c = call[g].claim
    BY AtFacts
  <1>2. PICK r \in Requests : r = call[g].request
    BY AtFacts
  <1>3. /\ claims[c].state # "free" /\ GateOf(c) = g /\ ~Known(c, r)
        /\ c \notin receipts /\ answered[c] = "nothing"
    BY <1>1, <1>2, AtFacts, HeldFacts
  <1>4. PICK s \in {"preparing", "failed"} :
           /\ ws' = [ws EXCEPT ![w] = [state |-> s, claim |-> c, request |-> r]]
           /\ IF s = "preparing" THEN job' = [job EXCEPT ![w] = "capture"] ELSE job' = job
    BY <1>1, <1>2 DEF Recorded
  <1>5. disk' \in [Workspaces -> {"none", "failed", "orphaned", "archived"}]
        /\ \A v \in Workspaces : v # w => disk'[v] = disk[v]
    BY WorkerFacts DEF Recorded, Recovered
  <1>6. /\ ws \in [Workspaces -> Record] /\ job \in [Workspaces -> Phases]
        /\ NoClaim \notin Claims /\ job[w] = "none"
    BY WorkerFacts, ClaimFacts DEF NoRecord
  <1>7. /\ ws'[w].state = s /\ ws'[w].claim = c /\ ws'[w].request = r
        /\ \A v \in Workspaces : v # w => ws'[v] = ws[v] /\ job'[v] = job[v]
        /\ job'[w] = IF s = "preparing" THEN "capture" ELSE "none"
    BY <1>4, <1>6
  <1>8. ws' \in [Workspaces -> Record] /\ job' \in [Workspaces -> Phases]
    <2>1. [state |-> s, claim |-> c, request |-> r] \in Record
      BY DEF Record, States
    <2>2. "capture" \in Phases
      BY DEF Phases
    <2> QED BY <1>4, <1>6, <2>1, <2>2
  <1>9. call' \in [GateIds -> Call] /\ \A h \in GateIds : h # g => call'[h] = call[h]
    BY WorkerFacts, NoCallType DEF Answer
  <1>10. call'[g] = NoCall
    BY WorkerFacts DEF Answer
  <1>11. RowsStay /\ receipts' = receipts /\ claims' = claims /\ answered' = answered
    BY NothingMoves DEF authorityVars
  <1>12. TypeOK'
    <2>1. ASSUME NEW v \in Workspaces
          PROVE  /\ ws'[v].state = "preparing" <=> job'[v] # "none"
                 /\ ws'[v].state = "none" => disk'[v] = "none"
      <3>1. CASE v = w
        BY <1>7, <3>1
      <3>2. CASE v # w
        BY <1>5, <1>7, <3>2, WorkerFacts
      <3> QED BY <3>1, <3>2
    <2>2. answered' \in [Claims -> {"nothing", "released", "closed"}]
      BY <1>11, WorkerFacts
    <2> QED BY <1>5, <1>8, <1>9, <1>11, <2>1, <2>2 DEF TypeOK, RowsStay
  <1>13. ASSUME NEW h \in GateIds PROVE CallOK(h)'
    <2>1. CASE h = g
      BY <1>10, <2>1 DEF CallOK
    <2>2. CASE call[h] = NoCall /\ h # g
      BY <1>9, <2>2 DEF CallOK
    <2>3. CASE call[h] # NoCall /\ h # g
      <3>1. CallOK(h)
        BY WorkerFacts
      <3>2. GateOf(call[h].claim) = h
        BY <2>3, <3>1 DEF CallOK
      <3>3. call[h].claim # c
        BY <1>3, <2>3, <3>2
      <3>4. call'[h] = call[h]
        BY <1>9, <2>3
      <3>5. ASSUME NEW v \in Workspaces
            PROVE  \/ ws'[v].claim # call[h].claim
                   \/ /\ ws'[v].claim = ws[v].claim /\ ws'[v].request = ws[v].request
                      /\ ws'[v].state = "preparing" => ws[v].state = "preparing"
        BY <1>7, <3>3
      <3> QED BY <1>11, <3>4, <3>5, CallStays
    <2> QED BY <2>1, <2>2, <2>3
  <1>14. ASSUME NEW v \in Workspaces PROVE RecordOK(v)'
    <2>1. CASE v = w
      BY <1>3, <1>7, <1>11, <2>1 DEF RecordOK
    <2>2. CASE v # w
      <3>1. RecordOK(v) /\ ws'[v] = ws[v] /\ job'[v] = job[v]
        BY <1>7, <2>2, WorkerFacts
      <3> QED BY <1>11, <3>1 DEF RecordOK
    <2> QED BY <2>1, <2>2
  <1>15. /\ \A d \in Claims : EndOK(d)'
         /\ \A v \in Workspaces : ws[v].state = "preparing" => ws[v].claim \notin receipts'
    BY <1>11, SameEnds
  <1>16. ClosedHasNonePreparing'
    BY <1>3, <1>7, <1>11, <1>15 DEF ClosedHasNonePreparing
  <1>17. AnsweredLeavesNoneReady'
    <2>1. AnsweredLeavesNoneReady
      BY DEF WorkerInv
    <2> QED BY <1>7, <1>11, <2>1 DEF AnsweredLeavesNoneReady
  <1>18. OneJobPerRequest'
    <2>1. OneJobPerRequest
      BY DEF WorkerInv
    <2>2. ASSUME NEW v \in Workspaces, v # w PROVE ~(ws[v].claim = c /\ ws[v].request = r)
      BY <1>3 DEF Known, Of
    <2> QED BY <1>7, <2>1, <2>2 DEF OneJobPerRequest
  <1> QED BY <1>11, <1>12, <1>13, <1>14, <1>15, <1>16, <1>17, <1>18 DEF WorkerInv, RowsStay

\* A checkout looks, and may leave a record.
LEMMA LookCheckoutKeeps ==
    ASSUME WorkerInv, NEW g \in GateIds, LookCheckout(g)
    PROVE  WorkerInv'
  <1>1. At(g, "checkout", "look") /\ Answer(g) /\ UNCHANGED <<authorityVars, answered>>
    BY DEF LookCheckout
  <1>2. PICK look \in Looks(call[g].claim) :
           /\ Believed(call[g].claim, look)
           /\ \/ /\ look = "held" /\ SlotFree /\ Free # {}
                 /\ Recorded(call[g].claim, call[g].request, CHOOSE w \in Free : TRUE)
              \/ UNCHANGED <<ws, disk, job>>
    BY DEF LookCheckout
  <1>3. active' \in [Claims -> BOOLEAN]
    BY <1>2, WorkerFacts DEF Believed
  <1>4. CASE UNCHANGED <<ws, disk, job>>
    BY <1>1, <1>3, <1>4, AnswerKeeps
  <1>5. CASE /\ look = "held" /\ Free # {}
             /\ Recorded(call[g].claim, call[g].request, CHOOSE w \in Free : TRUE)
    <2>1. IsHeld(call[g].claim)
      BY <1>2, <1>5 DEF Looks
    <2>2. PICK w \in Free : w = CHOOSE v \in Free : TRUE
      BY <1>5
    <2>3. w \in Workspaces /\ ws[w] = NoRecord
      BY DEF Free
    <2>4. Recorded(call[g].claim, call[g].request, w)
      BY <1>5, <2>2
    <2> QED BY <1>1, <1>3, <2>1, <2>3, <2>4, CreateKeeps
  <1> QED BY <1>2, <1>4, <1>5

\* A close takes the mutex, and is answered if a workspace prepares.
LEMMA LockCloseKeeps ==
    ASSUME WorkerInv, NEW g \in GateIds, LockClose(g)
    PROVE  WorkerInv'
  <1> DEFINE c == call[g].claim
  <1>0. At(g, "close", "mutex") /\ UNCHANGED <<authorityVars, active, ws, disk, job, answered>>
    BY DEF LockClose
  <1>1. /\ c \in Claims /\ claims[c].state # "free" /\ GateOf(c) = g
        /\ call[g].op = "close"
    BY <1>0, AtFacts
  <1>2. CASE Busy(c)
    <2>1. Answer(g)
      BY <1>2 DEF LockClose
    <2> QED BY <1>0, <2>1, AnswerKeeps, WorkerFacts
  <1>3. CASE ~Busy(c)
    <2>1. GoLocked(g, "kata")
      BY <1>3 DEF LockClose
    <2>2. PICK k \in Call : /\ call' = [call EXCEPT ![g] = k]
                            /\ k.op = call[g].op /\ k.claim = call[g].claim /\ k.stage = "kata"
                            /\ k.request = call[g].request /\ k.locked
      BY <2>1, LocksOn
    <2>3. RowsStay /\ receipts' = receipts /\ claims' = claims /\ answered' = answered
      BY <1>0, NothingMoves DEF authorityVars
    <2>4. ~Busy(k.claim)'
      BY <1>0, <1>3, <2>2 DEF Busy, Of
    <2>5. call'[g] = k
      BY <2>2, WorkerFacts
    <2>6. CallOK(g)'
      BY <1>1, <2>2, <2>3, <2>4, <2>5 DEF CallOK
    <2>7. /\ \A d \in Claims : EndOK(d)'
          /\ \A w \in Workspaces : ws[w].state = "preparing" => ws[w].claim \notin receipts'
          /\ \A w \in Workspaces : (ws[w].state = "ready" \/ job[w] = "observed")
                                      => answered'[ws[w].claim] = "nothing"
      BY <2>3, SameEnds
    <2> QED BY <1>0, <2>2, <2>3, <2>6, <2>7, GateMoves, WorkerFacts
  <1> QED BY <1>2, <1>3

-----------------------------------------------------------------------------
(* Release and close.                                                        *)

\* A tenure is the only one of its principal, so its release ends it.
LEMMA ReleaseEnds ==
    ASSUME WorkerInv, NEW c \in Claims, claims[c].state # "free", Release(IssueOf(c), c)
    PROVE  RowsStay /\ Over(c)' /\ receipts' = receipts
  <1>1. /\ AuthorityOK /\ c \in Nat /\ claims \in [Claims -> Row]
        /\ \A d \in Claims : TenureOK(d)
    BY WorkerFacts, ClaimFacts
  <1>2. IssueOf(c) \in Issues
    BY <1>1 DEF IssueOf, AuthorityOK, RowsOK
  <1>3. Transaction
    BY <1>1, <1>2 DEF Transaction
  <1>4. RowsStay /\ receipts' = receipts
    BY <1>3, GrantlessTransaction DEF Release
  <1>5. PICK d \in LiveOf(IssueOf(c), c) : TRUE
    BY DEF Release
  <1>6. d \in Claims /\ claims[d].holder = c /\ claims[d].state = "held"
    BY <1>5 DEF LiveOf, Live
  <1>7. d = c
    BY <1>1, <1>6 DEF TenureOK
  <1>8. c \in LiveOf(IssueOf(c), c)
    BY <1>5, <1>7
  <1>9. claims'[c] = [Swept[c] EXCEPT !.state = "released", !.left = 0]
    BY <1>8 DEF Release, ReleasedFrom
  <1>10. Swept[c] \in Row
    BY <1>1, SweptType
  <1>11. claims'[c].state = "released"
    BY <1>9, <1>10 DEF Row
  <1> QED BY <1>4, <1>11 DEF Over

\* An issue with a live tenure is open, so a guarded close that commits ends it.
LEMMA CloseEnds ==
    ASSUME WorkerInv, NEW c \in Claims, claims[c].state # "free",
           CloseCommit(IssueOf(c), c, c, c) \/ CloseReplay(c)
    PROVE  RowsStay /\ Over(c)' /\ receipts' \subseteq receipts \cup {c}
  <1>1. /\ AuthorityOK /\ c \in Nat /\ claims \in [Claims -> Row]
        /\ TenureOK(c) /\ EndOK(c)
    BY WorkerFacts, ClaimFacts
  <1>2. CASE CloseReplay(c)
    <2>1. RowsStay /\ receipts' = receipts /\ c \in receipts
      BY <1>2, NothingMoves DEF CloseReplay, authorityVars
    <2> QED BY <1>1, <2>1 DEF EndOK, RowsStay
  <1>3. CASE CloseCommit(IssueOf(c), c, c, c)
    <2>1. IssueOf(c) \in Issues
      BY <1>1 DEF IssueOf, AuthorityOK, RowsOK
    <2>2. claims[c].state = "held" /\ claims[c].left > 0
      BY <1>3 DEF CloseCommit, GuardHolds, LiveOf, Live
    <2>3. status[IssueOf(c)] = "open"
      BY <1>1, <2>2 DEF TenureOK, OnOpenWork, IssueOf
    <2>4. /\ claims' = ReleasedFrom(claims, {c}) /\ receipts' = receipts \cup {c}
          /\ nextClaim' = nextClaim
      BY <1>3, <2>3 DEF CloseCommit
    <2>5. Transaction
      BY <1>1, <1>3, <2>1 DEF Transaction
    <2>6. RowsStay
      BY <2>4, <2>5, GrantlessTransaction
    <2>7. claims'[c] = [claims[c] EXCEPT !.state = "released", !.left = 0]
      BY <2>4 DEF ReleasedFrom
    <2>8. claims[c] \in Row
      BY <1>1
    <2>9. claims'[c].state = "released"
      BY <2>7, <2>8 DEF Row
    <2> QED BY <2>4, <2>6, <2>9 DEF Over
  <1> QED BY <1>2, <1>3

\* What ends of a tenure come to: it is over, and nothing of it prepares if its
\* close has a receipt, or is there at all if its holder is told.
LEMMA EndsKept ==
    ASSUME WorkerInv, RowsStay, NEW c \in Claims, Over(c)',
           \/ receipts' = receipts
           \/ receipts' \subseteq receipts \cup {c} /\ ~Busy(c),
           \/ answered' = answered
           \/ /\ Of(c) = {}
              /\ \E a \in {"released", "closed"} : answered' = [answered EXCEPT ![c] = a]
    PROVE  /\ answered' \in [Claims -> {"nothing", "released", "closed"}]
           /\ \A d \in Claims : EndOK(d)'
           /\ \A w \in Workspaces : ws[w].state = "preparing" => ws[w].claim \notin receipts'
           /\ \A w \in Workspaces : (ws[w].state = "ready" \/ job[w] = "observed")
                                       => answered'[ws[w].claim] = "nothing"
  <1>1. answered \in [Claims -> {"nothing", "released", "closed"}]
    BY WorkerFacts
  <1>2. /\ answered' \in [Claims -> {"nothing", "released", "closed"}]
        /\ \A d \in Claims : d # c => answered'[d] = answered[d]
    BY <1>1
  <1>3. ASSUME NEW d \in Claims PROVE EndOK(d)'
    <2>1. CASE d = c
      BY <2>1 DEF EndOK
    <2>2. CASE d # c
      <3>1. EndOK(d) /\ (Over(d) => Over(d)')
        BY WorkerFacts DEF RowsStay
      <3> QED BY <1>2, <2>2, <3>1 DEF EndOK
    <2> QED BY <2>1, <2>2
  <1>4. ASSUME NEW w \in Workspaces, ws[w].state = "preparing"
        PROVE  ws[w].claim \notin receipts'
    <2>1. ws[w].claim \notin receipts
      BY <1>4 DEF WorkerInv, ClosedHasNonePreparing
    <2>2. Busy(c) \/ ws[w].claim # c
      BY <1>4 DEF Busy, Of
    <2> QED BY <2>1, <2>2
  <1>5. ASSUME NEW w \in Workspaces, ws[w].state = "ready" \/ job[w] = "observed"
        PROVE  answered'[ws[w].claim] = "nothing"
    <2>1. answered[ws[w].claim] = "nothing"
      BY <1>5, ObservedUntold
    <2>2. RecordOK(w) /\ ws[w].state # "none"
      BY <1>5, WorkerFacts
    <2>3. ws[w].claim \in Claims
      BY <2>2 DEF RecordOK, NoRecord
    <2>4. CASE Of(c) = {}
      <3>1. ws[w].claim # c
        BY <2>4 DEF Of
      <3> QED BY <1>2, <2>1, <2>3, <3>1
    <2>5. CASE answered' = answered
      BY <2>1, <2>5
    <2> QED BY <2>4, <2>5
  <1> QED BY <1>2, <1>3, <1>4, <1>5

\* Kata is asked for the release, and its answer may be lost.
LEMMA AskReleaseKeeps ==
    ASSUME WorkerInv, NEW g \in GateIds, AskRelease(g)
    PROVE  WorkerInv'
  <1>0. At(g, "release", "kata") /\ UNCHANGED <<active, ws, disk, job>>
    BY DEF AskRelease
  <1>1. PICK c \in Claims : c = call[g].claim
    BY <1>0, AtFacts
  <1>2. /\ claims[c].state # "free" /\ GateOf(c) = g
        /\ call[g].op = "release" /\ ~call[g].locked
    BY <1>0, <1>1, AtFacts
  <1>3. CASE Answer(g) /\ UNCHANGED <<authorityVars, answered>>
    BY <1>0, <1>3, AnswerKeeps, WorkerFacts
  <1>4. CASE Release(IssueOf(c), c)
    <2>1. RowsStay /\ Over(c)' /\ receipts' = receipts
      BY <1>2, <1>4, ReleaseEnds
    <2>2. active' \in [Claims -> BOOLEAN]
      BY <1>0, WorkerFacts
    <2>3. CASE Go(g, "retire") /\ answered' = answered
      <3>1. PICK k \in Call : /\ call' = [call EXCEPT ![g] = k]
                              /\ k.op = call[g].op /\ k.claim = call[g].claim /\ k.stage = "retire"
                              /\ k.request = call[g].request /\ k.locked = call[g].locked
        BY <2>3, GoesOn
      <3>2. call'[g] = k
        BY <3>1, WorkerFacts
      <3>3. claims'[c].state # "free"
        BY <1>2, <2>1 DEF RowsStay
      <3>4. Over(k.claim)'
        BY <1>1, <2>1, <3>1
      <3>5. CallOK(g)'
        BY <1>1, <1>2, <3>1, <3>2, <3>3, <3>4 DEF CallOK
      <3>6. /\ answered' \in [Claims -> {"nothing", "released", "closed"}]
            /\ \A d \in Claims : EndOK(d)'
            /\ \A w \in Workspaces : ws[w].state = "preparing" => ws[w].claim \notin receipts'
            /\ \A w \in Workspaces : (ws[w].state = "ready" \/ job[w] = "observed")
                                        => answered'[ws[w].claim] = "nothing"
        BY <2>1, <2>3, EndsKept
      <3> QED BY <1>0, <2>1, <2>2, <3>1, <3>5, <3>6, GateMoves
    <2>4. CASE Answer(g) /\ (answered' = answered \/ (Of(c) = {} /\ Tell(c, "released")))
      <3>1. CallOK(g)' /\ call' = [call EXCEPT ![g] = NoCall]
        BY <2>4, WorkerFacts DEF CallOK, Answer
      <3>2. \/ answered' = answered
            \/ /\ Of(c) = {}
               /\ \E a \in {"released", "closed"} : answered' = [answered EXCEPT ![c] = a]
        BY <2>4 DEF Tell
      <3>3. /\ answered' \in [Claims -> {"nothing", "released", "closed"}]
            /\ \A d \in Claims : EndOK(d)'
            /\ \A w \in Workspaces : ws[w].state = "preparing" => ws[w].claim \notin receipts'
            /\ \A w \in Workspaces : (ws[w].state = "ready" \/ job[w] = "observed")
                                        => answered'[ws[w].claim] = "nothing"
        BY <2>1, <3>2, EndsKept
      <3> QED BY <1>0, <2>1, <2>2, <3>1, <3>3, GateMoves, NoCallType
    <2> QED BY <1>1, <1>3, <2>3, <2>4 DEF AskRelease
  <1> QED BY <1>1, <1>3, <1>4 DEF AskRelease

\* Kata is asked for the close, and its answer may be lost.
LEMMA AskCloseKeeps ==
    ASSUME WorkerInv, NEW g \in GateIds, AskClose(g)
    PROVE  WorkerInv'
  <1>0. At(g, "close", "kata") /\ UNCHANGED <<active, ws, disk, job>>
    BY DEF AskClose
  <1>1. PICK c \in Claims : c = call[g].claim
    BY <1>0, AtFacts
  <1>2. /\ claims[c].state # "free" /\ GateOf(c) = g /\ call[g].op = "close"
        /\ IF call[g].locked THEN ~Busy(c) ELSE Of(c) = {}
    BY <1>0, <1>1, AtFacts
  <1>3. ~Busy(c)
    BY <1>2 DEF Busy
  <1>4. CASE Answer(g) /\ UNCHANGED <<authorityVars, answered>>
    BY <1>0, <1>4, AnswerKeeps, WorkerFacts
  <1>5. CASE CloseCommit(IssueOf(c), c, c, c) \/ CloseReplay(c)
    <2>1. RowsStay /\ Over(c)' /\ receipts' \subseteq receipts \cup {c}
      BY <1>2, <1>5, CloseEnds
    <2>2. active' \in [Claims -> BOOLEAN]
      BY <1>0, WorkerFacts
    <2>3. CASE call[g].locked /\ Go(g, "archive") /\ answered' = answered
      <3>1. PICK k \in Call : /\ call' = [call EXCEPT ![g] = k]
                              /\ k.op = call[g].op /\ k.claim = call[g].claim /\ k.stage = "archive"
                              /\ k.request = call[g].request /\ k.locked = call[g].locked
        BY <2>3, GoesOn
      <3>2. call'[g] = k
        BY <3>1, WorkerFacts
      <3>3. claims'[c].state # "free"
        BY <1>2, <2>1 DEF RowsStay
      <3>4. Over(k.claim)'
        BY <1>1, <2>1, <3>1
      <3>5. ~Busy(k.claim)'
        BY <1>0, <1>1, <1>3, <3>1 DEF Busy, Of
      <3>6. CallOK(g)'
        <4>1. k.locked /\ k.op = "close" /\ k.stage = "archive" /\ k.claim = c
          BY <1>1, <1>2, <2>3, <3>1, Zenon
        <4> QED BY <1>2, <3>2, <3>3, <3>4, <3>5, <4>1 DEF CallOK
      <3>7. /\ answered' \in [Claims -> {"nothing", "released", "closed"}]
            /\ \A d \in Claims : EndOK(d)'
            /\ \A w \in Workspaces : ws[w].state = "preparing" => ws[w].claim \notin receipts'
            /\ \A w \in Workspaces : (ws[w].state = "ready" \/ job[w] = "observed")
                                        => answered'[ws[w].claim] = "nothing"
        BY <1>3, <2>1, <2>3, EndsKept
      <3> QED BY <1>0, <2>1, <2>2, <3>1, <3>6, <3>7, GateMoves
    <2>4. CASE Answer(g) /\ (answered' = answered \/ (~call[g].locked /\ Tell(c, "closed")))
      <3>1. CallOK(g)' /\ call' = [call EXCEPT ![g] = NoCall]
        BY <2>4, WorkerFacts DEF CallOK, Answer
      <3>2. \/ answered' = answered
            \/ /\ Of(c) = {}
               /\ \E a \in {"released", "closed"} : answered' = [answered EXCEPT ![c] = a]
        BY <1>2, <2>4 DEF Tell
      <3>3. /\ answered' \in [Claims -> {"nothing", "released", "closed"}]
            /\ \A d \in Claims : EndOK(d)'
            /\ \A w \in Workspaces : ws[w].state = "preparing" => ws[w].claim \notin receipts'
            /\ \A w \in Workspaces : (ws[w].state = "ready" \/ job[w] = "observed")
                                        => answered'[ws[w].claim] = "nothing"
        BY <1>3, <2>1, <3>2, EndsKept
      <3> QED BY <1>0, <2>1, <2>2, <3>1, <3>3, GateMoves, NoCallType
    <2> QED BY <1>1, <1>4, <2>3, <2>4 DEF AskClose
  <1> QED BY <1>1, <1>4, <1>5 DEF AskClose

\* retireWorkerWorkspaces has the mutex, so no preparation is about to deliver.
LEMMA RetireKeeps ==
    ASSUME WorkerInv, NEW g \in GateIds, Retire(g)
    PROVE  WorkerInv'
  <1>0. /\ At(g, "release", "retire") /\ Answer(g)
        /\ UNCHANGED <<authorityVars, disk, job>>
    BY DEF Retire
  <1>1. PICK c \in Claims : c = call[g].claim
    BY <1>0, AtFacts
  <1>2. Over(c)
    BY <1>0, <1>1, AtFacts
  <1> DEFINE S == {w \in Of(c) : ws[w].state = "ready"}
  <1>3. /\ MutexFree(c) /\ active' = [active EXCEPT ![c] = FALSE]
        /\ ws' = [w \in Workspaces |-> IF w \in S THEN [ws[w] EXCEPT !.state = "orphaned"]
                                                  ELSE ws[w]]
        /\ answered' = [answered EXCEPT ![c] = "released"]
    BY <1>1 DEF Retire, MayRetire, Tell
  <1>4. /\ ws \in [Workspaces -> Record] /\ answered \in [Claims -> {"nothing", "released", "closed"}]
        /\ active \in [Claims -> BOOLEAN]
    BY WorkerFacts
  <1>5. ASSUME NEW w \in Workspaces
        PROVE  /\ ws'[w] \in Record
               /\ \/ ws'[w] = ws[w] /\ (ws[w].state = "ready" => ws[w].claim # c)
                  \/ /\ ws[w].state = "ready" /\ ws'[w].state = "orphaned"
                     /\ ws'[w].claim = ws[w].claim /\ ws'[w].request = ws[w].request
    <2>1. CASE w \in S
      <3>1. ws'[w] = [ws[w] EXCEPT !.state = "orphaned"] /\ ws[w].state = "ready"
        BY <1>3, <2>1
      <3> QED BY <1>4, <3>1 DEF Record, States
    <2>2. CASE w \notin S
      BY <1>3, <1>4, <2>2 DEF Of
    <2> QED BY <2>1, <2>2
  <1> HIDE DEF S
  <1>6. TypeOK'
    <2>1. ws' \in [Workspaces -> Record]
      BY <1>3, <1>5
    <2>2. call' \in [GateIds -> Call]
      BY <1>0, WorkerFacts, NoCallType DEF Answer
    <2>3. AuthorityTypeOK'
      BY <1>0, NothingMoves DEF RowsStay
    <2>4. \A w \in Workspaces : /\ ws'[w].state = "preparing" <=> job'[w] # "none"
                                /\ ws'[w].state = "none" => disk'[w] = "none"
      BY <1>0, <1>5, WorkerFacts
    <2>5. disk' \in [Workspaces -> {"none", "failed", "orphaned", "archived"}]
          /\ job' \in [Workspaces -> Phases]
      BY <1>0, WorkerFacts
    <2>6. active' \in [Claims -> BOOLEAN] /\ answered' \in [Claims -> {"nothing", "released", "closed"}]
      BY <1>3, <1>4
    <2> QED BY <2>1, <2>2, <2>3, <2>4, <2>5, <2>6 DEF TypeOK
  <1>7. \A h \in GateIds : call'[h] = call[h] \/ call'[h] = NoCall
    BY <1>0, WorkerFacts DEF Answer
  <1>8. \A d \in Claims : answered'[d] = answered[d] \/ Over(d)
    BY <1>2, <1>3, <1>4
  <1>9. ASSUME NEW w \in Workspaces, ws'[w].state = "ready" \/ job'[w] = "observed"
        PROVE  answered'[ws[w].claim] = "nothing"
    <2>1. ws[w].state = "ready" \/ job[w] = "observed"
      BY <1>0, <1>5, <1>9
    <2>2. answered[ws[w].claim] = "nothing"
      BY <2>1, ObservedUntold
    <2>3. ws[w].claim # c
      <3>1. CASE job'[w] = "observed"
        BY <1>0, <1>3, <3>1 DEF MutexFree, Of, Locking
      <3>2. CASE ws'[w].state = "ready"
        BY <1>5, <3>2
      <3> QED BY <1>9, <3>1, <3>2
    <2> QED BY <1>3, <1>4, <2>2, <2>3
  <1> QED BY <1>0, <1>5, <1>6, <1>7, <1>8, <1>9, RecordsMove

\* archiveWorkspaces of S, or checkout_archive of one.
LEMMA ArchivedFacts ==
    ASSUME WorkerInv, NEW S, S \subseteq Workspaces, Archived(S),
           \A w \in S : ws[w].state \notin {"none", "preparing"}
    PROVE  /\ ws' \in [Workspaces -> Record]
           /\ disk' \in [Workspaces -> {"none", "failed", "orphaned", "archived"}]
           /\ \A w \in Workspaces \ S : ws'[w] = ws[w] /\ disk'[w] = disk[w]
           /\ \A w \in S : /\ ws'[w].state \in {"archived", "archive_pending"}
                           /\ ws'[w].claim = ws[w].claim /\ ws'[w].request = ws[w].request
  <1>1. PICK safe \in SUBSET S : \E written \in SUBSET (S \ safe) :
          /\ ws' = [w \in Workspaces |->
                      IF w \in safe THEN [ws[w] EXCEPT !.state = "archived"]
                      ELSE IF w \in S THEN [ws[w] EXCEPT !.state = "archive_pending"] ELSE ws[w]]
          /\ disk' = [w \in Workspaces |-> IF w \in safe \cup written THEN "archived" ELSE disk[w]]
    BY DEF Archived
  <1>2. PICK written \in SUBSET (S \ safe) :
          disk' = [w \in Workspaces |-> IF w \in safe \cup written THEN "archived" ELSE disk[w]]
    BY <1>1
  <1>3. ws \in [Workspaces -> Record]
        /\ disk \in [Workspaces -> {"none", "failed", "orphaned", "archived"}]
    BY WorkerFacts
  <1>4. ASSUME NEW w \in Workspaces
        PROVE  /\ ws'[w] \in Record
               /\ w \notin S => ws'[w] = ws[w]
               /\ w \in S => /\ ws'[w].state \in {"archived", "archive_pending"}
                             /\ ws'[w].claim = ws[w].claim /\ ws'[w].request = ws[w].request
    <2>0. ws[w] \in Record
      BY <1>3
    <2>1. CASE w \in safe
      <3>1. ws'[w] = [ws[w] EXCEPT !.state = "archived"] /\ w \in S
        BY <1>1, <2>1
      <3> QED BY <2>0, <3>1 DEF Record, States
    <2>2. CASE w \notin safe /\ w \in S
      <3>1. ws'[w] = [ws[w] EXCEPT !.state = "archive_pending"]
        BY <1>1, <2>2
      <3> QED BY <2>0, <2>2, <3>1 DEF Record, States
    <2>3. CASE w \notin S
      BY <1>1, <2>0, <2>3
    <2> QED BY <2>1, <2>2, <2>3
  <1>5. ws' \in [Workspaces -> Record]
    BY <1>1, <1>4
  <1>6. disk' \in [Workspaces -> {"none", "failed", "orphaned", "archived"}]
        /\ \A w \in Workspaces \ S : disk'[w] = disk[w]
    BY <1>2, <1>3
  <1> QED BY <1>4, <1>5, <1>6

\* Records that do not prepare are archived; who is told has none besides.
LEMMA ArchivedKeeps ==
    ASSUME WorkerInv, NEW S, S \subseteq Workspaces, Archived(S),
           \A w \in S : ws[w].state \notin {"none", "preparing"},
           UNCHANGED <<authorityVars, active, job>>,
           call' \in [GateIds -> Call],
           \A h \in GateIds : call'[h] = call[h] \/ call'[h] = NoCall,
           answered' \in [Claims -> {"nothing", "released", "closed"}],
           \A c \in Claims : \/ answered'[c] = answered[c]
                             \/ Over(c) /\ Of(c) \subseteq S
    PROVE  WorkerInv'
  <1>1. /\ ws' \in [Workspaces -> Record]
        /\ disk' \in [Workspaces -> {"none", "failed", "orphaned", "archived"}]
        /\ \A w \in Workspaces \ S : ws'[w] = ws[w] /\ disk'[w] = disk[w]
        /\ \A w \in S : /\ ws'[w].state \in {"archived", "archive_pending"}
                        /\ ws'[w].claim = ws[w].claim /\ ws'[w].request = ws[w].request
    BY ArchivedFacts
  <1>2. TypeOK'
    <2>1. AuthorityTypeOK'
      BY NothingMoves DEF RowsStay
    <2>2. ASSUME NEW w \in Workspaces
          PROVE  /\ ws'[w].state = "preparing" <=> job'[w] # "none"
                 /\ ws'[w].state = "none" => disk'[w] = "none"
      <3>1. CASE w \in S
        BY <1>1, <3>1, WorkerFacts
      <3>2. CASE w \notin S
        BY <1>1, <3>2, WorkerFacts
      <3> QED BY <3>1, <3>2
    <2>3. active' \in [Claims -> BOOLEAN] /\ job' \in [Workspaces -> Phases]
      BY WorkerFacts
    <2> QED BY <1>1, <2>1, <2>2, <2>3 DEF TypeOK
  <1>3. ASSUME NEW w \in Workspaces, ws'[w].state = "ready" \/ job'[w] = "observed"
        PROVE  answered'[ws[w].claim] = "nothing"
    <2>1. w \notin S
      BY <1>1, <1>3, WorkerFacts
    <2>2. ws[w].state = "ready" \/ job[w] = "observed"
      BY <1>1, <1>3, <2>1
    <2>3. answered[ws[w].claim] = "nothing"
      BY <2>2, ObservedUntold
    <2>4. RecordOK(w) /\ ws[w].state # "none"
      BY <2>2, WorkerFacts
    <2>5. ws[w].claim \in Claims
      BY <2>4 DEF RecordOK, NoRecord
    <2>6. ~(Of(ws[w].claim) \subseteq S)
      BY <2>1 DEF Of
    <2> QED BY <2>3, <2>5, <2>6
  <1>4. \A w \in Workspaces :
              \/ ws'[w] = ws[w]
              \/ /\ ws[w].state # "none" /\ ws'[w].state # "none"
                 /\ ws'[w].claim = ws[w].claim /\ ws'[w].request = ws[w].request
                 /\ ws'[w].state # "preparing"
    BY <1>1
  <1> QED BY <1>2, <1>3, <1>4, RecordsMove

\* A close archives what its tenure has.
LEMMA ArchiveClosedKeeps ==
    ASSUME WorkerInv, NEW g \in GateIds, ArchiveClosed(g)
    PROVE  WorkerInv'
  <1>0. /\ At(g, "close", "archive") /\ Answer(g)
        /\ UNCHANGED <<authorityVars, active, job>>
    BY DEF ArchiveClosed
  <1>1. PICK c \in Claims : c = call[g].claim
    BY <1>0, AtFacts
  <1>2. Over(c) /\ ~Busy(c)
    <2>1. call[g].locked
      BY <1>0, AtFacts
    <2> QED BY <1>0, <1>1, <2>1, AtFacts
  <1>3. /\ Archived(Of(c)) /\ answered' = [answered EXCEPT ![c] = "closed"]
    BY <1>1 DEF ArchiveClosed, Tell
  <1>4. Of(c) \subseteq Workspaces /\ \A w \in Of(c) : ws[w].state \notin {"none", "preparing"}
    <2>1. \A w \in Of(c) : w \in Workspaces /\ ws[w].claim = c /\ RecordOK(w)
      BY WorkerFacts DEF Of
    <2>2. \A w \in Of(c) : ws[w].state # "none"
      BY <2>1, ClaimFacts DEF RecordOK, NoRecord
    <2> QED BY <1>2, <2>1, <2>2 DEF Busy
  <1>5. /\ call' \in [GateIds -> Call]
        /\ \A h \in GateIds : call'[h] = call[h] \/ call'[h] = NoCall
    BY <1>0, WorkerFacts, NoCallType DEF Answer
  <1>6. /\ answered' \in [Claims -> {"nothing", "released", "closed"}]
        /\ \A d \in Claims : answered'[d] = answered[d] \/ d = c
    BY <1>3, WorkerFacts
  <1>7. \A d \in Claims : answered'[d] = answered[d] \/ (Over(d) /\ Of(d) \subseteq Of(c))
    BY <1>2, <1>6
  <1> QED BY <1>0, <1>3, <1>4, <1>5, <1>6, <1>7, ArchivedKeeps

\* checkout_archive keeps the invariant.
LEMMA ArchiveKeeps ==
    ASSUME WorkerInv, NEW w \in Workspaces, Archive(w)
    PROVE  WorkerInv'
  <1>1. /\ Archived({w}) /\ ws[w].state \notin {"none", "preparing"}
        /\ UNCHANGED <<authorityVars, call, active, job, answered>>
    BY DEF Archive, Archivable
  <1>2. /\ call' \in [GateIds -> Call]
        /\ answered' \in [Claims -> {"nothing", "released", "closed"}]
    BY <1>1, WorkerFacts
  <1> QED BY <1>1, <1>2, ArchivedKeeps

-----------------------------------------------------------------------------
(* Goroutines.                                                               *)

\* The goroutine of w goes on, or ends with its record decided.
LEMMA JobMoves ==
    ASSUME WorkerInv, NEW w \in Workspaces, job[w] # "none",
           UNCHANGED <<authorityVars, call, answered>>, active' \in [Claims -> BOOLEAN],
           \/ \E ph \in Phases \ {"none", "observed"} : Phase(w, ph)
           \/ Phase(w, "observed") /\ answered[ws[w].claim] = "nothing"
           \/ \E s \in {"failed", "orphaned"} : Ended(w, s)
           \/ /\ ws' = [ws EXCEPT ![w].state = "ready"] /\ disk' = disk
              /\ job' = [job EXCEPT ![w] = "none"] /\ answered[ws[w].claim] = "nothing"
    PROVE  WorkerInv'
  <1>1. /\ ws \in [Workspaces -> Record] /\ job \in [Workspaces -> Phases]
        /\ disk \in [Workspaces -> {"none", "failed", "orphaned", "archived"}]
        /\ ws[w].state = "preparing" /\ ws[w] \in Record
        /\ \A v \in Workspaces : /\ ws[v].state = "preparing" <=> job[v] # "none"
                                 /\ ws[v].state = "none" => disk[v] = "none"
    BY WorkerFacts
  <1>2. /\ AuthorityTypeOK' /\ call' \in [GateIds -> Call]
        /\ answered' \in [Claims -> {"nothing", "released", "closed"}]
    BY WorkerFacts, NothingMoves DEF RowsStay
  <1>3. \A v \in Workspaces : (ws[v].state = "ready" \/ job[v] = "observed")
                                  => answered'[ws[v].claim] = "nothing"
    BY ObservedUntold
  <1>4. ASSUME NEW ph \in Phases \ {"none"}, Phase(w, ph),
               ph = "observed" => answered[ws[w].claim] = "nothing"
        PROVE  WorkerInv'
    <2>1. ws' = ws /\ disk' = disk /\ job' = [job EXCEPT ![w] = ph]
      BY <1>4 DEF Phase
    <2>2. TypeOK'
      BY <1>1, <1>2, <2>1 DEF TypeOK
    <2>3. \A v \in Workspaces : (ws'[v].state = "ready" \/ job'[v] = "observed")
                                    => answered'[ws[v].claim] = "nothing"
      BY <1>1, <1>3, <1>4, <2>1
    <2> QED BY <2>1, <2>2, <2>3, RecordsMove
  <1>5. ASSUME NEW s \in {"failed", "orphaned", "ready"},
               ws' = [ws EXCEPT ![w].state = s], job' = [job EXCEPT ![w] = "none"],
               disk' \in [Workspaces -> {"none", "failed", "orphaned", "archived"}],
               \A v \in Workspaces : v # w => disk'[v] = disk[v],
               s = "ready" => answered[ws[w].claim] = "nothing"
        PROVE  WorkerInv'
    <2>1. [ws[w] EXCEPT !.state = s] \in Record
      BY <1>1 DEF Record, States
    <2>2. /\ ws' \in [Workspaces -> Record] /\ job' \in [Workspaces -> Phases]
          /\ ws'[w].state = s /\ job'[w] = "none"
          /\ ws'[w].claim = ws[w].claim /\ ws'[w].request = ws[w].request
          /\ \A v \in Workspaces : v # w => ws'[v] = ws[v] /\ job'[v] = job[v]
      <3>1. "none" \in Phases
        BY DEF Phases
      <3>2. ws'[w] = [ws[w] EXCEPT !.state = s]
        BY <1>1, <1>5
      <3>3. /\ ws'[w].state = s /\ ws'[w].claim = ws[w].claim /\ ws'[w].request = ws[w].request
        BY <1>1, <3>2 DEF Record
      <3> QED BY <1>1, <1>5, <2>1, <3>1, <3>3
    <2>3. ASSUME NEW v \in Workspaces
          PROVE  /\ ws'[v].state = "preparing" <=> job'[v] # "none"
                 /\ ws'[v].state = "none" => disk'[v] = "none"
      <3>1. CASE v = w
        BY <2>2, <3>1
      <3>2. CASE v # w
        BY <1>1, <1>5, <2>2, <3>2
      <3> QED BY <3>1, <3>2
    <2>4. TypeOK'
      BY <1>2, <1>5, <2>2, <2>3 DEF TypeOK
    <2>5. ASSUME NEW v \in Workspaces, ws'[v].state = "ready" \/ job'[v] = "observed"
          PROVE  answered'[ws[v].claim] = "nothing"
      <3>1. CASE v = w
        BY <1>5, <2>2, <2>5, <3>1
      <3>2. CASE v # w
        BY <1>3, <2>2, <2>5, <3>2
      <3> QED BY <3>1, <3>2
    <2>6. \A v \in Workspaces :
              \/ ws'[v] = ws[v]
              \/ /\ ws[v].state # "none" /\ ws'[v].state # "none"
                 /\ ws'[v].claim = ws[v].claim /\ ws'[v].request = ws[v].request
                 /\ ws'[v].state # "preparing"
      BY <1>1, <2>2
    <2> QED BY <2>4, <2>5, <2>6, RecordsMove
  <1>6. ASSUME NEW s \in {"failed", "orphaned"}, Ended(w, s) PROVE WorkerInv'
    <2>1. /\ ws' = [ws EXCEPT ![w].state = s] /\ job' = [job EXCEPT ![w] = "none"]
          /\ \E d \in {s, disk[w]} : disk' = [disk EXCEPT ![w] = d]
      BY <1>6 DEF Ended, Put, Recovered
    <2>2. /\ disk' \in [Workspaces -> {"none", "failed", "orphaned", "archived"}]
          /\ \A v \in Workspaces : v # w => disk'[v] = disk[v]
      BY <1>1, <2>1
    <2> QED BY <1>5, <2>1, <2>2
  <1>7. "observed" \in Phases
    BY DEF Phases
  <1> QED BY <1>1, <1>4, <1>5, <1>6, <1>7

\* Every step of a goroutine keeps the invariant.
LEMMA JobStepKeeps ==
    ASSUME WorkerInv, NEW w \in Workspaces, JobStep(w)
    PROVE  WorkerInv'
  <1>0. active \in [Claims -> BOOLEAN]
    BY WorkerFacts
  <1>1. ASSUME Lost(w)
        PROVE  \/ \E ph \in Phases \ {"none", "observed"} : Phase(w, ph)
               \/ \E s \in {"failed", "orphaned"} : Ended(w, s)
    BY <1>1 DEF Lost, Phases
  <1>2. CASE WorkFails(w)
    <2>1. /\ Phase(w, "failing") /\ "failing" \in Phases \ {"none", "observed"} /\ job[w] # "none"
          /\ UNCHANGED <<authorityVars, call, answered, active>>
      BY <1>2 DEF WorkFails, Phases
    <2> QED BY <1>0, <2>1, JobMoves
  <1>3. CASE Abandon(w)
    <2>1. /\ \E s \in {"failed", "orphaned"} : Ended(w, s)
          /\ job[w] # "none" /\ UNCHANGED <<authorityVars, call, answered, active>>
      BY <1>3 DEF Abandon
    <2> QED BY <1>0, <2>1, JobMoves
  <1>4. CASE Revalidate(w)
    <2>1. /\ job[w] # "none" /\ UNCHANGED <<authorityVars, call, answered, active>>
          /\ Lost(w) \/ \E ph \in Phases \ {"none", "observed"} : Phase(w, ph)
      BY <1>4 DEF Revalidate, Phases
    <2> QED BY <1>0, <1>1, <2>1, JobMoves
  <1>5. CASE JobLook(w)
    <2>1. /\ job[w] # "none" /\ UNCHANGED <<authorityVars, call, answered>>
          /\ \E look : Believed(ws[w].claim, look)
          /\ Lost(w) \/ \E ph \in Phases \ {"none", "observed"} : Phase(w, ph)
      BY <1>5 DEF JobLook, Phases
    <2>2. active' \in [Claims -> BOOLEAN]
      BY <1>0, <2>1 DEF Believed
    <2> QED BY <1>1, <2>1, <2>2, JobMoves
  <1>6. CASE Observe(w)
    <2>1. job[w] # "none" /\ UNCHANGED <<authorityVars, call, answered, active>>
      BY <1>6 DEF Observe
    <2>2. \/ IsHeld(ws[w].claim) /\ Phase(w, "observed")
          \/ \E ph \in {"restore", "failing"} : Phase(w, ph)
          \/ Ended(w, "failed")
      BY <1>6 DEF Observe
    <2>3. {"restore", "failing"} \subseteq Phases \ {"none", "observed"}
      BY DEF Phases
    <2>4. IsHeld(ws[w].claim) => answered[ws[w].claim] = "nothing"
      <3>1. ws[w].state = "preparing" /\ RecordOK(w)
        BY <2>1, WorkerFacts
      <3>2. ws[w].claim \in Claims
        BY <3>1 DEF RecordOK, NoRecord
      <3> QED BY <3>2, HeldFacts
    <2> QED BY <1>0, <2>1, <2>2, <2>3, <2>4, JobMoves
  <1>7. CASE Deliver(w)
    <2>1. /\ job[w] = "observed" /\ UNCHANGED <<authorityVars, call, answered, active>>
          /\ \/ /\ ws' = [ws EXCEPT ![w].state = "ready"] /\ disk' = disk
                /\ job' = [job EXCEPT ![w] = "none"]
             \/ Ended(w, "failed")
      BY <1>7 DEF Deliver
    <2>2. answered[ws[w].claim] = "nothing"
      BY <2>1, ObservedUntold
    <2> QED BY <1>0, <2>1, <2>2, JobMoves
  <1> QED BY <1>2, <1>3, <1>4, <1>5, <1>6, <1>7 DEF JobStep

-----------------------------------------------------------------------------
(* Restarts, and the whole.                                                  *)

\* Recovery forgets calls and threads, and what was never written.
LEMMA RestartKeeps ==
    ASSUME WorkerInv, Restart
    PROVE  WorkerInv'
  <1>1. /\ call' = [g \in GateIds |-> NoCall] /\ active' = [c \in Claims |-> FALSE]
        /\ job' = [w \in Workspaces |-> "none"]
        /\ ws' = [w \in Workspaces |-> IF disk[w] = "none" THEN NoRecord
                                       ELSE [ws[w] EXCEPT !.state = disk[w]]]
        /\ disk' = disk /\ answered' = answered /\ UNCHANGED authorityVars
    BY DEF Restart
  <1>2. RowsStay /\ receipts' = receipts /\ claims' = claims
    BY <1>1, NothingMoves DEF authorityVars
  <1>3. ASSUME NEW w \in Workspaces
        PROVE  /\ ws'[w] \in Record
               /\ \/ ws'[w] = NoRecord /\ disk[w] = "none"
                  \/ /\ ws'[w].state \in {"failed", "orphaned", "archived"}
                     /\ ws[w].state # "none" /\ RecordOK(w)
                     /\ ws'[w].claim = ws[w].claim /\ ws'[w].request = ws[w].request
    <2>0. /\ ws[w] \in Record /\ disk[w] \in {"none", "failed", "orphaned", "archived"}
          /\ RecordOK(w)
      BY WorkerFacts
    <2>1. CASE disk[w] = "none"
      BY <1>1, <2>1, NoCallType
    <2>2. CASE disk[w] # "none"
      <3>1. ws'[w] = [ws[w] EXCEPT !.state = disk[w]]
        BY <1>1, <2>2
      <3>2. ws[w].state # "none"
        BY <2>2, WorkerFacts
      <3> QED BY <2>0, <2>2, <3>1, <3>2 DEF Record, States
    <2> QED BY <2>1, <2>2
  <1>4. TypeOK'
    <2>1. ws' \in [Workspaces -> Record]
      BY <1>1, <1>3
    <2>2. call' \in [GateIds -> Call] /\ active' \in [Claims -> BOOLEAN]
      BY <1>1, NoCallType
    <2>3. job' \in [Workspaces -> Phases]
      BY <1>1 DEF Phases
    <2>4. \A w \in Workspaces : /\ ws'[w].state = "preparing" <=> job'[w] # "none"
                                /\ ws'[w].state = "none" => disk'[w] = "none"
      BY <1>1, <1>3 DEF NoRecord
    <2>5. /\ disk' \in [Workspaces -> {"none", "failed", "orphaned", "archived"}]
          /\ answered' \in [Claims -> {"nothing", "released", "closed"}]
      BY <1>1, WorkerFacts
    <2> QED BY <1>2, <2>1, <2>2, <2>3, <2>4, <2>5 DEF TypeOK, RowsStay
  <1>5. \A c \in Claims : EndOK(c)'
    BY <1>1, <1>2, SameEnds
  <1>6. \A g \in GateIds : CallOK(g)'
    BY <1>1 DEF CallOK
  <1>7. ASSUME NEW w \in Workspaces PROVE RecordOK(w)'
    <2>1. CASE ws'[w] = NoRecord
      BY <2>1 DEF RecordOK
    <2>2. CASE ws'[w] # NoRecord
      <3>1. /\ ws'[w].state # "none" /\ ws[w].state # "none" /\ RecordOK(w)
            /\ ws'[w].claim = ws[w].claim /\ ws'[w].request = ws[w].request
        BY <1>3, <2>2
      <3>2. /\ ws[w].claim \in Claims /\ claims[ws[w].claim].state # "free"
            /\ ws[w].request \in Requests
        BY <3>1 DEF RecordOK, NoRecord
      <3>3. job'[w] = "none"
        BY <1>1
      <3> QED BY <1>2, <3>1, <3>2, <3>3 DEF RecordOK
    <2> QED BY <2>1, <2>2
  <1>8. ClosedHasNonePreparing' /\ AnsweredLeavesNoneReady'
    BY <1>3 DEF ClosedHasNonePreparing, AnsweredLeavesNoneReady, NoRecord
  <1>9. OneJobPerRequest'
    <2>1. OneJobPerRequest
      BY DEF WorkerInv
    <2>2. SUFFICES ASSUME NEW v \in Workspaces, NEW w \in Workspaces, ws'[v].state # "none",
                          ws'[v].claim = ws'[w].claim, ws'[v].request = ws'[w].request
                   PROVE  v = w
      BY DEF OneJobPerRequest
    <2>3. /\ ws[v].state # "none" /\ ws'[v].claim = ws[v].claim /\ ws'[v].request = ws[v].request
          /\ ws'[v].claim \in Claims
      BY <1>3, <2>2 DEF NoRecord, RecordOK
    <2>4. ws'[w] # NoRecord
      <3>1. NoRecord.claim \notin Claims
        BY ClaimFacts DEF NoRecord
      <3> QED BY <2>2, <2>3, <3>1
    <2>5. ws'[w].claim = ws[w].claim /\ ws'[w].request = ws[w].request
      BY <1>3, <2>4
    <2> QED BY <2>1, <2>2, <2>3, <2>5 DEF OneJobPerRequest
  <1> QED BY <1>2, <1>4, <1>5, <1>6, <1>7, <1>8, <1>9 DEF WorkerInv, RowsStay

\* Nothing of the workers changes when only rows do.
LEMMA RowsOnly ==
    ASSUME WorkerInv, RowsStay, UNCHANGED <<receipts, workerVars>>
    PROVE  WorkerInv'
  <1>1. UNCHANGED <<receipts, call, active, ws, disk, job, answered>>
    BY DEF workerVars
  <1>2. TypeOK'
    BY <1>1, WorkerFacts DEF TypeOK, RowsStay
  <1>3. \A h \in GateIds : CallOK(h)'
    BY <1>1, CallStays
  <1>4. \A w \in Workspaces : RecordOK(w)'
    BY <1>1, WorkerFacts DEF RecordOK, RowsStay
  <1>5. \A c \in Claims : EndOK(c)'
    BY <1>1, SameEnds
  <1>6. ClosedHasNonePreparing' /\ AnsweredLeavesNoneReady' /\ OneJobPerRequest'
    BY <1>1 DEF WorkerInv, ClosedHasNonePreparing, AnsweredLeavesNoneReady, OneJobPerRequest
  <1> QED BY <1>2, <1>3, <1>4, <1>5, <1>6 DEF WorkerInv, RowsStay

\* An empty store without calls satisfies the invariant.
LEMMA WorkerInitInv == Init => WorkerInv
  <1> SUFFICES ASSUME Init PROVE WorkerInv
    OBVIOUS
  <1>1. AuthorityTypeOK /\ RowsOK /\ receipts = {} /\ claims = [c \in Claims |-> FreeRow]
    BY AuthorityInitOK DEF Init, AuthorityInit
  <1>2. /\ call = [g \in GateIds |-> NoCall] /\ active = [c \in Claims |-> FALSE]
        /\ ws = [w \in Workspaces |-> NoRecord] /\ disk = [w \in Workspaces |-> "none"]
        /\ job = [w \in Workspaces |-> "none"] /\ answered = [c \in Claims |-> "nothing"]
    BY DEF Init
  <1>3. TypeOK
    BY <1>1, <1>2, NoCallType DEF TypeOK, Phases, NoRecord
  <1>4. \A c \in Claims : TenureOK(c) /\ EndOK(c)
    BY <1>1, <1>2 DEF TenureOK, EndOK, FreeRow
  <1>5. /\ \A g \in GateIds : CallOK(g)
        /\ \A w \in Workspaces : RecordOK(w)
    BY <1>2 DEF CallOK, RecordOK
  <1>6. ClosedHasNonePreparing /\ AnsweredLeavesNoneReady /\ OneJobPerRequest
    BY <1>2 DEF ClosedHasNonePreparing, AnsweredLeavesNoneReady, OneJobPerRequest, NoRecord
  <1> QED BY <1>1, <1>3, <1>4, <1>5, <1>6 DEF WorkerInv

\* Every step keeps the invariant.
LEMMA WorkerNextInv ==
    ASSUME WorkerInv, [Next]_vars
    PROVE  WorkerInv'
  <1>1. CASE \E i \in Issues : Claim(i)
    BY <1>1, ClaimMoves, RowsOnly
  <1>2. CASE \E c \in Claims : \/ StartRelease(c) \/ StartClose(c)
                               \/ \E r \in Requests : StartCheckout(c, r)
    BY <1>2, StartsKeep
  <1>3. CASE Authority
    BY <1>3, AuthorityMoves, RowsOnly
  <1>4. CASE Restart
    BY <1>4, RestartKeeps
  <1>5. ASSUME NEW g \in GateIds, Inside(g) PROVE WorkerInv'
    BY <1>5, LookCheckoutKeeps, AskReleaseKeeps, AskCloseKeeps, ArchiveClosedKeeps DEF Inside
  <1>6. ASSUME NEW g \in GateIds, TakeMutex(g) PROVE WorkerInv'
    BY <1>6, LockCheckoutKeeps, RetireKeeps, LockCloseKeeps DEF TakeMutex
  <1>7. ASSUME NEW w \in Workspaces, Archive(w) \/ JobStep(w) PROVE WorkerInv'
    BY <1>7, ArchiveKeeps, JobStepKeeps
  <1>8. CASE UNCHANGED vars
    <2>1. UNCHANGED authorityVars /\ UNCHANGED <<receipts, workerVars>>
      BY <1>8 DEF vars, authorityVars
    <2> QED BY <2>1, NothingMoves, RowsOnly
  <1> QED BY <1>1, <1>2, <1>3, <1>4, <1>5, <1>6, <1>7, <1>8 DEF Next

\* WorkerInv, which ties calls to their gates and answers to the end of their
\* tenures, holds in every reachable state, whatever is repeated or restarted.
THEOREM WorkerInvariance == Spec => []WorkerInv
  <1>1. Init => WorkerInv
    BY WorkerInitInv
  <1>2. WorkerInv /\ [Next]_vars => WorkerInv'
    BY WorkerNextInv
  <1> QED BY <1>1, <1>2, PTL DEF Spec

\* No close commits while a workspace of its tenure is being prepared, nor is
\* one begun afterwards (tools.go issue_close, worker_checkout.go).
THEOREM ClosedTenuresPrepareNothing == Spec => []ClosedHasNonePreparing
  <1>1. WorkerInv => ClosedHasNonePreparing
    BY DEF WorkerInv
  <1> QED BY <1>1, WorkerInvariance, PTL

\* No workspace is ready for a holder that was told its tenure ended.
THEOREM ToldHoldersHaveNoneReady == Spec => []AnsweredLeavesNoneReady
  <1>1. WorkerInv => AnsweredLeavesNoneReady
    BY DEF WorkerInv
  <1> QED BY <1>1, WorkerInvariance, PTL

\* A repeated checkout request never has a second record.
THEOREM RequestsHaveOneJob == Spec => []OneJobPerRequest
  <1>1. WorkerInv => OneJobPerRequest
    BY DEF WorkerInv
  <1> QED BY <1>1, WorkerInvariance, PTL
=============================================================================
