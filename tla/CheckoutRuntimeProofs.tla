----------------------- MODULE CheckoutRuntimeProofs -----------------------
(***************************************************************************)
(* Theorems about one `forged checkout`, for any issues, TTL, margin,       *)
(* heartbeat period and number of tries, tenures and keys.                   *)
(***************************************************************************)
EXTENDS CheckoutRuntime, LeaseAuthorityProofs, SequenceTheorems

\* What the authority promises to fields k.
Covered(k) == (k.active /\ k.left > 0) => Backed(k.issue, Me, k.claim, k.left)

\* A request that fits fields k when m keys were drawn.
FitsRuntime(k, q, m) ==
    q.tool = "issue_renew" => q.issue = k.issue /\ (q.op = "close" => m < MaxKeys)

Registrations == {<<>>, <<"preparing">>, <<"preparing", "ready">>}
Both == <<"preparing", "ready">>

\* The history fits phase f.
Reached(f) ==
    /\ f \in {"restore", "ready"} => posted # <<>>
    /\ f \in {"guard", "launch", "agent", "kill"} => posted = Both

-----------------------------------------------------------------------------
(* Fields and requests.                                                      *)

\* The fields of a Runtime have their types.
LEMMA FieldTypes ==
    ASSUME NEW k \in Runtime
    PROVE  /\ k.claim \in Nat /\ k.issue \in Issues \cup {NoIssue} /\ k.left \in 0..TTL
           /\ k.left \in Nat /\ k.pending \in Nat /\ k.beat \in 0..RenewEvery
  BY AuthorityAssumption DEF Runtime

\* fail: the lease is no longer believed in.
LEMMA FailedFields ==
    ASSUME NEW k \in Runtime
    PROVE  /\ Failed(k) \in Runtime /\ ~Failed(k).active /\ Failed(k).issue = k.issue
           /\ Failed(k).lost
  <1>1. Failed(k) \in Runtime
    BY DEF Failed, Runtime
  <1>2. Failed(k).issue = k.issue
    BY DEF Failed, Runtime
  <1>3. Failed(k).lost /\ ~Failed(k).active
    BY Zenon DEF Failed, Runtime
  <1> QED BY <1>1, <1>2, <1>3

\* The end of a Runtime.
LEMMA StoppedFields ==
    ASSUME NEW k \in Runtime
    PROVE  Stopped(k) \in Runtime /\ ~Stopped(k).active /\ Stopped(k).issue = k.issue
  <1>1. Stopped(k) \in Runtime
    BY DEF Stopped, Runtime
  <1>2. Stopped(k).issue = k.issue
    BY DEF Stopped, Runtime
  <1>3. ~Stopped(k).active
    BY Zenon DEF Stopped, Runtime
  <1> QED BY <1>1, <1>2, <1>3

\* The empty request is one, and a request just sent has no answer.
LEMMA AskedFields ==
    ASSUME rt \in Runtime, NEW op \in Ops,
           NEW tool \in {"issue_claim", "issue_renew", "issue_workspace", "issue_close",
                         "issue_release"}
    PROVE  /\ NoRequest \in Request /\ Ask(op, tool) \in Request
           /\ Ask(op, tool).op = op /\ Ask(op, tool).tool = tool
           /\ Ask(op, tool).issue = rt.issue /\ Ask(op, tool).out = "none"
           /\ Ask(op, tool).stage \in {"show", "kata"}
  <1> DEFINE st == IF tool = "issue_claim" THEN "show" ELSE "kata"
             q == Ask(op, tool)
             p == [NoRequest EXCEPT !.op = op, !.tool = tool, !.issue = rt.issue]
  <1>1. st \in {"show", "kata"}
    OBVIOUS
  <1>2. rt.issue \in Issues \cup {NoIssue} /\ rt.claim \in Nat
    BY FieldTypes
  <1>3. 0 \in 0..TTL /\ 0 \in 0..Tries /\ 1 \in 0..Tries
    BY AuthorityAssumption, RuntimeAssumption
  <1>4. NoRequest \in Request
    BY <1>3 DEF NoRequest, Request, NoClaim
  <1>5. p \in Request
    <2>1. op \in {"none"} \cup Ops
      OBVIOUS
    <2>2. tool \in {"none", "issue_claim", "issue_renew", "issue_workspace", "issue_close",
                    "issue_release"}
      OBVIOUS
    <2> QED BY <1>2, <1>4, <2>1, <2>2 DEF Request
  <1>6. q = [p EXCEPT !.claim = rt.claim, !.stage = st, !.try = 1]
    BY DEF Ask
  <1>7. q.op = op /\ q.tool = tool /\ q.issue = rt.issue /\ q.out = "none" /\ q.stage = st
    BY DEF Ask, NoRequest
  <1> HIDE DEF p, st, q
  <1>8. q \in Request
    BY <1>1, <1>2, <1>3, <1>5, <1>6 DEF Request
  <1> QED BY <1>1, <1>4, <1>7, <1>8 DEF q

\* A request without an answer says nothing yet.
LEMMA UnansweredOK ==
    ASSUME NEW q, q.out = "none", q.stage # "confirm"
    PROVE  AnswerOK(q)
  BY DEF AnswerOK

\* The time an answer grants is within the ttl and never more than its lease.
LEMMA AnswerTime ==
    ASSUME NEW q \in Request
    PROVE  /\ AnswerLeft(q) \in 0..TTL /\ Monus(q.span, q.age) \in 0..TTL
           /\ AnswerLeft(q) <= Monus(q.span, q.age)
  <1> USE AuthorityAssumption, RuntimeAssumption
  <1>1. q.span \in 0..TTL /\ q.age \in 0..TTL
    BY DEF Request
  <1> QED BY <1>1 DEF AnswerLeft, Smaller, Monus

\* An answer with a lease covers the fields it is applied to.
LEMMA AnswerCovers ==
    ASSUME AuthorityTypeOK, NEW q \in Request, AnswerOK(q), q.out = "ok",
           q.tool \in {"issue_claim", "issue_renew"}
    PROVE  Backed(q.issue, Me, q.got, AnswerLeft(q))
  <1>1. Backed(q.issue, Me, q.got, Monus(q.span, q.age))
    BY DEF AnswerOK
  <1>2. /\ AnswerLeft(q) \in Nat /\ Monus(q.span, q.age) \in Nat
        /\ AnswerLeft(q) <= Monus(q.span, q.age)
    BY AnswerTime, AuthorityAssumption
  <1> QED BY <1>1, <1>2, LeaseLastsLess DEF Backed

\* setLease after a renewal, whatever was answered.
LEMMA RenewedFields ==
    ASSUME AuthorityTypeOK, NEW k \in Runtime, NEW q \in Request, AnswerOK(q),
           q.tool = "issue_renew", q.issue = k.issue
    PROVE  /\ Renewed(k, q) \in Runtime /\ Renewed(k, q).issue = k.issue
           /\ Covered(Renewed(k, q))
  <1> DEFINE l == [k EXCEPT !.left = AnswerLeft(q)]
             a == [l EXCEPT !.active = TRUE]
  <1>1. AnswerLeft(q) \in 0..TTL
    BY AnswerTime
  <1>2. l \in Runtime /\ l.issue = k.issue /\ l.claim = k.claim /\ l.left = AnswerLeft(q)
    BY <1>1 DEF Runtime
  <1>3. \/ Renewed(k, q) = Failed(k)
        \/ Renewed(k, q) = Failed(l)
        \/ Renewed(k, q) = a /\ q.out = "ok" /\ q.got = k.claim
    BY DEF Renewed
  <1> HIDE DEF l
  <1>4. a \in Runtime /\ a.issue = l.issue /\ a.claim = l.claim /\ a.left = l.left
    BY <1>2 DEF Runtime
  <1> HIDE DEF a
  <1>5. ASSUME NEW f \in Runtime, Renewed(k, q) = Failed(f), f.issue = k.issue
        PROVE  /\ Renewed(k, q) \in Runtime /\ Renewed(k, q).issue = k.issue
               /\ Covered(Renewed(k, q))
    BY <1>5, FailedFields DEF Covered
  <1>6. ASSUME Renewed(k, q) = a, q.out = "ok", q.got = k.claim
        PROVE  Covered(a)
    <2>1. Backed(q.issue, Me, q.got, AnswerLeft(q))
      BY <1>6, AnswerCovers
    <2> QED BY <1>2, <1>4, <1>6, <2>1 DEF Covered
  <1> QED BY <1>2, <1>3, <1>4, <1>5, <1>6

-----------------------------------------------------------------------------
(* What a step of the command or the agent leaves behind.                    *)

\* The parts of the invariant, by name.
LEMMA InvFacts ==
    ASSUME CommandInv
    PROVE  /\ AuthorityTypeOK /\ RowsOK /\ AuthorityOK
           /\ rt \in Runtime /\ req \in [0..1 -> Request] /\ phase \in Phases
           /\ launched \in BOOLEAN /\ minted \in 0..MaxKeys
           /\ req[0] \in Request /\ req[1] \in Request
           /\ Covered(rt) /\ AnswerOK(req[0]) /\ FitsRuntime(rt, req[0], minted)
           /\ RequestOK(req[0]) /\ RequestOK(req[1]) /\ Reached(phase)
           /\ posted \in Registrations /\ posted \in Seq({"preparing", "ready"})
           /\ launched => posted = Both
  <1>1. 0 \in 0..1 /\ 1 \in 0..1
    OBVIOUS
  <1>2. AuthorityTypeOK /\ RowsOK /\ AuthorityOK
    BY DEF CommandInv, TypeOK, AuthorityOK
  <1>3. /\ rt \in Runtime /\ req \in [0..1 -> Request] /\ phase \in Phases
        /\ launched \in BOOLEAN /\ minted \in 0..MaxKeys /\ posted \in Seq({"preparing", "ready"})
    BY DEF CommandInv, TypeOK
  <1>4. Covered(rt) /\ AnswerOK(req[0]) /\ FitsRuntime(rt, req[0], minted)
    BY DEF CommandInv, Covered, DeadlineCover, FitsRuntime, AwaitedOK
  <1>5. Reached(phase) /\ posted \in Registrations /\ (launched => posted = Both)
    BY DEF CommandInv, ProgressOK, Reached, RegisteredInOrder, Registrations, Both
  <1>6. RequestOK(req[0]) /\ RequestOK(req[1])
    BY <1>1 DEF CommandInv
  <1> QED BY <1>1, <1>2, <1>3, <1>4, <1>5, <1>6

\* Any step outside the authority and its history.
LEMMA ClientInv ==
    ASSUME CommandInv, UNCHANGED authorityVars, UNCHANGED posted,
           NEW k \in Runtime, NEW r \in [0..1 -> Request], NEW f \in Phases,
           rt' = k, req' = r, phase' = f,
           launched' \in BOOLEAN, minted' \in 0..MaxKeys,
           Covered(k), AnswerOK(r[0]), FitsRuntime(k, r[0], minted'),
           RequestOK(r[0]), RequestOK(r[1]), Reached(f), launched' => posted = Both
    PROVE  CommandInv'
  <1>1. /\ AuthorityTypeOK /\ RowsOK /\ posted \in Registrations
        /\ posted \in Seq({"preparing", "ready"})
    BY InvFacts
  <1>2. AuthorityTypeOK' /\ RowsOK'
    BY <1>1 DEF authorityVars, AuthorityTypeOK, RowsOK
  <1>3. TypeOK'
    BY <1>1, <1>2 DEF TypeOK
  <1>4. claims' = claims
    BY DEF authorityVars
  <1>5. DeadlineCover'
    BY <1>4 DEF DeadlineCover, Covered, Backed, Lasts
  <1>6. RegisteredInOrder' /\ ProgressOK'
    BY <1>1 DEF RegisteredInOrder, ProgressOK, Registrations, Both, Reached
  <1>7. AnswerOK(req[0])' /\ AwaitedOK(req[0])'
    <2>1. AnswerOK(req[0])'
      BY <1>4 DEF AnswerOK, Backed, Lasts, Monus
    <2>2. AwaitedOK(req[0])'
      BY DEF AwaitedOK, FitsRuntime
    <2> QED BY <2>1, <2>2
  <1>8. ASSUME NEW s \in 0..1
        PROVE  RequestOK(req[s])'
    <2>1. RequestOK(r[s])
      BY <1>8
    <2> QED BY <2>1 DEF RequestOK, IsPosted
  <1> QED BY <1>2, <1>3, <1>5, <1>6, <1>7, <1>8 DEF CommandInv

\* A step that leaves fields k, request x awaited and phase f, and draws no key.
LEMMA FieldsInv ==
    ASSUME CommandInv, Same, NEW k \in Runtime, NEW x \in Request, NEW f \in Phases,
           rt' = k, phase' = f,
           req' = [req EXCEPT ![0] = x],
           Covered(k), AnswerOK(x), FitsRuntime(k, x, minted), RequestOK(x), Reached(f)
    PROVE  CommandInv'
  <1>1. /\ req \in [0..1 -> Request] /\ launched \in BOOLEAN /\ minted \in 0..MaxKeys
        /\ launched => posted = Both
        /\ RequestOK(req[1])
    BY InvFacts
  <1>2. /\ UNCHANGED authorityVars /\ UNCHANGED posted
        /\ minted' = minted /\ launched' = launched
    BY DEF Same
  <1> DEFINE r == [req EXCEPT ![0] = x]
  <1>3. r \in [0..1 -> Request] /\ r[0] = x /\ r[1] = req[1]
    BY <1>1
  <1>4. req' = r
    OBVIOUS
  <1> HIDE DEF r
  <1> QED BY <1>1, <1>2, <1>3, <1>4, ClientInv

\* A step that changes no request.
LEMMA QuietInv ==
    ASSUME CommandInv, Same, NEW k \in Runtime, NEW f \in Phases,
           rt' = k, phase' = f, UNCHANGED req,
           Covered(k), k.issue = rt.issue, Reached(f)
    PROVE  CommandInv'
  <1>1. /\ req \in [0..1 -> Request] /\ req[0] \in Request
        /\ AnswerOK(req[0]) /\ FitsRuntime(rt, req[0], minted) /\ RequestOK(req[0])
    BY InvFacts
  <1>2. FitsRuntime(k, req[0], minted)
    BY <1>1 DEF FitsRuntime
  <1>3. req' = [req EXCEPT ![0] = req[0]]
    BY <1>1
  <1> QED BY <1>1, <1>2, <1>3, FieldsInv

\* A request ends.
LEMMA DoneInv ==
    ASSUME CommandInv, Same, NEW k \in Runtime, NEW f \in Phases,
           rt' = k, phase' = f, Done, Covered(k), Reached(f)
    PROVE  CommandInv'
  <1>1. /\ NoRequest \in Request /\ AnswerOK(NoRequest) /\ RequestOK(NoRequest)
        /\ FitsRuntime(k, NoRequest, minted)
    <2>1. NoRequest \in Request
      <3>1. "claim" \in Ops
        BY DEF Ops
      <3> QED BY <3>1, InvFacts, AskedFields
    <2>2. NoRequest.out = "none" /\ NoRequest.stage = "none" /\ NoRequest.tool = "none"
      BY DEF NoRequest
    <2> QED BY <2>1, <2>2, UnansweredOK DEF RequestOK, FitsRuntime
  <1> QED BY <1>1, FieldsInv DEF Done, Send

\* A renewal is asked for, or the lease is given up at once.
LEMMA RenewForInv ==
    ASSUME CommandInv, Same, NEW op \in Ops, RenewFor(op), NEW f \in Phases, phase' = f,
           Reached(f), op = "close" => minted < MaxKeys
    PROVE  CommandInv'
  <1> DEFINE x == Ask(op, "issue_renew")
  <1>0. rt \in Runtime /\ Covered(rt) /\ req \in [0..1 -> Request]
    BY InvFacts
  <1>1. CASE MayRenew(rt)
    <2>1. req' = [req EXCEPT ![0] = x] /\ rt' = rt
      BY <1>1 DEF RenewFor, Send
    <2>2. /\ x \in Request /\ x.op = op /\ x.tool = "issue_renew" /\ x.issue = rt.issue
          /\ x.out = "none" /\ x.stage \in {"show", "kata"}
      BY <1>0, AskedFields
    <2> HIDE DEF x
    <2>3. AnswerOK(x) /\ RequestOK(x) /\ FitsRuntime(rt, x, minted)
      BY <2>2, UnansweredOK DEF RequestOK, FitsRuntime
    <2> QED BY <1>0, <2>1, <2>2, <2>3, FieldsInv
  <1>2. CASE ~MayRenew(rt)
    <2>1. rt' = Failed(rt) /\ UNCHANGED req
      BY <1>2 DEF RenewFor
    <2>2. Failed(rt) \in Runtime /\ Covered(Failed(rt)) /\ Failed(rt).issue = rt.issue
      BY <1>0, FailedFields DEF Covered
    <2> QED BY <2>1, <2>2, QuietInv
  <1> QED BY <1>1, <1>2

\* "leaving", "over" and the like promise nothing of the history.
LEMMA Unpromised ==
    \A f : f \notin {"restore", "ready", "guard", "launch", "agent", "kill"} => Reached(f)
  BY DEF Reached

-----------------------------------------------------------------------------
(* runCheckout.                                                              *)

\* A request of another tool than a renewal is sent.
LEMMA SendInv ==
    ASSUME CommandInv, Same, NEW f \in Phases, NEW x \in Request,
           rt' = rt, phase' = f, Send(x), Reached(f),
           x.tool # "issue_renew", x.out = "none", x.stage # "confirm", RequestOK(x)
    PROVE  CommandInv'
  <1>1. AnswerOK(x) /\ FitsRuntime(rt, x, minted)
    BY UnansweredOK DEF FitsRuntime
  <1> QED BY <1>1, InvFacts, FieldsInv DEF Send

\* A request is sent once more.
LEMMA AgainFields ==
    ASSUME CommandInv, NEW q \in Request, RequestOK(q), q.op \in Ops, q.try < Tries,
           q.tool \in {"issue_claim", "issue_workspace"}
    PROVE  /\ Again(q) \in Request /\ RequestOK(Again(q)) /\ Again(q).tool = q.tool
           /\ Again(q).out = "none" /\ Again(q).stage # "confirm"
  <1> DEFINE a == Ask(q.op, q.tool)
             x == [a EXCEPT !.issue = q.issue, !.try = q.try + 1]
  <1>1. /\ a \in Request /\ a.op = q.op /\ a.tool = q.tool /\ a.out = "none"
        /\ a.stage \in {"show", "kata"}
    BY InvFacts, AskedFields
  <1>2. q.issue \in Issues \cup {NoIssue} /\ q.try + 1 \in 0..Tries
    BY RuntimeAssumption DEF Request
  <1>3. Again(q) = x
    BY DEF Again
  <1> HIDE DEF a
  <1>4. /\ x \in Request /\ x.op = q.op /\ x.tool = q.tool /\ x.out = "none"
        /\ x.stage \in {"show", "kata"} /\ x.issue = q.issue
    BY <1>1, <1>2 DEF Request
  <1>5. RequestOK(x)
    BY <1>4 DEF RequestOK
  <1> QED BY <1>3, <1>4, <1>5

\* The attempt is prepared.
LEMMA StartClaimInv ==
    ASSUME CommandInv, NEW i \in Issues, StartClaim(i)
    PROVE  CommandInv'
  <1> DEFINE a == Ask("claim", "issue_claim")
             x == [a EXCEPT !.issue = i]
  <1>1. /\ a \in Request /\ a.tool = "issue_claim" /\ a.out = "none"
        /\ a.stage \in {"show", "kata"}
    BY InvFacts, AskedFields DEF Ops
  <1>2. Same /\ rt' = rt /\ phase' = phase /\ Send(x)
    BY DEF StartClaim
  <1> HIDE DEF a
  <1>3. /\ x \in Request /\ x.tool = "issue_claim" /\ x.out = "none" /\ x.issue = i
        /\ x.stage \in {"show", "kata"}
    BY <1>1 DEF Request
  <1> HIDE DEF x
  <1>4. RequestOK(x)
    BY <1>3 DEF RequestOK
  <1>5. phase \in Phases /\ Reached(phase)
    BY InvFacts
  <1> QED BY <1>2, <1>3, <1>4, <1>5, SendInv

\* The claim is granted, or its deadline has passed.
LEMMA GrantedInv ==
    ASSUME CommandInv, Same, NEW q \in Request, AnswerOK(q), q.out = "ok",
           q.tool = "issue_claim", Granted(q), Done
    PROVE  CommandInv'
  <1> DEFINE k == [rt EXCEPT !.claim = q.got, !.proof = TRUE, !.issue = q.issue,
                             !.left = AnswerLeft(q)]
             a == [k EXCEPT !.active = TRUE, !.beating = TRUE, !.beat = RenewEvery]
  <1>1. /\ rt \in Runtime /\ q.got \in Nat /\ q.issue \in Issues \cup {NoIssue}
        /\ AnswerLeft(q) \in 0..TTL /\ AuthorityTypeOK /\ Covered(rt)
    BY InvFacts, AnswerTime DEF Request
  <1>2. Backed(q.issue, Me, q.got, AnswerLeft(q))
    BY <1>1, AnswerCovers
  <1>3. /\ k \in Runtime /\ k.claim = q.got /\ k.issue = q.issue /\ k.left = AnswerLeft(q)
    BY <1>1 DEF Runtime
  <1>4. RenewEvery \in 0..RenewEvery
    BY RuntimeAssumption, AuthorityAssumption
  <1>5. \/ rt' = a /\ phase' = "capture"
        \/ rt' = k /\ phase' = "leaving"
    BY DEF Granted, GoTo
  <1> HIDE DEF k
  <1>6. a \in Runtime /\ a.claim = k.claim /\ a.issue = k.issue /\ a.left = k.left
    BY <1>3, <1>4 DEF Runtime
  <1> HIDE DEF a
  <1>7. Covered(k) /\ Covered(a)
    BY <1>2, <1>3, <1>6 DEF Covered
  <1>8. /\ "capture" \in Phases /\ "leaving" \in Phases
        /\ Reached("capture") /\ Reached("leaving")
    BY Unpromised DEF Phases
  <1>9. CASE rt' = a /\ phase' = "capture"
    BY <1>6, <1>7, <1>8, <1>9, DoneInv
  <1>10. CASE rt' = k /\ phase' = "leaving"
    BY <1>3, <1>7, <1>8, <1>10, DoneInv
  <1> QED BY <1>5, <1>9, <1>10

\* The answer to the claim.
LEMMA FinishClaimInv ==
    ASSUME CommandInv, FinishClaim
    PROVE  CommandInv'
  <1> DEFINE q == req[0]
  <1>1. /\ Same /\ q.tool = "issue_claim" /\ q.op = "claim"
        /\ \/ q.out = "ok" /\ Granted(q) /\ Done
           \/ q.out = "unknown" /\ q.try < Tries /\ Send(Again(q)) /\ UNCHANGED <<rt, phase>>
           \/ q.out # "ok" /\ GoTo("leaving") /\ Done /\ UNCHANGED rt
    BY DEF FinishClaim, Replied
  <1>2. /\ q \in Request /\ AnswerOK(q) /\ RequestOK(q) /\ phase \in Phases /\ Reached(phase)
        /\ rt \in Runtime /\ Covered(rt)
    BY InvFacts
  <1> HIDE DEF q
  <1>3. CASE q.out = "ok" /\ Granted(q) /\ Done
    BY <1>1, <1>2, <1>3, GrantedInv
  <1>4. CASE q.out = "unknown" /\ q.try < Tries /\ Send(Again(q)) /\ UNCHANGED <<rt, phase>>
    <2>1. q.op \in Ops
      BY <1>1 DEF Ops
    <2>2. /\ Again(q) \in Request /\ RequestOK(Again(q)) /\ Again(q).tool = q.tool
          /\ Again(q).out = "none" /\ Again(q).stage # "confirm"
      BY <1>1, <1>2, <1>4, <2>1, AgainFields
    <2> QED BY <1>1, <1>2, <1>4, <2>2, SendInv
  <1>5. CASE GoTo("leaving") /\ Done /\ UNCHANGED rt
    <2>1. phase' = "leaving" /\ "leaving" \in Phases /\ Reached("leaving")
      BY <1>5, Unpromised DEF GoTo, Phases
    <2> QED BY <1>1, <1>2, <1>5, <2>1, DoneInv
  <1> QED BY <1>1, <1>3, <1>4, <1>5

\* The steps of runCheckout that send nothing and change no field.
LEMMA PhaseInv ==
    ASSUME CommandInv, Same, UNCHANGED <<rt, req>>, NEW f \in Phases, phase' = f, Reached(f)
    PROVE  CommandInv'
  BY InvFacts, QuietInv

\* Capturing, restoring, failing, and the end of the agent.
LEMMA PhasesInv ==
    ASSUME CommandInv,
           \/ Captured \/ Restored \/ CommandFails \/ LostBeforeLaunch
           \/ AgentEnds \/ LoseAgent \/ Interrupt \/ AgentKilled
    PROVE  CommandInv'
  <1>1. Reached(phase)
    BY InvFacts
  <1>2. ASSUME Captured PROVE CommandInv'
    <2>1. "preparing" \in Phases /\ Reached("preparing")
      BY Unpromised DEF Phases
    <2> QED BY <1>2, <2>1, PhaseInv DEF Captured, GoTo
  <1>3. ASSUME Restored PROVE CommandInv'
    <2>1. "ready" \in Phases /\ Reached("ready")
      BY <1>1, <1>3 DEF Phases, Reached, Restored
    <2> QED BY <1>3, <2>1, PhaseInv DEF Restored, GoTo
  <1>4. "leaving" \in Phases /\ Reached("leaving")
    BY Unpromised DEF Phases
  <1>5. ASSUME CommandFails PROVE CommandInv'
    BY <1>4, <1>5, PhaseInv DEF CommandFails, GoTo
  <1>6. ASSUME LostBeforeLaunch PROVE CommandInv'
    BY <1>4, <1>6, PhaseInv DEF LostBeforeLaunch, GoTo
  <1>7. ASSUME AgentEnds \/ AgentKilled PROVE CommandInv'
    BY <1>4, <1>7, PhaseInv DEF AgentEnds, AgentKilled, GoTo
  <1>8. ASSUME LoseAgent \/ Interrupt PROVE CommandInv'
    <2>1. "kill" \in Phases /\ Reached("kill")
      BY <1>1, <1>8 DEF Phases, Reached, LoseAgent, Interrupt
    <2> QED BY <1>8, <2>1, PhaseInv DEF LoseAgent, Interrupt, GoTo
  <1> QED BY <1>2, <1>3, <1>5, <1>6, <1>7, <1>8

\* The agent is started once both registrations are in the history.
LEMMA LaunchInv ==
    ASSUME CommandInv, Launch
    PROVE  CommandInv'
  <1>1. /\ UNCHANGED authorityVars /\ UNCHANGED posted
        /\ phase' = "agent" /\ launched' = TRUE
        /\ rt' = rt /\ req' = req /\ minted' = minted /\ phase = "launch"
    BY DEF Launch, GoTo
  <1>2. posted = Both /\ Reached("agent") /\ "agent" \in Phases
    BY <1>1, InvFacts DEF Reached, Phases
  <1> QED BY <1>1, <1>2, InvFacts, ClientInv

\* Register and the Guard before the start confirm the lease first.
LEMMA StartConfirmInv ==
    ASSUME CommandInv, StartConfirm
    PROVE  CommandInv'
  <1>1. /\ Same /\ phase \in {"preparing", "ready", "guard"} /\ RenewFor(phase)
        /\ phase' = phase \/ phase' = "leaving"
    BY DEF StartConfirm, GoTo
  <1>2. /\ phase \in Phases /\ Reached(phase) /\ "leaving" \in Phases /\ Reached("leaving")
    BY InvFacts, Unpromised DEF Phases
  <1>3. phase \in Ops /\ phase # "close"
    BY <1>1 DEF Ops
  <1> QED BY <1>1, <1>2, <1>3, RenewForInv

\* What a renewal's answer makes of the fields.
LEMMA RenewedNow ==
    ASSUME CommandInv, req[0].tool = "issue_renew"
    PROVE  /\ Renewed(rt, req[0]) \in Runtime /\ Renewed(rt, req[0]).issue = rt.issue
           /\ Covered(Renewed(rt, req[0]))
  <1>1. /\ AuthorityTypeOK /\ rt \in Runtime /\ req[0] \in Request /\ AnswerOK(req[0])
        /\ FitsRuntime(rt, req[0], minted)
    BY InvFacts
  <1>2. req[0].issue = rt.issue
    BY <1>1 DEF FitsRuntime
  <1> QED BY <1>1, <1>2, RenewedFields

\* The lease is confirmed: the observation is sent, or the agent may start.
LEMMA FinishConfirmInv ==
    ASSUME CommandInv, FinishConfirm
    PROVE  CommandInv'
  <1> DEFINE k == Renewed(rt, req[0])
             x == Ask(phase, "issue_workspace")
  <1>1. /\ Same /\ phase \in {"preparing", "ready", "guard"} /\ req[0].tool = "issue_renew"
        /\ rt' = k
        /\ \/ phase' = "leaving" /\ Done
           \/ phase = "guard" /\ phase' = "launch" /\ Done
           \/ phase # "guard" /\ Send(x) /\ phase' = phase
    BY DEF FinishConfirm, Replied, GoTo
  <1>2. k \in Runtime /\ Covered(k)
    BY <1>1, RenewedNow
  <1> HIDE DEF k
  <1>3. phase \in Phases /\ Reached(phase) /\ rt \in Runtime
    BY InvFacts
  <1>4. CASE phase' = "leaving" /\ Done
    <2>1. "leaving" \in Phases /\ Reached("leaving")
      BY Unpromised DEF Phases
    <2> QED BY <1>1, <1>2, <1>4, <2>1, DoneInv
  <1>5. CASE phase = "guard" /\ phase' = "launch" /\ Done
    <2>1. "launch" \in Phases /\ Reached("launch")
      BY <1>3, <1>5 DEF Phases, Reached
    <2> QED BY <1>1, <1>2, <1>5, <2>1, DoneInv
  <1>6. CASE phase # "guard" /\ Send(x) /\ phase' = phase
    <2>1. phase \in Ops
      BY <1>1 DEF Ops
    <2>2. /\ x \in Request /\ x.op = phase /\ x.tool = "issue_workspace" /\ x.out = "none"
          /\ x.stage \in {"show", "kata"}
      BY <1>3, <2>1, AskedFields
    <2>3. req' = [req EXCEPT ![0] = x]
      BY <1>6 DEF Send
    <2> HIDE DEF x
    <2>4. AnswerOK(x) /\ FitsRuntime(k, x, minted)
      BY <2>2, UnansweredOK DEF FitsRuntime
    <2>5. RequestOK(x)
      BY <1>1, <1>3, <1>6, <2>2 DEF RequestOK, Reached
    <2> QED BY <1>1, <1>2, <1>3, <1>6, <2>2, <2>3, <2>4, <2>5, FieldsInv
  <1> QED BY <1>1, <1>4, <1>5, <1>6

\* An observation that was answered is in the history, and the command goes on.
LEMMA FinishRegisterInv ==
    ASSUME CommandInv, FinishRegister
    PROVE  CommandInv'
  <1> DEFINE q == req[0]
             f == IF phase = "preparing" THEN "restore" ELSE "guard"
  <1>1. /\ Same /\ UNCHANGED rt /\ phase \in {"preparing", "ready"}
        /\ q.tool = "issue_workspace" /\ q.op = phase
        /\ \/ q.out = "ok" /\ Done /\ phase' = f
           \/ q.out = "unknown" /\ q.try < Tries /\ Send(Again(q)) /\ UNCHANGED phase
           \/ Done /\ phase' = "leaving"
    BY DEF FinishRegister, Replied, Registered, GoTo
  <1>2. /\ q \in Request /\ RequestOK(q) /\ phase \in Phases /\ Reached(phase)
        /\ rt \in Runtime /\ Covered(rt) /\ posted \in Registrations
    BY InvFacts
  <1> HIDE DEF q
  <1>3. CASE q.out = "ok" /\ Done /\ phase' = f
    <2>1. IsPosted(phase)
      BY <1>1, <1>2, <1>3 DEF RequestOK
    <2>2. Reached(f)
      <3>1. CASE phase = "preparing"
        <4>1. posted # <<>>
          BY <2>1 DEF IsPosted
        <4> QED BY <3>1, <4>1 DEF Reached
      <3>2. CASE phase = "ready"
        <4>1. posted # <<>> /\ posted # <<"preparing">>
          BY <2>1, <3>2 DEF IsPosted
        <4> QED BY <1>2, <3>2, <4>1 DEF Reached, Registrations, Both
      <3> QED BY <1>1, <3>1, <3>2
    <2>3. f \in Phases
      BY DEF Phases
    <2> QED BY <1>1, <1>2, <1>3, <2>2, <2>3, DoneInv
  <1>4. CASE q.out = "unknown" /\ q.try < Tries /\ Send(Again(q)) /\ UNCHANGED phase
    <2>1. q.op \in Ops
      BY <1>1 DEF Ops
    <2>2. /\ Again(q) \in Request /\ RequestOK(Again(q)) /\ Again(q).tool = q.tool
          /\ Again(q).out = "none" /\ Again(q).stage # "confirm"
      BY <1>1, <1>2, <1>4, <2>1, AgainFields
    <2> QED BY <1>1, <1>2, <1>4, <2>2, SendInv
  <1>5. CASE Done /\ phase' = "leaving"
    <2>1. "leaving" \in Phases /\ Reached("leaving")
      BY Unpromised DEF Phases
    <2> QED BY <1>1, <1>2, <1>5, <2>1, DoneInv
  <1> QED BY <1>1, <1>3, <1>4, <1>5

-----------------------------------------------------------------------------
(* The agent's socket, the heartbeat and the shutdown.                       *)

\* A renewal's answer is applied, for a guard or for the heartbeat.
LEMMA FinishRenewInv ==
    ASSUME CommandInv, FinishGuard \/ FinishBeat
    PROVE  CommandInv'
  <1>1. /\ Same /\ UNCHANGED phase /\ Done /\ req[0].tool = "issue_renew"
        /\ rt' = Renewed(rt, req[0])
    BY DEF FinishGuard, FinishBeat, Replied
  <1>2. Renewed(rt, req[0]) \in Runtime /\ Covered(Renewed(rt, req[0]))
    BY <1>1, RenewedNow
  <1>3. phase \in Phases /\ Reached(phase)
    BY InvFacts
  <1> QED BY <1>1, <1>2, <1>3, DoneInv

\* A guard, and a close that will draw a key, confirm the lease first.
LEMMA StartCallInv ==
    ASSUME CommandInv, StartGuard \/ StartClose
    PROVE  CommandInv'
  <1>1. phase \in Phases /\ Reached(phase) /\ minted \in 0..MaxKeys
    BY InvFacts
  <1>2. CASE StartGuard
    BY <1>1, <1>2, RenewForInv DEF StartGuard, Ops
  <1>3. CASE StartClose
    BY <1>1, <1>3, RenewForInv DEF StartClose, Ops
  <1> QED BY <1>2, <1>3

\* A close is sent with its key.
LEMMA KeyedFields ==
    ASSUME rt \in Runtime, NEW key \in Nat
    PROVE  LET x == [Ask("close", "issue_close") EXCEPT !.key = key] IN
           /\ x \in Request /\ x.tool = "issue_close" /\ x.out = "none"
           /\ x.stage \in {"show", "kata"}
  <1> DEFINE a == Ask("close", "issue_close")
  <1>1. a \in Request /\ a.tool = "issue_close" /\ a.out = "none" /\ a.stage \in {"show", "kata"}
    BY AskedFields DEF Ops
  <1> HIDE DEF a
  <1>2. LET x == [a EXCEPT !.key = key] IN
        /\ x \in Request /\ x.tool = "issue_close" /\ x.out = "none"
        /\ x.stage \in {"show", "kata"}
    BY <1>1 DEF Request
  <1> QED BY <1>2 DEF a

\* A key is drawn for the close whose lease was confirmed.
LEMMA SendCloseInv ==
    ASSUME CommandInv, SendClose
    PROVE  CommandInv'
  <1> DEFINE k == Renewed(rt, req[0])
             m == minted + 1
             j == [k EXCEPT !.pending = m]
             x == [Ask("close", "issue_close") EXCEPT !.key = m]
             r == [req EXCEPT ![0] = x]
  <1>1. /\ UNCHANGED authorityVars /\ UNCHANGED posted
        /\ phase' = phase /\ launched' = launched
        /\ req[0].tool = "issue_renew" /\ req[0].op = "close"
        /\ \/ rt' = k /\ Done /\ UNCHANGED minted
           \/ minted' = m /\ rt' = j /\ req' = r
    BY DEF SendClose, Replied, Send
  <1>2. k \in Runtime /\ Covered(k) /\ k.issue = rt.issue
    BY <1>1, RenewedNow
  <1> HIDE DEF k
  <1>3. /\ phase \in Phases /\ Reached(phase) /\ rt \in Runtime /\ minted \in 0..MaxKeys
        /\ launched \in BOOLEAN /\ (launched => posted = Both)
        /\ req \in [0..1 -> Request] /\ RequestOK(req[1])
        /\ FitsRuntime(rt, req[0], minted)
    BY InvFacts
  <1>4. CASE rt' = k /\ Done /\ UNCHANGED minted
    <2>1. Same
      BY <1>1, <1>4 DEF Same
    <2> QED BY <1>1, <1>2, <1>3, <1>4, <2>1, DoneInv
  <1>5. CASE minted' = m /\ rt' = j /\ req' = r
    <2>1. minted < MaxKeys
      BY <1>1, <1>3 DEF FitsRuntime
    <2>2. m \in 0..MaxKeys /\ m \in Nat
      BY <1>3, <2>1, RuntimeAssumption
    <2> HIDE DEF m
    <2>3. j \in Runtime /\ j.issue = k.issue /\ j.left = k.left /\ j.claim = k.claim
      BY <1>2, <2>2 DEF Runtime
    <2>4. j.active <=> k.active
      BY <1>2, Zenon DEF Runtime
    <2> HIDE DEF j
    <2>5. Covered(j)
      BY <1>2, <2>3, <2>4 DEF Covered
    <2>6. x \in Request /\ x.tool = "issue_close" /\ x.out = "none" /\ x.stage \in {"show", "kata"}
      BY <1>3, <2>2, KeyedFields
    <2> HIDE DEF x
    <2>7. AnswerOK(x) /\ RequestOK(x) /\ \A n : FitsRuntime(j, x, n)
      BY <2>6, UnansweredOK DEF RequestOK, FitsRuntime
    <2>8. r \in [0..1 -> Request] /\ r[0] = x /\ r[1] = req[1]
      BY <1>3, <2>6
    <2> HIDE DEF r
    <2> QED BY <1>1, <1>3, <1>5, <2>2, <2>3, <2>5, <2>7, <2>8, ClientInv
  <1> QED BY <1>1, <1>4, <1>5

\* "retry" sends the kept request again.
LEMMA RetryCloseInv ==
    ASSUME CommandInv, RetryClose
    PROVE  CommandInv'
  <1> DEFINE x == [Ask("close", "issue_close") EXCEPT !.key = rt.pending]
  <1>1. /\ Same /\ rt' = rt /\ phase' = phase /\ Send(x)
    BY DEF RetryClose
  <1>2. rt \in Runtime /\ phase \in Phases /\ Reached(phase)
    BY InvFacts
  <1>3. rt.pending \in Nat
    BY <1>2, FieldTypes
  <1>4. x \in Request /\ x.tool = "issue_close" /\ x.out = "none" /\ x.stage \in {"show", "kata"}
    BY <1>2, <1>3, KeyedFields
  <1> HIDE DEF x
  <1>5. RequestOK(x)
    BY <1>4 DEF RequestOK
  <1> QED BY <1>1, <1>2, <1>4, <1>5, SendInv

\* The answer to a close: it takes the lease away, or only the pending close.
LEMMA FinishCloseInv ==
    ASSUME CommandInv, FinishClose
    PROVE  CommandInv'
  <1> DEFINE a == [rt EXCEPT !.pending = 0]
             b == [a EXCEPT !.active = FALSE]
  <1>1. Same /\ UNCHANGED phase /\ Done /\ (rt' = b \/ rt' = a \/ rt' = rt)
    BY DEF FinishClose
  <1>2. /\ rt \in Runtime /\ Covered(rt) /\ phase \in Phases /\ Reached(phase)
    BY InvFacts
  <1>3. a \in Runtime /\ a.issue = rt.issue /\ a.left = rt.left /\ a.claim = rt.claim
    BY <1>2 DEF Runtime
  <1>4. a.active <=> rt.active
    BY <1>2, Zenon DEF Runtime
  <1> HIDE DEF a
  <1>5. Covered(a)
    BY <1>2, <1>3, <1>4 DEF Covered
  <1>6. b \in Runtime
    BY <1>3 DEF Runtime
  <1>7. ~b.active
    BY <1>3, Zenon DEF Runtime
  <1> HIDE DEF b
  <1>8. Covered(b)
    BY <1>7 DEF Covered
  <1> QED BY <1>1, <1>2, <1>3, <1>5, <1>6, <1>8, DoneInv

\* The ticker fires.
LEMMA TickInv ==
    ASSUME CommandInv, Tick
    PROVE  CommandInv'
  <1> DEFINE k == [rt EXCEPT !.beat = RenewEvery, !.due = TRUE]
  <1>1. Same /\ UNCHANGED phase /\ UNCHANGED req /\ rt' = k
    BY DEF Tick
  <1>2. /\ rt \in Runtime /\ Covered(rt) /\ phase \in Phases /\ Reached(phase)
    BY InvFacts
  <1>3. RenewEvery \in 0..RenewEvery
    BY RuntimeAssumption, AuthorityAssumption
  <1>4. k \in Runtime /\ k.issue = rt.issue /\ k.left = rt.left /\ k.claim = rt.claim
    BY <1>2, <1>3 DEF Runtime
  <1>5. k.active <=> rt.active
    BY <1>2, Zenon DEF Runtime
  <1> HIDE DEF k
  <1>6. Covered(k)
    BY <1>2, <1>4, <1>5 DEF Covered
  <1> QED BY <1>1, <1>2, <1>4, <1>6, QuietInv

\* The heartbeat renews, sees a lapsed lease, or leaves a pending close alone.
LEMMA BeatInv ==
    ASSUME CommandInv, Beat
    PROVE  CommandInv'
  <1> DEFINE k == [rt EXCEPT !.due = FALSE]
             x == Ask("beat", "issue_renew")
  <1>1. /\ Same /\ UNCHANGED phase
        /\ \/ rt' = k /\ Send(x)
           \/ (rt' = Failed(k) \/ rt' = k) /\ UNCHANGED req
    BY DEF Beat
  <1>2. /\ rt \in Runtime /\ Covered(rt) /\ phase \in Phases /\ Reached(phase)
    BY InvFacts
  <1>3. k \in Runtime /\ k.issue = rt.issue /\ k.left = rt.left /\ k.claim = rt.claim
    BY <1>2 DEF Runtime
  <1>4. k.active <=> rt.active
    BY <1>2, Zenon DEF Runtime
  <1> HIDE DEF k
  <1>5. Covered(k)
    BY <1>2, <1>3, <1>4 DEF Covered
  <1>6. CASE rt' = k /\ Send(x)
    <2>1. /\ x \in Request /\ x.op = "beat" /\ x.tool = "issue_renew" /\ x.issue = rt.issue
          /\ x.out = "none" /\ x.stage \in {"show", "kata"}
      BY <1>2, AskedFields DEF Ops
    <2>2. req' = [req EXCEPT ![0] = x]
      BY <1>6 DEF Send
    <2> HIDE DEF x
    <2>3. AnswerOK(x) /\ RequestOK(x) /\ FitsRuntime(k, x, minted)
      BY <1>3, <2>1, UnansweredOK DEF RequestOK, FitsRuntime
    <2> QED BY <1>1, <1>2, <1>3, <1>5, <1>6, <2>1, <2>2, <2>3, FieldsInv
  <1>7. CASE rt' = Failed(k) /\ UNCHANGED req
    <2>1. Failed(k) \in Runtime /\ Failed(k).issue = rt.issue /\ Covered(Failed(k))
      BY <1>3, FailedFields DEF Covered
    <2> QED BY <1>1, <1>2, <1>7, <2>1, QuietInv
  <1>8. CASE rt' = k /\ UNCHANGED req
    BY <1>1, <1>2, <1>3, <1>5, <1>8, QuietInv
  <1> QED BY <1>1, <1>6, <1>7, <1>8

\* Shutdown ends the Runtime and, when there is one, releases the lease.
LEMMA ShutdownInv ==
    ASSUME CommandInv, Shutdown \/ FinishShutdown
    PROVE  CommandInv'
  <1>1. /\ rt \in Runtime /\ Covered(rt)
    BY InvFacts
  <1>2. /\ Stopped(rt) \in Runtime /\ Covered(Stopped(rt)) /\ Stopped(rt).issue = rt.issue
    BY <1>1, StoppedFields DEF Covered
  <1>3. /\ "shutdown" \in Phases /\ Reached("shutdown")
        /\ "over" \in Phases /\ Reached("over")
    BY Unpromised DEF Phases
  <1>4. CASE Shutdown
    <2> DEFINE x == Ask("shutdown", "issue_release")
    <2>1. /\ Same /\ rt' = Stopped(rt)
          /\ \/ Send(x) /\ phase' = "shutdown"
             \/ phase' = "over" /\ UNCHANGED req
      BY <1>4 DEF Shutdown, GoTo
    <2>2. /\ x \in Request /\ x.tool = "issue_release" /\ x.out = "none"
          /\ x.stage \in {"show", "kata"}
      BY <1>1, AskedFields DEF Ops
    <2> HIDE DEF x
    <2>3. AnswerOK(x) /\ RequestOK(x) /\ FitsRuntime(Stopped(rt), x, minted)
      BY <2>2, UnansweredOK DEF RequestOK, FitsRuntime
    <2>4. CASE Send(x) /\ phase' = "shutdown"
      <3>1. req' = [req EXCEPT ![0] = x]
        BY <2>4 DEF Send
      <3> QED BY <1>2, <1>3, <2>1, <2>2, <2>3, <2>4, <3>1, FieldsInv
    <2>5. CASE phase' = "over" /\ UNCHANGED req
      BY <1>2, <1>3, <2>1, <2>5, QuietInv
    <2> QED BY <2>1, <2>4, <2>5
  <1>5. CASE FinishShutdown
    BY <1>1, <1>3, <1>5, DoneInv DEF FinishShutdown, GoTo
  <1> QED BY <1>4, <1>5

-----------------------------------------------------------------------------
(* Requests given up on, and the end of the process.                         *)

\* What goes on as request 1.
LEMMA StrayOK ==
    ASSUME CommandInv, NEW stray \in LeftBehind
    PROVE  stray \in Request /\ RequestOK(stray)
  <1> DEFINE x == [req[0] EXCEPT !.age = 0, !.span = 0, !.try = 0]
  <1>1. /\ req[0] \in Request /\ req[1] \in Request /\ RequestOK(req[0]) /\ RequestOK(req[1])
        /\ rt \in Runtime
    BY InvFacts
  <1>2. NoRequest \in Request
    BY <1>1, AskedFields DEF Ops
  <1>3. RequestOK(NoRequest)
    BY DEF RequestOK, NoRequest
  <1>4. 0 \in 0..TTL /\ 0 \in 0..Tries
    BY AuthorityAssumption, RuntimeAssumption
  <1>5. /\ x \in Request /\ x.tool = req[0].tool /\ x.op = req[0].op
        /\ x.issue = req[0].issue /\ x.out = req[0].out
    BY <1>1, <1>4 DEF Request
  <1>6. stray = NoRequest \/ stray = x \/ stray = req[1]
    BY DEF LeftBehind
  <1> HIDE DEF x
  <1>7. RequestOK(x)
    BY <1>1, <1>5 DEF RequestOK
  <1> QED BY <1>1, <1>2, <1>3, <1>5, <1>6, <1>7

\* A request is given up on.
LEMMA GiveUpInv ==
    ASSUME CommandInv, GiveUp
    PROVE  CommandInv'
  <1>1. /\ Same /\ rt' = rt /\ phase' = phase
    BY DEF GiveUp
  <1>2. PICK stray \in LeftBehind :
            req' = [req EXCEPT ![0].stage = "reply", ![0].out = "unknown", ![1] = stray]
    BY DEF GiveUp
  <1>3. /\ req \in [0..1 -> Request] /\ req[0] \in Request /\ RequestOK(req[0])
        /\ FitsRuntime(rt, req[0], minted) /\ rt \in Runtime /\ Covered(rt)
        /\ phase \in Phases /\ Reached(phase) /\ launched \in BOOLEAN /\ minted \in 0..MaxKeys
        /\ (launched => posted = Both)
    BY InvFacts
  <1>4. stray \in Request /\ RequestOK(stray)
    BY StrayOK
  <1> DEFINE q == req[0]
             x == [q EXCEPT !.stage = "reply", !.out = "unknown"]
             r == [req EXCEPT ![0] = x, ![1] = stray]
  <1>5. req' = r
    BY <1>2, <1>3
  <1>6. /\ x \in Request /\ x.tool = q.tool /\ x.op = q.op /\ x.issue = q.issue
        /\ x.stage = "reply" /\ x.out = "unknown"
    BY <1>3 DEF Request
  <1> HIDE DEF x
  <1>7. r \in [0..1 -> Request] /\ r[0] = x /\ r[1] = stray
    BY <1>3, <1>4, <1>6
  <1>8. AnswerOK(x) /\ RequestOK(x) /\ FitsRuntime(rt, x, minted)
    BY <1>3, <1>6 DEF AnswerOK, RequestOK, FitsRuntime
  <1> HIDE DEF r, q
  <1>9. UNCHANGED authorityVars /\ UNCHANGED posted /\ minted' = minted /\ launched' = launched
    BY <1>1 DEF Same
  <1> QED BY <1>1, <1>3, <1>4, <1>5, <1>7, <1>8, <1>9, ClientInv

\* The process is killed.
LEMMA CrashInv ==
    ASSUME CommandInv, Crash
    PROVE  CommandInv'
  <1>1. Same /\ rt' = Stopped(rt) /\ phase' = "over"
    BY DEF Crash, GoTo
  <1>2. PICK stray \in LeftBehind : req' = [req EXCEPT ![0] = NoRequest, ![1] = stray]
    BY DEF Crash
  <1>3. /\ req \in [0..1 -> Request] /\ rt \in Runtime
        /\ launched \in BOOLEAN /\ minted \in 0..MaxKeys /\ (launched => posted = Both)
    BY InvFacts
  <1>4. stray \in Request /\ RequestOK(stray)
    BY StrayOK
  <1>5. NoRequest \in Request
    BY <1>3, AskedFields DEF Ops
  <1> DEFINE r == [req EXCEPT ![0] = NoRequest, ![1] = stray]
  <1>6. r \in [0..1 -> Request] /\ r[0] = NoRequest /\ r[1] = stray
    BY <1>3, <1>4, <1>5
  <1>7. req' = r
    BY <1>2
  <1> HIDE DEF r
  <1>8. AnswerOK(NoRequest) /\ RequestOK(NoRequest) /\ FitsRuntime(Stopped(rt), NoRequest, minted)
    BY DEF AnswerOK, RequestOK, FitsRuntime, NoRequest
  <1>9. Stopped(rt) \in Runtime /\ Covered(Stopped(rt))
    BY <1>3, StoppedFields DEF Covered
  <1>10. "over" \in Phases /\ Reached("over")
    BY Unpromised DEF Phases
  <1>11. UNCHANGED authorityVars /\ UNCHANGED posted /\ minted' = minted /\ launched' = launched
    BY <1>1 DEF Same
  <1> QED BY <1>1, <1>3, <1>4, <1>6, <1>7, <1>8, <1>9, <1>10, <1>11, ClientInv

-----------------------------------------------------------------------------
(* The daemon's side.                                                        *)

\* The history only grows, by the registration that is next.
Grows ==
    /\ posted' \in Registrations
    /\ posted # <<>> => posted' # <<>>
    /\ posted = Both => posted' = Both

\* A transaction keeps what covers the fields, and what backs an answer.
LEMMA TransactionCovers ==
    ASSUME AuthorityOK, Transaction
    PROVE  /\ \A k \in Runtime : Covered(k) => Covered(k)'
           /\ \A q \in Request : AnswerOK(q) => AnswerOK(q)'
  <1>1. ASSUME NEW k \in Runtime, Covered(k)
        PROVE  Covered(k)'
    <2>1. k.left \in Nat
      BY FieldTypes
    <2> QED BY <1>1, <2>1, BackedAfter DEF Covered, Me
  <1>2. ASSUME NEW q \in Request, AnswerOK(q)
        PROVE  AnswerOK(q)'
    <2>1. q.span \in Nat /\ Monus(q.span, q.age) \in Nat
      BY AnswerTime, AuthorityAssumption DEF Request
    <2>2. Monus(q.span, q.age)' = Monus(q.span, q.age)
      BY DEF Monus
    <2> QED BY <1>2, <2>1, <2>2, BackedAfter DEF AnswerOK, Me
  <1> QED BY <1>1, <1>2

\* A longer history keeps what was said of a shorter one.
LEMMA HistoryKeeps ==
    ASSUME CommandInv, UNCHANGED <<rt, phase, launched, minted>>, Grows
    PROVE  /\ posted' \in Seq({"preparing", "ready"}) /\ RegisteredInOrder' /\ ProgressOK'
           /\ \A q : RequestOK(q) => RequestOK(q)'
  <1>1. posted \in Registrations /\ Reached(phase) /\ (launched => posted = Both)
    BY InvFacts
  <1>2. posted' \in Seq({"preparing", "ready"})
    <2>1. <<>> \in Seq({"preparing", "ready"})
      OBVIOUS
    <2>2. <<"preparing">> \in Seq({"preparing", "ready"})
      OBVIOUS
    <2>3. <<"preparing", "ready">> \in Seq({"preparing", "ready"})
      OBVIOUS
    <2> QED BY <2>1, <2>2, <2>3, Zenon DEF Grows, Registrations
  <1>3. RegisteredInOrder' /\ ProgressOK'
    BY <1>1 DEF RegisteredInOrder, ProgressOK, Registrations, Both, Reached, Grows
  <1>4. ASSUME NEW state, IsPosted(state)
        PROVE  IsPosted(state)'
    <2>1. CASE posted' = posted
      BY <1>4, <2>1 DEF IsPosted
    <2>2. CASE posted = <<"preparing">> /\ posted' = Both
      <3>1. state = "preparing" /\ 1 \in DOMAIN posted' /\ posted'[1] = "preparing"
        BY <1>4, <2>2 DEF IsPosted, Both
      <3> QED BY <3>1 DEF IsPosted
    <2>3. posted # <<>>
      BY <1>4 DEF IsPosted
    <2> QED BY <1>1, <2>1, <2>2, <2>3 DEF Grows, Registrations, Both
  <1>5. ASSUME NEW q, RequestOK(q)
        PROVE  RequestOK(q)'
    BY <1>4, <1>5 DEF RequestOK, Grows
  <1> QED BY <1>2, <1>3, <1>5

\* A transaction that leaves x in slot s.
LEMMA SlotInv ==
    ASSUME CommandInv, Transaction, UNCHANGED <<rt, phase, launched, minted>>, Grows,
           NEW s \in 0..1, NEW x \in Request, req' = [req EXCEPT ![s] = x],
           RequestOK(x)',
           s = 0 => /\ AnswerOK(x)'
                    /\ x.op = req[0].op /\ x.tool = req[0].tool /\ x.issue = req[0].issue
    PROVE  CommandInv'
  <1>1. /\ AuthorityOK /\ rt \in Runtime /\ req \in [0..1 -> Request] /\ phase \in Phases
        /\ launched \in BOOLEAN /\ minted \in 0..MaxKeys /\ req[0] \in Request
        /\ Covered(rt) /\ AnswerOK(req[0]) /\ FitsRuntime(rt, req[0], minted)
    BY InvFacts
  <1>2. AuthorityTypeOK' /\ RowsOK'
    BY <1>1, TransactionType, TransactionRows DEF AuthorityOK
  <1>3. /\ posted' \in Seq({"preparing", "ready"}) /\ RegisteredInOrder' /\ ProgressOK'
        /\ \A q : RequestOK(q) => RequestOK(q)'
    BY HistoryKeeps
  <1>4. /\ req' \in [0..1 -> Request] /\ \A t \in 0..1 : req'[t] = IF t = s THEN x ELSE req[t]
    BY <1>1
  <1>5. TypeOK'
    BY <1>1, <1>2, <1>3, <1>4 DEF TypeOK
  <1>6. DeadlineCover'
    <2>1. PICK k \in Runtime : k = rt
      BY <1>1
    <2>2. Covered(k)'
      BY <1>1, <2>1, TransactionCovers
    <2>3. rt' = k
      BY <2>1
    <2> QED BY <2>2, <2>3 DEF DeadlineCover, Covered
  <1>7. AnswerOK(req[0])'
    <2>1. PICK q \in Request : q = req[0]
      BY <1>1
    <2>2. AnswerOK(q)'
      BY <1>1, <2>1, TransactionCovers
    <2>3. req'[0] = q \/ (req'[0] = x /\ s = 0)
      BY <1>4, <2>1
    <2> QED BY <2>2, <2>3 DEF AnswerOK
  <1>8. AwaitedOK(req[0])'
    <2>1. /\ req'[0].op = req[0].op /\ req'[0].tool = req[0].tool
          /\ req'[0].issue = req[0].issue
      BY <1>4
    <2> QED BY <1>1, <2>1 DEF AwaitedOK, FitsRuntime
  <1>9. ASSUME NEW t \in 0..1
        PROVE  RequestOK(req[t])'
    <2>1. PICK q : q = req[t]
      OBVIOUS
    <2>2. RequestOK(q)
      BY <2>1 DEF CommandInv
    <2>3. RequestOK(q)'
      BY <1>3, <2>2
    <2>4. req'[t] = q \/ req'[t] = x
      BY <1>4, <2>1
    <2> QED BY <2>3, <2>4 DEF RequestOK
  <1> QED BY <1>2, <1>3, <1>5, <1>6, <1>7, <1>8, <1>9 DEF CommandInv

\* The history stays.
LEMMA NothingPosted ==
    ASSUME CommandInv, UNCHANGED posted
    PROVE  Grows
  BY InvFacts DEF Grows

\* The facts about a request the daemon works on, by name.
LEMMA SlotFacts ==
    ASSUME CommandInv, NEW s \in 0..1
    PROVE  /\ req[s] \in Request /\ RequestOK(req[s]) /\ req \in [0..1 -> Request]
           /\ req[s].key \in Nat /\ req[s].got \in Nat /\ req[s].span \in 0..TTL
           /\ s = 0 => AnswerOK(req[s])
           /\ AuthorityOK /\ AuthorityTypeOK /\ RowsOK
  <1>1. /\ req[s] \in Request /\ req \in [0..1 -> Request]
        /\ (s = 0 => AnswerOK(req[s])) /\ AuthorityOK /\ AuthorityTypeOK /\ RowsOK
    BY InvFacts
  <1>2. RequestOK(req[s])
    BY DEF CommandInv
  <1>3. req[s].key \in Nat /\ req[s].got \in Nat /\ req[s].span \in 0..TTL
    BY <1>1 DEF Request
  <1> QED BY <1>1, <1>2, <1>3

\* A request goes on to another stage of its tool, unanswered.
LEMMA StageInv ==
    ASSUME CommandInv, Transaction, UNCHANGED <<rt, phase, launched, minted>>, UNCHANGED posted,
           NEW s \in 0..1, NEW x \in Request, req' = [req EXCEPT ![s] = x],
           x.op = req[s].op, x.tool = req[s].tool, x.issue = req[s].issue,
           req[s].stage # "reply", x.out = req[s].out,
           x.stage = "confirm" => x.tool = "issue_claim",
           s = 0 => (x.stage = "confirm" => Backed(x.issue, Me, x.got, x.span)')
    PROVE  CommandInv'
  <1>1. RequestOK(req[s]) /\ (s = 0 => AnswerOK(req[s]))
    BY SlotFacts
  <1>2. RequestOK(x)'
    BY <1>1 DEF RequestOK, IsPosted
  <1>3. s = 0 => AnswerOK(x)'
    BY <1>1 DEF AnswerOK
  <1> QED BY <1>2, <1>3, SlotInv, NothingPosted

\* The answer of a request given up on goes nowhere.
LEMMA UnheardInv ==
    ASSUME CommandInv, Transaction, UNCHANGED <<rt, phase, launched, minted>>, Grows,
           req' = [req EXCEPT ![1] = NoRequest]
    PROVE  CommandInv'
  <1>1. NoRequest \in Request
    BY InvFacts, AskedFields DEF Ops
  <1>2. RequestOK(NoRequest)'
    BY DEF RequestOK, NoRequest
  <1>3. 1 \in 0..1 /\ 1 # 0
    OBVIOUS
  <1> QED BY <1>1, <1>2, <1>3, SlotInv

\* An answer that grants no time.
LEMMA AnswerInv ==
    ASSUME CommandInv, Transaction, UNCHANGED <<rt, phase, launched, minted>>, Grows,
           NEW s \in 0..1, NEW out \in {"ok", "rejected"}, Answer(s, out),
           out = "ok" => req[s].tool \notin {"issue_claim", "issue_renew"},
           NEW op, op = req[s].op,
           (out = "ok" /\ req[s].tool = "issue_workspace") => IsPosted(op)'
    PROVE  CommandInv'
  <1> DEFINE q == req[s]
             y == [q EXCEPT !.out = out]
             x == [y EXCEPT !.stage = "reply"]
  <1>1. q \in Request /\ req \in [0..1 -> Request] /\ RequestOK(q)
    BY SlotFacts
  <1>2. CASE s = 0
    <2>1. req' = [req EXCEPT ![s] = x]
      BY <1>2 DEF Answer, Answered
    <2>2. /\ y \in Request /\ y.op = q.op /\ y.tool = q.tool /\ y.issue = q.issue
          /\ y.out = out
      BY <1>1 DEF Request
    <2> HIDE DEF y
    <2>3. /\ x \in Request /\ x.op = y.op /\ x.tool = y.tool /\ x.issue = y.issue
          /\ x.out = y.out /\ x.stage = "reply"
      BY <2>2 DEF Request
    <2> HIDE DEF x
    <2>4. PICK z \in Request : z = x
      BY <2>3
    <2>5. /\ z.op = op /\ z.tool = q.tool /\ z.issue = q.issue /\ z.out = out
          /\ z.stage = "reply" /\ req' = [req EXCEPT ![s] = z]
      BY <2>1, <2>2, <2>3, <2>4
    <2>6. AnswerOK(z)'
      BY <2>5 DEF AnswerOK
    <2>7. RequestOK(z)'
      <3>1. PICK t : t = q
        OBVIOUS
      <3>2. RequestOK(t)'
        BY <1>1, <3>1, HistoryKeeps
      <3>3. z.op = t.op /\ z.tool = t.tool /\ z.issue = t.issue
        BY <2>5, <3>1
      <3>4. (z.out = "ok" /\ z.tool = "issue_workspace") => IsPosted(z.op)'
        BY <2>5
      <3> QED BY <3>2, <3>3, <3>4 DEF RequestOK
    <2> HIDE DEF q
    <2> QED BY <1>2, <2>5, <2>6, <2>7, SlotInv DEF q
  <1>3. CASE s = 1
    <2>1. req' = [req EXCEPT ![1] = NoRequest]
      BY <1>3 DEF Answer, Answered
    <2> QED BY <2>1, UnheardInv
  <1> QED BY <1>2, <1>3

\* An answer with a lease that the authority then backs.
LEMMA AnswerLeaseInv ==
    ASSUME CommandInv, Transaction, UNCHANGED <<rt, phase, launched, minted>>, UNCHANGED posted,
           NEW s \in 0..1, NEW c \in Nat, NEW span \in 0..TTL, AnswerLease(s, c, span),
           req[s].tool \in {"issue_claim", "issue_renew"},
           NEW i, i = req[s].issue, s = 0 => Backed(i, Me, c, span)'
    PROVE  CommandInv'
  <1> DEFINE q == req[s]
             x == [q EXCEPT !.out = "ok", !.got = c, !.span = span, !.stage = "reply"]
  <1>1. q \in Request /\ req \in [0..1 -> Request] /\ AuthorityOK /\ RequestOK(q)
    BY SlotFacts
  <1>2. Grows
    BY NothingPosted
  <1>3. CASE s = 0
    <2>1. req' = [req EXCEPT ![s] = x]
      BY <1>3 DEF AnswerLease, Answered
    <2>2. /\ x \in Request /\ x.op = q.op /\ x.tool = q.tool /\ x.issue = q.issue
          /\ x.out = "ok" /\ x.stage = "reply" /\ x.got = c /\ x.span = span
      BY <1>1 DEF Request
    <2> HIDE DEF x
    <2>3. PICK y \in Request : y = x
      BY <2>2
    <2>4. /\ y.op = q.op /\ y.tool = q.tool /\ y.issue = i /\ y.out = "ok"
          /\ y.stage = "reply" /\ y.got = c /\ y.span = span
          /\ req' = [req EXCEPT ![s] = y]
      BY <2>1, <2>2, <2>3
    <2>5. /\ AuthorityTypeOK' /\ y.span \in Nat /\ y.age \in Nat
          /\ Monus(y.span, y.age) \in Nat /\ Monus(y.span, y.age) <= y.span
      <3>1. y.span \in 0..TTL /\ y.age \in 0..TTL
        BY DEF Request
      <3>2. AuthorityTypeOK'
        BY <1>1, TransactionType DEF AuthorityOK
      <3> QED BY <3>1, <3>2, AuthorityAssumption DEF Monus
    <2>6. Backed(y.issue, Me, y.got, Monus(y.span, y.age))'
      <3>1. Backed(i, Me, c, span)'
        BY <1>3
      <3>2. PICK n \in Nat : n = Monus(y.span, y.age)
        BY <2>5
      <3>3. Lasts(c, n)'
        BY <2>4, <2>5, <3>1, <3>2, LastsLessAfter DEF Backed
      <3>4. Backed(i, Me, c, n)'
        BY <3>1, <3>3 DEF Backed
      <3>5. Monus(y.span, y.age)' = n
        BY <3>2 DEF Monus
      <3> QED BY <2>4, <3>4, <3>5
    <2>7. AnswerOK(y)'
      BY <2>4, <2>6 DEF AnswerOK
    <2>8. RequestOK(y)'
      BY <1>1, <2>4 DEF RequestOK
    <2> HIDE DEF q
    <2> QED BY <1>2, <1>3, <2>4, <2>7, <2>8, SlotInv DEF q
  <1>4. CASE s = 1
    <2>1. req' = [req EXCEPT ![1] = NoRequest]
      BY <1>4 DEF AnswerLease, Answered
    <2> QED BY <1>2, <2>1, UnheardInv
  <1> QED BY <1>3, <1>4

\* issue_claim in the daemon: the issue is shown.
LEMMA ShowIssueInv ==
    ASSUME CommandInv, NEW s \in 0..1, ShowIssue(s), UNCHANGED <<rt, phase, launched, minted>>
    PROVE  CommandInv'
  <1> DEFINE x == [req[s] EXCEPT !.stage = "acquire"]
  <1>1. /\ Transaction /\ UNCHANGED posted
        /\ req[s].tool = "issue_claim" /\ req[s].stage = "show"
    BY QuietTransaction DEF ShowIssue, At
  <1>2. Grows
    BY <1>1, NothingPosted
  <1>3. CASE Answer(s, "rejected")
    BY <1>1, <1>2, <1>3, AnswerInv
  <1>4. CASE Forward(s, "acquire")
    <2>1. req[s] \in Request /\ req \in [0..1 -> Request]
      BY SlotFacts
    <2>2. req' = [req EXCEPT ![s] = x]
      BY <1>4, <2>1 DEF Forward
    <2>3. /\ x \in Request /\ x.op = req[s].op /\ x.tool = req[s].tool
          /\ x.issue = req[s].issue /\ x.out = req[s].out /\ x.stage = "acquire"
      BY <2>1 DEF Request
    <2> HIDE DEF x
    <2> QED BY <1>1, <2>2, <2>3, StageInv
  <1> QED BY <1>3, <1>4 DEF ShowIssue

\* ... and its lease acquired: what the answer will say is backed from here on.
LEMMA AcquireLeaseInv ==
    ASSUME CommandInv, NEW s \in 0..1, AcquireLease(s),
           UNCHANGED <<rt, phase, launched, minted>>
    PROVE  CommandInv'
  <1> DEFINE q == req[s]
  <1>1. /\ q \in Request /\ req \in [0..1 -> Request] /\ AuthorityOK /\ RequestOK(q)
    BY SlotFacts
  <1>2. /\ UNCHANGED posted /\ q.stage = "acquire" /\ q.tool = "issue_claim" /\ q.issue \in Issues
    BY <1>1 DEF AcquireLease, At, RequestOK
  <1>3. CASE Answer(s, "rejected") /\ UNCHANGED authorityVars
    <2>1. Grows /\ Transaction
      BY <1>2, <1>3, NothingPosted, QuietTransaction
    <2> HIDE DEF q
    <2> QED BY <1>2, <1>3, <2>1, AnswerInv DEF q
  <1>4. ASSUME NEW c \in Claims, Acquire(q.issue, Me, c),
               req' = [req EXCEPT ![s].stage = "confirm", ![s].got = c,
                                  ![s].span = IF s = 0 THEN claims'[c].left ELSE 0]
        PROVE  CommandInv'
    <2>1. Me \in Nat
      BY DEF Me
    <2>2. Transaction
      BY <1>2, <1>4, <2>1 DEF Transaction
    <2>3. PICK i \in Issues : i = q.issue
      BY <1>2
    <2>4. Acquire(i, Me, c)
      BY <1>4, <2>3
    <2>5. /\ claims'[c].left \in 0..TTL
          /\ \A n : n = claims'[c].left => Backed(i, Me, c, n)'
      BY <1>1, <2>1, <2>2, <2>4, AcquiredBacked DEF Me
    <2>6. PICK n \in 0..TTL : n = IF s = 0 THEN claims'[c].left ELSE 0
      BY <2>5, AuthorityAssumption
    <2> DEFINE x == [q EXCEPT !.stage = "confirm", !.got = c, !.span = n]
    <2>7. req' = [req EXCEPT ![s] = x]
      <3>1. req' = [req EXCEPT ![s].stage = "confirm", ![s].got = c, ![s].span = n]
        BY <1>4, <2>6
      <3> QED BY <1>1, <3>1
    <2>8. c \in Nat
      BY AuthorityAssumption DEF Claims
    <2>9. /\ x \in Request /\ x.op = q.op /\ x.tool = q.tool /\ x.issue = q.issue
          /\ x.out = q.out /\ x.stage = "confirm" /\ x.got = c /\ x.span = n
      BY <1>1, <2>8 DEF Request
    <2> HIDE DEF x
    <2>10. PICK y \in Request : y = x
      BY <2>9
    <2>11. s = 0 => Backed(i, Me, c, n)'
      BY <2>5, <2>6
    <2>12. /\ y.op = q.op /\ y.tool = q.tool /\ y.issue = q.issue /\ y.issue = i
           /\ y.out = q.out /\ y.got = c /\ y.span = n /\ req' = [req EXCEPT ![s] = y]
      BY <2>3, <2>7, <2>9, <2>10
    <2>13. s = 0 => Backed(y.issue, Me, y.got, y.span)'
      BY <2>11, <2>12
    <2> HIDE DEF q
    <2> QED BY <1>2, <2>2, <2>12, <2>13, StageInv DEF q
  <1> QED BY <1>3, <1>4 DEF AcquireLease

\* ... confirmed, or cleaned up when the issue was closed meanwhile.
LEMMA ConfirmIssueInv ==
    ASSUME CommandInv, NEW s \in 0..1, ConfirmIssue(s),
           UNCHANGED <<rt, phase, launched, minted>>
    PROVE  CommandInv'
  <1> DEFINE q == req[s]
             x == [q EXCEPT !.stage = "cleanup"]
  <1>1. /\ q \in Request /\ req \in [0..1 -> Request] /\ AuthorityOK
        /\ q.got \in Nat /\ q.span \in 0..TTL /\ (s = 0 => AnswerOK(q))
    BY SlotFacts
  <1>2. /\ UNCHANGED posted /\ Transaction /\ q.stage = "confirm" /\ q.tool = "issue_claim"
    BY QuietTransaction DEF ConfirmIssue, At
  <1>3. CASE AnswerLease(s, q.got, q.span)
    <2>1. PICK i : i = q.issue
      OBVIOUS
    <2>2. PICK c \in Nat, n \in 0..TTL : c = q.got /\ n = q.span
      BY <1>1
    <2>3. s = 0 => Backed(i, Me, c, n)
      BY <1>1, <1>2, <2>1, <2>2 DEF AnswerOK
    <2>4. n \in Nat
      BY AuthorityAssumption
    <2>5. s = 0 => Backed(i, Me, c, n)'
      BY <1>1, <1>2, <2>3, <2>4, BackedAfter DEF Me
    <2> HIDE DEF q
    <2> QED BY <1>2, <1>3, <2>1, <2>2, <2>5, AnswerLeaseInv DEF q
  <1>4. CASE Forward(s, "cleanup")
    <2>1. req' = [req EXCEPT ![s] = x]
      BY <1>1, <1>4 DEF Forward
    <2>2. /\ x \in Request /\ x.op = q.op /\ x.tool = q.tool /\ x.issue = q.issue
          /\ x.out = q.out /\ x.stage = "cleanup"
      BY <1>1 DEF Request
    <2> HIDE DEF x, q
    <2> QED BY <1>2, <2>1, <2>2, StageInv DEF q
  <1> QED BY <1>3, <1>4 DEF ConfirmIssue

\* ... and the lease of a refused claim given back, or left to its ttl.
LEMMA CleanupClaimInv ==
    ASSUME CommandInv, NEW s \in 0..1, CleanupClaim(s),
           UNCHANGED <<rt, phase, launched, minted>>
    PROVE  CommandInv'
  <1>1. RequestOK(req[s])
    BY SlotFacts
  <1>2. req[s].issue \in Issues /\ Me \in Nat
    BY <1>1 DEF RequestOK, CleanupClaim, At, Me
  <1>3. Transaction
    BY <1>2, QuietTransaction DEF CleanupClaim, Transaction
  <1>4. Grows
    BY NothingPosted DEF CleanupClaim
  <1> QED BY <1>3, <1>4, AnswerInv DEF CleanupClaim

\* issue_renew in the daemon.
LEMMA RenewLeaseInv ==
    ASSUME CommandInv, NEW s \in 0..1, RenewLease(s),
           UNCHANGED <<rt, phase, launched, minted>>
    PROVE  CommandInv'
  <1>1. /\ AuthorityOK /\ RowsOK /\ Me \in Nat
    BY SlotFacts DEF Me
  <1>2. UNCHANGED posted /\ req[s].tool = "issue_renew" /\ Grows
    BY NothingPosted DEF RenewLease, At
  <1>3. CASE Answer(s, "rejected") /\ UNCHANGED authorityVars
    <2>1. Transaction
      BY <1>3, QuietTransaction
    <2> QED BY <1>2, <1>3, <2>1, AnswerInv
  <1>4. ASSUME NEW c \in Claims, Renew(req[s].issue, Me, c), AnswerLease(s, c, TTL)
        PROVE  CommandInv'
    <2>1. PICK i : i = req[s].issue
      OBVIOUS
    <2>2. Renew(i, Me, c)
      BY <1>4, <2>1
    <2>3. i \in Issues
      BY <1>1, <2>2, LiveIssue DEF Renew
    <2>4. Transaction
      BY <1>1, <2>2, <2>3 DEF Transaction
    <2>5. Backed(i, Me, c, TTL)'
      BY <1>1, <2>2, RenewedBacked DEF Me
    <2>6. TTL \in 0..TTL /\ c \in Nat
      BY AuthorityAssumption DEF Claims
    <2>7. PICK n \in 0..TTL : n = TTL
      BY <2>6
    <2>8. Backed(i, Me, c, n)' /\ AnswerLease(s, c, n)
      BY <1>4, <2>5, <2>7
    <2> QED BY <1>2, <2>1, <2>4, <2>6, <2>8, AnswerLeaseInv
  <1> QED BY <1>3, <1>4 DEF RenewLease

\* issue_release in the daemon.
LEMMA ReleaseLeaseInv ==
    ASSUME CommandInv, NEW s \in 0..1, ReleaseLease(s),
           UNCHANGED <<rt, phase, launched, minted>>
    PROVE  CommandInv'
  <1>1. RowsOK /\ Me \in Nat
    BY SlotFacts DEF Me
  <1>2. Transaction
    <2>1. CASE Release(req[s].issue, Me)
      <3>1. req[s].issue \in Issues
        BY <1>1, <2>1, LiveIssue DEF Release
      <3> QED BY <1>1, <2>1, <3>1 DEF Transaction
    <2>2. CASE UNCHANGED authorityVars
      BY <2>2, QuietTransaction
    <2> QED BY <2>1, <2>2 DEF ReleaseLease
  <1>3. Grows /\ req[s].tool = "issue_release"
    BY NothingPosted DEF ReleaseLease, At
  <1> QED BY <1>2, <1>3, AnswerInv DEF ReleaseLease

\* issue_close in the daemon: done, done before, or refused.
LEMMA CloseIssueInv ==
    ASSUME CommandInv, NEW s \in 0..1, CloseIssue(s),
           UNCHANGED <<rt, phase, launched, minted>>
    PROVE  CommandInv'
  <1> DEFINE q == req[s]
  <1>1. q.key \in Nat /\ RowsOK /\ Me \in Nat
    BY SlotFacts DEF Me
  <1>2. Transaction
    <2>1. CASE CloseCommit(q.issue, Me, q.claim, q.key)
      <3>1. q.claim \in LiveOf(q.issue, Me)
        BY <2>1 DEF CloseCommit, GuardHolds
      <3>2. q.issue \in Issues /\ q.claim \in Claims
        BY <1>1, <3>1, LiveIssue DEF LiveOf, Live
      <3> QED BY <1>1, <2>1, <3>2 DEF Transaction
    <2>2. CASE UNCHANGED authorityVars
      BY <2>2, QuietTransaction
    <2> QED BY <2>1, <2>2 DEF CloseIssue, CloseReplay
  <1>3. Grows /\ req[s].tool = "issue_close"
    BY NothingPosted DEF CloseIssue, At
  <1>4. Answer(s, "ok") \/ Answer(s, "rejected")
    BY DEF CloseIssue
  <1> QED BY <1>2, <1>3, <1>4, AnswerInv

\* issue_workspace in the daemon: the lease is looked at ...
LEMMA LookBeforeCommentInv ==
    ASSUME CommandInv, NEW s \in 0..1, LookBeforeComment(s),
           UNCHANGED <<rt, phase, launched, minted>>
    PROVE  CommandInv'
  <1> DEFINE x == [req[s] EXCEPT !.stage = "comment"]
  <1>1. /\ Transaction /\ UNCHANGED posted
        /\ req[s].tool = "issue_workspace" /\ req[s].stage = "kata"
    BY QuietTransaction DEF LookBeforeComment, At
  <1>2. Grows
    BY <1>1, NothingPosted
  <1>3. CASE Answer(s, "rejected")
    BY <1>1, <1>2, <1>3, AnswerInv
  <1>4. CASE Forward(s, "comment")
    <2>1. req[s] \in Request /\ req \in [0..1 -> Request]
      BY SlotFacts
    <2>2. req' = [req EXCEPT ![s] = x]
      BY <1>4, <2>1 DEF Forward
    <2>3. /\ x \in Request /\ x.op = req[s].op /\ x.tool = req[s].tool
          /\ x.issue = req[s].issue /\ x.out = req[s].out /\ x.stage = "comment"
      BY <2>1 DEF Request
    <2> HIDE DEF x
    <2> QED BY <1>1, <2>2, <2>3, StageInv
  <1> QED BY <1>3, <1>4 DEF LookBeforeComment

\* A pair is what a second element makes of one.
LEMMA AppendToOne ==
    ASSUME NEW a, NEW b
    PROVE  Append(<<a>>, b) = <<a, b>>
  <1> DEFINE t == Append(<<a>>, b)
             u == <<a, b>>
  <1>1. <<a>> \in Seq({a, b}) /\ Len(<<a>>) = 1
    OBVIOUS
  <1>2. t \in Seq({a, b}) /\ Len(t) = 2 /\ t[1] = a /\ t[2] = b
    BY <1>1, AppendProperties
  <1>3. u \in Seq({a, b}) /\ Len(u) = 2 /\ u[1] = a /\ u[2] = b
    OBVIOUS
  <1> HIDE DEF t, u
  <1>4. \A i \in 1..Len(t) : t[i] = u[i]
    BY <1>2, <1>3
  <1>5. t = u
    BY <1>2, <1>3, <1>4, SeqEqual
  <1> QED BY <1>5 DEF t, u

\* What is posted is the next registration, or is there already.
LEMMA PostedGrows ==
    ASSUME CommandInv, NEW state \in {"preparing", "ready"}, state = "ready" => posted # <<>>,
           posted' = Posted(state)
    PROVE  Grows /\ IsPosted(state)'
  <1>1. posted \in Registrations
    BY InvFacts
  <1>2. CASE IsPosted(state)
    <2>1. posted' = posted
      BY <1>2 DEF Posted, IsPosted
    <2> QED BY <1>1, <1>2, <2>1 DEF Grows, IsPosted
  <1>3. CASE ~IsPosted(state)
    <2>1. posted' = Append(posted, state)
      BY <1>3 DEF Posted, IsPosted
    <2>2. CASE posted = <<>>
      <3>1. posted' = <<"preparing">> /\ state = "preparing"
        BY <2>1, <2>2
      <3>2. 1 \in DOMAIN posted' /\ posted'[1] = state
        BY <3>1
      <3> QED BY <2>2, <3>1, <3>2 DEF Grows, IsPosted, Registrations, Both
    <2>3. CASE posted = <<"preparing">>
      <3>1. 1 \in DOMAIN posted /\ posted[1] = "preparing"
        BY <2>3
      <3>2. state = "ready"
        BY <1>3, <3>1 DEF IsPosted
      <3>3. posted' = Both
        BY <2>1, <2>3, <3>2, AppendToOne DEF Both
      <3>4. 2 \in DOMAIN posted' /\ posted'[2] = state
        BY <3>2, <3>3 DEF Both
      <3> QED BY <2>3, <3>3, <3>4 DEF Grows, IsPosted, Registrations, Both
    <2>4. CASE posted = Both
      <3>1. /\ 1 \in DOMAIN posted /\ posted[1] = "preparing"
            /\ 2 \in DOMAIN posted /\ posted[2] = "ready"
        BY <2>4 DEF Both
      <3> QED BY <1>3, <3>1 DEF IsPosted
    <2> QED BY <1>1, <2>2, <2>3, <2>4 DEF Registrations, Both
  <1> QED BY <1>2, <1>3

\* ... and the observation is posted, once.
LEMMA PostCommentInv ==
    ASSUME CommandInv, NEW s \in 0..1, PostComment(s),
           UNCHANGED <<rt, phase, launched, minted>>
    PROVE  CommandInv'
  <1>1. PICK op : op = req[s].op
    OBVIOUS
  <1>2. /\ req[s].tool = "issue_workspace" /\ posted' = Posted(op) /\ Answer(s, "ok")
        /\ Transaction
    BY <1>1, QuietTransaction DEF PostComment, At
  <1>3. op \in {"preparing", "ready"} /\ (op = "ready" => posted # <<>>)
    BY <1>1, <1>2, SlotFacts DEF RequestOK
  <1>4. Grows /\ IsPosted(op)'
    BY <1>2, <1>3, PostedGrows
  <1> QED BY <1>1, <1>2, <1>4, AnswerInv

\* Every step of the daemon.
LEMMA ServerStepInv ==
    ASSUME CommandInv, NEW s \in 0..1, ServerStep(s)
    PROVE  CommandInv'
  BY ShowIssueInv, AcquireLeaseInv, ConfirmIssueInv, CleanupClaimInv, RenewLeaseInv,
     ReleaseLeaseInv, CloseIssueInv, LookBeforeCommentInv, PostCommentInv DEF ServerStep

-----------------------------------------------------------------------------
(* Time, everybody else, and the specification.                              *)

\* An answer counts the time since its request, and a lease not yet answered
\* runs in the authority.
LEMMA AgedFields ==
    ASSUME NEW q \in Request
    PROVE  /\ Aged(q) \in Request
           /\ Aged(q).op = q.op /\ Aged(q).tool = q.tool /\ Aged(q).stage = q.stage
           /\ Aged(q).issue = q.issue /\ Aged(q).got = q.got /\ Aged(q).out = q.out
           /\ (q.tool \in {"issue_claim", "issue_renew"} /\ q.out \in {"none", "ok"})
                 => /\ Aged(q).age = Smaller(q.age + 1, TTL)
                    /\ Aged(q).span = IF q.stage = "confirm" THEN Monus(q.span, 1) ELSE q.span
           /\ ~(q.tool \in {"issue_claim", "issue_renew"} /\ q.out \in {"none", "ok"})
                 => Aged(q) = q
  <1> DEFINE a == Smaller(q.age + 1, TTL)
             n == IF q.stage = "confirm" THEN Monus(q.span, 1) ELSE q.span
             timed == q.tool \in {"issue_claim", "issue_renew"} /\ q.out \in {"none", "ok"}
  <1>1. q.age \in 0..TTL /\ q.span \in 0..TTL
    BY DEF Request
  <1>2. a \in 0..TTL
    BY <1>1, AuthorityAssumption DEF Smaller
  <1>3. n \in 0..TTL
    BY <1>1, AuthorityAssumption DEF Monus
  <1>4. Aged(q) = IF timed THEN [q EXCEPT !.age = a, !.span = n] ELSE q
    BY DEF Aged
  <1> HIDE DEF a, n
  <1>5. CASE timed
    <2> DEFINE y == [q EXCEPT !.age = a, !.span = n]
    <2>1. /\ y \in Request /\ y.op = q.op /\ y.tool = q.tool /\ y.stage = q.stage
          /\ y.issue = q.issue /\ y.got = q.got /\ y.out = q.out /\ y.age = a /\ y.span = n
      BY <1>2, <1>3 DEF Request
    <2>2. Aged(q) = y
      BY <1>4, <1>5
    <2> HIDE DEF y
    <2> QED BY <1>5, <2>1, <2>2 DEF a, n
  <1>6. CASE ~timed
    BY <1>4, <1>6
  <1> QED BY <1>5, <1>6

\* A unit of time on the fields.
Later(k) == [k EXCEPT !.left = Monus(@, 1), !.beat = Monus(@, 1)]

\* The deadline comes nearer, and nothing else changes.
LEMMA LaterFields ==
    ASSUME NEW k \in Runtime
    PROVE  /\ Later(k) \in Runtime /\ Later(k).issue = k.issue /\ Later(k).claim = k.claim
           /\ Later(k).left = Monus(k.left, 1) /\ (Later(k).active <=> k.active)
  <1> DEFINE n == Monus(k.left, 1)
             b == Monus(k.beat, 1)
  <1>1. k.left \in 0..TTL /\ k.beat \in 0..RenewEvery
    BY FieldTypes
  <1>2. n \in 0..TTL
    BY <1>1, AuthorityAssumption DEF Monus
  <1>3. b \in 0..RenewEvery
    BY <1>1, AuthorityAssumption, RuntimeAssumption DEF Monus
  <1>4. Later(k) = [k EXCEPT !.left = n, !.beat = b]
    BY DEF Later
  <1> HIDE DEF n, b
  <1>5. Later(k) \in Runtime /\ Later(k).issue = k.issue /\ Later(k).claim = k.claim
        /\ Later(k).left = n
    BY <1>2, <1>3, <1>4 DEF Runtime
  <1>6. Later(k).active <=> k.active
    BY <1>4, Zenon DEF Runtime
  <1> QED BY <1>5, <1>6 DEF n

\* The authority's clock runs no faster than the Runtime's.
LEMMA ElapseCovers ==
    ASSUME AuthorityOK, Elapse
    PROVE  /\ \A k \in Runtime : Covered(k) => Covered(Later(k))'
           /\ \A q \in Request : AnswerOK(q) => AnswerOK(Aged(q))'
  <1>1. ASSUME NEW i, NEW c, NEW n \in Nat, NEW m, m = Monus(n, 1), Backed(i, Me, c, n)
        PROVE  Backed(i, Me, c, m)'
    BY <1>1, ElapseBacked DEF Me
  <1>2. ASSUME NEW k \in Runtime, Covered(k)
        PROVE  Covered(Later(k))'
    <2>1. k.left \in Nat
      BY <1>2, FieldTypes
    <2>2. PICK j : j = Later(k)
      OBVIOUS
    <2>3. /\ j.issue = k.issue /\ j.claim = k.claim /\ j.left = Monus(k.left, 1)
          /\ (j.active <=> k.active)
      BY <1>2, <2>2, LaterFields
    <2>4. (j.active /\ j.left > 0) => Backed(j.issue, Me, j.claim, j.left)'
      <3> SUFFICES ASSUME j.active, j.left > 0
                   PROVE  Backed(j.issue, Me, j.claim, j.left)'
        OBVIOUS
      <3>1. k.left > 0
        BY <2>1, <2>3 DEF Monus
      <3>2. Backed(j.issue, Me, j.claim, k.left)
        BY <1>2, <2>3, <3>1 DEF Covered
      <3> QED BY <1>1, <2>1, <2>3, <3>2
    <2>5. Covered(j)'
      BY <2>4 DEF Covered
    <2>6. Later(k)' = j
      BY <2>2 DEF Later, Monus
    <2> QED BY <2>5, <2>6 DEF Covered
  <1>3. ASSUME NEW q \in Request, AnswerOK(q)
        PROVE  AnswerOK(Aged(q))'
    <2>1. PICK y : y = Aged(q)
      OBVIOUS
    <2>2. /\ y.stage = q.stage /\ y.tool = q.tool /\ y.out = q.out /\ y.got = q.got
          /\ y.issue = q.issue
      BY <2>1, AgedFields
    <2>3. q.span \in 0..TTL /\ q.age \in 0..TTL /\ q.span \in Nat
      BY AuthorityAssumption DEF Request
    <2>4. ASSUME q.stage = "confirm"
          PROVE  Backed(y.issue, Me, y.got, y.span)'
      <3>1. q.tool = "issue_claim" /\ q.out = "none"
        BY <1>3, <2>4 DEF AnswerOK, Request
      <3>2. y.span = Monus(q.span, 1)
        BY <2>1, <2>4, <3>1, AgedFields
      <3>3. Backed(y.issue, Me, y.got, q.span)
        BY <1>3, <2>2, <2>4 DEF AnswerOK
      <3> QED BY <1>1, <2>3, <3>2, <3>3
    <2>5. ASSUME q.out = "ok", q.tool \in {"issue_claim", "issue_renew"}
          PROVE  Backed(y.issue, Me, y.got, Monus(y.span, y.age))'
      <3>1. q.stage = "reply"
        BY <1>3, <2>5 DEF AnswerOK
      <3>2. y.span = q.span /\ y.age = Smaller(q.age + 1, TTL)
        BY <2>1, <2>5, <3>1, AgedFields
      <3>3. PICK n \in Nat : n = Monus(q.span, q.age)
        BY <2>3 DEF Monus
      <3>4. PICK m : m = Monus(y.span, y.age)
        OBVIOUS
      <3>5. m = Monus(n, 1)
        BY <2>3, <3>2, <3>3, <3>4, AuthorityAssumption DEF Monus, Smaller
      <3>6. Backed(y.issue, Me, y.got, n)
        BY <1>3, <2>2, <2>5, <3>3 DEF AnswerOK
      <3>7. Backed(y.issue, Me, y.got, m)'
        BY <1>1, <3>5, <3>6
      <3>8. Monus(y.span, y.age)' = m
        BY <3>4 DEF Monus
      <3> QED BY <3>7, <3>8
    <2>6. AnswerOK(y)'
      BY <1>3, <2>2, <2>4, <2>5 DEF AnswerOK
    <2>7. Aged(q)' = y
      BY <2>1 DEF Aged, Monus, Smaller
    <2> QED BY <2>6, <2>7 DEF AnswerOK
  <1> QED BY <1>2, <1>3

\* Time passes for everybody.
LEMMA AdvanceInv ==
    ASSUME CommandInv, Advance
    PROVE  CommandInv'
  <1>1. /\ Elapse /\ UNCHANGED <<phase, launched, minted>> /\ posted' = posted
        /\ rt' = Later(rt) /\ req' = [req EXCEPT ![0] = Aged(req[0])]
    BY DEF Advance, Later
  <1>2. /\ AuthorityOK /\ rt \in Runtime /\ req \in [0..1 -> Request] /\ phase \in Phases
        /\ launched \in BOOLEAN /\ minted \in 0..MaxKeys /\ req[0] \in Request
        /\ Covered(rt) /\ AnswerOK(req[0]) /\ FitsRuntime(rt, req[0], minted)
        /\ RequestOK(req[0]) /\ RequestOK(req[1])
        /\ posted \in Seq({"preparing", "ready"})
    BY InvFacts
  <1>3. AuthorityTypeOK' /\ RowsOK'
    BY <1>1, <1>2, ElapseKeeps
  <1>4. PICK k \in Runtime, j \in Runtime : k = rt /\ j = Later(k)
    BY <1>2, LaterFields
  <1>5. PICK q \in Request, y \in Request : q = req[0] /\ y = Aged(q)
    BY <1>2, AgedFields
  <1>6. rt' = j /\ j.issue = rt.issue
    BY <1>1, <1>4, LaterFields
  <1>7. /\ req' \in [0..1 -> Request] /\ req'[0] = y /\ req'[1] = req[1]
    BY <1>1, <1>2, <1>5
  <1>8. y.op = q.op /\ y.tool = q.tool /\ y.issue = q.issue /\ y.out = q.out
    BY <1>5, AgedFields
  <1>9. Covered(j)' /\ AnswerOK(y)'
    <2>1. Covered(Later(k))' /\ AnswerOK(Aged(q))'
      BY <1>1, <1>2, <1>4, <1>5, ElapseCovers
    <2>2. Later(k)' = j /\ Aged(q)' = y
      BY <1>4, <1>5 DEF Later, Aged, Monus, Smaller
    <2> QED BY <2>1, <2>2 DEF Covered, AnswerOK
  <1>10. TypeOK'
    BY <1>1, <1>2, <1>3, <1>6, <1>7 DEF TypeOK
  <1>11. DeadlineCover' /\ AnswerOK(req[0])'
    BY <1>6, <1>7, <1>9 DEF DeadlineCover, Covered, AnswerOK
  <1>12. AwaitedOK(req[0])'
    BY <1>1, <1>2, <1>5, <1>6, <1>7, <1>8 DEF AwaitedOK, FitsRuntime
  <1>13. RegisteredInOrder' /\ ProgressOK'
    BY <1>1 DEF CommandInv, RegisteredInOrder, ProgressOK
  <1>14. ASSUME NEW s \in 0..1
         PROVE  RequestOK(req[s])'
    <2>1. RequestOK(y)
      BY <1>2, <1>5, <1>8 DEF RequestOK
    <2>2. RequestOK(req'[s])
      BY <1>2, <1>7, <2>1
    <2> QED BY <1>1, <2>2 DEF RequestOK, IsPosted
  <1> QED BY <1>3, <1>10, <1>11, <1>12, <1>13, <1>14 DEF CommandInv

\* Nothing a host, an operator or the sweeper does disturbs the command, and a
\* step that changes nothing does not.
LEMMA OthersInv ==
    ASSUME CommandInv, Others \/ UNCHANGED vars
    PROVE  CommandInv'
  <1>1. Transaction
    BY DEF Others, Transaction, vars, authorityVars
  <1>2. UNCHANGED <<rt, phase, launched, minted>> /\ UNCHANGED req /\ UNCHANGED posted
    BY DEF Others, runtimeVars, vars
  <1>3. /\ req[1] \in Request /\ RequestOK(req[1]) /\ req \in [0..1 -> Request]
    BY InvFacts
  <1>4. Grows
    BY <1>2, NothingPosted
  <1>5. PICK x \in Request : x = req[1]
    BY <1>3
  <1>6. RequestOK(x)'
    BY <1>2, <1>3, <1>4, <1>5, HistoryKeeps
  <1>7. 1 \in 0..1 /\ 1 # 0 /\ req' = [req EXCEPT ![1] = x]
    BY <1>2, <1>3, <1>5
  <1> QED BY <1>1, <1>2, <1>4, <1>6, <1>7, SlotInv

\* A command that has not begun obeys the invariant.
LEMMA InitInv == Init => CommandInv
  <1> SUFFICES ASSUME Init PROVE CommandInv
    OBVIOUS
  <1>1. AuthorityTypeOK /\ RowsOK
    BY AuthorityInitOK DEF Init
  <1>2. 0 \in 0..TTL /\ 0 \in 0..RenewEvery /\ 0 \in 0..Tries /\ 0 \in 0..MaxKeys
    BY AuthorityAssumption, RuntimeAssumption
  <1>3. NewRuntime \in Runtime
    BY <1>2 DEF NewRuntime, Runtime, NoClaim
  <1>4. NoRequest \in Request
    BY <1>2 DEF NoRequest, Request, NoClaim
  <1>5. /\ rt = NewRuntime /\ phase = "claim" /\ launched = FALSE /\ minted = 0
        /\ posted = <<>> /\ req = [s \in 0..1 |-> NoRequest]
    BY DEF Init
  <1>6. TypeOK
    <2>1. req \in [0..1 -> Request]
      BY <1>4, <1>5
    <2>2. posted \in Seq({"preparing", "ready"}) /\ launched \in BOOLEAN
      BY <1>5
    <2> QED BY <1>1, <1>2, <1>3, <1>5, <2>1, <2>2 DEF TypeOK, Phases
  <1>7. DeadlineCover
    BY <1>5 DEF DeadlineCover, NewRuntime
  <1>8. RegisteredInOrder /\ ProgressOK
    BY <1>5 DEF RegisteredInOrder, ProgressOK
  <1>9. AnswerOK(NoRequest) /\ AwaitedOK(NoRequest) /\ RequestOK(NoRequest)
    BY DEF AnswerOK, AwaitedOK, RequestOK, NoRequest
  <1>10. /\ req[0] = NoRequest /\ \A s \in 0..1 : req[s] = NoRequest
    BY <1>5
  <1> QED BY <1>1, <1>5, <1>6, <1>7, <1>8, <1>9, <1>10 DEF CommandInv

\* Every step.
LEMMA NextInv ==
    ASSUME CommandInv, [Next]_vars
    PROVE  CommandInv'
  <1>1. ASSUME Command PROVE CommandInv'
    BY <1>1, StartClaimInv, FinishClaimInv, PhasesInv, StartConfirmInv, FinishConfirmInv,
       FinishRegisterInv, LaunchInv, ShutdownInv DEF Command
  <1>2. ASSUME Agent \/ Finish PROVE CommandInv'
    BY <1>2, StartCallInv, RetryCloseInv, PhasesInv, FinishRenewInv, SendCloseInv,
       FinishCloseInv DEF Agent, Finish
  <1> QED BY <1>1, <1>2, ShutdownInv, TickInv, BeatInv, PhasesInv, CrashInv, ServerStepInv,
             GiveUpInv, AdvanceInv, OthersInv DEF Next

-----------------------------------------------------------------------------
\* The invariant of the command holds in every reachable state.
THEOREM CommandInvariance == Spec => []CommandInv
  <1>1. Init => CommandInv
    BY InitInv
  <1>2. CommandInv /\ [Next]_vars => CommandInv'
    BY NextInv
  <1> QED BY <1>1, <1>2, PTL DEF Spec

\* The variables of the command and the authority keep their types.
THEOREM CommandTypes == Spec => []TypeOK
  <1>1. CommandInv => TypeOK
    BY DEF CommandInv
  <1> QED BY <1>1, CommandInvariance, PTL

\* A deadline the Runtime believes in is covered by the authority: neither a
\* slow answer nor one that was lost and asked for again outlives the lease
\* (setLease and renew of internal/checkout/runtime.go).
THEOREM DeadlinesAreCovered == Spec => []DeadlineCover
  <1>1. CommandInv => DeadlineCover
    BY DEF CommandInv
  <1> QED BY <1>1, CommandInvariance, PTL

\* The history says "preparing" and then "ready", each once, and an agent was
\* started only after both, whatever was lost, sent again or carried out late.
THEOREM RegistrationsAreOrdered == Spec => []RegisteredInOrder
  <1>1. CommandInv => RegisteredInOrder
    BY DEF CommandInv
  <1> QED BY <1>1, CommandInvariance, PTL
=============================================================================
