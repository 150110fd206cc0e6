------------------------ MODULE SupervisedRuntimeProofs ------------------------
(***************************************************************************)
(* Theorems about the supervised runtime and its refinement of             *)
(* ExclusiveTenure, for any actors, instances, sessions, issues and         *)
(* workspaces, any TTL and margin, and any number of tenures and nonces;    *)
(* then about its checkouts, for any slots and any interleaving of the      *)
(* preparations with the handlers, the hosts, the ticks and restarts.       *)
(***************************************************************************)
EXTENDS TenureRefinement, SupervisedCheckout, LeaseAuthorityProofs

-----------------------------------------------------------------------------
(* Types of the pieces handlers build their new values from.                 *)

\* The empty records have their types.
LEMMA NullTypes ==
    /\ NoTenure \in Tenure /\ NoPending \in Pending /\ NoCall \in Call
    /\ FreshActor \in Actor /\ NoWorkspace \in Workspace
  <1> USE AuthorityAssumption, RuntimeAssumption
  <1>1. NoTenure \in Tenure /\ NoPending \in Pending
    BY DEF NoTenure, Tenure, NoPending, Pending, NoHolder, NoClaim
  <1>2. NoCall \in Call
    BY DEF NoCall, Call, CallOps, NoClaim
  <1>3. FreshActor \in Actor
    BY <1>1 DEF FreshActor, Actor
  <1>4. NoWorkspace \in Workspace
    BY DEF NoWorkspace, Workspace, WorkspaceStates, NoClaim
  <1> QED BY <1>1, <1>2, <1>3, <1>4

\* Subtraction with a floor stays within a bound.
LEMMA MonusType == \A x \in 0..TTL, y \in Nat : Monus(x, y) \in 0..TTL /\ Monus(x, y) <= x
  BY AuthorityAssumption DEF Monus

\* The time a grant or a refresh leaves is a time.
LEMMA LeftTypes ==
    ASSUME NEW c \in Call
    PROVE  /\ GrantedLeft(c) \in 0..TTL
           /\ AnswerLeft(c) \in 0..TTL
           /\ GrantedLeft(c) <= AnswerLeft(c)
           /\ \A t \in Tenure : /\ RefreshedTenure(t, c) \in Tenure
                                /\ RefreshedTenure(t, c).left <= t.left
                                /\ RefreshedTenure(t, c).left \in Nat
                                /\ RefreshedTenure(t, c).issue = t.issue
                                /\ RefreshedTenure(t, c).holder = t.holder
                                /\ RefreshedTenure(t, c).claim = t.claim
  <1> USE AuthorityAssumption, RuntimeAssumption
  <1>1. c.span \in 0..TTL /\ c.age \in 0..TTL /\ Margin \in Nat /\ TTL \in Nat
    BY DEF Call
  <1>2. Smaller(c.span, TTL) = c.span
    BY <1>1 DEF Smaller
  <1>3. GrantedLeft(c) \in 0..TTL /\ AnswerLeft(c) \in 0..TTL /\ GrantedLeft(c) <= AnswerLeft(c)
    BY <1>1, <1>2 DEF GrantedLeft, AnswerLeft, Monus
  <1>4. ASSUME NEW t \in Tenure
        PROVE  /\ RefreshedTenure(t, c) \in Tenure
               /\ RefreshedTenure(t, c).left <= t.left
               /\ RefreshedTenure(t, c).left \in Nat
               /\ RefreshedTenure(t, c).issue = t.issue
               /\ RefreshedTenure(t, c).holder = t.holder
               /\ RefreshedTenure(t, c).claim = t.claim
    <2> DEFINE l == Smaller(t.left, Monus(Monus(c.span, Margin), c.age))
    <2>1. t.left \in 0..TTL
      BY DEF Tenure
    <2>2. l \in 0..TTL /\ l <= t.left
      BY <1>1, <2>1 DEF Smaller, Monus
    <2>3. RefreshedTenure(t, c) = [t EXCEPT !.left = l]
      BY DEF RefreshedTenure
    <2> HIDE DEF l
    <2> QED BY <2>1, <2>2, <2>3 DEF Tenure
  <1> QED BY <1>3, <1>4

\* Dropping a lapsed tenure leaves a tenure or none.
LEMMA UnlapsedType == \A t \in Tenure : Unlapsed(t) \in Tenure /\ Unlapsed(t) \in {t, NoTenure}
  BY NullTypes DEF Unlapsed

\* The workspace operators return workspace tables.
LEMMA WorkspaceTypes ==
    ASSUME ws \in [Workspaces -> Workspace], NEW a, NEW t
    PROVE  /\ \A to \in WorkspaceStates : Marked(a, t, to) \in [Workspaces -> Workspace]
           /\ \A c, F : Archived(a, c, F) \in [Workspaces -> Workspace]
           /\ \A r : Prompted(a, r) \in [Workspaces -> Workspace]
  <1>1. ASSUME NEW b, NEW u, NEW to \in WorkspaceStates
        PROVE  Marked(b, u, to) \in [Workspaces -> Workspace]
    BY <1>1 DEF Marked, Workspace
  <1>2. ASSUME NEW c, NEW F PROVE Archived(a, c, F) \in [Workspaces -> Workspace]
    BY <1>2 DEF Archived, Workspace, WorkspaceStates
  <1>3. {"ready", "paused", "orphaned"} \subseteq WorkspaceStates
    BY DEF WorkspaceStates
  <1> QED BY <1>1, <1>2, <1>3 DEF Prompted

\* Assigning one actor, or beginning, answering and ending one call, keeps the
\* tables' types.
LEMMA UpdateTypes ==
    ASSUME RuntimeTypeOK, NEW a \in Actors
    PROVE  /\ \A r \in Actor : SetActor(a, r) => actor' \in [Actors -> Actor]
           /\ \A op \in CallOps, t \in Tenure : Begin(a, op, t) => call' \in [Actors -> Call]
           /\ \A out \in {"ok", "rejected", "unknown"} : Reply(a, out) => call' \in [Actors -> Call]
           /\ Granted(a) => call' \in [Actors -> Call]
           /\ Unlock(a) => call' \in [Actors -> Call]
  <1>0. /\ actor \in [Actors -> Actor] /\ call \in [Actors -> Call] /\ call[a] \in Call
        /\ NoCall \in Call
    BY NullTypes DEF RuntimeTypeOK
  <1>1. ASSUME NEW r \in Actor, SetActor(a, r) PROVE actor' \in [Actors -> Actor]
    BY <1>0, <1>1 DEF SetActor
  <1>2. ASSUME NEW op \in CallOps, NEW t \in Tenure, Begin(a, op, t)
        PROVE  call' \in [Actors -> Call]
    <2> DEFINE r == [NoCall EXCEPT !.op = op, !.stage = IF op = "claim" THEN "show" ELSE "kata",
                                   !.begun = t.left > 0]
    <2>1. (t.left > 0) \in BOOLEAN
      OBVIOUS
    <2>2. r \in Call
      BY <1>0, <2>1 DEF Call
    <2>3. call' = [call EXCEPT ![a] = r]
      BY <1>2 DEF Begin
    <2> HIDE DEF r
    <2> QED BY <1>0, <2>2, <2>3
  <1>3. ASSUME NEW out \in {"ok", "rejected", "unknown"}, Reply(a, out)
        PROVE  call' \in [Actors -> Call]
    <2> DEFINE r == [NoCall EXCEPT !.op = call[a].op, !.stage = "reply", !.out = out]
    <2>1. r \in Call
      BY <1>0 DEF Call
    <2>2. call' = [call EXCEPT ![a] = r]
      BY <1>3 DEF Reply
    <2> HIDE DEF r
    <2> QED BY <1>0, <2>1, <2>2
  <1>4. ASSUME Granted(a) PROVE call' \in [Actors -> Call]
    <2>1. [call[a] EXCEPT !.stage = "reply", !.out = "ok"] \in Call
      BY <1>0 DEF Call
    <2>2. call' = [call EXCEPT ![a] = [call[a] EXCEPT !.stage = "reply", !.out = "ok"]]
      BY <1>0, <1>4 DEF Granted
    <2> QED BY <1>0, <2>1, <2>2
  <1>5. ASSUME Unlock(a) PROVE call' \in [Actors -> Call]
    BY <1>0, <1>5 DEF Unlock
  <1> QED BY <1>1, <1>2, <1>3, <1>4, <1>5

-----------------------------------------------------------------------------
(* Type correctness of every step.                                           *)

\* What a client asks for changes no type, and nothing at the authority.
LEMMA ClientStepType ==
    ASSUME TypeOK, NEW a \in Actors, ClientStep(a)
    PROVE  RuntimeTypeOK' /\ UNCHANGED authorityVars
  <1> USE AuthorityAssumption, RuntimeAssumption
  <1>0. /\ RuntimeTypeOK /\ actor[a] \in Actor /\ actor[a].active \in Tenure
        /\ actor[a].pending \in Pending /\ minted \in Nat
        /\ instance \in [Instances -> InstanceStates] /\ ended \in [Sessions -> BOOLEAN]
        /\ ws \in [Workspaces -> Workspace]
    BY DEF TypeOK, RuntimeTypeOK, Actor
  <1>1. CASE SessionEnd(a)
    <2>1. SessionOf[a] \in Sessions
      OBVIOUS
    <2> QED BY <1>0, <1>1, <2>1 DEF SessionEnd, RuntimeTypeOK
  <1>2. ASSUME NEW i \in Issues, StartClaim(a, i) PROVE RuntimeTypeOK' /\ UNCHANGED authorityVars
    <2>1. [op |-> "claim", issue |-> i, holder |-> minted + 1, claim |-> NoClaim, key |-> 0]
             \in Pending
      BY <1>0 DEF Pending, PendingOps, NoClaim
    <2>2. [actor[a] EXCEPT !.active = NoTenure,
              !.pending = [op |-> "claim", issue |-> i, holder |-> minted + 1,
                           claim |-> NoClaim, key |-> 0]] \in Actor
      BY <1>0, <2>1, NullTypes DEF Actor
    <2>3. "claim" \in CallOps
      BY DEF CallOps, PendingOps
    <2> QED BY <1>0, <1>2, <2>2, <2>3, UpdateTypes, NullTypes DEF StartClaim, RuntimeTypeOK
  <1>3. ASSUME NEW op \in {"renew", "release", "close"}, NEW key \in Nat
        PROVE  [actor[a] EXCEPT !.pending = HeldPending(a, op, key)] \in Actor
    <2>1. HeldPending(a, op, key) \in Pending
      BY <1>0 DEF HeldPending, Pending, PendingOps, Tenure
    <2> QED BY <1>0, <2>1 DEF Actor
  <1>4. ASSUME NEW op \in {"renew", "release"}, StartHeld(a, op)
        PROVE  RuntimeTypeOK' /\ UNCHANGED authorityVars
    <2>1. op \in CallOps
      BY DEF CallOps, PendingOps
    <2> QED BY <1>0, <1>3, <1>4, <2>1, UpdateTypes DEF StartHeld, RuntimeTypeOK
  <1>5. CASE StartClose(a)
    <2>1. "close" \in CallOps
      BY DEF CallOps, PendingOps
    <2> QED BY <1>0, <1>3, <1>5, <2>1, UpdateTypes DEF StartClose, RuntimeTypeOK
  <1>6. CASE Resend(a)
    <2>1. actor[a].pending.op \in CallOps
      BY <1>0 DEF CallOps, Pending
    <2> QED BY <1>0, <1>6, <2>1, UpdateTypes DEF Resend, RuntimeTypeOK
  <1>7. CASE Touch(a)
    <2>1. [actor[a] EXCEPT !.active = NoTenure] \in Actor
      BY <1>0, NullTypes DEF Actor
    <2> QED BY <1>0, <1>7, <2>1, UpdateTypes DEF Touch, RuntimeTypeOK
  <1>8. CASE Pause(a)
    <2>1. [actor[a] EXCEPT !.paused = TRUE, !.active = Unlapsed(actor[a].active)] \in Actor
      BY <1>0, UnlapsedType DEF Actor
    <2>2. ws' \in [Workspaces -> Workspace]
      BY <1>0, <1>8, WorkspaceTypes DEF Pause, WorkspaceStates
    <2>3. SetActor(a, [actor[a] EXCEPT !.paused = TRUE, !.active = Unlapsed(actor[a].active)])
      BY <1>0, <1>8 DEF Pause, Actor
    <2> QED BY <1>0, <1>8, <2>1, <2>2, <2>3, UpdateTypes DEF Pause, RuntimeTypeOK
  <1>9. CASE PromptLocally(a)
    <2>1. [actor[a] EXCEPT !.paused = FALSE, !.active = Unlapsed(actor[a].active)] \in Actor
      BY <1>0, UnlapsedType DEF Actor
    <2>2. ws' \in [Workspaces -> Workspace]
      BY <1>0, <1>9, WorkspaceTypes DEF PromptLocally
    <2>3. SetActor(a, [actor[a] EXCEPT !.paused = FALSE, !.active = Unlapsed(actor[a].active)])
      BY <1>0, <1>9 DEF PromptLocally, Actor
    <2> QED BY <1>0, <1>9, <2>1, <2>2, <2>3, UpdateTypes DEF PromptLocally, RuntimeTypeOK
  <1>10. ASSUME NEW op \in {"look", "prompt"}, StartRefresh(a, op)
         PROVE  RuntimeTypeOK' /\ UNCHANGED authorityVars
    <2>1. [actor[a] EXCEPT !.paused = FALSE] \in Actor
      BY <1>0 DEF Actor
    <2>2. op \in CallOps
      BY DEF CallOps, RefreshOps
    <2>3. actor' \in [Actors -> Actor]
      BY <1>0, <1>10, <2>1, UpdateTypes DEF StartRefresh
    <2>4. call' \in [Actors -> Call]
      BY <1>0, <1>10, <2>2, UpdateTypes DEF StartRefresh
    <2> QED BY <1>0, <1>10, <2>3, <2>4 DEF StartRefresh, RuntimeTypeOK
  <1> QED BY <1>1, <1>2, <1>4, <1>5, <1>6, <1>7, <1>8, <1>9, <1>10
          DEF ClientStep, SessionEnd, StartClose, Resend, Touch, Pause, PromptLocally

\* A Kata step makes one transaction and advances one call.
LEMMA KataStepType ==
    ASSUME RuntimeInv, NEW a \in Actors, KataStep(a)
    PROVE  RuntimeTypeOK' /\ Transaction
  <1> USE AuthorityAssumption, RuntimeAssumption
  <1>0. /\ RuntimeTypeOK /\ actor[a] \in Actor /\ call[a] \in Call
        /\ actor[a].active \in Tenure /\ actor[a].pending \in Pending
        /\ call \in [Actors -> Call] /\ TTL \in 0..TTL /\ Claims \subseteq Nat
        /\ AuthorityTypeOK /\ RowsOK
    BY DEF RuntimeInv, TypeOK, RuntimeTypeOK, Actor, Claims
  <1>1. ASSUME NEW r \in Call, call' = [call EXCEPT ![a] = r],
               UNCHANGED <<instance, ended, actor, ws, minted>>
        PROVE  RuntimeTypeOK'
    BY <1>0, <1>1 DEF RuntimeTypeOK
  <1>2. ASSUME NEW out \in {"ok", "rejected", "unknown"}, Reply(a, out),
               UNCHANGED <<instance, ended, actor, ws, minted>>
        PROVE  RuntimeTypeOK'
    BY <1>0, <1>2, UpdateTypes DEF RuntimeTypeOK
  <1>3. /\ actor[a].pending.holder \in Nat /\ actor[a].pending.key \in Nat
        /\ actor[a].active.holder \in Nat
    BY <1>0 DEF Pending, Tenure
  <1>live. ASSUME NEW i, NEW h, NEW c \in LiveOf(i, h)
           PROVE  i \in Issues /\ c \in Claims
    BY <1>0 DEF LiveOf, Live, RowsOK
  <1>4. CASE DispatchFails(a)
    BY <1>2, <1>4 DEF DispatchFails, Transaction
  <1>5. CASE ShowIssue(a)
    <2>1. [call[a] EXCEPT !.stage = "acquire"] \in Call
      BY <1>0 DEF Call
    <2>2. \/ Reply(a, "rejected")
          \/ call' = [call EXCEPT ![a] = [call[a] EXCEPT !.stage = "acquire"]]
      BY <1>0, <1>5 DEF ShowIssue
    <2> QED BY <1>1, <1>2, <1>5, <2>1, <2>2 DEF ShowIssue, Transaction
  <1>6. CASE AcquireLease(a)
    <2>1. PICK c \in Claims :
             /\ Acquire(actor[a].pending.issue, actor[a].pending.holder, c)
             /\ call' = [call EXCEPT ![a] = [call[a] EXCEPT !.stage = "confirm", !.claim = c,
                                                            !.span = claims'[c].left]]
      BY <1>0, <1>6 DEF AcquireLease
    <2>2. actor[a].pending.issue \in Issues
      BY <1>6 DEF AcquireLease, AtStage, RuntimeInv, CallOK, PendingOK, HasPending, PendingOps
    <2>3. Transaction
      BY <1>3, <2>1, <2>2 DEF Transaction
    <2>4. claims'[c].left \in 0..TTL
      BY <1>0, <2>3, TransactionType DEF AuthorityTypeOK, AuthorityOK, Row, Claims
    <2>5. [call[a] EXCEPT !.stage = "confirm", !.claim = c, !.span = claims'[c].left] \in Call
      BY <1>0, <2>4 DEF Call
    <2> QED BY <1>1, <1>6, <2>1, <2>3, <2>5 DEF AcquireLease
  <1>7. CASE AcquireIsDenied(a)
    BY <1>2, <1>7 DEF AcquireIsDenied, Transaction
  <1>8. CASE ConfirmIssue(a)
    <2>1. [NoCall EXCEPT !.op = "claim", !.stage = "cleanup"] \in Call
      BY NullTypes DEF Call, CallOps, PendingOps
    <2> QED BY <1>0, <1>1, <1>8, <2>1, UpdateTypes DEF ConfirmIssue, Transaction, RuntimeTypeOK
  <1>9. CASE CleanupClaim(a)
    <2>1. Transaction
      BY <1>3, <1>9, <1>live DEF CleanupClaim, Transaction, Release
    <2> QED BY <1>2, <1>9, <2>1 DEF CleanupClaim
  <1>10. CASE RenewLease(a)
    <2>1. ASSUME NEW c \in Claims, NEW out \in Answers,
                 Renew(actor[a].pending.issue, actor[a].pending.holder, c),
                 IF out = "ok"
                 THEN call' = [call EXCEPT ![a].stage = "reply", ![a].out = "ok",
                                           ![a].claim = c, ![a].span = TTL]
                 ELSE Reply(a, out)
          PROVE  RuntimeTypeOK' /\ Transaction
      <3>1. Transaction
        BY <1>3, <1>live, <2>1 DEF Transaction, Renew
      <3>2. [call[a] EXCEPT !.stage = "reply", !.out = "ok", !.claim = c, !.span = TTL] \in Call
        BY <1>0 DEF Call
      <3>3. CASE out = "ok"
        <4>1. call' = [call EXCEPT ![a] = [call[a] EXCEPT !.stage = "reply", !.out = "ok",
                                                          !.claim = c, !.span = TTL]]
          BY <1>0, <2>1, <3>3
        <4> QED BY <1>1, <1>10, <3>1, <3>2, <4>1 DEF RenewLease
      <3>4. CASE out # "ok"
        BY <1>2, <1>10, <2>1, <3>1, <3>4 DEF RenewLease, Answers
      <3> QED BY <3>3, <3>4
    <2>2. CASE Reply(a, "rejected") /\ UNCHANGED authorityVars
      BY <1>2, <1>10, <2>2 DEF RenewLease, Transaction
    <2> QED BY <1>10, <2>1, <2>2 DEF RenewLease
  <1>11. CASE ReleaseLease(a)
    <2>1. Transaction
      BY <1>3, <1>11, <1>live DEF ReleaseLease, Transaction, Release
    <2> QED BY <1>2, <1>11, <2>1 DEF ReleaseLease, Answers
  <1>12. CASE CloseIssue(a)
    <2>1. Transaction
      BY <1>3, <1>12, <1>live DEF CloseIssue, Transaction, CloseCommit, CloseReplay, GuardHolds
    <2> QED BY <1>2, <1>12, <2>1 DEF CloseIssue, Answers
  <1>13. CASE LookAtIssue(a)
    <2> DEFINE c == actor[a].active.claim
    <2>1. CASE Reply(a, "rejected")
      BY <1>2, <1>13, <2>1 DEF LookAtIssue, Transaction
    <2>2. CASE /\ c \in Claims
               /\ call' = [call EXCEPT ![a].stage = "reply", ![a].out = "ok",
                                       ![a].claim = c, ![a].span = claims[c].left]
      <3>1. claims[c].left \in 0..TTL
        BY <1>0, <2>2 DEF AuthorityTypeOK, Row
      <3>2. [call[a] EXCEPT !.stage = "reply", !.out = "ok", !.claim = c,
                            !.span = claims[c].left] \in Call
        BY <1>0, <2>2, <3>1 DEF Call
      <3>3. call' = [call EXCEPT ![a] = [call[a] EXCEPT !.stage = "reply", !.out = "ok",
                                             !.claim = c, !.span = claims[c].left]]
        BY <1>0, <2>2
      <3> QED BY <1>1, <1>13, <3>2, <3>3 DEF LookAtIssue, Transaction
    <2> QED BY <1>13, <2>1, <2>2 DEF LookAtIssue
  <1>14. CASE FinalRelease(a)
    <2>1. Transaction
      BY <1>3, <1>14, <1>live DEF FinalRelease, Transaction, Release
    <2> QED BY <1>2, <1>14, <2>1 DEF FinalRelease
  <1> QED BY <1>4, <1>5, <1>6, <1>7, <1>8, <1>9, <1>10, <1>11, <1>12, <1>13, <1>14 DEF KataStep

\* The end of a handler assigns typed values, and nothing at the authority.
LEMMA FinishStepType ==
    ASSUME TypeOK, NEW a \in Actors, FinishStep(a)
    PROVE  RuntimeTypeOK' /\ UNCHANGED authorityVars
  <1> USE AuthorityAssumption, RuntimeAssumption
  <1>0. /\ RuntimeTypeOK /\ actor[a] \in Actor /\ call[a] \in Call
        /\ actor[a].active \in Tenure /\ actor[a].pending \in Pending
        /\ ws \in [Workspaces -> Workspace]
        /\ NoTenure \in Tenure /\ NoPending \in Pending
    BY NullTypes DEF TypeOK, RuntimeTypeOK, Actor
  <1>1. ASSUME NEW r \in Actor, SetActor(a, r), Unlock(a), ws' \in [Workspaces -> Workspace],
               UNCHANGED <<instance, ended, minted>>
        PROVE  RuntimeTypeOK'
    BY <1>0, <1>1, UpdateTypes DEF RuntimeTypeOK
  <1>2. CASE FinishUnknown(a)
    BY <1>0, <1>2, UpdateTypes DEF FinishUnknown, RuntimeTypeOK
  <1>3. CASE FinishRejected(a)
    <2> DEFINE r == [actor[a] EXCEPT !.pending = NoPending,
                        !.active = IF call[a].op \in {"renew", "release"}
                                   THEN NoTenure ELSE actor[a].active]
    <2>1. r \in Actor
      BY <1>0 DEF Actor
    <2>2. SetActor(a, r)
      BY <1>0, <1>3 DEF FinishRejected, Actor
    <2> HIDE DEF r
    <2> QED BY <1>0, <1>1, <1>3, <2>1, <2>2 DEF FinishRejected
  <1>4. [actor[a] EXCEPT !.pending = NoPending, !.active = NoTenure] \in Actor
    BY <1>0 DEF Actor
  <1>5. CASE FinishClaim(a)
    <2> DEFINE left == GrantedLeft(call[a])
               p == actor[a].pending
               t == [issue |-> p.issue, holder |-> p.holder, claim |-> call[a].claim, left |-> left]
               r == [actor[a] EXCEPT !.active = t, !.pending = NoPending, !.unknown = FALSE,
                                     !.paused = FALSE, !.renewIn = RenewEvery]
    <2>1. CASE left = 0
      BY <1>0, <1>1, <1>4, <1>5, <2>1 DEF FinishClaim, LoseLease
    <2>2. CASE left # 0
      <3>1. t \in Tenure
        BY <1>0, LeftTypes DEF Tenure, Pending, Call
      <3>2. r \in Actor
        BY <1>0, <3>1 DEF Actor
      <3>3. SetActor(a, r)
        BY <1>5, <2>2 DEF FinishClaim
      <3>4. ws' \in [Workspaces -> Workspace]
        BY <1>0, <1>5, <2>2, WorkspaceTypes DEF FinishClaim, WorkspaceStates
      <3> HIDE DEF r
      <3> QED BY <1>1, <1>5, <3>2, <3>3, <3>4 DEF FinishClaim
    <2> QED BY <2>1, <2>2
  <1>6. CASE FinishRenew(a)
    <2> DEFINE left == GrantedLeft(call[a])
               t == [actor[a].active EXCEPT !.left = left]
               r == [actor[a] EXCEPT !.active = t, !.pending = NoPending,
                                     !.unknown = FALSE, !.renewIn = RenewEvery]
    <2>1. CASE ~RenewsHeldTenure(a) \/ left = 0
      BY <1>0, <1>1, <1>4, <1>6, <2>1 DEF FinishRenew, LoseLease
    <2>2. CASE ~(~RenewsHeldTenure(a) \/ left = 0)
      <3>1. t \in Tenure
        BY <1>0, LeftTypes DEF Tenure
      <3>2. r \in Actor
        BY <1>0, <3>1 DEF Actor
      <3>3. SetActor(a, r)
        BY <1>0, <1>6, <2>2 DEF FinishRenew, Actor
      <3> HIDE DEF r
      <3> QED BY <1>0, <1>1, <1>6, <2>2, <3>2, <3>3 DEF FinishRenew
    <2> QED BY <2>1, <2>2
  <1>7. [actor[a] EXCEPT !.pending = NoPending, !.active = NoTenure, !.unknown = FALSE] \in Actor
    BY <1>0 DEF Actor
  <1>8. CASE FinishRelease(a)
    <2>1. ws' \in [Workspaces -> Workspace]
      BY <1>0, <1>8, WorkspaceTypes DEF FinishRelease, WorkspaceStates
    <2> QED BY <1>1, <1>7, <1>8, <2>1 DEF FinishRelease
  <1>9. CASE FinishClose(a)
    <2>1. ws' \in [Workspaces -> Workspace]
      BY <1>0, <1>9, WorkspaceTypes DEF FinishClose
    <2> QED BY <1>1, <1>7, <1>9, <2>1 DEF FinishClose
  <1>10. CASE FinishRefresh(a)
    <2> DEFINE r == Refreshed(a, call[a])
    <2>1. Unlapsed(RefreshedTenure(actor[a].active, call[a])) \in Tenure
      BY <1>0, LeftTypes, UnlapsedType
    <2>2. r \in Actor
      <3>1. [actor[a] EXCEPT !.unknown = TRUE] \in Actor
        BY <1>0 DEF Actor
      <3>2. [actor[a] EXCEPT !.unknown = FALSE, !.active = NoTenure] \in Actor
        BY <1>0 DEF Actor
      <3>3. [actor[a] EXCEPT !.unknown = FALSE,
                !.active = Unlapsed(RefreshedTenure(actor[a].active, call[a]))] \in Actor
        BY <1>0, <2>1 DEF Actor
      <3>4. \/ r = [actor[a] EXCEPT !.unknown = TRUE]
            \/ r = [actor[a] EXCEPT !.unknown = FALSE, !.active = NoTenure]
            \/ r = [actor[a] EXCEPT !.unknown = FALSE,
                       !.active = Unlapsed(RefreshedTenure(actor[a].active, call[a]))]
        BY DEF Refreshed
      <3> QED BY <3>1, <3>2, <3>3, <3>4
    <2>3. [r EXCEPT !.active = Unlapsed(r.active)] \in Actor
      BY <2>2, UnlapsedType DEF Actor
    <2>4. SetActor(a, [r EXCEPT !.active = Unlapsed(r.active)])
      BY <1>10, <2>2 DEF FinishRefresh, Actor
    <2>5. ws' \in [Workspaces -> Workspace]
      BY <1>0, <1>10, WorkspaceTypes DEF FinishRefresh
    <2> QED BY <1>1, <1>10, <2>3, <2>4, <2>5 DEF FinishRefresh
  <1>11. CASE FinishFinal(a)
    <2>1. [actor[a] EXCEPT !.active = NoTenure, !.pending = NoPending] \in Actor
      BY <1>0 DEF Actor
    <2> QED BY <1>0, <1>1, <1>11, <2>1 DEF FinishFinal
  <1>12. FinishStep(a) => UNCHANGED authorityVars
    BY DEF FinishStep, FinishUnknown, FinishRejected, FinishClaim, FinishRenew, FinishRelease,
           FinishClose, FinishRefresh, FinishFinal
  <1> QED BY <1>2, <1>3, <1>5, <1>6, <1>8, <1>9, <1>10, <1>11, <1>12 DEF FinishStep

\* A tick assigns typed values, and nothing at the authority.
LEMMA TickStepType ==
    ASSUME TypeOK, NEW a \in Actors, TickStep(a)
    PROVE  RuntimeTypeOK' /\ UNCHANGED authorityVars
  <1> USE AuthorityAssumption, RuntimeAssumption
  <1>0. /\ RuntimeTypeOK /\ actor[a] \in Actor
        /\ actor[a].active \in Tenure /\ actor[a].pending \in Pending
        /\ ws \in [Workspaces -> Workspace]
        /\ NoTenure \in Tenure /\ NoPending \in Pending
        /\ {"final", "renew"} \subseteq CallOps
    BY NullTypes DEF TypeOK, RuntimeTypeOK, Actor, CallOps, PendingOps
  <1>1. Marked(a, actor[a].active, "orphaned") \in [Workspaces -> Workspace]
    BY <1>0, WorkspaceTypes DEF WorkspaceStates
  <1>2. /\ [actor[a] EXCEPT !.retired = TRUE] \in Actor
        /\ [actor[a] EXCEPT !.retired = TRUE, !.active = NoTenure, !.pending = NoPending] \in Actor
        /\ [actor[a] EXCEPT !.active = NoTenure] \in Actor
    BY <1>0 DEF Actor
  <1>3. CASE RetireActor(a)
    BY <1>0, <1>1, <1>2, <1>3, UpdateTypes DEF RetireActor, RuntimeTypeOK
  <1>4. CASE RetireIdle(a)
    BY <1>0, <1>1, <1>2, <1>4, UpdateTypes DEF RetireIdle, RuntimeTypeOK
  <1>5. CASE TickLapsed(a)
    BY <1>0, <1>1, <1>2, <1>5, UpdateTypes DEF TickLapsed, RuntimeTypeOK
  <1>6. CASE TickRenew(a)
    <2> DEFINE later == [actor[a] EXCEPT !.renewIn = RenewRetry]
    <2>1. later \in Actor
      BY <1>0 DEF Actor
    <2>2. HeldPending(a, "renew", 0) \in Pending
      BY <1>0 DEF HeldPending, Pending, PendingOps, Tenure
    <2>3. [later EXCEPT !.pending = HeldPending(a, "renew", 0)] \in Actor
      BY <2>1, <2>2 DEF Actor
    <2> HIDE DEF later
    <2>4. actor' \in [Actors -> Actor] /\ call' \in [Actors -> Call]
      <3>1. /\ \/ SetActor(a, later)
               \/ SetActor(a, [later EXCEPT !.pending = HeldPending(a, "renew", 0)])
            /\ \/ Begin(a, "renew", actor[a].active)
               \/ UNCHANGED call
        BY <1>6 DEF TickRenew, later
      <3> QED BY <1>0, <2>1, <2>3, <3>1, UpdateTypes DEF RuntimeTypeOK
    <2> QED BY <1>0, <1>6, <2>4 DEF TickRenew, RuntimeTypeOK
  <1>7. TickStep(a) => UNCHANGED authorityVars
    BY DEF TickStep, RetireActor, RetireIdle, TickLapsed, TickRenew
  <1> QED BY <1>3, <1>4, <1>5, <1>6, <1>7 DEF TickStep

\* So do ends of processes, restarts, hosts and time.
LEMMA EnvironmentType ==
    ASSUME RuntimeInv, Environment \/ DaemonRestart
    PROVE  RuntimeTypeOK' /\ (Advance \/ Transaction)
  <1> USE AuthorityAssumption, RuntimeAssumption
  <1>0. /\ RuntimeTypeOK /\ AuthorityOK
        /\ actor \in [Actors -> Actor] /\ call \in [Actors -> Call]
        /\ instance \in [Instances -> InstanceStates] /\ ended \in [Sessions -> BOOLEAN]
        /\ ws \in [Workspaces -> Workspace] /\ minted \in Nat
    BY DEF RuntimeInv, TypeOK, RuntimeTypeOK, AuthorityOK
  <1>1. ASSUME NEW i \in Instances,
               Register(i) \/ ProcessExit(i) \/ \E normal \in BOOLEAN : EndInstance(i, normal)
        PROVE  RuntimeTypeOK' /\ Transaction
    BY <1>0, <1>1 DEF Register, ProcessExit, EndInstance, RuntimeTypeOK, InstanceStates, Transaction
  <1>2. CASE RetireDead
    BY <1>0, <1>2 DEF RetireDead, RuntimeTypeOK, InstanceStates, Transaction
  <1>3. CASE DaemonRestart
    <2>1. instance' \in [Instances -> InstanceStates]
      BY <1>0, <1>3 DEF DaemonRestart, InstanceStates
    <2>2. actor' \in [Actors -> Actor] /\ call' \in [Actors -> Call]
      BY <1>3, NullTypes DEF DaemonRestart
    <2>3. ws' \in [Workspaces -> Workspace]
      <3>1. PICK s \in [Workspaces -> WorkspaceStates] :
               ws' = [w \in Workspaces |-> [ws[w] EXCEPT !.state = s[w]]]
        BY <1>3 DEF DaemonRestart
      <3>2. ASSUME NEW w \in Workspaces PROVE [ws[w] EXCEPT !.state = s[w]] \in Workspace
        BY <1>0 DEF Workspace
      <3> QED BY <3>1, <3>2
    <2> QED BY <1>0, <1>3, <2>1, <2>2, <2>3 DEF DaemonRestart, RuntimeTypeOK, Transaction
  <1>4. CASE Advance
    <2>1. ASSUME NEW a \in Actors
          PROVE  [actor[a] EXCEPT !.active.left = Monus(actor[a].active.left, 1),
                                  !.renewIn = Monus(actor[a].renewIn, 1)] \in Actor
      <3>1. /\ actor[a] \in Actor /\ actor[a].active \in Tenure
            /\ actor[a].active.left \in 0..TTL /\ actor[a].renewIn \in 0..TTL
        BY <1>0 DEF Actor, Tenure
      <3>2. Monus(actor[a].active.left, 1) \in 0..TTL /\ Monus(actor[a].renewIn, 1) \in 0..TTL
        BY <3>1, MonusType
      <3>3. [actor[a].active EXCEPT !.left = Monus(actor[a].active.left, 1)] \in Tenure
        BY <3>1, <3>2 DEF Tenure
      <3> QED BY <3>1, <3>2, <3>3 DEF Actor
    <2>2. actor' \in [Actors -> Actor]
      BY <1>0, <1>4, <2>1 DEF Advance, Actor, Tenure
    <2>3. ASSUME NEW c \in Call PROVE Aged(c) \in Call
      <3>1. c.age \in 0..TTL /\ c.span \in 0..TTL
        BY DEF Call
      <3>2. Smaller(c.age + 1, TTL) \in 0..TTL
        BY <3>1 DEF Smaller
      <3>3. Monus(c.span, 1) \in 0..TTL
        BY <3>1, MonusType
      <3> QED BY <3>1, <3>2, <3>3 DEF Aged, Call
    <2>4. call' \in [Actors -> Call]
      BY <1>0, <1>4, <2>3 DEF Advance
    <2> QED BY <1>0, <1>4, <2>2, <2>4 DEF Advance, RuntimeTypeOK
  <1>5. CASE Authority
    BY <1>0, <1>5 DEF Authority, RuntimeTypeOK, runtimeVars, Transaction
  <1> QED BY <1>1, <1>2, <1>3, <1>4, <1>5 DEF Environment

-----------------------------------------------------------------------------
(* What a step of one actor leaves alone.                                    *)

\* A step of a touches no other actor, and only a's close adds a receipt.
Frame(a) ==
    /\ \A b \in Actors \ {a} : actor'[b] = actor[b] /\ call'[b] = call[b]
    /\ minted' \in Nat /\ minted' >= minted
    /\ \A k \in receipts' \ receipts : actor[a].pending.op = "close" /\ k = actor[a].pending.key

\* A tenure that is not reassigned stays backed through any transaction.
LEMMA TenureKept ==
    ASSUME RuntimeInv, Transaction, NEW b \in Actors,
           actor'[b].active = actor[b].active, minted' \in Nat, minted' >= minted
    PROVE  TenureOK(b)'
  <1> DEFINE t == actor[b].active
  <1> SUFFICES ASSUME Active(b)
               PROVE  /\ claims'[t.claim].issue = t.issue /\ claims'[t.claim].holder = t.holder
                      /\ Lasts(t.claim, t.left)'
                      /\ OnOpenWork(t.claim)'
                      /\ t.holder \in 1..minted'
    BY DEF TenureOK, Active, Backed, Lasts, OnOpenWork
  <1>0. AuthorityOK /\ minted \in Nat /\ t \in Tenure
    BY DEF RuntimeInv, TypeOK, AuthorityOK, RuntimeTypeOK, Actor
  <1>1. Backed(t.issue, t.holder, t.claim, t.left) /\ OnOpenWork(t.claim) /\ t.holder \in 1..minted
    BY DEF RuntimeInv, TenureOK
  <1>2. t.left \in Nat
    BY <1>0, AuthorityAssumption DEF Tenure
  <1>3. /\ claims'[t.claim].issue = t.issue /\ claims'[t.claim].holder = t.holder
        /\ Lasts(t.claim, t.left)'
    BY <1>0, <1>1, <1>2, TransactionBacked
  <1>4. OnOpenWork(t.claim)'
    BY <1>0, <1>1, TransactionOpenWork DEF Backed, Lasts
  <1> QED BY <1>0, <1>1, <1>3, <1>4

\* A pending operation that is not reassigned keeps its nonces.
LEMMA PendingKept ==
    ASSUME RuntimeInv, NEW b \in Actors,
           actor'[b].pending = actor[b].pending, minted' \in Nat, minted' >= minted
    PROVE  PendingOK(b)'
  <1>1. PendingOK(b) /\ minted \in Nat
    BY DEF RuntimeInv, TypeOK, RuntimeTypeOK
  <1> QED BY <1>1 DEF PendingOK, HasPending

\* A call that does not move keeps what it promises.
LEMMA CallKept ==
    ASSUME RuntimeInv, Transaction, NEW b \in Actors,
           actor'[b].pending = actor[b].pending, call'[b] = call[b],
           actor[b].pending.op = "close" => actor[b].pending.key \notin receipts' \ receipts
    PROVE  CallOK(b)'
  <1> DEFINE c == call[b]
             p == actor[b].pending
  <1>0. AuthorityOK /\ c \in Call /\ CallOK(b)
    BY DEF RuntimeInv, TypeOK, AuthorityOK, RuntimeTypeOK
  <1>1. c.span \in Nat /\ AnswerLeft(c) \in Nat
    BY <1>0, LeftTypes, AuthorityAssumption DEF Call
  <1>2. ASSUME AtStage(b, "claim", "confirm")
        PROVE  Backed(p.issue, p.holder, c.claim, c.span)'
    BY <1>0, <1>1, <1>2, TransactionBacked DEF CallOK, Backed
  <1>3. ASSUME c.op = "claim", c.stage = "reply", c.out = "ok"
        PROVE  Backed(p.issue, p.holder, c.claim, AnswerLeft(c))' /\ OnOpenWork(c.claim)'
    <2>1. Backed(p.issue, p.holder, c.claim, AnswerLeft(c)) /\ OnOpenWork(c.claim)
      BY <1>0, <1>3 DEF CallOK
    <2>2. OnOpenWork(c.claim)'
      BY <1>0, <2>1, TransactionOpenWork DEF Backed, Lasts
    <2> QED BY <1>0, <1>1, <2>1, <2>2, TransactionBacked DEF Backed, AnswerLeft, Monus
  <1>4. ASSUME c.op = "renew", c.stage = "reply", c.out = "ok"
        PROVE  Lasts(c.claim, AnswerLeft(c))'
    <2>1. Lasts(c.claim, AnswerLeft(c))
      BY <1>0, <1>4 DEF CallOK
    <2> QED BY <1>0, <1>1, <2>1, TransactionLasts DEF AnswerLeft, Monus
  <1>5. ASSUME AtStage(b, "close", "reply"), c.out = "rejected"
        PROVE  p.key \notin receipts'
    <2>1. p.op = "close" /\ p.key \notin receipts
      BY <1>0, <1>5 DEF CallOK, AtStage, PendingOps
    <2> QED BY <2>1
  <1> QED BY <1>0, <1>2, <1>3, <1>4, <1>5 DEF CallOK, AtStage

\* Two actors stay apart when one of them moves under nonces of its own or
\* new ones.
LEMMA ApartKept ==
    ASSUME RuntimeInv, NEW a \in Actors, NEW b \in Actors, a # b,
           actor'[b] = actor[b],
           \A h \in PrincipalsOf(a)' : h \in PrincipalsOf(a) \/ h = minted + 1,
           actor'[a].pending.op = "close" =>
              \/ actor[a].pending.op = "close" /\ actor'[a].pending.key = actor[a].pending.key
              \/ actor'[a].pending.key = minted + 1
    PROVE  Apart(a, b)' /\ Apart(b, a)'
  <1>0. minted \in Nat /\ Apart(a, b) /\ TenureOK(b) /\ PendingOK(b)
    BY DEF RuntimeInv, TypeOK, RuntimeTypeOK
  <1>1. PrincipalsOf(b)' = PrincipalsOf(b)
    BY DEF PrincipalsOf, Active, HasPending
  <1>2. \A h \in PrincipalsOf(b) : h \in 1..minted
    BY <1>0 DEF PrincipalsOf, TenureOK, PendingOK
  <1>3. PrincipalsOf(a)' \cap PrincipalsOf(b)' = {}
    BY <1>0, <1>1, <1>2 DEF Apart
  <1>4. actor[b].pending.op = "close" => actor[b].pending.key \in 1..minted
    BY <1>0 DEF PendingOK
  <1>5. (actor'[a].pending.op = "close" /\ actor'[b].pending.op = "close")
           => actor'[a].pending.key # actor'[b].pending.key
    BY <1>0, <1>4 DEF Apart
  <1> QED BY <1>3, <1>5 DEF Apart

\* A step of one actor preserves the invariant when it preserves that actor's
\* part of it.
LEMMA ActorStepInv ==
    ASSUME RuntimeInv, Transaction, RuntimeTypeOK', NEW a \in Actors, Frame(a),
           TenureOK(a)', PendingOK(a)', CallOK(a)',
           \A h \in PrincipalsOf(a)' : h \in PrincipalsOf(a) \/ h = minted + 1,
           actor'[a].pending.op = "close" =>
              \/ actor[a].pending.op = "close" /\ actor'[a].pending.key = actor[a].pending.key
              \/ actor'[a].pending.key = minted + 1
    PROVE  RuntimeInv'
  <1>1. TypeOK' /\ RowsOK'
    BY TransactionType, TransactionRows DEF RuntimeInv, TypeOK, AuthorityOK
  <1>2. ASSUME NEW b \in Actors, b # a
        PROVE  TenureOK(b)' /\ PendingOK(b)' /\ CallOK(b)'
    <2>1. /\ actor'[b] = actor[b] /\ call'[b] = call[b]
          /\ minted' \in Nat /\ minted' >= minted
      BY <1>2 DEF Frame
    <2>2. actor[b].pending.op = "close" => actor[b].pending.key \notin receipts' \ receipts
      BY <1>2 DEF Frame, RuntimeInv, Apart
    <2> QED BY <2>1, <2>2, TenureKept, PendingKept, CallKept
  <1>3. ASSUME NEW b \in Actors, b # a PROVE Apart(a, b)' /\ Apart(b, a)'
    BY <1>3, ApartKept DEF Frame
  <1>4. ASSUME NEW b \in Actors, NEW d \in Actors, b # d, b # a, d # a
        PROVE  Apart(b, d)'
    <2>1. actor'[b] = actor[b] /\ actor'[d] = actor[d] /\ Apart(b, d)
      BY <1>4 DEF Frame, RuntimeInv
    <2> QED BY <2>1 DEF Apart, PrincipalsOf, Active, HasPending
  <1> QED BY <1>1, <1>2, <1>3, <1>4 DEF RuntimeInv

\* A call that carries no lease and was not refused promises nothing.
LEMMA CallPlain ==
    ASSUME NEW a \in Actors,
           call'[a].op \in PendingOps => actor'[a].pending.op = call'[a].op,
           call'[a].stage = "reply" => call'[a].out # "ok",
           call'[a].stage # "confirm",
           ~(call'[a].op = "close" /\ call'[a].stage = "reply" /\ call'[a].out = "rejected")
    PROVE  CallOK(a)'
  BY DEF CallOK, AtStage

\* The values that updates of one actor and its call assign.
LEMMA UpdateValues ==
    ASSUME RuntimeTypeOK, NEW a \in Actors
    PROVE  /\ \A r : SetActor(a, r) =>
                 actor'[a] = r /\ \A b \in Actors \ {a} : actor'[b] = actor[b]
           /\ \A op, t : Begin(a, op, t) =>
                 /\ call'[a].op = op /\ call'[a].out = "none"
                 /\ call'[a].stage = IF op = "claim" THEN "show" ELSE "kata"
                 /\ \A b \in Actors \ {a} : call'[b] = call[b]
           /\ \A out : Reply(a, out) =>
                 /\ call'[a].op = call[a].op /\ call'[a].stage = "reply" /\ call'[a].out = out
                 /\ \A b \in Actors \ {a} : call'[b] = call[b]
           /\ Granted(a) =>
                 /\ call'[a] = [call[a] EXCEPT !.stage = "reply", !.out = "ok"]
                 /\ \A b \in Actors \ {a} : call'[b] = call[b]
           /\ Unlock(a) => call'[a] = NoCall /\ \A b \in Actors \ {a} : call'[b] = call[b]
  <1>0. actor \in [Actors -> Actor] /\ call \in [Actors -> Call]
    BY DEF RuntimeTypeOK
  <1>1. \A r : SetActor(a, r) =>
                 actor'[a] = r /\ \A b \in Actors \ {a} : actor'[b] = actor[b]
    BY <1>0 DEF SetActor
  <1>2. ASSUME NEW op, NEW t, Begin(a, op, t)
        PROVE  /\ call'[a].op = op /\ call'[a].out = "none"
               /\ call'[a].stage = IF op = "claim" THEN "show" ELSE "kata"
               /\ \A b \in Actors \ {a} : call'[b] = call[b]
    BY <1>0, <1>2 DEF Begin, NoCall
  <1>3. ASSUME NEW out, Reply(a, out)
        PROVE  /\ call'[a].op = call[a].op /\ call'[a].stage = "reply" /\ call'[a].out = out
               /\ \A b \in Actors \ {a} : call'[b] = call[b]
    BY <1>0, <1>3 DEF Reply, NoCall
  <1>4. Granted(a) =>
                 /\ call'[a] = [call[a] EXCEPT !.stage = "reply", !.out = "ok"]
                 /\ \A b \in Actors \ {a} : call'[b] = call[b]
    BY <1>0 DEF Granted
  <1>5. Unlock(a) => call'[a] = NoCall /\ \A b \in Actors \ {a} : call'[b] = call[b]
    BY <1>0 DEF Unlock
  <1> QED BY <1>1, <1>2, <1>3, <1>4, <1>5

-----------------------------------------------------------------------------
(* Preservation of RuntimeInv, action by action.                             *)

\* A step that keeps or drops the tenure and the pending operation of one actor.
LEMMA KeptOrDropped ==
    ASSUME RuntimeInv, NEW a \in Actors, UNCHANGED authorityVars, RuntimeTypeOK',
           actor'[a].active \in {actor[a].active, NoTenure},
           actor'[a].pending \in {actor[a].pending, NoPending}, minted' = minted,
           \A b \in Actors \ {a} : actor'[b] = actor[b] /\ call'[b] = call[b],
           CallOK(a)'
    PROVE  RuntimeInv'
  <1> DEFINE t == actor[a].active
             p == actor[a].pending
  <1>1. Transaction /\ minted \in Nat /\ receipts' = receipts
    BY DEF RuntimeInv, TypeOK, RuntimeTypeOK, Transaction, authorityVars
  <1>2. Frame(a)
    BY <1>1 DEF Frame
  <1>3. TenureOK(a)'
    <2>1. CASE actor'[a].active = NoTenure
      BY <2>1 DEF TenureOK, Active, NoTenure
    <2>2. CASE actor'[a].active = t
      BY <1>1, <2>2, TenureKept
    <2> QED BY <2>1, <2>2
  <1>4. PendingOK(a)'
    <2>1. CASE actor'[a].pending = NoPending
      BY <2>1 DEF PendingOK, HasPending, NoPending
    <2>2. CASE actor'[a].pending = p
      BY <1>1, <2>2, PendingKept
    <2> QED BY <2>1, <2>2
  <1>5. \A h \in PrincipalsOf(a)' : h \in PrincipalsOf(a)
    BY DEF PrincipalsOf, Active, HasPending, NoTenure, NoPending
  <1>6. actor'[a].pending.op = "close" => p.op = "close" /\ actor'[a].pending.key = p.key
    BY DEF NoPending
  <1> QED BY <1>1, <1>2, <1>3, <1>4, <1>5, <1>6, ActorStepInv

\* A new operation on the held tenure goes under the tenure's principal, and
\* under a new key when it is a close.
LEMMA HeldOperationStarts ==
    ASSUME RuntimeInv, NEW a \in Actors, UNCHANGED authorityVars, RuntimeTypeOK',
           NEW op \in {"renew", "release", "close"}, NEW key \in Nat,
           Active(a), ~HasPending(a),
           actor'[a].active = actor[a].active, actor'[a].pending = HeldPending(a, op, key),
           \A b \in Actors \ {a} : actor'[b] = actor[b],
           Begin(a, op, actor[a].active),
           minted' >= minted, op = "close" => key = minted + 1 /\ minted' = minted + 1
    PROVE  RuntimeInv'
  <1>0. /\ RuntimeTypeOK /\ Transaction /\ minted \in Nat /\ minted' \in Nat
        /\ receipts' = receipts /\ TenureOK(a)
    BY DEF RuntimeInv, TypeOK, RuntimeTypeOK, Transaction, authorityVars
  <1>1. actor[a].active.issue \in Issues
    BY <1>0 DEF TenureOK, Backed, Lasts, RuntimeInv, RowsOK
  <1>2. /\ call'[a].op = op /\ call'[a].out = "none" /\ call'[a].stage = "kata"
        /\ \A b \in Actors \ {a} : call'[b] = call[b]
    BY <1>0, UpdateValues
  <1>3. /\ actor'[a].pending.op = op /\ actor'[a].pending.key = key
        /\ actor'[a].pending.issue = actor[a].active.issue
        /\ actor'[a].pending.holder = actor[a].active.holder
    BY DEF HeldPending
  <1>4. Frame(a)
    BY <1>0, <1>2 DEF Frame
  <1>5. TenureOK(a)'
    BY <1>0, TenureKept
  <1>6. PendingOK(a)'
    BY <1>0, <1>1, <1>3 DEF PendingOK, HasPending, TenureOK
  <1>7. CallOK(a)'
    <2>1. /\ call'[a].op \in PendingOps => actor'[a].pending.op = call'[a].op
          /\ call'[a].stage # "reply" /\ call'[a].stage # "confirm"
      BY <1>2, <1>3
    <2> QED BY <2>1, CallPlain
  <1>8. PrincipalsOf(a)' \subseteq PrincipalsOf(a)
    BY <1>3 DEF PrincipalsOf, Active, HasPending
  <1> QED BY <1>0, <1>3, <1>4, <1>5, <1>6, <1>7, <1>8, ActorStepInv

\* A request of a client: claims draw a fresh principal, closes a fresh key,
\* everything else moves under what the actor already has.
LEMMA ClientStepInv ==
    ASSUME RuntimeInv, NEW a \in Actors, ClientStep(a)
    PROVE  RuntimeInv'
  <1> USE AuthorityAssumption, RuntimeAssumption
  <1>0. /\ RuntimeTypeOK /\ RuntimeTypeOK' /\ UNCHANGED authorityVars /\ Transaction
        /\ actor[a] \in Actor /\ actor[a].active \in Tenure /\ actor[a].pending \in Pending
        /\ minted \in Nat /\ minted' \in Nat /\ receipts' = receipts
        /\ TenureOK(a) /\ PendingOK(a) /\ CallOK(a)
    BY ClientStepType DEF RuntimeInv, TypeOK, RuntimeTypeOK, Actor, Transaction, authorityVars
  <1>2. ASSUME UNCHANGED <<actor, minted>>, call'[a].op = "none" \/ call' = call,
               \A b \in Actors \ {a} : call'[b] = call[b]
        PROVE  RuntimeInv'
    <2>1. Frame(a) /\ TenureOK(a)' /\ PendingOK(a)'
      BY <1>0, <1>2, TenureKept, PendingKept DEF Frame
    <2>2. CallOK(a)'
      BY <1>0, <1>2, CallKept DEF CallOK, AtStage, PendingOps
    <2>3. PrincipalsOf(a)' = PrincipalsOf(a)
      BY <1>2 DEF PrincipalsOf, Active, HasPending
    <2> QED BY <1>0, <1>2, <2>1, <2>2, <2>3, ActorStepInv
  <1>3. ASSUME NEW t \in {actor[a].active, NoTenure},
               actor'[a].active = t, actor'[a].pending = actor[a].pending, minted' = minted,
               \A b \in Actors \ {a} : actor'[b] = actor[b] /\ call'[b] = call[b],
               CallOK(a)'
        PROVE  RuntimeInv'
    BY <1>0, <1>3, KeptOrDropped
  <1>4. CASE SessionEnd(a)
    BY <1>0, <1>2, <1>4 DEF SessionEnd
  <1>5. ASSUME NEW i \in Issues, StartClaim(a, i) PROVE RuntimeInv'
    <2>1. /\ actor'[a] = [actor[a] EXCEPT !.active = NoTenure,
                 !.pending = [op |-> "claim", issue |-> i, holder |-> minted + 1,
                              claim |-> NoClaim, key |-> 0]]
          /\ minted' = minted + 1
          /\ call'[a].op = "claim" /\ call'[a].out = "none" /\ call'[a].stage = "show"
          /\ \A b \in Actors \ {a} : actor'[b] = actor[b] /\ call'[b] = call[b]
      <3> DEFINE r == [actor[a] EXCEPT !.active = NoTenure,
                         !.pending = [op |-> "claim", issue |-> i, holder |-> minted + 1,
                                      claim |-> NoClaim, key |-> 0]]
      <3>1. minted' = minted + 1 /\ SetActor(a, r) /\ Begin(a, "claim", NoTenure)
        BY <1>5 DEF StartClaim
      <3> HIDE DEF r
      <3>2. actor'[a] = r /\ \A b \in Actors \ {a} : actor'[b] = actor[b]
        BY <1>0, <3>1, UpdateValues
      <3>3. /\ call'[a].op = "claim" /\ call'[a].out = "none" /\ call'[a].stage = "show"
            /\ \A b \in Actors \ {a} : call'[b] = call[b]
        BY <1>0, <3>1, UpdateValues
      <3> QED BY <3>1, <3>2, <3>3 DEF r
    <2>2. /\ actor'[a].active = NoTenure
          /\ actor'[a].pending = [op |-> "claim", issue |-> i, holder |-> minted + 1,
                                  claim |-> NoClaim, key |-> 0]
      BY <1>0, <2>1 DEF Actor
    <2>3. Frame(a)
      BY <1>0, <2>1 DEF Frame
    <2>4. TenureOK(a)'
      BY <2>2 DEF TenureOK, Active, NoTenure
    <2>6. PendingOK(a)'
      BY <1>0, <2>1, <2>2 DEF PendingOK
    <2>7. CallOK(a)'
      <3>1. /\ actor'[a].pending.op = call'[a].op
            /\ call'[a].stage # "reply" /\ call'[a].stage # "confirm"
        BY <2>1, <2>2
      <3> QED BY <3>1, CallPlain
    <2>5. \A h \in PrincipalsOf(a)' : h = minted + 1
      BY <2>2 DEF PrincipalsOf, Active, HasPending, NoTenure
    <2> QED BY <1>0, <2>2, <2>3, <2>4, <2>5, <2>6, <2>7, ActorStepInv
  <1>6. ASSUME NEW op \in {"renew", "release", "close"}, NEW key \in Nat,
               Active(a), ~HasPending(a),
               SetActor(a, [actor[a] EXCEPT !.pending = HeldPending(a, op, key)]),
               Begin(a, op, actor[a].active),
               minted' >= minted, op = "close" => key = minted + 1 /\ minted' = minted + 1
        PROVE  RuntimeInv'
    <2>1. /\ actor'[a] = [actor[a] EXCEPT !.pending = HeldPending(a, op, key)]
          /\ \A b \in Actors \ {a} : actor'[b] = actor[b]
      BY <1>0, <1>6, UpdateValues
    <2>2. /\ actor'[a].active = actor[a].active
          /\ actor'[a].pending = HeldPending(a, op, key)
      BY <1>0, <2>1 DEF Actor
    <2> QED BY <1>0, <1>6, <2>1, <2>2, HeldOperationStarts
  <1>7. ASSUME NEW op \in {"renew", "release"}, StartHeld(a, op) PROVE RuntimeInv'
    <2>1. /\ Active(a) /\ ~HasPending(a) /\ minted' = minted
          /\ SetActor(a, [actor[a] EXCEPT !.pending = HeldPending(a, op, 0)])
          /\ Begin(a, op, actor[a].active)
      BY <1>7 DEF StartHeld, Believes
    <2>2. op \in {"renew", "release", "close"} /\ op # "close" /\ minted' >= minted /\ 0 \in Nat
      BY <1>0, <2>1
    <2> QED BY <1>6, <2>1, <2>2
  <1>8. CASE StartClose(a)
    <2>1. /\ Active(a) /\ ~HasPending(a) /\ minted' = minted + 1
          /\ SetActor(a, [actor[a] EXCEPT !.pending = HeldPending(a, "close", minted + 1)])
          /\ Begin(a, "close", actor[a].active)
      BY <1>8 DEF StartClose, Believes
    <2>2. minted + 1 \in Nat /\ minted' >= minted
      BY <1>0, <2>1
    <2> QED BY <1>6, <2>1, <2>2
  <1>9. CASE Resend(a)
    <2>1. actor' = actor /\ minted' = minted /\ Begin(a, actor[a].pending.op, actor[a].active)
      BY <1>9 DEF Resend
    <2>2. /\ call'[a].op = actor[a].pending.op /\ call'[a].stage \in {"show", "kata"}
          /\ \A b \in Actors \ {a} : call'[b] = call[b]
      <3> DEFINE op == actor[a].pending.op
                 t == actor[a].active
      <3>1. Begin(a, op, t)
        BY <2>1
      <3> HIDE DEF op, t
      <3>2. /\ call'[a].op = op /\ call'[a].stage \in {"show", "kata"}
            /\ \A b \in Actors \ {a} : call'[b] = call[b]
        BY <1>0, <3>1, UpdateValues
      <3> QED BY <3>2 DEF op
    <2>3. CallOK(a)'
      <3>1. /\ actor'[a].pending.op = call'[a].op
            /\ call'[a].stage # "reply" /\ call'[a].stage # "confirm"
        BY <2>1, <2>2
      <3> QED BY <3>1, CallPlain
    <2> QED BY <1>3, <2>1, <2>2, <2>3
  <1>10. CASE Touch(a)
    <2>0. SetActor(a, [actor[a] EXCEPT !.active = NoTenure]) /\ call' = call /\ minted' = minted
      BY <1>10 DEF Touch
    <2> DEFINE r == [actor[a] EXCEPT !.active = NoTenure]
    <2>01. SetActor(a, r) => actor'[a] = r /\ \A b \in Actors \ {a} : actor'[b] = actor[b]
      <3> HIDE DEF r
      <3> QED BY <1>0, UpdateValues
    <2>1. actor'[a] = r /\ \A b \in Actors \ {a} : actor'[b] = actor[b]
      BY <2>0, <2>01
    <2>2. actor'[a].active = NoTenure /\ actor'[a].pending = actor[a].pending
      BY <1>0, <2>1 DEF Actor
    <2>3. CallOK(a)'
      BY <1>0, <2>0, <2>2, CallKept
    <2> QED BY <1>3, <2>0, <2>1, <2>2, <2>3
  <1>11. CASE Pause(a) \/ PromptLocally(a)
    <2>0. PICK paused \in BOOLEAN :
             SetActor(a, [actor[a] EXCEPT !.paused = paused, !.active = Unlapsed(actor[a].active)])
      <3>1. CASE Pause(a)
        <4>1. SetActor(a, [actor[a] EXCEPT !.paused = TRUE, !.active = Unlapsed(actor[a].active)])
          BY <1>0, <3>1 DEF Pause, Actor
        <4> QED BY <4>1
      <3>2. CASE PromptLocally(a)
        <4>1. SetActor(a, [actor[a] EXCEPT !.paused = FALSE, !.active = Unlapsed(actor[a].active)])
          BY <1>0, <3>2 DEF PromptLocally, Actor
        <4> QED BY <4>1
      <3> QED BY <1>11, <3>1, <3>2
    <2>1. /\ actor'[a] = [actor[a] EXCEPT !.paused = paused, !.active = Unlapsed(actor[a].active)]
          /\ \A b \in Actors \ {a} : actor'[b] = actor[b]
      BY <1>0, <2>0, UpdateValues
    <2>2. call' = call /\ minted' = minted
      BY <1>11 DEF Pause, PromptLocally
    <2>3. /\ actor'[a].active = Unlapsed(actor[a].active)
          /\ actor'[a].pending = actor[a].pending
      BY <1>0, <2>1 DEF Actor
    <2>4. CallOK(a)'
      BY <1>0, <2>2, <2>3, CallKept
    <2>5. Unlapsed(actor[a].active) \in {actor[a].active, NoTenure}
      BY <1>0, UnlapsedType
    <2> QED BY <1>3, <2>1, <2>2, <2>3, <2>4, <2>5
  <1>12. ASSUME NEW op \in {"look", "prompt"}, StartRefresh(a, op) PROVE RuntimeInv'
    <2>0. PICK r \in {actor[a], [actor[a] EXCEPT !.paused = FALSE]} : SetActor(a, r)
      BY <1>12 DEF StartRefresh
    <2>1. /\ actor'[a] = r
          /\ \A b \in Actors \ {a} : actor'[b] = actor[b]
      BY <1>0, <2>0, UpdateValues
    <2>2. /\ actor'[a].active = actor[a].active /\ actor'[a].pending = actor[a].pending
      BY <1>0, <2>1 DEF Actor
    <2>3. Begin(a, op, actor[a].active) /\ minted' = minted
      BY <1>12 DEF StartRefresh
    <2>4. /\ call'[a].op = op /\ call'[a].stage = "kata"
          /\ \A b \in Actors \ {a} : call'[b] = call[b]
      BY <1>0, <2>3, UpdateValues
    <2>5. CallOK(a)'
      <3>1. /\ call'[a].op \notin PendingOps
            /\ call'[a].stage # "reply" /\ call'[a].stage # "confirm"
        BY <2>4 DEF PendingOps
      <3> QED BY <3>1, CallPlain
    <2> QED BY <1>3, <2>1, <2>2, <2>3, <2>4, <2>5
  <1> QED BY <1>4, <1>5, <1>7, <1>8, <1>9, <1>10, <1>11, <1>12 DEF ClientStep
\* A Kata step moves one call, and its new promise is backed by what the
\* transaction did.
LEMMA KataStepInv ==
    ASSUME RuntimeInv, NEW a \in Actors, KataStep(a)
    PROVE  RuntimeInv'
  <1> USE AuthorityAssumption, RuntimeAssumption
  <1> DEFINE p == actor[a].pending
  <1>0. /\ RuntimeTypeOK /\ RuntimeTypeOK' /\ Transaction
        /\ actor[a] \in Actor /\ call[a] \in Call /\ call \in [Actors -> Call]
        /\ claims \in [Claims -> Row] /\ RowsOK
        /\ minted \in Nat /\ CallOK(a) /\ TenureOK(a) /\ PendingOK(a)
    BY KataStepType DEF RuntimeInv, TypeOK, RuntimeTypeOK, AuthorityTypeOK
  <1>1. actor' = actor /\ minted' = minted /\ ws' = ws
    BY DEF KataStep, DispatchFails, ShowIssue, AcquireLease, AcquireIsDenied, ConfirmIssue,
           CleanupClaim, RenewLease, ReleaseLease, CloseIssue, LookAtIssue, FinalRelease
  <1>2. ASSUME CallOK(a)', \A b \in Actors \ {a} : call'[b] = call[b],
               receipts' = receipts \/ (p.op = "close" /\ receipts' = receipts \cup {p.key})
        PROVE  RuntimeInv'
    <2>1. Frame(a)
      BY <1>0, <1>1, <1>2 DEF Frame
    <2>2. TenureOK(a)'
      BY <1>0, <1>1, TenureKept
    <2>3. PendingOK(a)'
      BY <1>0, <1>1, PendingKept
    <2>4. PrincipalsOf(a)' = PrincipalsOf(a)
      BY <1>1 DEF PrincipalsOf, Active, HasPending
    <2>5. actor'[a].pending.op = "close" =>
             actor[a].pending.op = "close" /\ actor'[a].pending.key = actor[a].pending.key
      BY <1>1
    <2> QED BY <1>0, <1>2, <2>1, <2>2, <2>3, <2>4, <2>5, ActorStepInv
  <1>3. ASSUME NEW out \in {"ok", "rejected", "unknown"}, Reply(a, out),
               out = "ok" => call[a].op \notin {"claim", "renew"},
               (call[a].op = "close" /\ out = "rejected") => p.key \notin receipts',
               receipts' = receipts \/ (p.op = "close" /\ receipts' = receipts \cup {p.key})
        PROVE  RuntimeInv'
    <2>1. /\ call'[a].op = call[a].op /\ call'[a].stage = "reply" /\ call'[a].out = out
          /\ \A b \in Actors \ {a} : call'[b] = call[b]
      BY <1>0, <1>3, UpdateValues
    <2>2. call[a].op \in PendingOps => p.op = call[a].op
      BY <1>0 DEF CallOK
    <2>3. CallOK(a)'
      BY <1>1, <1>3, <2>1, <2>2 DEF CallOK, AtStage
    <2> QED BY <1>2, <1>3, <2>1, <2>3
  <1>4. ASSUME NEW r \in Call, call' = [call EXCEPT ![a] = r], r.op = call[a].op,
               receipts' = receipts,
               r.stage # "confirm",
               r.stage = "reply" => r.out # "rejected" /\ (r.out = "ok" => r.op \in RefreshOps)
        PROVE  RuntimeInv'
    <2>1. call'[a] = r /\ \A b \in Actors \ {a} : call'[b] = call[b]
      BY <1>0, <1>4
    <2>2. call[a].op \in PendingOps => p.op = call[a].op
      BY <1>0 DEF CallOK
    <2>3. CallOK(a)'
      BY <1>1, <1>4, <2>1, <2>2 DEF CallOK, AtStage, RefreshOps
    <2> QED BY <1>2, <1>4, <2>1, <2>3
  <1>5. ASSUME NEW c \in Claims
        PROVE  claims[c] \in Row /\ claims[c].left \in 0..TTL
    BY <1>0 DEF Row
  <1>6. CASE DispatchFails(a)
    <2>1. Reply(a, "unknown") /\ receipts' = receipts
      BY <1>6 DEF DispatchFails, authorityVars
    <2> QED BY <1>3, <2>1
  <1>7. CASE ShowIssue(a)
    <2>1. receipts' = receipts /\ call[a].op = "claim"
      BY <1>7 DEF ShowIssue, AtStage, authorityVars
    <2>2. CASE Reply(a, "rejected")
      BY <1>3, <2>1, <2>2
    <2>3. CASE call' = [call EXCEPT ![a].stage = "acquire"]
      <3>1. [call[a] EXCEPT !.stage = "acquire"] \in Call
        BY <1>0 DEF Call
      <3>2. call' = [call EXCEPT ![a] = [call[a] EXCEPT !.stage = "acquire"]]
        BY <1>0, <2>3
      <3>3. /\ [call[a] EXCEPT !.stage = "acquire"].op = call[a].op
            /\ [call[a] EXCEPT !.stage = "acquire"].stage = "acquire"
        BY <1>0 DEF Call
      <3> QED BY <1>4, <2>1, <3>1, <3>2, <3>3
    <2> QED BY <1>7, <2>2, <2>3 DEF ShowIssue
  <1>8. CASE AcquireLease(a)
    <2>1. PICK c \in Claims : /\ Acquire(p.issue, p.holder, c)
                              /\ call' = [call EXCEPT ![a].stage = "confirm", ![a].claim = c,
                                                      ![a].span = claims'[c].left]
      BY <1>8 DEF AcquireLease
    <2>2. /\ call'[a].op = "claim" /\ call'[a].stage = "confirm" /\ call'[a].claim = c
          /\ call'[a].span = claims'[c].left
          /\ \A b \in Actors \ {a} : call'[b] = call[b]
      BY <1>0, <1>8, <2>1 DEF AcquireLease, AtStage, Call
    <2>3. /\ claims'[c].issue = p.issue /\ claims'[c].holder = p.holder
          /\ claims'[c].state = "held" /\ claims'[c].left \in Nat
      <3>1. CASE c \in LiveOf(p.issue, p.holder) /\ claims' = Swept
        BY <1>5, <3>1 DEF LiveOf, Live, Swept
      <3>2. CASE claims' = [Swept EXCEPT ![c] = [issue |-> p.issue, holder |-> p.holder,
                                                 left |-> TTL, state |-> "held"]]
        BY <3>2 DEF Swept
      <3> QED BY <2>1, <3>1, <3>2 DEF Acquire
    <2>4. Backed(p.issue, p.holder, call[a].claim, call[a].span)'
      <3>1. claims'[c].left >= claims'[c].left
        BY <2>3
      <3>2. Lasts(call[a].claim, call[a].span)'
        BY <2>2, <2>3, <3>1 DEF Lasts, Claims
      <3> QED BY <1>1, <2>2, <2>3, <3>2 DEF Backed
    <2>5. CallOK(a)'
      <3>1. p.op = "claim"
        BY <1>0, <1>8 DEF CallOK, AcquireLease, AtStage, PendingOps
      <3>2. p' = p
        BY <1>1
      <3>3. CallOK(a)' = (call'[a].op \in PendingOps => p'.op = call'[a].op)
        BY <2>2, <2>4 DEF CallOK, AtStage
      <3> QED BY <2>2, <3>1, <3>2, <3>3
    <2> QED BY <1>2, <2>1, <2>2, <2>5 DEF Acquire
  <1>9. CASE AcquireIsDenied(a)
    <2>1. Reply(a, "rejected") /\ receipts' = receipts /\ call[a].op = "claim"
      BY <1>9 DEF AcquireIsDenied, authorityVars, AtStage
    <2> QED BY <1>3, <2>1
  <1>10. CASE ConfirmIssue(a)
    <2> DEFINE c == call[a]
    <2>1. /\ c.op = "claim" /\ c.stage = "confirm" /\ UNCHANGED authorityVars
          /\ Backed(p.issue, p.holder, c.claim, c.span)
      BY <1>0, <1>10 DEF ConfirmIssue, AtStage, CallOK
    <2>2. CASE Granted(a) /\ status[p.issue] = "open"
      <3>1. /\ call'[a] = [c EXCEPT !.stage = "reply", !.out = "ok"]
            /\ \A b \in Actors \ {a} : call'[b] = call[b]
        BY <1>0, <2>2, UpdateValues
      <3>2. /\ call'[a].op = "claim" /\ call'[a].stage = "reply" /\ call'[a].out = "ok"
            /\ call'[a].claim = c.claim /\ call'[a].span = c.span /\ call'[a].age = c.age
        BY <1>0, <2>1, <3>1 DEF Call
      <3>3. Lasts(c.claim, AnswerLeft(c))
        <4>1. c.span \in Nat /\ c.age \in Nat
          BY <1>0 DEF Call
        <4>2. AnswerLeft(c) \in Nat /\ AnswerLeft(c) <= c.span
          BY <4>1 DEF AnswerLeft, Monus
        <4>3. c.claim \in Claims
          BY <2>1 DEF Backed, Lasts
        <4> QED BY <1>5, <2>1, <4>1, <4>2, <4>3, LastsLess DEF Backed
      <3>4. AnswerLeft(call[a])' = AnswerLeft(c)
        BY <3>2 DEF AnswerLeft, Monus
      <3>5. claims' = claims /\ status' = status /\ receipts' = receipts
        BY <2>1 DEF authorityVars
      <3>6. Backed(p.issue, p.holder, call[a].claim, AnswerLeft(call[a]))'
        BY <1>1, <2>1, <3>2, <3>3, <3>4, <3>5 DEF Backed, Lasts, Claims
      <3>7. OnOpenWork(call[a].claim)'
        BY <2>1, <2>2, <3>2, <3>5 DEF OnOpenWork, Backed
      <3>8. p.op = "claim"
        BY <1>0, <2>1 DEF CallOK, PendingOps
      <3>9. CallOK(a)'
        <4>1. CallOK(a)' = (call'[a].op \in PendingOps => p'.op = call'[a].op)
          BY <3>2, <3>6, <3>7 DEF CallOK, AtStage
        <4> QED BY <1>1, <3>2, <3>8, <4>1
      <3> QED BY <1>2, <3>1, <3>5, <3>9
    <2>3. CASE call' = [call EXCEPT ![a] = [NoCall EXCEPT !.op = "claim", !.stage = "cleanup"]]
      <3>1. /\ [NoCall EXCEPT !.op = "claim", !.stage = "cleanup"] \in Call
            /\ [NoCall EXCEPT !.op = "claim", !.stage = "cleanup"].op = "claim"
            /\ [NoCall EXCEPT !.op = "claim", !.stage = "cleanup"].stage = "cleanup"
        BY NullTypes DEF Call, CallOps, PendingOps
      <3> QED BY <1>4, <2>1, <2>3, <3>1 DEF authorityVars
    <2> QED BY <1>10, <2>2, <2>3 DEF ConfirmIssue
  <1>11. CASE CleanupClaim(a)
    <2>1. Reply(a, "rejected") /\ receipts' = receipts /\ call[a].op = "claim"
      BY <1>11 DEF CleanupClaim, authorityVars, AtStage, Release
    <2> QED BY <1>3, <2>1
  <1>12. CASE RenewLease(a)
    <2>0. call[a].op = "renew" /\ receipts' = receipts
      BY <1>12 DEF RenewLease, AtStage, Renew, authorityVars
    <2>1. CASE \E out \in {"rejected", "unknown"} : Reply(a, out)
      BY <1>3, <2>0, <2>1
    <2>2. ASSUME NEW c \in Claims, Renew(p.issue, p.holder, c),
                 call' = [call EXCEPT ![a].stage = "reply", ![a].out = "ok",
                                      ![a].claim = c, ![a].span = TTL]
          PROVE  RuntimeInv'
      <3>1. /\ call'[a].op = "renew" /\ call'[a].stage = "reply" /\ call'[a].out = "ok"
            /\ call'[a].claim = c /\ call'[a].span = TTL /\ call'[a].age = call[a].age
            /\ \A b \in Actors \ {a} : call'[b] = call[b]
        BY <1>0, <2>0, <2>2 DEF Call
      <3>2. claims'[c].state = "held" /\ claims'[c].left = TTL
        BY <1>5, <2>2 DEF Renew, LiveOf, Live, Swept, Row
      <3>3. AnswerLeft(call[a])' \in Nat /\ AnswerLeft(call[a])' <= TTL
        <4>1. call[a].age \in Nat
          BY <1>0 DEF Call
        <4> QED BY <3>1, <4>1 DEF AnswerLeft, Monus
      <3>4. Lasts(call[a].claim, AnswerLeft(call[a]))'
        BY <3>1, <3>2, <3>3 DEF Lasts, Claims
      <3>5. p.op = "renew"
        BY <1>0, <2>0 DEF CallOK, PendingOps
      <3>6. CallOK(a)'
        <4>1. CallOK(a)' = (call'[a].op \in PendingOps => p'.op = call'[a].op)
          BY <3>1, <3>4 DEF CallOK, AtStage
        <4> QED BY <1>1, <3>1, <3>5, <4>1
      <3> QED BY <1>2, <2>0, <3>1, <3>6
    <2> QED BY <1>12, <2>1, <2>2 DEF RenewLease, Answers
  <1>13. CASE ReleaseLease(a)
    <2>1. receipts' = receipts /\ call[a].op = "release"
      BY <1>13 DEF ReleaseLease, AtStage, Release, authorityVars
    <2>2. \E out \in {"ok", "rejected", "unknown"} : Reply(a, out)
      BY <1>13 DEF ReleaseLease, Answers
    <2> QED BY <1>3, <2>1, <2>2
  <1>14. CASE CloseIssue(a)
    <2>0. call[a].op = "close" /\ p.op = "close"
      BY <1>0, <1>14 DEF CloseIssue, AtStage, CallOK, PendingOps
    <2>1. ASSUME CloseReplay(p.key) \/ CloseCommit(p.issue, p.holder, p.claim, p.key),
                 NEW out \in Answers, Reply(a, out)
          PROVE  RuntimeInv'
      <3>1. receipts' = receipts \/ (p.op = "close" /\ receipts' = receipts \cup {p.key})
        BY <2>0, <2>1 DEF CloseReplay, CloseCommit, authorityVars
      <3>2. out \in {"ok", "rejected", "unknown"} /\ out # "rejected"
        BY DEF Answers
      <3> QED BY <1>3, <2>0, <2>1, <3>1, <3>2
    <2>2. ASSUME CloseRefused(p.issue, p.holder, p.claim, p.key) \/ p.key \notin receipts,
                 Reply(a, "rejected"), UNCHANGED authorityVars
          PROVE  RuntimeInv'
      <3>1. receipts' = receipts /\ p.key \notin receipts'
        BY <2>2 DEF CloseRefused, authorityVars
      <3> QED BY <1>3, <2>0, <2>2, <3>1
    <2> QED BY <1>14, <2>1, <2>2 DEF CloseIssue
  <1>15. CASE LookAtIssue(a)
    <2> DEFINE t == actor[a].active
    <2>0. receipts' = receipts /\ call[a].op \in RefreshOps /\ call[a].op # "close"
          /\ call[a].op \notin {"claim", "renew"}
      BY <1>15 DEF LookAtIssue, authorityVars, RefreshOps
    <2>1. CASE Reply(a, "rejected")
      BY <1>3, <2>0, <2>1
    <2>2. CASE /\ t.claim \in Claims
               /\ call' = [call EXCEPT ![a].stage = "reply", ![a].out = "ok",
                                       ![a].claim = t.claim, ![a].span = claims[t.claim].left]
      <3> DEFINE r == [call[a] EXCEPT !.stage = "reply", !.out = "ok",
                                      !.claim = t.claim, !.span = claims[t.claim].left]
      <3>1. r \in Call
        <4>1. claims[t.claim].left \in 0..TTL /\ t.claim \in Nat
          BY <1>5, <2>2 DEF Claims
        <4> QED BY <1>0, <4>1 DEF Call
      <3>2. call' = [call EXCEPT ![a] = r]
        BY <1>0, <2>2
      <3>3. r.op = call[a].op /\ r.stage = "reply" /\ r.out = "ok"
        BY <1>0 DEF Call
      <3> HIDE DEF r
      <3> QED BY <1>4, <2>0, <3>1, <3>2, <3>3
    <2> QED BY <1>15, <2>1, <2>2 DEF LookAtIssue
  <1>16. CASE FinalRelease(a)
    <2>1. Reply(a, "ok") /\ receipts' = receipts /\ call[a].op = "final"
      BY <1>16 DEF FinalRelease, authorityVars, AtStage, Release
    <2> QED BY <1>3, <2>1
  <1> QED BY <1>6, <1>7, <1>8, <1>9, <1>10, <1>11, <1>12, <1>13, <1>14, <1>15, <1>16 DEF KataStep

\* The end of a handler replaces a tenure only by one its answer backs.
LEMMA FinishStepInv ==
    ASSUME RuntimeInv, NEW a \in Actors, FinishStep(a)
    PROVE  RuntimeInv'
  <1> USE AuthorityAssumption, RuntimeAssumption
  <1> DEFINE p == actor[a].pending
             t == actor[a].active
             c == call[a]
  <1>0. /\ RuntimeTypeOK /\ RuntimeTypeOK' /\ UNCHANGED authorityVars /\ Transaction
        /\ actor[a] \in Actor /\ call[a] \in Call /\ t \in Tenure /\ p \in Pending
        /\ claims' = claims /\ status' = status /\ receipts' = receipts
        /\ claims \in [Claims -> Row]
        /\ minted \in Nat /\ CallOK(a) /\ TenureOK(a) /\ PendingOK(a)
    BY FinishStepType
    DEF RuntimeInv, TypeOK, RuntimeTypeOK, AuthorityTypeOK, Transaction, authorityVars, Actor
  \* A tenure the authority backs, under a principal of the actor.
  <1> DEFINE Good(u) ==
        \/ u.claim = NoClaim
        \/ /\ Backed(u.issue, u.holder, u.claim, u.left) /\ OnOpenWork(u.claim)
           /\ u.holder \in 1..minted /\ u.holder \in PrincipalsOf(a)
  <1>1. ASSUME NEW r \in Actor, SetActor(a, r), Unlock(a), minted' = minted,
               r.pending \in {NoPending, p}, Good(r.active)
        PROVE  RuntimeInv'
    <2>1. /\ actor'[a] = r /\ call'[a] = NoCall
          /\ \A b \in Actors \ {a} : actor'[b] = actor[b] /\ call'[b] = call[b]
      BY <1>0, <1>1, UpdateValues
    <2>2. Frame(a)
      BY <1>0, <1>1, <2>1 DEF Frame
    <2>3. TenureOK(a)'
      <3>1. CASE r.active.claim = NoClaim
        BY <2>1, <3>1 DEF TenureOK, Active
      <3>2. CASE r.active.claim # NoClaim
        BY <1>0, <1>1, <2>1, <3>2 DEF TenureOK, Active, Backed, Lasts, OnOpenWork, Claims
      <3> QED BY <3>1, <3>2
    <2>4. PendingOK(a)'
      <3>1. CASE r.pending = NoPending
        BY <2>1, <3>1 DEF PendingOK, HasPending, NoPending
      <3>2. CASE r.pending = p
        BY <1>0, <1>1, <2>1, <3>2, PendingKept
      <3> QED BY <1>1, <3>1, <3>2
    <2>5. CallOK(a)'
      <3>1. call'[a].op \notin PendingOps /\ call'[a].stage = "none"
        BY <2>1 DEF NoCall, PendingOps
      <3> QED BY <3>1, CallPlain
    <2>6. \A h \in PrincipalsOf(a)' : h \in PrincipalsOf(a)
      BY <1>1, <2>1 DEF PrincipalsOf, Active, HasPending, NoPending
    <2>7. actor'[a].pending.op = "close" => p.op = "close" /\ actor'[a].pending.key = p.key
      BY <1>1, <2>1 DEF NoPending
    <2> QED BY <1>0, <2>2, <2>3, <2>4, <2>5, <2>6, <2>7, ActorStepInv
  <1>2. Good(t)
    <2>1. CASE Active(a)
      BY <1>0, <2>1 DEF TenureOK, PrincipalsOf
    <2>2. CASE ~Active(a)
      BY <2>2 DEF Active
    <2> QED BY <2>1, <2>2
  <1>3. Good(NoTenure)
    BY DEF NoTenure
  <1>4. ASSUME NEW left \in Nat, left <= AnswerLeft(c), Lasts(c.claim, AnswerLeft(c))
        PROVE  Lasts(c.claim, left)
    <2>1. AnswerLeft(c) \in Nat
      BY <1>0, LeftTypes
    <2>2. claims[c.claim].left \in Nat
      BY <1>0, <1>4 DEF Lasts, Row
    <2> QED BY <1>4, <2>1, <2>2, LastsLess
  <1>5. CASE FinishUnknown(a)
    <2>1. /\ actor[a] \in Actor /\ SetActor(a, actor[a]) /\ Unlock(a) /\ minted' = minted
      BY <1>0, <1>5 DEF FinishUnknown, SetActor, RuntimeTypeOK
    <2> QED BY <1>1, <1>2, <2>1
  <1>6. CASE FinishRejected(a)
    <2> DEFINE r == [actor[a] EXCEPT !.pending = NoPending,
                        !.active = IF c.op \in {"renew", "release"} THEN NoTenure ELSE t]
    <2>1. SetActor(a, r) /\ Unlock(a) /\ minted' = minted
      BY <1>0, <1>6 DEF FinishRejected, Actor
    <2>2. r \in Actor /\ r.pending = NoPending /\ r.active \in {t, NoTenure}
      BY <1>0, NullTypes DEF Actor
    <2> HIDE DEF r
    <2>3. Good(r.active)
      BY <1>2, <1>3, <2>2
    <2> QED BY <1>1, <2>1, <2>2, <2>3
  <1>7. /\ [actor[a] EXCEPT !.pending = NoPending, !.active = NoTenure] \in Actor
        /\ [actor[a] EXCEPT !.pending = NoPending, !.active = NoTenure].pending = NoPending
        /\ [actor[a] EXCEPT !.pending = NoPending, !.active = NoTenure].active = NoTenure
    BY <1>0, NullTypes DEF Actor
  <1>8. ASSUME LoseLease(a), Unlock(a), minted' = minted PROVE RuntimeInv'
    <2> DEFINE r == [actor[a] EXCEPT !.pending = NoPending, !.active = NoTenure]
    <2>1. SetActor(a, r)
      BY <1>8 DEF LoseLease
    <2>2. r \in Actor /\ r.pending = NoPending /\ r.active = NoTenure
      BY <1>7
    <2> HIDE DEF r
    <2> QED BY <1>1, <1>3, <1>8, <2>1, <2>2
  <1>9. CASE FinishClaim(a)
    <2> DEFINE left == GrantedLeft(c)
               u == [issue |-> p.issue, holder |-> p.holder, claim |-> c.claim, left |-> left]
               r == [actor[a] EXCEPT !.active = u, !.pending = NoPending, !.unknown = FALSE,
                                     !.paused = FALSE, !.renewIn = RenewEvery]
    <2>0. c.op = "claim" /\ c.stage = "reply" /\ c.out = "ok" /\ Unlock(a) /\ minted' = minted
      BY <1>9 DEF FinishClaim, AtStage
    <2>1. CASE left = 0
      BY <1>8, <1>9, <2>0, <2>1 DEF FinishClaim
    <2>2. CASE left # 0
      <3>1. SetActor(a, r)
        BY <1>9, <2>2 DEF FinishClaim
      <3>2. left \in 0..TTL /\ left <= AnswerLeft(c)
        BY <1>0, LeftTypes
      <3>3. u \in Tenure
        BY <1>0, <3>2 DEF Tenure, Pending, Call
      <3>4. p.op = "claim" /\ Backed(p.issue, p.holder, c.claim, AnswerLeft(c)) /\ OnOpenWork(c.claim)
        BY <1>0, <2>0 DEF CallOK, PendingOps
      <3>5. Backed(u.issue, u.holder, u.claim, u.left)
        BY <1>4, <3>2, <3>4 DEF Backed
      <3>6. HasPending(a) /\ u.holder \in 1..minted
        BY <1>0, <3>4 DEF HasPending, PendingOK
      <3>7. Good(u)
        BY <3>4, <3>5, <3>6 DEF PrincipalsOf
      <3> HIDE DEF u
      <3>8. r \in Actor /\ r.pending = NoPending /\ r.active = u
        BY <1>0, <3>3, NullTypes DEF Actor
      <3> HIDE DEF r
      <3> QED BY <1>1, <2>0, <3>1, <3>7, <3>8
    <2> QED BY <2>1, <2>2
  <1>10. CASE FinishRenew(a)
    <2> DEFINE left == GrantedLeft(c)
               u == [t EXCEPT !.left = left]
               r == [actor[a] EXCEPT !.active = u, !.pending = NoPending,
                                     !.unknown = FALSE, !.renewIn = RenewEvery]
    <2>0. c.op = "renew" /\ c.stage = "reply" /\ c.out = "ok" /\ Unlock(a) /\ minted' = minted
      BY <1>10 DEF FinishRenew, AtStage
    <2>1. CASE ~RenewsHeldTenure(a) \/ left = 0
      BY <1>8, <1>10, <2>0, <2>1 DEF FinishRenew
    <2>2. CASE ~(~RenewsHeldTenure(a) \/ left = 0)
      <3>1. SetActor(a, r)
        BY <1>0, <1>10, <2>2 DEF FinishRenew, Actor
      <3>2. left \in 0..TTL /\ left <= AnswerLeft(c)
        BY <1>0, LeftTypes
      <3>3. /\ u \in Tenure /\ u.issue = t.issue /\ u.holder = t.holder
            /\ u.claim = t.claim /\ u.left = left
        BY <1>0, <3>2 DEF Tenure
      <3>4. Active(a) /\ t.claim = c.claim /\ Lasts(c.claim, AnswerLeft(c))
        BY <1>0, <2>0, <2>2 DEF CallOK, RenewsHeldTenure
      <3>5. Backed(t.issue, t.holder, t.claim, left)
        BY <1>0, <1>4, <3>2, <3>4 DEF Backed, TenureOK
      <3>6. OnOpenWork(t.claim) /\ t.holder \in 1..minted
        BY <1>0, <3>4 DEF TenureOK
      <3> HIDE DEF u
      <3>7. Good(u)
        BY <3>3, <3>4, <3>5, <3>6 DEF PrincipalsOf
      <3>8. r \in Actor /\ r.pending = NoPending /\ r.active = u
        BY <1>0, <3>3, NullTypes DEF Actor
      <3> HIDE DEF r
      <3> QED BY <1>1, <2>0, <3>1, <3>7, <3>8
    <2> QED BY <2>1, <2>2
  <1>11. CASE FinishRelease(a) \/ FinishClose(a)
    <2> DEFINE r == [actor[a] EXCEPT !.pending = NoPending, !.active = NoTenure, !.unknown = FALSE]
    <2>1. SetActor(a, r) /\ Unlock(a) /\ minted' = minted
      BY <1>11 DEF FinishRelease, FinishClose
    <2>2. r \in Actor /\ r.pending = NoPending /\ r.active = NoTenure
      BY <1>0, NullTypes DEF Actor
    <2> HIDE DEF r
    <2> QED BY <1>1, <1>3, <2>1, <2>2
  <1>12. CASE FinishRefresh(a)
    <2> DEFINE q == Refreshed(a, c)
               u == RefreshedTenure(t, c)
               r == [q EXCEPT !.active = Unlapsed(q.active)]
    <2>1. Good(u) /\ u \in Tenure
      <3>1. /\ u \in Tenure /\ u.left <= t.left /\ u.left \in Nat
            /\ u.issue = t.issue /\ u.holder = t.holder /\ u.claim = t.claim
        BY <1>0, LeftTypes
      <3> HIDE DEF u
      <3>2. CASE t.claim = NoClaim
        BY <3>1, <3>2
      <3>3. CASE t.claim # NoClaim
        <4>1. Backed(t.issue, t.holder, t.claim, t.left) /\ OnOpenWork(t.claim)
              /\ t.holder \in 1..minted /\ t.holder \in PrincipalsOf(a)
          BY <1>2, <3>3
        <4>2. t.left \in Nat /\ claims[t.claim].left \in Nat
          BY <1>0, <4>1 DEF Tenure, Backed, Lasts, Row
        <4>3. Lasts(t.claim, u.left)
          BY <3>1, <4>1, <4>2, LastsLess DEF Backed
        <4> QED BY <3>1, <4>1, <4>3 DEF Backed
      <3> QED BY <3>1, <3>2, <3>3
    <2> HIDE DEF u
    <2>2. Unlapsed(u) \in {u, NoTenure} /\ Unlapsed(u) \in Tenure
      BY <2>1, UnlapsedType
    <2>3. /\ q \in Actor /\ q.pending = p /\ q.active \in {t, NoTenure, Unlapsed(u)}
      <3>1. /\ [actor[a] EXCEPT !.unknown = TRUE] \in Actor
            /\ [actor[a] EXCEPT !.unknown = TRUE].pending = p
            /\ [actor[a] EXCEPT !.unknown = TRUE].active = t
        BY <1>0 DEF Actor
      <3>2. /\ [actor[a] EXCEPT !.unknown = FALSE, !.active = NoTenure] \in Actor
            /\ [actor[a] EXCEPT !.unknown = FALSE, !.active = NoTenure].pending = p
            /\ [actor[a] EXCEPT !.unknown = FALSE, !.active = NoTenure].active = NoTenure
        BY <1>0, NullTypes DEF Actor
      <3>3. /\ [actor[a] EXCEPT !.unknown = FALSE, !.active = Unlapsed(u)] \in Actor
            /\ [actor[a] EXCEPT !.unknown = FALSE, !.active = Unlapsed(u)].pending = p
            /\ [actor[a] EXCEPT !.unknown = FALSE, !.active = Unlapsed(u)].active = Unlapsed(u)
        BY <1>0, <2>2 DEF Actor
      <3>4. \/ q = [actor[a] EXCEPT !.unknown = TRUE]
            \/ q = [actor[a] EXCEPT !.unknown = FALSE, !.active = NoTenure]
            \/ q = [actor[a] EXCEPT !.unknown = FALSE, !.active = Unlapsed(u)]
        BY DEF Refreshed, u
      <3> QED BY <3>1, <3>2, <3>3, <3>4
    <2> HIDE DEF q
    <2>4. q.active \in Tenure /\ Good(q.active)
      BY <1>0, <1>2, <1>3, <2>1, <2>2, <2>3, NullTypes
    <2>5. Unlapsed(q.active) \in {q.active, NoTenure} /\ Unlapsed(q.active) \in Tenure
      BY <2>4, UnlapsedType
    <2>6. r \in Actor /\ r.pending = p /\ r.active = Unlapsed(q.active)
      BY <2>3, <2>5 DEF Actor
    <2>7. SetActor(a, r) /\ Unlock(a) /\ minted' = minted
      BY <1>12, <2>3 DEF FinishRefresh, Actor, q
    <2> HIDE DEF r
    <2>8. Good(r.active)
      BY <1>3, <2>4, <2>5, <2>6
    <2> QED BY <1>1, <2>6, <2>7, <2>8
  <1>13. CASE FinishFinal(a)
    <2> DEFINE r == [actor[a] EXCEPT !.active = NoTenure, !.pending = NoPending]
    <2>1. SetActor(a, r) /\ Unlock(a) /\ minted' = minted
      BY <1>13 DEF FinishFinal
    <2>2. r \in Actor /\ r.pending = NoPending /\ r.active = NoTenure
      BY <1>0, NullTypes DEF Actor
    <2> HIDE DEF r
    <2> QED BY <1>1, <1>3, <2>1, <2>2
  <1> QED BY <1>5, <1>6, <1>9, <1>10, <1>11, <1>12, <1>13 DEF FinishStep

\* A tick keeps or drops what an actor has, or starts its heartbeat.
LEMMA TickStepInv ==
    ASSUME RuntimeInv, NEW a \in Actors, TickStep(a)
    PROVE  RuntimeInv'
  <1> USE AuthorityAssumption, RuntimeAssumption
  <1> DEFINE p == actor[a].pending
             t == actor[a].active
  <1>0. /\ RuntimeTypeOK /\ RuntimeTypeOK' /\ UNCHANGED authorityVars
        /\ actor[a] \in Actor /\ CallOK(a) /\ actor \in [Actors -> Actor]
        /\ minted' = minted /\ minted \in Nat
    BY TickStepType
    DEF RuntimeInv, TypeOK, RuntimeTypeOK, TickStep, RetireActor, RetireIdle, TickLapsed, TickRenew
  <1>1. ASSUME NEW r \in Actor, SetActor(a, r), call[a] = NoCall, call' = call,
               r.active \in {t, NoTenure}, r.pending \in {p, NoPending}
        PROVE  RuntimeInv'
    <2>1. actor'[a] = r /\ \A b \in Actors \ {a} : actor'[b] = actor[b]
      BY <1>0, <1>1, UpdateValues
    <2>2. CallOK(a)'
      <3>1. call'[a].op \notin PendingOps /\ call'[a].stage = "none"
        BY <1>1 DEF NoCall, PendingOps
      <3> QED BY <3>1, CallPlain
    <2> QED BY <1>0, <1>1, <2>1, <2>2, KeptOrDropped
  <1>2. ASSUME NEW r \in Actor, SetActor(a, r), NEW op \in {"final", "renew"}, Begin(a, op, t),
               r.active = t, r.pending = p, op = "renew" => p.op = "renew"
        PROVE  RuntimeInv'
    <2>1. actor'[a] = r /\ \A b \in Actors \ {a} : actor'[b] = actor[b]
      BY <1>0, <1>2, UpdateValues
    <2>2. /\ call'[a].op = op /\ call'[a].stage = "kata"
          /\ \A b \in Actors \ {a} : call'[b] = call[b]
      BY <1>0, <1>2, UpdateValues
    <2>3. CallOK(a)'
      <3>1. /\ call'[a].op \in PendingOps => actor'[a].pending.op = call'[a].op
            /\ call'[a].stage # "reply" /\ call'[a].stage # "confirm"
        BY <1>2, <2>1, <2>2 DEF PendingOps
      <3> QED BY <3>1, CallPlain
    <2> QED BY <1>0, <1>2, <2>1, <2>2, <2>3, KeptOrDropped
  <1>3. ASSUME NEW r, r = [actor[a] EXCEPT !.retired = TRUE, !.active = NoTenure,
                                           !.pending = NoPending]
        PROVE  r \in Actor /\ r.active = NoTenure /\ r.pending = NoPending
    BY <1>0, <1>3, NullTypes DEF Actor
  <1>4. CASE RetireActor(a)
    <2>0. call[a] = NoCall
      BY <1>4 DEF RetireActor
    <2>1. CASE SetActor(a, [actor[a] EXCEPT !.retired = TRUE]) /\ Begin(a, "final", t)
      <3> DEFINE r == [actor[a] EXCEPT !.retired = TRUE]
      <3>1. r \in Actor /\ r.active = t /\ r.pending = p
        BY <1>0 DEF Actor
      <3>2. SetActor(a, r)
        BY <2>1
      <3> HIDE DEF r
      <3> QED BY <1>2, <2>1, <3>1, <3>2
    <2>2. CASE /\ SetActor(a, [actor[a] EXCEPT !.retired = TRUE, !.active = NoTenure,
                                               !.pending = NoPending])
               /\ UNCHANGED call
      BY <1>1, <1>3, <2>0, <2>2
    <2> QED BY <1>4, <2>1, <2>2 DEF RetireActor
  <1>5. CASE RetireIdle(a)
    BY <1>1, <1>3, <1>5 DEF RetireIdle
  <1>6. CASE TickLapsed(a)
    <2>0. call[a] = NoCall /\ call' = call
      BY <1>6 DEF TickLapsed, Ticks
    <2>1. CASE UNCHANGED actor
      BY <1>0, <1>1, <2>0, <2>1 DEF SetActor
    <2>2. CASE SetActor(a, [actor[a] EXCEPT !.active = NoTenure])
      <3> DEFINE r == [actor[a] EXCEPT !.active = NoTenure]
      <3>1. r \in Actor /\ r.active = NoTenure /\ r.pending = p
        BY <1>0, NullTypes DEF Actor
      <3>2. SetActor(a, r)
        BY <2>2
      <3> HIDE DEF r
      <3> QED BY <1>1, <2>0, <3>1, <3>2
    <2> QED BY <1>6, <2>1, <2>2 DEF TickLapsed
  <1>7. CASE TickRenew(a)
    <2> DEFINE later == [actor[a] EXCEPT !.renewIn = RenewRetry]
    <2>0. call[a] = NoCall /\ Active(a)
      BY <1>7 DEF TickRenew, Ticks, Believes
    <2>1. later \in Actor /\ later.active = t /\ later.pending = p
      BY <1>0 DEF Actor
    <2> HIDE DEF later
    <2>2. ASSUME ~HasPending(a), SetActor(a, [later EXCEPT !.pending = HeldPending(a, "renew", 0)]),
                 Begin(a, "renew", t)
          PROVE  RuntimeInv'
      <3> DEFINE r == [later EXCEPT !.pending = HeldPending(a, "renew", 0)]
      <3>1. r.active = t /\ r.pending = HeldPending(a, "renew", 0)
        BY <2>1 DEF Actor
      <3>2. SetActor(a, r)
        BY <2>2
      <3> HIDE DEF r
      <3>3. actor'[a] = r /\ \A b \in Actors \ {a} : actor'[b] = actor[b]
        BY <1>0, <3>2, UpdateValues
      <3> QED BY <1>0, <2>0, <2>2, <3>1, <3>3, HeldOperationStarts
    <2>3. ASSUME p.op = "renew", SetActor(a, later), Begin(a, "renew", t) PROVE RuntimeInv'
      BY <1>2, <2>1, <2>3
    <2>4. ASSUME SetActor(a, later), UNCHANGED call PROVE RuntimeInv'
      BY <1>1, <2>0, <2>1, <2>4
    <2> QED BY <1>7, <2>2, <2>3, <2>4 DEF TickRenew, later
  <1> QED BY <1>4, <1>5, <1>6, <1>7 DEF TickStep

\* Lasts, of the rows after a step.
LastsAfter(c, left) ==
    /\ c \in Claims
    /\ \/ claims'[c].state = "released"
       \/ claims'[c].state = "held" /\ claims'[c].left >= left
       \/ claims'[c].state = "expired" /\ left = 0

\* Time takes one unit from every deadline and at most one from every row, so
\* what was backed stays backed.
LEMMA AdvanceInv ==
    ASSUME RuntimeInv, Advance
    PROVE  RuntimeInv'
  <1> USE AuthorityAssumption, RuntimeAssumption
  <1>0. /\ AuthorityOK /\ Elapse /\ RuntimeTypeOK' /\ receipts' = receipts
        /\ actor \in [Actors -> Actor] /\ call \in [Actors -> Call]
        /\ minted' = minted /\ minted \in Nat
    BY EnvironmentType DEF RuntimeInv, TypeOK, RuntimeTypeOK, AuthorityOK, Environment, Advance, Elapse
  <1>1. TypeOK' /\ RowsOK'
    BY <1>0, ElapseKeeps DEF TypeOK
  <1>2. /\ \A c, left : (Lasts(c, left) /\ left \in Nat) => Lasts(c, Monus(left, 1))'
        /\ \A c \in Claims : /\ claims'[c].issue = claims[c].issue
                             /\ claims'[c].holder = claims[c].holder
        /\ \A c \in Claims : OnOpenWork(c) => OnOpenWork(c)'
    BY <1>0, ElapseKeeps
  <1>lasts. \A c, left : (Lasts(c, left) /\ left \in Nat) => LastsAfter(c, Monus(left, 1))
    BY <1>2 DEF Lasts, LastsAfter, Claims
  <1>3. ASSUME NEW i, NEW h, NEW c, NEW left \in Nat, Backed(i, h, c, left)
        PROVE  /\ claims'[c].issue = i /\ claims'[c].holder = h
               /\ LastsAfter(c, Monus(left, 1)) /\ c \in Claims
    BY <1>2, <1>3, <1>lasts DEF Backed, Lasts
  <1>4. ASSUME NEW a \in Actors
        PROVE  /\ actor'[a].active.claim = actor[a].active.claim
               /\ actor'[a].active.issue = actor[a].active.issue
               /\ actor'[a].active.holder = actor[a].active.holder
               /\ actor'[a].active.left = Monus(actor[a].active.left, 1)
               /\ actor'[a].pending = actor[a].pending
    <2> DEFINE u == [actor[a].active EXCEPT !.left = Monus(actor[a].active.left, 1)]
    <2>1. actor[a] \in Actor /\ actor[a].active \in Tenure
      BY <1>0 DEF Actor
    <2>2. actor'[a] = [actor[a] EXCEPT !.active = u, !.renewIn = Monus(actor[a].renewIn, 1)]
      BY <1>0, <2>1 DEF Advance, Actor, Tenure
    <2>3. actor'[a].active = u /\ actor'[a].pending = actor[a].pending
      BY <2>1, <2>2 DEF Actor
    <2> QED BY <2>1, <2>3 DEF Tenure
  <1>5. ASSUME NEW a \in Actors PROVE TenureOK(a)'
    <2> DEFINE t == actor[a].active
    <2>0. CASE t.claim = NoClaim
      BY <1>4, <2>0 DEF TenureOK, Active
    <2>1. CASE t.claim # NoClaim
      <3>1. t.left \in Nat
        BY <1>0 DEF Actor, Tenure
      <3>2. /\ Backed(t.issue, t.holder, t.claim, t.left) /\ OnOpenWork(t.claim)
            /\ t.holder \in 1..minted
        BY <2>1 DEF RuntimeInv, TenureOK, Active
      <3>3. /\ claims'[t.claim].issue = t.issue /\ claims'[t.claim].holder = t.holder
            /\ LastsAfter(t.claim, Monus(t.left, 1)) /\ t.claim \in Claims
        BY <1>3, <3>1, <3>2
      <3>4. OnOpenWork(actor[a].active.claim)'
        BY <1>2, <1>4, <3>2, <3>3 DEF OnOpenWork
      <3>5. Backed(actor[a].active.issue, actor[a].active.holder, actor[a].active.claim,
                   actor[a].active.left)'
        BY <1>4, <3>3 DEF Backed, Lasts, LastsAfter, Claims
      <3>6. actor'[a].active.holder \in 1..minted'
        BY <1>0, <1>4, <3>2
      <3> QED BY <3>4, <3>5, <3>6 DEF TenureOK
    <2> QED BY <2>0, <2>1
  <1>6. ASSUME NEW a \in Actors PROVE PendingOK(a)'
    <2>1. actor'[a].pending = actor[a].pending
      BY <1>4
    <2> QED BY <1>0, <2>1, PendingKept
  <1>7. ASSUME NEW a \in Actors PROVE CallOK(a)'
    <2> DEFINE c == call[a]
               p == actor[a].pending
    <2>0. c \in Call /\ c.span \in 0..TTL /\ c.age \in 0..TTL /\ TTL \in Nat
      BY <1>0 DEF Call
    <2>1. /\ call'[a].op = c.op /\ call'[a].stage = c.stage /\ call'[a].claim = c.claim
          /\ call'[a].out = c.out
          /\ call'[a].age = IF MeasuresTime(c) THEN Smaller(c.age + 1, TTL) ELSE c.age
          /\ call'[a].span = IF c.stage = "confirm" THEN Monus(c.span, 1) ELSE c.span
      BY <2>0 DEF Advance, Aged, Call
    <2>2. actor'[a].pending = p /\ CallOK(a)
      BY <1>4 DEF RuntimeInv
    <2>3. ASSUME c.op \in {"claim", "renew"}, c.stage = "reply", c.out = "ok"
          PROVE  AnswerLeft(call[a])' = Monus(AnswerLeft(c), 1) /\ AnswerLeft(c) \in Nat
      <3>1. call'[a].age = Smaller(c.age + 1, TTL) /\ call'[a].span = c.span
        BY <2>1, <2>3 DEF MeasuresTime
      <3> QED BY <2>0, <3>1 DEF AnswerLeft, Monus, Smaller
    <2>4. ASSUME AtStage(a, "claim", "confirm")
          PROVE  Backed(p.issue, p.holder, call[a].claim, call[a].span)'
      <3>1. Backed(p.issue, p.holder, c.claim, c.span) /\ call'[a].span = Monus(c.span, 1)
        BY <2>1, <2>2, <2>4 DEF CallOK, AtStage
      <3> QED BY <1>3, <2>0, <2>1, <2>2, <3>1 DEF Backed, Lasts, LastsAfter, Claims
    <2>5. ASSUME c.op = "claim", c.stage = "reply", c.out = "ok"
          PROVE  Backed(p.issue, p.holder, call[a].claim, AnswerLeft(call[a]))'
                 /\ OnOpenWork(call[a].claim)'
      <3>1. Backed(p.issue, p.holder, c.claim, AnswerLeft(c)) /\ OnOpenWork(c.claim)
        BY <2>2, <2>5 DEF CallOK
      <3>2. c.claim \in Claims
        BY <3>1 DEF Backed, Lasts
      <3>3. OnOpenWork(call[a].claim)'
        BY <1>2, <2>1, <3>1, <3>2 DEF OnOpenWork
      <3>4. AnswerLeft(call[a])' = Monus(AnswerLeft(c), 1) /\ AnswerLeft(c) \in Nat
        BY <2>3, <2>5
      <3>5. claims'[c.claim].issue = p.issue /\ claims'[c.claim].holder = p.holder
            /\ LastsAfter(c.claim, Monus(AnswerLeft(c), 1))
        BY <1>3, <3>1, <3>4
      <3> QED BY <2>1, <2>2, <3>3, <3>4, <3>5 DEF Backed, Lasts, LastsAfter, Claims
    <2>6. ASSUME c.op = "renew", c.stage = "reply", c.out = "ok"
          PROVE  Lasts(call[a].claim, AnswerLeft(call[a]))'
      <3>1. Lasts(c.claim, AnswerLeft(c))
        BY <2>2, <2>6 DEF CallOK
      <3>2. AnswerLeft(call[a])' = Monus(AnswerLeft(c), 1) /\ AnswerLeft(c) \in Nat
        BY <2>3, <2>6
      <3>3. LastsAfter(c.claim, Monus(AnswerLeft(c), 1))
        BY <1>lasts, <3>1, <3>2
      <3> QED BY <2>1, <3>2, <3>3 DEF Lasts, LastsAfter, Claims
    <2> QED BY <1>0, <2>1, <2>2, <2>4, <2>5, <2>6 DEF CallOK, AtStage
  <1>8. ASSUME NEW a \in Actors, NEW b \in Actors, a # b PROVE Apart(a, b)'
    <2>1. Apart(a, b)
      BY <1>8 DEF RuntimeInv
    <2> QED BY <1>4, <2>1 DEF Apart, PrincipalsOf, Active, HasPending
  <1> QED BY <1>1, <1>5, <1>6, <1>7, <1>8 DEF RuntimeInv

\* A transaction nobody of the runtime asked for.
LEMMA IdleInv ==
    ASSUME RuntimeInv, Transaction, RuntimeTypeOK', UNCHANGED <<actor, call, minted, receipts>>
    PROVE  RuntimeInv'
  <1>0. minted \in Nat /\ AuthorityOK
    BY DEF RuntimeInv, TypeOK, RuntimeTypeOK, AuthorityOK
  <1>1. TypeOK' /\ RowsOK'
    BY <1>0, TransactionType, TransactionRows DEF TypeOK, AuthorityOK
  <1>2. ASSUME NEW a \in Actors PROVE TenureOK(a)' /\ PendingOK(a)' /\ CallOK(a)'
    BY <1>0, TenureKept, PendingKept, CallKept
  <1>3. ASSUME NEW a \in Actors, NEW b \in Actors, a # b PROVE Apart(a, b)'
    BY <1>3 DEF RuntimeInv, Apart, PrincipalsOf, Active, HasPending
  <1> QED BY <1>1, <1>2, <1>3 DEF RuntimeInv

\* Ends of processes, a restart, hosts, the sweeper and time.
LEMMA EnvironmentInv ==
    ASSUME RuntimeInv, Environment \/ DaemonRestart
    PROVE  RuntimeInv'
  <1>0. /\ RuntimeTypeOK' /\ (Advance \/ Transaction) /\ minted \in Nat
        /\ AuthorityOK
    BY EnvironmentType DEF RuntimeInv, TypeOK, RuntimeTypeOK, AuthorityOK
  <1>1. CASE Advance
    BY <1>1, AdvanceInv
  <1>2. ASSUME Transaction, minted' = minted PROVE TypeOK' /\ RowsOK'
    BY <1>0, <1>2, TransactionType, TransactionRows DEF TypeOK, AuthorityOK
  <1>3. ASSUME Transaction, actor' = actor, call' = call, minted' = minted, receipts' = receipts
        PROVE  RuntimeInv'
    BY <1>0, <1>3, IdleInv
  <1>4. CASE DaemonRestart
    <2>1. Transaction /\ minted' = minted
      BY <1>4 DEF DaemonRestart, Transaction
    <2>2. ASSUME NEW a \in Actors
          PROVE  actor'[a].active = NoTenure /\ actor'[a].pending = NoPending /\ call'[a] = NoCall
      BY <1>4 DEF DaemonRestart, FreshActor
    <2>3. ASSUME NEW a \in Actors PROVE TenureOK(a)' /\ PendingOK(a)' /\ CallOK(a)'
      <3>1. TenureOK(a)'
        BY <2>2 DEF TenureOK, Active, NoTenure
      <3>2. PendingOK(a)'
        BY <2>2 DEF PendingOK, HasPending, NoPending
      <3>3. CallOK(a)'
        BY <2>2 DEF CallOK, AtStage, NoCall, PendingOps
      <3> QED BY <3>1, <3>2, <3>3
    <2>4. ASSUME NEW a \in Actors, NEW b \in Actors PROVE Apart(a, b)'
      BY <2>2 DEF Apart, PrincipalsOf, Active, HasPending, NoTenure, NoPending
    <2> QED BY <1>2, <2>1, <2>3, <2>4 DEF RuntimeInv
  <1>5. ASSUME NEW i \in Instances,
               Register(i) \/ ProcessExit(i) \/ \E normal \in BOOLEAN : EndInstance(i, normal)
        PROVE  RuntimeInv'
    BY <1>3, <1>5 DEF Register, ProcessExit, EndInstance, Transaction, authorityVars
  <1>6. CASE RetireDead
    BY <1>3, <1>6 DEF RetireDead, Transaction, authorityVars
  <1>7. CASE Authority
    <2>1. Transaction /\ receipts' = receipts
      BY <1>7 DEF Authority, Transaction, HumanClose, HumanReopen, ForceRelease, Sweep
    <2> QED BY <1>3, <1>7, <2>1 DEF Authority, runtimeVars
  <1> QED BY <1>1, <1>4, <1>5, <1>6, <1>7 DEF Environment

\* RuntimeInv holds initially.
LEMMA InitInv == Init => RuntimeInv
  <1> SUFFICES ASSUME Init PROVE RuntimeInv
    OBVIOUS
  <1>1. TypeOK /\ RowsOK
    BY AuthorityInitOK, NullTypes DEF Init, TypeOK, RuntimeTypeOK, InstanceStates
  <1>2. ASSUME NEW a \in Actors
        PROVE  actor[a].active = NoTenure /\ actor[a].pending = NoPending /\ call[a] = NoCall
    BY DEF Init, FreshActor
  <1>3. ASSUME NEW a \in Actors PROVE TenureOK(a) /\ PendingOK(a) /\ CallOK(a)
    <2>1. TenureOK(a)
      BY <1>2 DEF TenureOK, Active, NoTenure
    <2>2. PendingOK(a)
      BY <1>2 DEF PendingOK, HasPending, NoPending
    <2>3. CallOK(a)
      BY <1>2 DEF CallOK, AtStage, NoCall, PendingOps
    <2> QED BY <2>1, <2>2, <2>3
  <1>4. ASSUME NEW a \in Actors, NEW b \in Actors PROVE Apart(a, b)
    BY <1>2 DEF Apart, PrincipalsOf, Active, HasPending, NoTenure, NoPending
  <1> QED BY <1>1, <1>3, <1>4 DEF RuntimeInv

-----------------------------------------------------------------------------
(* The theorems.                                                             *)

\* Every step of the runtime and of what surrounds it preserves RuntimeInv.
THEOREM InvariantIsInductive == RuntimeInv /\ [Next]_vars => RuntimeInv'
  <1> SUFFICES ASSUME RuntimeInv, [Next]_vars PROVE RuntimeInv'
    OBVIOUS
  <1>1. CASE Environment \/ DaemonRestart
    BY <1>1, EnvironmentInv
  <1>2. ASSUME NEW a \in Actors, ActorStep(a) PROVE RuntimeInv'
    BY <1>2, ClientStepInv, KataStepInv, FinishStepInv, TickStepInv DEF ActorStep
  <1>3. CASE UNCHANGED vars
    <2>1. RuntimeTypeOK' /\ Transaction
      BY <1>3 DEF vars, RuntimeInv, TypeOK, RuntimeTypeOK, Transaction, authorityVars
    <2> QED BY <1>3, <2>1, IdleInv DEF vars
  <1> QED BY <1>1, <1>2, <1>3 DEF Next

\* RuntimeInv is an invariant of the runtime.
THEOREM Invariance == Spec => []RuntimeInv
  <1>1. Init => RuntimeInv
    BY InitInv
  <1>2. RuntimeInv /\ [Next]_vars => RuntimeInv'
    BY InvariantIsInductive
  <1> QED BY <1>1, <1>2, PTL DEF Spec

\* Type correctness of the runtime (runtime_core.go) and the authority.
THEOREM TypesAreKept == Spec => []TypeOK
  <1>1. RuntimeInv => TypeOK
    BY DEF RuntimeInv
  <1> QED BY <1>1, Invariance, PTL

\* The deadline arithmetic of execute() is safe: the authority never expires a
\* tenure before the runtime stops acting on it.
THEOREM LeasesCoverBelief == Spec => []LeaseCover
  <1>1. RuntimeInv => LeaseCover
    <2> SUFFICES ASSUME RuntimeInv, NEW a \in Actors, Believes(a)
                 PROVE  /\ Row_(a).issue = actor[a].active.issue
                        /\ Row_(a).holder = actor[a].active.holder
                        /\ \/ Row_(a).state = "released"
                           \/ Row_(a).state = "held" /\ Row_(a).left >= actor[a].active.left
      BY DEF LeaseCover
    <2>1. TenureOK(a) /\ Active(a) /\ actor[a].active.left > 0
      BY DEF RuntimeInv, Believes
    <2>2. actor[a].active.left # 0
      BY <2>1, AuthorityAssumption DEF RuntimeInv, TypeOK, RuntimeTypeOK, Actor, Tenure
    <2> QED BY <2>1, <2>2 DEF TenureOK, Backed, Lasts, Row_
  <1> QED BY <1>1, Invariance, PTL

\* The row of a tenure an actor works on, unless a host released it.
LEMMA BelievedRow ==
    ASSUME RuntimeInv, NEW d \in Actors, Believes(d), Row_(d).state # "released"
    PROVE  /\ actor[d].active.claim \in Claims /\ Row_(d).state = "held"
           /\ Row_(d).issue = actor[d].active.issue
           /\ Row_(d).holder = actor[d].active.holder
           /\ Active(d)
  <1>1. TenureOK(d) /\ Active(d) /\ actor[d].active.left > 0
    BY DEF RuntimeInv, Believes
  <1>2. actor[d].active.left # 0
    BY <1>1, AuthorityAssumption DEF RuntimeInv, TypeOK, RuntimeTypeOK, Actor, Tenure
  <1> QED BY <1>1, <1>2 DEF TenureOK, Backed, Lasts, Row_

\* Two actors act on one issue at a time only after a host's release.
THEOREM BeliefIsExclusive == Spec => []ExclusiveBelief
  <1>1. RuntimeInv => ExclusiveBelief
    <2> SUFFICES ASSUME RuntimeInv, NEW a \in Actors, NEW b \in Actors, a # b,
                        Believes(a), Believes(b),
                        actor[a].active.issue = actor[b].active.issue,
                        Row_(a).state # "released", Row_(b).state # "released"
                 PROVE  FALSE
      BY DEF ExclusiveBelief
    <2>1. actor[a].active.claim = actor[b].active.claim
      BY BelievedRow DEF RuntimeInv, RowsOK, Row_
    <2>2. actor[a].active.holder = actor[b].active.holder
      BY BelievedRow, <2>1 DEF Row_
    <2> QED BY BelievedRow, <2>2 DEF RuntimeInv, Apart, PrincipalsOf
  <1> QED BY <1>1, Invariance, PTL

\* No actor holds a live tenure on closed work.
THEOREM ClosedWorkIsNotHeld == Spec => []ClosedWorkNotHeld
  <1>1. RuntimeInv => ClosedWorkNotHeld
    <2> SUFFICES ASSUME RuntimeInv, NEW a \in Actors, Believes(a),
                        status[actor[a].active.issue] = "closed", Row_(a).state # "released"
                 PROVE  FALSE
      BY DEF ClosedWorkNotHeld
    <2>1. TenureOK(a) /\ actor[a].active.left \in Nat /\ actor[a].active.left > 0
      BY AuthorityAssumption
      DEF RuntimeInv, Believes, TypeOK, RuntimeTypeOK, Actor, Tenure
    <2>2. Row_(a).state = "held" /\ Row_(a).left >= actor[a].active.left
          /\ Row_(a).issue = actor[a].active.issue /\ OnOpenWork(actor[a].active.claim)
      BY <2>1 DEF TenureOK, Backed, Lasts, Row_, Believes
    <2>3. Row_(a).left \in Nat
      <3>1. actor[a].active.claim \in Claims
        BY <2>1 DEF TenureOK, Backed, Lasts, Believes
      <3>2. claims[actor[a].active.claim].left \in 0..TTL
        BY <3>1 DEF RuntimeInv, TypeOK, AuthorityTypeOK, Row
      <3> QED BY <3>2, AuthorityAssumption DEF Row_
    <2> QED BY <2>1, <2>2, <2>3 DEF OnOpenWork, Row_
  <1> QED BY <1>1, Invariance, PTL

\* A close the runtime was told is rejected has not committed.
THEOREM RejectedClosesDidNothing == Spec => []RejectedCloseDidNothing
  <1>1. RuntimeInv => RejectedCloseDidNothing
    BY DEF RuntimeInv, CallOK, RejectedCloseDidNothing
  <1> QED BY <1>1, Invariance, PTL

-----------------------------------------------------------------------------
(* The runtime implements ExclusiveTenure.                                   *)

\* The promise's variables, in terms of the runtime's.
Phase == [c \in Claims |-> PhaseOf(claims[c])]
IssueOf == [c \in Claims |-> claims[c].issue]
Works == [a \in Actors |-> IF Believes(a) THEN actor[a].active.claim ELSE 0]

\* While a claim is pending the actor holds no tenure that its answer could
\* replace.
ClaimsFromNothing ==
    \A a \in Actors : actor[a].pending.op = "claim" => actor[a].active.claim = NoClaim

\* What one handler may do to the tenure its actor holds and the operation that
\* is pending.
TenureMoves(a) ==
    /\ \A b \in Actors : b # a => actor'[b] = actor[b]
    /\ \/ actor'[a].active.claim \in {NoClaim, actor[a].active.claim}
       \/ actor[a].active.claim = NoClaim
    /\ actor'[a].pending.op = "claim" => actor'[a].active.claim = NoClaim
    /\ \/ actor'[a].pending \in {NoPending, actor[a].pending}
       \/ actor[a].pending.op = "none"

-----------------------------------------------------------------------------
(* The handlers.                                                             *)

\* One field of one actor is assigned.
LEMMA AssignedActor ==
    ASSUME RuntimeInv, NEW a \in Actors, NEW r, SetActor(a, r),
           \/ r.active.claim \in {NoClaim, actor[a].active.claim}
           \/ actor[a].active.claim = NoClaim,
           r.pending.op = "claim" => r.active.claim = NoClaim,
           r.pending \in {NoPending, actor[a].pending} \/ actor[a].pending.op = "none"
    PROVE  TenureMoves(a)
  <1>1. actor \in [Actors -> Actor]
    BY DEF RuntimeInv, TypeOK, RuntimeTypeOK
  <1>2. actor' = [actor EXCEPT ![a] = r]
    BY DEF SetActor
  <1> QED BY <1>1, <1>2 DEF TenureMoves

\* A handler that assigns no field moves no tenure.
LEMMA UnassignedActor ==
    ASSUME ClaimsFromNothing, NEW a \in Actors, actor' = actor
    PROVE  TenureMoves(a)
  BY DEF TenureMoves, ClaimsFromNothing

\* Client commands and events start operations and drop lapsed tenures.
LEMMA ClientStepMoves ==
    ASSUME RuntimeInv, ClaimsFromNothing, NEW a \in Actors, ClientStep(a)
    PROVE  TenureMoves(a)
  <1>0. /\ actor[a] \in Actor /\ actor[a].active \in Tenure /\ actor[a].pending \in Pending
        /\ actor[a].pending.op = "claim" => actor[a].active.claim = NoClaim
        /\ NoTenure \in Tenure /\ NoTenure.claim = NoClaim
    BY NullTypes DEF RuntimeInv, TypeOK, RuntimeTypeOK, Actor, ClaimsFromNothing, NoTenure
  <1>un. /\ Unlapsed(actor[a].active) \in {actor[a].active, NoTenure}
    BY <1>0, UnlapsedType
  <1>1. CASE SessionEnd(a) \/ Resend(a)
    BY <1>1, UnassignedActor DEF SessionEnd, Resend
  <1>2. ASSUME NEW i \in Issues, StartClaim(a, i) PROVE TenureMoves(a)
    <2> DEFINE r == [actor[a] EXCEPT
           !.active = NoTenure,
           !.pending = [op |-> "claim", issue |-> i, holder |-> minted + 1,
                        claim |-> NoClaim, key |-> 0]]
    <2>1. SetActor(a, r) /\ actor[a].pending.op = "none"
      BY <1>2 DEF StartClaim, HasPending
    <2>2. r.active.claim = NoClaim
      BY <1>0 DEF Actor
    <2> HIDE DEF r
    <2> QED BY <2>1, <2>2, AssignedActor
  <1>3. ASSUME NEW op \in {"renew", "release", "close"}, NEW key,
               actor[a].pending.op = "none",
               SetActor(a, [actor[a] EXCEPT !.pending = HeldPending(a, op, key)])
        PROVE  TenureMoves(a)
    <2> DEFINE r == [actor[a] EXCEPT !.pending = HeldPending(a, op, key)]
    <2>1. r.active = actor[a].active /\ r.pending.op # "claim"
      BY <1>0 DEF Actor, HeldPending
    <2> HIDE DEF r
    <2> QED BY <1>3, <2>1, AssignedActor DEF r
  <1>4. ASSUME NEW op \in {"renew", "release"}, StartHeld(a, op) PROVE TenureMoves(a)
    BY <1>3, <1>4 DEF StartHeld, HasPending
  <1>5. CASE StartClose(a)
    BY <1>3, <1>5 DEF StartClose, HasPending
  <1>6. ASSUME NEW r \in Actor, SetActor(a, r),
               r.active.claim \in {NoClaim, actor[a].active.claim},
               r.pending = actor[a].pending
        PROVE  TenureMoves(a)
    BY <1>0, <1>6, AssignedActor
  <1>7. CASE Touch(a)
    <2> DEFINE r == [actor[a] EXCEPT !.active = NoTenure]
    <2>1. r \in Actor /\ r.active = NoTenure /\ r.pending = actor[a].pending
      BY <1>0 DEF Actor
    <2>2. SetActor(a, r)
      BY <1>7 DEF Touch
    <2> HIDE DEF r
    <2> QED BY <1>0, <1>6, <2>1, <2>2
  <1>8. ASSUME NEW p \in BOOLEAN,
               SetActor(a, [actor[a] EXCEPT !.paused = p, !.active = Unlapsed(actor[a].active)])
        PROVE  TenureMoves(a)
    <2> DEFINE r == [actor[a] EXCEPT !.paused = p, !.active = Unlapsed(actor[a].active)]
    <2>1. r \in Actor /\ r.active = Unlapsed(actor[a].active) /\ r.pending = actor[a].pending
      BY <1>0, <1>un DEF Actor
    <2> HIDE DEF r
    <2> QED BY <1>0, <1>un, <1>6, <1>8, <2>1 DEF r
  <1>9. CASE Pause(a)
    <2>1. SetActor(a, [actor[a] EXCEPT !.paused = TRUE, !.active = Unlapsed(actor[a].active)])
      BY <1>0, <1>9 DEF Pause, Actor
    <2> QED BY <1>8, <2>1
  <1>10. CASE PromptLocally(a)
    <2>1. SetActor(a, [actor[a] EXCEPT !.paused = FALSE, !.active = Unlapsed(actor[a].active)])
      BY <1>0, <1>10 DEF PromptLocally, Actor
    <2> QED BY <1>8, <2>1
  <1>11. ASSUME NEW op \in {"look", "prompt"}, StartRefresh(a, op) PROVE TenureMoves(a)
    <2>1. [actor[a] EXCEPT !.paused = FALSE] \in Actor
      BY <1>0 DEF Actor
    <2>2. [actor[a] EXCEPT !.paused = FALSE].active = actor[a].active
          /\ [actor[a] EXCEPT !.paused = FALSE].pending = actor[a].pending
      BY <1>0 DEF Actor
    <2> QED BY <1>0, <1>6, <1>11, <2>1, <2>2 DEF StartRefresh
  <1> QED BY <1>1, <1>2, <1>4, <1>5, <1>7, <1>9, <1>10, <1>11 DEF ClientStep

\* Answers are applied: a renewal keeps its tenure, a grant finds none.
LEMMA FinishStepMoves ==
    ASSUME RuntimeInv, ClaimsFromNothing, NEW a \in Actors, FinishStep(a)
    PROVE  TenureMoves(a)
  <1>0. /\ actor[a] \in Actor /\ actor[a].active \in Tenure /\ actor[a].pending \in Pending
        /\ actor[a].pending.op = "claim" => actor[a].active.claim = NoClaim
        /\ NoTenure \in Tenure /\ NoTenure.claim = NoClaim /\ NoPending.op = "none"
        /\ call[a] \in Call
    BY NullTypes
    DEF RuntimeInv, TypeOK, RuntimeTypeOK, Actor, ClaimsFromNothing, NoTenure, NoPending
  <1>1. ASSUME NEW r, SetActor(a, r), r.active.claim \in {NoClaim, actor[a].active.claim},
               r.pending \in {actor[a].pending, NoPending}
        PROVE  TenureMoves(a)
    BY <1>0, <1>1, AssignedActor
  <1>2. CASE FinishUnknown(a)
    BY <1>2, UnassignedActor DEF FinishUnknown
  <1>3. CASE FinishRejected(a)
    <2> DEFINE r == [actor[a] EXCEPT !.pending = NoPending,
               !.active = IF call[a].op \in {"renew", "release"} THEN NoTenure ELSE actor[a].active]
    <2>1. r.active \in {NoTenure, actor[a].active} /\ r.pending = NoPending
      BY <1>0 DEF Actor
    <2>2. SetActor(a, r)
      BY <1>0, <1>3 DEF FinishRejected, Actor
    <2> HIDE DEF r
    <2> QED BY <1>0, <1>1, <2>1, <2>2
  <1>4. CASE LoseLease(a)
    <2> DEFINE r == [actor[a] EXCEPT !.pending = NoPending, !.active = NoTenure]
    <2>1. r.active = NoTenure /\ r.pending = NoPending
      BY <1>0 DEF Actor
    <2>2. SetActor(a, r)
      BY <1>4 DEF LoseLease
    <2> HIDE DEF r
    <2> QED BY <1>0, <1>1, <2>1, <2>2
  <1>5. CASE FinishClaim(a)
    <2> DEFINE r == [actor[a] EXCEPT
                     !.active = [issue |-> actor[a].pending.issue, holder |-> actor[a].pending.holder,
                                 claim |-> call[a].claim, left |-> GrantedLeft(call[a])],
                     !.pending = NoPending, !.unknown = FALSE, !.paused = FALSE,
                     !.renewIn = RenewEvery]
    <2>1. actor[a].pending.op = "claim"
      BY <1>5 DEF FinishClaim, AtStage, RuntimeInv, CallOK, PendingOps
    <2>2. r.pending = NoPending
      BY <1>0 DEF Actor
    <2>3. LoseLease(a) \/ SetActor(a, r)
      BY <1>5 DEF FinishClaim
    <2> HIDE DEF r
    <2> QED BY <1>0, <1>4, <2>1, <2>2, <2>3, AssignedActor
  <1>6. CASE FinishRenew(a)
    <2> DEFINE r == [actor[a] EXCEPT
                  !.active.left = GrantedLeft(call[a]), !.pending = NoPending,
                  !.unknown = FALSE, !.renewIn = RenewEvery]
    <2>1. r.active.claim = actor[a].active.claim /\ r.pending = NoPending
      BY <1>0 DEF Actor, Tenure
    <2>2. LoseLease(a) \/ SetActor(a, r)
      BY <1>6 DEF FinishRenew
    <2> HIDE DEF r
    <2> QED BY <1>0, <1>1, <1>4, <2>1, <2>2
  <1>7. CASE FinishRelease(a) \/ FinishClose(a)
    <2> DEFINE r == [actor[a] EXCEPT !.pending = NoPending, !.active = NoTenure, !.unknown = FALSE]
    <2>1. r.active = NoTenure /\ r.pending = NoPending
      BY <1>0 DEF Actor
    <2>2. SetActor(a, r)
      BY <1>7 DEF FinishRelease, FinishClose
    <2> HIDE DEF r
    <2> QED BY <1>0, <1>1, <2>1, <2>2
  <1>8. CASE FinishRefresh(a)
    <2> DEFINE f == Refreshed(a, call[a])
               r == [f EXCEPT !.active = Unlapsed(f.active)]
               t == RefreshedTenure(actor[a].active, call[a])
    <2>1. t \in Tenure /\ t.claim = actor[a].active.claim
      BY <1>0, LeftTypes
    <2>2. Unlapsed(t) \in Tenure /\ Unlapsed(t) \in {t, NoTenure}
      BY <2>1, UnlapsedType
    <2>3. /\ f \in Actor /\ f.pending = actor[a].pending
          /\ f.active \in Tenure /\ f.active.claim \in {NoClaim, actor[a].active.claim}
      <3> HIDE DEF t
      <3>1. f = CASE call[a].out = "unknown"  -> [actor[a] EXCEPT !.unknown = TRUE]
             [] call[a].out = "rejected" -> [actor[a] EXCEPT !.unknown = FALSE, !.active = NoTenure]
             [] OTHER -> [actor[a] EXCEPT !.unknown = FALSE, !.active = Unlapsed(t)]
        BY DEF Refreshed, t
      <3> HIDE DEF f
      <3> QED BY <1>0, <2>1, <2>2, <3>1 DEF Actor
    <2>4. SetActor(a, [f EXCEPT !.active = Unlapsed(@)])
      BY <1>8 DEF FinishRefresh
    <2> HIDE DEF f, t
    <2>5. SetActor(a, r)
      BY <2>3, <2>4 DEF Actor
    <2>6. r.pending = actor[a].pending /\ r.active \in {f.active, NoTenure}
      BY <2>3, UnlapsedType DEF Actor
    <2> HIDE DEF r
    <2> QED BY <1>0, <1>1, <2>3, <2>5, <2>6
  <1>9. CASE FinishFinal(a)
    <2> DEFINE r == [actor[a] EXCEPT !.active = NoTenure, !.pending = NoPending]
    <2>1. r.active = NoTenure /\ r.pending = NoPending
      BY <1>0 DEF Actor
    <2>2. SetActor(a, r)
      BY <1>9 DEF FinishFinal
    <2> HIDE DEF r
    <2> QED BY <1>0, <1>1, <2>1, <2>2
  <1> QED BY <1>2, <1>3, <1>5, <1>6, <1>7, <1>8, <1>9 DEF FinishStep

\* A tick retires actors, drops lapsed tenures and starts renewals.
LEMMA TickStepMoves ==
    ASSUME RuntimeInv, ClaimsFromNothing, NEW a \in Actors, TickStep(a)
    PROVE  TenureMoves(a)
  <1>0. /\ actor[a] \in Actor /\ actor[a].active \in Tenure /\ actor[a].pending \in Pending
        /\ actor[a].pending.op = "claim" => actor[a].active.claim = NoClaim
        /\ NoTenure.claim = NoClaim /\ NoPending.op = "none"
    BY DEF RuntimeInv, TypeOK, RuntimeTypeOK, Actor, ClaimsFromNothing, NoTenure, NoPending
  <1>1. ASSUME NEW r, SetActor(a, r), r.active \in {NoTenure, actor[a].active},
               \/ r.pending \in {NoPending, actor[a].pending}
               \/ r.pending.op # "claim" /\ actor[a].pending.op = "none"
        PROVE  TenureMoves(a)
    BY <1>0, <1>1, AssignedActor
  <1>2. CASE RetireActor(a) \/ RetireIdle(a)
    <2> DEFINE q == [actor[a] EXCEPT !.retired = TRUE]
               r == [actor[a] EXCEPT !.retired = TRUE, !.active = NoTenure, !.pending = NoPending]
    <2>1. /\ q.active = actor[a].active /\ q.pending = actor[a].pending
          /\ r.active = NoTenure /\ r.pending = NoPending
      BY <1>0 DEF Actor
    <2>2. SetActor(a, q) \/ SetActor(a, r)
      BY <1>2 DEF RetireActor, RetireIdle
    <2> HIDE DEF q, r
    <2> QED BY <1>0, <1>1, <2>1, <2>2
  <1>3. CASE TickLapsed(a)
    <2> DEFINE r == [actor[a] EXCEPT !.active = NoTenure]
    <2>1. r.active = NoTenure /\ r.pending = actor[a].pending
      BY <1>0 DEF Actor
    <2>2. actor' = actor \/ SetActor(a, r)
      BY <1>3 DEF TickLapsed
    <2> HIDE DEF r
    <2> QED BY <1>0, <1>1, <2>1, <2>2, UnassignedActor
  <1>4. CASE TickRenew(a)
    <2> DEFINE r == [actor[a] EXCEPT !.renewIn = RenewRetry]
               q == [r EXCEPT !.pending = HeldPending(a, "renew", 0)]
    <2>1. /\ r.active = actor[a].active /\ r.pending = actor[a].pending
          /\ q.active = actor[a].active /\ q.pending.op # "claim"
      BY <1>0 DEF Actor, HeldPending
    <2>2. SetActor(a, r) \/ (SetActor(a, q) /\ actor[a].pending.op = "none")
      BY <1>4 DEF TickRenew, HasPending
    <2> HIDE DEF q, r
    <2> QED BY <1>0, <1>1, <2>1, <2>2
  <1> QED BY <1>2, <1>3, <1>4 DEF TickStep

\* Kata's transactions leave the actors alone.
LEMMA KataStepMoves ==
    ASSUME NEW a \in Actors, KataStep(a)
    PROVE  actor' = actor
  BY DEF KataStep, DispatchFails, ShowIssue, AcquireLease, AcquireIsDenied, ConfirmIssue,
         CleanupClaim, RenewLease, ReleaseLease, CloseIssue, LookAtIssue, FinalRelease

\* Time takes from what is left of a tenure and changes nothing else of it.
LEMMA AdvanceMoves ==
    ASSUME RuntimeInv, Advance, NEW a \in Actors
    PROVE  /\ actor'[a].pending = actor[a].pending
           /\ actor'[a].active.claim = actor[a].active.claim
           /\ actor'[a].active.left = Monus(actor[a].active.left, 1)
           /\ actor[a].active.left \in 0..TTL
  <1>1. actor[a] \in Actor /\ actor[a].active \in Tenure
    BY DEF RuntimeInv, TypeOK, RuntimeTypeOK, Actor
  <1>2. actor'[a] = [actor[a] EXCEPT !.active.left = Monus(@, 1), !.renewIn = Monus(@, 1)]
    BY DEF Advance
  <1> QED BY <1>1, <1>2 DEF Actor, Tenure

\* No actor ever waits for a claim while it holds a tenure.
LEMMA ClaimsFromNothingKept ==
    ASSUME RuntimeInv, ClaimsFromNothing, [Next]_vars
    PROVE  ClaimsFromNothing'
  <1>1. ASSUME NEW a \in Actors, TenureMoves(a) PROVE ClaimsFromNothing'
    BY <1>1 DEF TenureMoves, ClaimsFromNothing
  <1>2. ASSUME actor' = actor PROVE ClaimsFromNothing'
    BY <1>2 DEF ClaimsFromNothing
  <1>3. CASE Advance
    BY <1>3, AdvanceMoves DEF ClaimsFromNothing
  <1>4. CASE DaemonRestart
    BY <1>4 DEF DaemonRestart, ClaimsFromNothing, FreshActor, NoPending
  <1>5. CASE Environment /\ ~Advance
    BY <1>2, <1>5
    DEF Environment, Register, ProcessExit, EndInstance, RetireDead, Authority, runtimeVars
  <1>6. ASSUME NEW a \in Actors, ActorStep(a) PROVE ClaimsFromNothing'
    BY <1>1, <1>2, <1>6, ClientStepMoves, FinishStepMoves, TickStepMoves, KataStepMoves
    DEF ActorStep
  <1> QED BY <1>2, <1>3, <1>4, <1>5, <1>6 DEF Next, vars

-----------------------------------------------------------------------------
(* The steps of the promise.                                                 *)

\* What is needed of the invariant: a believed tenure is a row that is held or
\* was released, and nobody else works under it.
BeliefOK ==
    /\ \A a \in Actors : Believes(a) =>
          LET t == actor[a].active IN
          /\ t.claim \in Claims /\ t.left \in Nat /\ t.left > 0
          /\ PhaseOf(claims[t.claim]) \in {"held", "revoked"}
          /\ claims[t.claim].holder = t.holder
          /\ claims[t.claim].state = "released" \/ claims[t.claim].left >= t.left
    /\ \A a, b \in Actors : (a # b /\ Believes(a) /\ Believes(b))
          => actor[a].active.claim # actor[b].active.claim

\* RuntimeInv says all of that.
LEMMA BeliefIsOK == RuntimeInv => BeliefOK
  <1> SUFFICES ASSUME RuntimeInv PROVE BeliefOK
    OBVIOUS
  <1>1. ASSUME NEW a \in Actors, Believes(a)
        PROVE  LET t == actor[a].active IN
               /\ t.claim \in Claims /\ t.left \in Nat /\ t.left > 0
               /\ PhaseOf(claims[t.claim]) \in {"held", "revoked"}
               /\ claims[t.claim].holder = t.holder
               /\ claims[t.claim].state = "released" \/ claims[t.claim].left >= t.left
    <2>1. /\ TenureOK(a) /\ Active(a) /\ actor[a].active.left > 0
          /\ actor[a].active.left \in 0..TTL /\ claims \in [Claims -> Row] /\ TTL \in Nat
      BY <1>1, AuthorityAssumption
      DEF RuntimeInv, Believes, TypeOK, RuntimeTypeOK, AuthorityTypeOK, Actor, Tenure
    <2>2. Backed(actor[a].active.issue, actor[a].active.holder, actor[a].active.claim,
                 actor[a].active.left)
      BY <2>1 DEF TenureOK
    <2>3. actor[a].active.claim \in Claims /\ claims[actor[a].active.claim] \in Row
      BY <2>1, <2>2 DEF Backed, Lasts
    <2>4. claims[actor[a].active.claim].left \in 0..TTL
      BY <2>3 DEF Row
    <2> QED BY <2>1, <2>2, <2>3, <2>4 DEF Backed, Lasts, PhaseOf
  <1>2. ASSUME NEW a \in Actors, NEW b \in Actors, a # b, Believes(a), Believes(b)
        PROVE  actor[a].active.claim # actor[b].active.claim
    <2>1. Apart(a, b)
      BY <1>2 DEF RuntimeInv
    <2> QED BY <1>1, <1>2, <2>1 DEF Apart, PrincipalsOf, Believes
  <1> QED BY <1>1, <1>2 DEF BeliefOK

\* A handler that leaves the rows alone lets its actor start work, stop, or
\* neither.
LEMMA BeliefMoves ==
    ASSUME RuntimeInv, RuntimeInv', NEW a \in Actors, TenureMoves(a), UNCHANGED claims
    PROVE  Promise!TenureNext
  <1>0. BeliefOK'
    BY BeliefIsOK, PTL
  <1>1. Phase' = Phase /\ IssueOf' = IssueOf
    BY DEF Phase, IssueOf
  <1>2. \A b \in Actors : b # a => Works'[b] = Works[b]
    BY DEF TenureMoves, Works, Believes, Active
  <1>3. CASE Works'[a] \in {0, Works[a]}
    <2>1. \A b \in Actors : Works'[b] \in {0, Works[b]}
      BY <1>2, <1>3
    <2>2. Promise!Pass
      BY <1>1, <2>1 DEF Promise!Pass, Phase, IssueOf, Works
    <2> QED BY <2>2 DEF Promise!TenureNext
  <1>4. CASE Works'[a] \notin {0, Works[a]}
    <2>1. Believes(a)' /\ Works'[a] = actor'[a].active.claim
      BY <1>4 DEF Works
    <2>2. ~Believes(a)
      BY <1>4, <2>1 DEF TenureMoves, Works, Believes, Active, NoClaim
    <2>3. PICK c \in Claims : c = actor'[a].active.claim
      BY <1>0, <2>1 DEF BeliefOK
    <2>4. PhaseOf(claims[c]) \in {"held", "revoked"}
      BY <1>0, <2>1, <2>3 DEF BeliefOK
    <2>5. ASSUME NEW b \in Actors PROVE Works[b] # c
      <3>1. CASE ~Believes(b)
        BY <3>1 DEF Works, Claims
      <3>2. CASE Believes(b)
        <4>1. b # a /\ Believes(b)' /\ actor'[b] = actor[b]
          BY <2>2, <3>2 DEF TenureMoves, Believes, Active
        <4>2. actor'[b].active.claim # c
          BY <1>0, <2>1, <2>3, <4>1 DEF BeliefOK
        <4> QED BY <3>2, <4>1, <4>2 DEF Works
      <3> QED BY <3>1, <3>2
    <2>6. Works' = [Works EXCEPT ![a] = c] /\ Works[a] = 0
      BY <1>2, <2>1, <2>2, <2>3 DEF Works
    <2>7. Promise!StartWork(a, c)
      BY <1>1, <2>4, <2>5, <2>6 DEF Promise!StartWork, Phase, IssueOf, Works
    <2> QED BY <2>7 DEF Promise!TenureNext
  <1> QED BY <1>3, <1>4

\* Expiring lapsed rows is nothing new: their tenures were over.
LEMMA SweptPhases ==
    ASSUME AuthorityOK, NEW c \in Claims
    PROVE  PhaseOf(Swept[c]) = PhaseOf(claims[c]) /\ Swept[c].issue = claims[c].issue
  <1>1. claims[c] \in Row
    BY DEF AuthorityOK, AuthorityTypeOK
  <1>2. \/ Swept[c] = claims[c]
        \/ /\ claims[c].state = "held" /\ claims[c].left = 0
           /\ Swept[c] = [claims[c] EXCEPT !.state = "expired"]
    BY DEF Swept
  <1> QED BY <1>1, <1>2 DEF PhaseOf, Row

\* Nothing happens at the level of the promise.
LEMMA NothingHappens ==
    ASSUME Phase' = Phase, IssueOf' = IssueOf, Works' = Works
    PROVE  Promise!TenureNext
  <1>1. Promise!Pass
    BY DEF Promise!Pass, Phase, IssueOf, Works
  <1> QED BY <1>1 DEF Promise!TenureNext

\* A release, by whoever asked for it, revokes one tenure or none.
LEMMA ReleaseRevokes ==
    ASSUME AuthorityOK, Works' = Works,
           NEW S, \A c \in S : c \in Claims /\ PhaseOf(claims[c]) = "held",
           \A c, d \in S : c = d,
           claims' = ReleasedFrom(Swept, S) \/ claims' = ReleasedFrom(claims, S)
    PROVE  Promise!TenureNext
  <1>0. claims \in [Claims -> Row] /\ Swept \in [Claims -> Row]
    BY SweptType DEF AuthorityOK, AuthorityTypeOK
  <1>1. ASSUME NEW d \in Claims, d \notin S
        PROVE  PhaseOf(claims'[d]) = PhaseOf(claims[d]) /\ claims'[d].issue = claims[d].issue
    BY <1>1, SweptPhases DEF ReleasedFrom
  <1>2. ASSUME NEW d \in Claims, d \in S
        PROVE  PhaseOf(claims'[d]) = "revoked" /\ claims'[d].issue = claims[d].issue
    <2>1. PICK row \in Row : /\ row.issue = claims[d].issue
                             /\ claims'[d] = [row EXCEPT !.state = "released", !.left = 0]
      BY <1>0, <1>2, SweptPhases DEF ReleasedFrom
    <2> QED BY <2>1 DEF PhaseOf, Row
  <1>3. IssueOf' = IssueOf
    BY <1>1, <1>2 DEF IssueOf
  <1>4. CASE S = {}
    <2>1. Phase' = Phase
      BY <1>1, <1>4 DEF Phase
    <2> QED BY <1>3, <2>1, NothingHappens
  <1>5. ASSUME NEW c \in S PROVE Promise!TenureNext
    <2>1. c \in Claims /\ S = {c} /\ Phase[c] = "held"
      BY <1>5 DEF Phase
    <2>2. Phase' = [Phase EXCEPT ![c] = "revoked"]
      BY <1>1, <1>2, <2>1 DEF Phase
    <2>3. Promise!Revoke(c)
      BY <1>3, <2>1, <2>2 DEF Promise!Revoke, Phase, IssueOf, Works
    <2> QED BY <2>1, <2>3 DEF Promise!TenureNext
  <1> QED BY <1>4, <1>5

\* A grant of a new row is a grant of the promise; the same row again is none.
LEMMA AcquireGrants ==
    ASSUME AuthorityOK, Works' = Works,
           NEW i \in Issues, NEW h \in Nat, NEW c \in Claims, Acquire(i, h, c)
    PROVE  Promise!TenureNext
  <1>0. claims \in [Claims -> Row] /\ Swept \in [Claims -> Row] /\ TTL \in Nat /\ TTL > 0
    BY SweptType, AuthorityAssumption DEF AuthorityOK, AuthorityTypeOK
  <1>1. CASE claims' = Swept
    <2>1. Phase' = Phase /\ IssueOf' = IssueOf
      BY <1>1, SweptPhases DEF Phase, IssueOf
    <2> QED BY <2>1, NothingHappens
  <1>2. CASE /\ Live(i) = {} /\ c = nextClaim
             /\ claims' = [Swept EXCEPT ![c] = [issue |-> i, holder |-> h,
                                                left |-> TTL, state |-> "held"]]
    <2>1. claims[c] = FreeRow
      BY <1>2 DEF AuthorityOK, AuthorityTypeOK, RowsOK, Claims
    <2>2. Phase[c] = "none"
      BY <2>1 DEF Phase, PhaseOf, FreeRow
    <2>3. PhaseOf(claims'[c]) = "held" /\ claims'[c].issue = i
      BY <1>0, <1>2 DEF PhaseOf
    <2>4. ASSUME NEW d \in Claims, d # c
          PROVE  PhaseOf(claims'[d]) = PhaseOf(claims[d]) /\ claims'[d].issue = claims[d].issue
      <3>1. claims'[d] = Swept[d]
        BY <1>0, <1>2, <2>4
      <3> QED BY <3>1, SweptPhases
    <2>5. Phase' = [Phase EXCEPT ![c] = "held"] /\ IssueOf' = [IssueOf EXCEPT ![c] = i]
      BY <2>3, <2>4 DEF Phase, IssueOf
    <2>6. \A d \in Claims : ~(Phase[d] = "held" /\ IssueOf[d] = i)
      BY <1>2 DEF Live, Phase, IssueOf, PhaseOf
    <2>7. Promise!Held(i) = {}
      BY <2>6 DEF Promise!Held, Phase, IssueOf
    <2>8. Promise!Grant(c, i)
      BY <2>2, <2>5, <2>7 DEF Promise!Grant, Phase, IssueOf, Works
    <2> QED BY <2>8 DEF Promise!TenureNext
  <1> QED BY <1>1, <1>2 DEF Acquire

\* Every transaction of the authority grants a tenure, revokes one, or does
\* neither.
LEMMA TransactionMoves ==
    ASSUME AuthorityOK, Transaction, Works' = Works
    PROVE  Promise!TenureNext
  <1>0. /\ claims \in [Claims -> Row] /\ Swept \in [Claims -> Row]
        /\ \A i : \A c, d \in Live(i) : c = d
        /\ \A i : \A c \in Live(i) : c \in Claims /\ PhaseOf(claims[c]) = "held"
    BY SweptType DEF AuthorityOK, AuthorityTypeOK, RowsOK, Live, PhaseOf
  <1>1. \A i, h : LiveOf(i, h) \subseteq Live(i)
    BY DEF LiveOf
  <1>2. ASSUME claims' = Swept \/ claims' = claims PROVE Promise!TenureNext
    <2>1. Phase' = Phase /\ IssueOf' = IssueOf
      BY <1>2, SweptPhases DEF Phase, IssueOf
    <2> QED BY <2>1, NothingHappens
  <1>3. ASSUME NEW i, NEW S, S \subseteq Live(i),
               claims' = ReleasedFrom(Swept, S) \/ claims' = ReleasedFrom(claims, S)
        PROVE  Promise!TenureNext
    BY <1>0, <1>3, ReleaseRevokes
  <1>4. ASSUME NEW i \in Issues, NEW h \in Nat, NEW c \in Claims, Acquire(i, h, c)
        PROVE  Promise!TenureNext
    BY <1>4, AcquireGrants
  <1>5. ASSUME NEW i \in Issues, NEW h \in Nat, NEW c \in Claims, Renew(i, h, c)
        PROVE  Promise!TenureNext
    <2>1. c \in Live(i) /\ claims' = [Swept EXCEPT ![c].left = TTL]
      BY <1>1, <1>5 DEF Renew
    <2>2. Swept[c] = claims[c] /\ claims[c].state = "held" /\ claims[c].left > 0
      BY <1>0, <2>1 DEF Swept, Live, Row
    <2>3. claims'[c] = [claims[c] EXCEPT !.left = TTL]
      BY <1>0, <2>1, <2>2
    <2>4. PhaseOf(claims'[c]) = PhaseOf(claims[c]) /\ claims'[c].issue = claims[c].issue
      BY <1>0, <2>2, <2>3, AuthorityAssumption DEF PhaseOf, Row
    <2>5. \A d \in Claims : d # c => claims'[d] = Swept[d]
      BY <1>0, <2>1
    <2>6. Phase' = Phase /\ IssueOf' = IssueOf
      BY <2>4, <2>5, SweptPhases DEF Phase, IssueOf
    <2> QED BY <2>6, NothingHappens
  <1>6. ASSUME NEW i \in Issues, NEW h \in Nat, Release(i, h) PROVE Promise!TenureNext
    BY <1>1, <1>3, <1>6 DEF Release
  <1>7. ASSUME NEW i \in Issues, NEW h \in Nat, NEW c \in Claims, NEW k \in Nat,
               CloseCommit(i, h, c, k)
        PROVE  Promise!TenureNext
    <2>1. {c} \subseteq Live(i)
      BY <1>1, <1>7 DEF CloseCommit, GuardHolds
    <2>2. claims' = claims \/ claims' = ReleasedFrom(claims, {c})
      BY <1>7 DEF CloseCommit, authorityVars
    <2> QED BY <1>2, <1>3, <2>1, <2>2
  <1>8. ASSUME NEW i \in Issues, HumanClose(i) \/ HumanReopen(i) \/ ForceRelease(i)
        PROVE  Promise!TenureNext
    BY <1>2, <1>3, <1>8 DEF HumanClose, HumanReopen, ForceRelease
  <1>9. CASE Sweep \/ UNCHANGED authorityVars
    BY <1>2, <1>9 DEF Sweep, authorityVars
  <1> QED BY <1>4, <1>5, <1>6, <1>7, <1>8, <1>9 DEF Transaction

\* Time passes: who still works under a tenure works under one that is not
\* over.
LEMMA AdvancePasses ==
    ASSUME RuntimeInv, RuntimeInv', Advance
    PROVE  Promise!TenureNext
  <1>0. BeliefOK' /\ claims \in [Claims -> Row]
    BY BeliefIsOK, PTL DEF RuntimeInv, TypeOK, AuthorityTypeOK
  <1>1. \A c \in Claims : claims'[c] = [claims[c] EXCEPT !.left = Monus(@, 1)]
    BY DEF Advance, Elapse
  <1>2. ASSUME NEW c \in Claims
        PROVE  /\ claims'[c].issue = claims[c].issue
               /\ \/ PhaseOf(claims'[c]) = PhaseOf(claims[c])
                  \/ PhaseOf(claims[c]) = "held" /\ PhaseOf(claims'[c]) = "over"
    <2>1. claims[c] \in Row /\ claims[c].left \in 0..TTL
      BY <1>0 DEF Row
    <2>2. Monus(claims[c].left, 1) \in Nat /\ Monus(claims[c].left, 1) <= claims[c].left
      BY <2>1, AuthorityAssumption DEF Monus
    <2>3. /\ claims'[c].issue = claims[c].issue /\ claims'[c].state = claims[c].state
          /\ claims'[c].left = Monus(claims[c].left, 1)
      BY <1>1, <2>1 DEF Row
    <2>4. claims[c].left > 0 \/ ~(claims'[c].left > 0)
      BY <2>1, <2>2, <2>3
    <2> QED BY <2>3, <2>4, Zenon DEF PhaseOf
  <1>3. ASSUME NEW a \in Actors PROVE Works'[a] \in {0, Works[a]}
    BY <1>3, AdvanceMoves, AuthorityAssumption DEF Works, Believes, Active, Monus
  <1>4. ASSUME NEW a \in Actors, NEW c \in Claims, PhaseOf(claims'[c]) = "over"
        PROVE  Works'[a] # c
    BY <1>0, <1>4 DEF Works, BeliefOK, Claims
  <1>5. IssueOf' = IssueOf
    BY <1>2 DEF IssueOf
  <1>6. Promise!Pass
    BY <1>2, <1>3, <1>4, <1>5 DEF Promise!Pass, Phase, IssueOf, Works
  <1> QED BY <1>6 DEF Promise!TenureNext

-----------------------------------------------------------------------------
(* Theorems.                                                                 *)

\* Every step of the runtime is one the promise allows.
THEOREM StepsKeepPromise ==
    RuntimeInv /\ RuntimeInv' /\ ClaimsFromNothing /\ [Next]_vars => Promise!TenureNext
  <1> SUFFICES ASSUME RuntimeInv, RuntimeInv', ClaimsFromNothing, [Next]_vars
               PROVE  Promise!TenureNext
    OBVIOUS
  <1>0. AuthorityOK
    BY DEF RuntimeInv, TypeOK, AuthorityOK
  <1>1. ASSUME actor' = actor PROVE Works' = Works
    BY <1>1 DEF Works, Believes, Active
  <1>2. ASSUME UNCHANGED authorityVars PROVE UNCHANGED claims
    BY <1>2 DEF authorityVars
  <1>3. CASE Advance
    BY <1>3, AdvancePasses
  <1>4. CASE Environment /\ ~Advance
    <2>1. actor' = actor
      BY <1>4
      DEF Environment, Register, ProcessExit, EndInstance, RetireDead, Authority, runtimeVars
    <2>2. Transaction
      BY <1>4
      DEF Environment, Register, ProcessExit, EndInstance, RetireDead, Authority, Transaction
    <2> QED BY <1>0, <1>1, <2>1, <2>2, TransactionMoves
  <1>5. CASE DaemonRestart
    <2>1. Phase' = Phase /\ IssueOf' = IssueOf
      BY <1>5 DEF DaemonRestart, authorityVars, Phase, IssueOf
    <2>2. \A a \in Actors : Works'[a] = 0
      BY <1>5 DEF DaemonRestart, Works, Believes, Active, FreshActor, NoTenure
    <2>3. Promise!Pass
      BY <2>1, <2>2 DEF Promise!Pass, Phase, IssueOf, Works
    <2> QED BY <2>3 DEF Promise!TenureNext
  <1>6. ASSUME NEW a \in Actors, ActorStep(a) PROVE Promise!TenureNext
    <2>1. CASE KataStep(a)
      <3>1. actor' = actor /\ Transaction
        BY <2>1, KataStepMoves, KataStepType
      <3> QED BY <1>0, <1>1, <3>1, TransactionMoves
    <2>2. CASE ClientStep(a)
      BY <1>2, <2>2, ClientStepMoves, ClientStepType, BeliefMoves DEF RuntimeInv
    <2>3. CASE FinishStep(a)
      BY <1>2, <2>3, FinishStepMoves, FinishStepType, BeliefMoves DEF RuntimeInv
    <2>4. CASE TickStep(a)
      BY <1>2, <2>4, TickStepMoves, TickStepType, BeliefMoves DEF RuntimeInv
    <2> QED BY <1>6, <2>1, <2>2, <2>3, <2>4 DEF ActorStep
  <1>7. CASE UNCHANGED vars
    <2>1. Phase' = Phase /\ IssueOf' = IssueOf /\ Works' = Works
      BY <1>7 DEF vars, Phase, IssueOf, Works, Believes, Active
    <2> QED BY <2>1, NothingHappens
  <1> QED BY <1>3, <1>4, <1>5, <1>6, <1>7 DEF Next

\* The runtime implements ExclusiveTenure: through slow and lost answers,
\* retries, deaths and restarts (runtime_core.go execute, tick) a tenure is
\* granted to one actor at a time and is never over under it.
THEOREM RuntimeKeepsPromise == Spec => KeepsPromise
  <1>1. Init => Promise!TenureInit
    BY DEF Init, AuthorityInit, FreeRow, FreshActor, NoTenure, NoClaim,
           Promise!TenureInit, PhaseOf, Believes, Active
  <1>2. Init => ClaimsFromNothing
    BY DEF Init, ClaimsFromNothing, FreshActor, NoPending
  <1>3. RuntimeInv /\ ClaimsFromNothing /\ [Next]_vars => ClaimsFromNothing'
    BY ClaimsFromNothingKept
  <1>4. RuntimeInv /\ RuntimeInv' /\ ClaimsFromNothing /\ [Next]_vars
            => [Promise!TenureNext]_(Promise!tenureVars)
    BY StepsKeepPromise
  <1> QED BY <1>1, <1>2, <1>3, <1>4, Invariance, PTL DEF Spec, KeepsPromise, Promise!TenureSpec

\* An operation whose outcome is unknown keeps its nonce and its key until it
\* is resolved (runtime_core.go execute).
THEOREM AttemptsAreStable == Spec => AttemptIsStable
  <1> DEFINE Stable == \A a \in Actors : (HasPending(a) /\ actor'[a].pending.op # "none")
                          => actor'[a].pending = actor[a].pending
  <1>1. RuntimeInv /\ ClaimsFromNothing /\ [Next]_vars => Stable
    <2> SUFFICES ASSUME RuntimeInv, ClaimsFromNothing, [Next]_vars PROVE Stable
      OBVIOUS
    <2>1. ASSUME actor' = actor PROVE Stable
      BY <2>1
    <2>2. CASE Advance
      BY <2>2, AdvanceMoves
    <2>3. CASE Environment /\ ~Advance
      BY <2>1, <2>3
      DEF Environment, Register, ProcessExit, EndInstance, RetireDead, Authority, runtimeVars
    <2>4. CASE DaemonRestart
      BY <2>4 DEF DaemonRestart, FreshActor, NoPending
    <2>5. ASSUME NEW a \in Actors, ActorStep(a) PROVE Stable
      <3>1. CASE TenureMoves(a)
        BY <3>1 DEF TenureMoves, NoPending, HasPending
      <3> QED BY <2>1, <2>5, <3>1, ClientStepMoves, FinishStepMoves, TickStepMoves,
                 KataStepMoves DEF ActorStep
    <2> QED BY <2>1, <2>2, <2>3, <2>4, <2>5 DEF Next, vars
  <1>2. Init => ClaimsFromNothing
    BY DEF Init, ClaimsFromNothing, FreshActor, NoPending
  <1>3. RuntimeInv /\ ClaimsFromNothing /\ [Next]_vars => ClaimsFromNothing'
    BY ClaimsFromNothingKept
  <1>4. AttemptIsStable <=> [][Stable]_vars
    BY DEF AttemptIsStable
  <1> HIDE DEF Stable
  <1> QED BY <1>1, <1>2, <1>3, <1>4, Invariance, PTL DEF Spec

\* A close never closes the issue under another actor that works on it, and
\* never ends that actor's tenure, whatever became of the closer's own tenure
\* while the close was under way (closeIssue, tools.go): the claim it names is
\* the only live one of its issue, and its principal is the closer's alone.
THEOREM ClosesLeaveOthersWork == Spec => CloseLeavesOthersWork
  <1> DEFINE Leaves == \A a, b \in Actors :
         (/\ a # b /\ AtStage(a, "close", "kata") /\ call'[a].stage = "reply"
          /\ Believes(b) /\ Row_(b).state = "held")
             => /\ status'[actor[b].active.issue] = status[actor[b].active.issue]
                /\ claims'[actor[b].active.claim].state = "held"
  <1>1. RuntimeInv /\ [Next]_vars => Leaves
    <2> SUFFICES ASSUME RuntimeInv, [Next]_vars,
                        NEW a \in Actors, NEW b \in Actors, a # b,
                        AtStage(a, "close", "kata"), call'[a].stage = "reply",
                        Believes(b), Row_(b).state = "held",
                        ~(/\ status'[actor[b].active.issue] = status[actor[b].active.issue]
                          /\ claims'[actor[b].active.claim].state = "held")
                 PROVE  FALSE
      OBVIOUS
    <2>0. /\ call \in [Actors -> Call] /\ call[a] \in Call /\ call[a].stage = "kata"
          /\ call[a].op = "close"
      BY DEF RuntimeInv, TypeOK, RuntimeTypeOK, AtStage
    <2>1. ~UNCHANGED authorityVars
      BY DEF authorityVars, Row_
    <2>2. call' # call
      BY <2>0
    <2>3. ~Advance
      <3>1. Aged(call[a]).stage = "kata"
        BY <2>0 DEF Aged, Call
      <3> QED BY <2>0, <3>1 DEF Advance
    <2>4. ~Environment /\ ~DaemonRestart /\ ~UNCHANGED vars
      BY <2>1, <2>2, <2>3
      DEF Environment, Register, ProcessExit, EndInstance, RetireDead, Authority, runtimeVars,
          DaemonRestart, vars
    <2>5. PICK e \in Actors : ActorStep(e)
      BY <2>4 DEF Next
    <2>6. KataStep(e)
      BY <2>1, <2>5, ClientStepType, FinishStepType, TickStepType DEF ActorStep, RuntimeInv
    <2>7. e = a
      BY <2>0, <2>6 DEF KataStep, DispatchFails, ShowIssue, AcquireLease, AcquireIsDenied,
         ConfirmIssue, CleanupClaim, RenewLease, ReleaseLease, CloseIssue, LookAtIssue,
         FinalRelease, Reply, Granted
    <2>8. CloseIssue(a)
      BY <2>0, <2>1, <2>6, <2>7 DEF KataStep, DispatchFails, ShowIssue, AcquireLease,
         AcquireIsDenied, ConfirmIssue, CleanupClaim, RenewLease, ReleaseLease, LookAtIssue,
         FinalRelease, AtStage, RefreshOps
    <2> DEFINE p == actor[a].pending
               d == actor[b].active.claim
    <2> HIDE DEF d
    <2>9. /\ GuardHolds(p.issue, p.holder, p.claim)
          /\ status' = [status EXCEPT ![p.issue] = "closed"]
          /\ claims' = ReleasedFrom(claims, {p.claim})
      BY <2>1, <2>8 DEF CloseIssue, CloseReplay, CloseCommit
    <2>10. /\ p.claim \in Claims /\ claims[p.claim].state = "held"
           /\ claims[p.claim].issue = p.issue /\ claims[p.claim].holder = p.holder
      BY <2>9 DEF GuardHolds, LiveOf, Live
    <2>11. /\ d \in Claims /\ claims[d].state = "held"
           /\ claims[d].issue = actor[b].active.issue
           /\ claims[d].holder = actor[b].active.holder /\ Active(b)
      BY BelievedRow DEF Row_, d
    <2>12. CASE p.issue # actor[b].active.issue
      <3>1. p.claim # d
        BY <2>10, <2>11, <2>12
      <3>2. status \in [Issues -> {"open", "closed"}]
        BY DEF RuntimeInv, TypeOK, AuthorityTypeOK
      <3>3. actor[b].active.issue \in Issues
        BY <2>11 DEF RuntimeInv, RowsOK
      <3>4. status'[actor[b].active.issue] = status[actor[b].active.issue]
        BY <2>9, <2>12, <3>2, <3>3
      <3>5. claims'[d] = claims[d]
        BY <2>9, <2>11, <3>1 DEF ReleasedFrom
      <3> QED BY <2>11, <3>4, <3>5 DEF d
    <2>13. CASE p.issue = actor[b].active.issue
      <3>1. p.claim = d
        BY <2>10, <2>11, <2>13 DEF RuntimeInv, RowsOK
      <3>2. p.holder = actor[b].active.holder
        BY <2>10, <2>11, <3>1
      <3>3. HasPending(a)
        BY <2>0 DEF RuntimeInv, CallOK, PendingOps, HasPending, NoPending
      <3>4. PrincipalsOf(a) \cap PrincipalsOf(b) = {}
        BY DEF RuntimeInv, Apart
      <3> QED BY <2>11, <3>2, <3>3, <3>4 DEF PrincipalsOf
    <2> QED BY <2>12, <2>13
  <1>2. CloseLeavesOthersWork <=> [][Leaves]_vars
    BY DEF CloseLeavesOthersWork
  <1> HIDE DEF Leaves
  <1> QED BY <1>1, <1>2, Invariance, PTL DEF Spec

-----------------------------------------------------------------------------
(* The checkouts of the runtime.                                             *)

\* The parts of ReadyIsUsable and CloseFindsNonePreparing that are about w.
Usable(w) ==
    (ws[w].state \in {"ready", "paused"} /\ Active(OwnerOf(w)))
        => /\ ws[w].claim = actor[OwnerOf(w)].active.claim
           /\ ws[w].state = "ready" => ~actor[OwnerOf(w)].paused

NotClosing(b, w) ==
    (actor[b].pending.op = "close" /\ ws[w].claim = actor[b].pending.claim)
        => ws[w].state # "preparing"

WorkspaceOK(w) ==
    /\ Usable(w)
    /\ \A b \in Actors : NotClosing(b, w)
    /\ (ws[w].state = "preparing") <=> (job[w] # "none")
    /\ RecordOK(w) /\ JobOK(w)

\* CheckoutInv, actor by actor and workspace by workspace.
LEMMA InvByWorkspace ==
    CheckoutInv <=> /\ RuntimeInv
                    /\ job \in [Workspaces -> Phases]
                    /\ target \in [Actors -> Workspaces \cup {NoTarget}]
                    /\ \A a \in Actors : HandlerOK(a) /\ CloseOK(a)
                    /\ \A w \in Workspaces : WorkspaceOK(w)
                    /\ OneAtATime
  BY DEF CheckoutInv, WorkspaceOK, Usable, NotClosing, ReadyIsUsable,
         CloseFindsNonePreparing, PreparingIsRunning

\* The same of the next state.
LEMMA InvByWorkspaceNext ==
    CheckoutInv' <=> /\ RuntimeInv'
                     /\ job' \in [Workspaces -> Phases]
                     /\ target' \in [Actors -> Workspaces \cup {NoTarget}]
                     /\ \A a \in Actors : HandlerOK(a)' /\ CloseOK(a)'
                     /\ \A w \in Workspaces : WorkspaceOK(w)'
                     /\ OneAtATime'
  BY DEF CheckoutInv, WorkspaceOK, Usable, NotClosing, ReadyIsUsable,
         CloseFindsNonePreparing, PreparingIsRunning

Over == {"orphaned", "failed", "archived", "archive_pending"}
InUse == {"preparing", "ready", "paused"}

\* What NoRevivedWorkspace says of one step and one workspace.
Onward(w) == ws[w].state \in Over => ws'[w].state \notin InUse

\* The calls of this module; the runtime's steps only carry them out.
CheckoutOps == {"checkout", "prepare", "observe", "archive"}

-----------------------------------------------------------------------------
(* Facts about the runtime that checkouts rely on.                           *)

\* Granted rows keep their issue and principal.
RowsStay ==
    \A c \in Claims : claims[c].state # "free" =>
        /\ claims'[c].state # "free"
        /\ claims'[c].issue = claims[c].issue /\ claims'[c].holder = claims[c].holder

\* No transaction frees a row, or changes its issue or principal.
LEMMA TransactionStays ==
    ASSUME RuntimeInv, Transaction PROVE RowsStay
  <1>1. AuthorityOK
    BY DEF RuntimeInv, TypeOK, AuthorityOK
  <1>2. ASSUME NEW c \in Claims, claims[c].state # "free"
        PROVE  /\ claims'[c].state # "free"
               /\ claims'[c].issue = claims[c].issue /\ claims'[c].holder = claims[c].holder
    BY <1>1, <1>2, TransactionKeepsRows DEF RowKept
  <1> QED BY <1>2 DEF RowsStay

\* Nor does time.
LEMMA ElapseStays ==
    ASSUME RuntimeInv, Elapse PROVE RowsStay
  <1>1. AuthorityOK
    BY DEF RuntimeInv, TypeOK, AuthorityOK
  <1>2. \A c \in Claims : /\ claims'[c].issue = claims[c].issue
                          /\ claims'[c].holder = claims[c].holder
    BY <1>1, ElapseKeeps
  <1>3. ASSUME NEW c \in Claims PROVE claims'[c].state = claims[c].state
    <2>1. claims[c] \in Row /\ claims'[c] = [claims[c] EXCEPT !.left = Monus(claims[c].left, 1)]
      BY <1>1 DEF AuthorityOK, AuthorityTypeOK, Elapse
    <2> QED BY <2>1 DEF Row
  <1> QED BY <1>2, <1>3 DEF RowsStay

\* What refreshActor may change: the deadline, or the tenure is dropped.
LEMMA RefreshedFacts ==
    ASSUME RuntimeInv, NEW a \in Actors
    PROVE  LET r == Refreshed(a, call[a]) IN
           /\ r \in Actor /\ r.pending = actor[a].pending /\ r.paused = actor[a].paused
           /\ \/ r.active = NoTenure
              \/ /\ r.active.issue = actor[a].active.issue
                 /\ r.active.holder = actor[a].active.holder
                 /\ r.active.claim = actor[a].active.claim
                 /\ r.active.left <= actor[a].active.left
  <1> DEFINE c == call[a]
             t == actor[a].active
             u == RefreshedTenure(t, c)
             r == Refreshed(a, c)
  <1>0. actor[a] \in Actor /\ t \in Tenure /\ c \in Call
    BY DEF RuntimeInv, TypeOK, RuntimeTypeOK, Actor
  <1>1. /\ u \in Tenure /\ u.left <= t.left
        /\ u.issue = t.issue /\ u.holder = t.holder /\ u.claim = t.claim
    BY <1>0, LeftTypes
  <1>2. \/ r = [actor[a] EXCEPT !.unknown = TRUE]
        \/ r = [actor[a] EXCEPT !.unknown = FALSE, !.active = NoTenure]
        \/ r = [actor[a] EXCEPT !.unknown = FALSE, !.active = Unlapsed(u)]
    BY DEF Refreshed, u
  <1> HIDE DEF u
  <1>3. Unlapsed(u) \in {u, NoTenure} /\ Unlapsed(u) \in Tenure
    BY <1>1, UnlapsedType
  <1> HIDE DEF r
  <1>4. CASE r = [actor[a] EXCEPT !.unknown = TRUE]
    <2>1. t.left <= t.left
      BY <1>0, AuthorityAssumption DEF Tenure
    <2> QED BY <1>0, <1>4, <2>1 DEF Actor, r
  <1>5. CASE r = [actor[a] EXCEPT !.unknown = FALSE, !.active = NoTenure]
    BY <1>0, <1>5, NullTypes DEF Actor, r
  <1>6. CASE r = [actor[a] EXCEPT !.unknown = FALSE, !.active = Unlapsed(u)]
    BY <1>0, <1>1, <1>3, <1>6 DEF Actor, r
  <1> QED BY <1>2, <1>4, <1>5, <1>6

\* A step that takes, carries out or ends a call of this module, with or
\* without a refresh, preserves the invariant of the runtime.
LEMMA PlainInv ==
    ASSUME RuntimeInv, NEW a \in Actors,
           UNCHANGED <<authorityVars, instance, ended, minted>>,
           ws' \in [Workspaces -> Workspace], call' \in [Actors -> Call],
           \/ actor' = actor
           \/ SetActor(a, Refreshed(a, call[a])),
           \A b \in Actors \ {a} : call'[b] = call[b],
           call'[a].op \notin PendingOps
    PROVE  RuntimeInv'
  <1> USE AuthorityAssumption, RuntimeAssumption
  <1> DEFINE t == actor[a].active
             u == actor'[a].active
  <1>0. /\ RuntimeTypeOK /\ actor \in [Actors -> Actor] /\ t \in Tenure
        /\ Transaction /\ TenureOK(a) /\ minted \in Nat
        /\ claims' = claims /\ status' = status /\ receipts' = receipts
        /\ claims \in [Claims -> Row]
    BY DEF RuntimeInv, TypeOK, RuntimeTypeOK, AuthorityTypeOK, Actor, Transaction, authorityVars
  <1>1. /\ actor' \in [Actors -> Actor] /\ u \in Tenure
        /\ \A b \in Actors \ {a} : actor'[b] = actor[b]
        /\ actor'[a].pending = actor[a].pending
        /\ \/ u = NoTenure
           \/ /\ u.issue = t.issue /\ u.holder = t.holder /\ u.claim = t.claim
              /\ u.left <= t.left
    <2>1. CASE actor' = actor
      <3>1. t.left <= t.left
        BY <1>0 DEF Tenure
      <3> QED BY <1>0, <2>1, <3>1
    <2>2. CASE SetActor(a, Refreshed(a, call[a]))
      <3> DEFINE r == Refreshed(a, call[a])
      <3>1. /\ r \in Actor /\ r.pending = actor[a].pending
            /\ \/ r.active = NoTenure
               \/ /\ r.active.issue = t.issue /\ r.active.holder = t.holder
                  /\ r.active.claim = t.claim /\ r.active.left <= t.left
        BY RefreshedFacts
      <3>2. SetActor(a, r)
        BY <2>2
      <3> HIDE DEF r
      <3>3. /\ actor' \in [Actors -> Actor] /\ actor'[a] = r
            /\ \A b \in Actors \ {a} : actor'[b] = actor[b]
        BY <1>0, <3>1, <3>2 DEF SetActor
      <3> QED BY <3>1, <3>3 DEF Actor
    <2> QED BY <2>1, <2>2
  <1>2. RuntimeTypeOK'
    BY <1>0, <1>1 DEF RuntimeTypeOK
  <1>3. Frame(a)
    BY <1>0, <1>1 DEF Frame
  <1>4. TenureOK(a)'
    <2>1. CASE u.claim = NoClaim
      BY <2>1 DEF TenureOK, Active
    <2>2. CASE u.claim # NoClaim
      <3>1. /\ u.issue = t.issue /\ u.holder = t.holder /\ u.claim = t.claim
            /\ u.left <= t.left
        BY <1>1, <2>2 DEF NoTenure
      <3>2. /\ Backed(t.issue, t.holder, t.claim, t.left) /\ OnOpenWork(t.claim)
            /\ t.holder \in 1..minted
        BY <1>0, <2>2, <3>1 DEF TenureOK, Active
      <3>3. t.left \in Nat /\ u.left \in Nat /\ claims[t.claim].left \in Nat
        BY <1>0, <1>1, <3>2 DEF Tenure, Backed, Lasts, Row
      <3>4. Lasts(t.claim, u.left)
        BY <3>1, <3>2, <3>3, LastsLess DEF Backed
      <3>5. /\ LastsAfter(u.claim, u.left)
            /\ (claims'[u.claim].state = "held" /\ claims'[u.claim].left > 0)
                  => status'[claims'[u.claim].issue] = "open"
        BY <1>0, <3>1, <3>2, <3>4 DEF Lasts, LastsAfter, OnOpenWork
      <3>6. claims'[u.claim].issue = u.issue /\ claims'[u.claim].holder = u.holder
        BY <1>0, <3>1, <3>2 DEF Backed
      <3>7. u.holder \in 1..minted'
        BY <3>1, <3>2
      <3> QED BY <3>5, <3>6, <3>7 DEF TenureOK, Backed, Lasts, LastsAfter, OnOpenWork
    <2> QED BY <2>1, <2>2
  <1>5. PendingOK(a)'
    BY <1>0, <1>1, PendingKept
  <1>6. CallOK(a)'
    BY DEF CallOK, AtStage, PendingOps
  <1>7. \A h \in PrincipalsOf(a)' : h \in PrincipalsOf(a)
    BY <1>1 DEF PrincipalsOf, Active, HasPending, NoTenure
  <1>8. actor'[a].pending.op = "close" =>
           actor[a].pending.op = "close" /\ actor'[a].pending.key = actor[a].pending.key
    BY <1>1
  <1> QED BY <1>0, <1>2, <1>3, <1>4, <1>5, <1>6, <1>7, <1>8, ActorStepInv

-----------------------------------------------------------------------------
(* Steps of this module.                                                     *)

\* A step by or for actor a about one workspace v at most: what it writes of v
\* is in order, and no other goroutine holds the mutex of a, or the step does not.
LEMMA OneWorkspace ==
    ASSUME CheckoutInv, NEW a \in Actors, NEW v,
           RuntimeInv', UNCHANGED authorityVars,
           job' \in [Workspaces -> Phases],
           target' \in [Actors -> Workspaces \cup {NoTarget}],
           \A b \in Actors \ {a} :
              actor'[b] = actor[b] /\ call'[b] = call[b] /\ target'[b] = target[b],
           actor'[a].pending = actor[a].pending, actor'[a].paused = actor[a].paused,
           actor'[a].active.claim \in {actor[a].active.claim, NoClaim},
           \A w \in Workspaces \ {v} : ws'[w] = ws[w] /\ job'[w] = job[w],
           \/ \A w \in Workspaces \ {v} : ~(OwnerOf(w) = a /\ Holds(w))
           \/ /\ actor'[a] = actor[a] /\ call'[a] = call[a]
              /\ v \in Workspaces => ~Holds(v)',
           v \in Workspaces => /\ WorkspaceOK(v)' /\ Onward(v)
                               /\ ws[v].state \notin {"none", "preparing"}
                                     => ws'[v].state \notin {"none", "preparing"}
                               /\ Holds(v)' => OwnerOf(v)' = a,
           HandlerOK(a)'
    PROVE  CheckoutInv' /\ \A w \in Workspaces : Onward(w)
  <1>0. /\ \A b \in Actors : HandlerOK(b) /\ CloseOK(b)
        /\ \A w \in Workspaces : WorkspaceOK(w)
        /\ OneAtATime /\ claims' = claims
        /\ \A b \in Actors : actor'[b].pending = actor[b].pending
    BY InvByWorkspace DEF authorityVars
  <1>1. ASSUME NEW b \in Actors PROVE CloseOK(b)'
    BY <1>0 DEF CloseOK
  <1>2. ASSUME NEW b \in Actors, b # a PROVE HandlerOK(b)'
    <2>1. actor'[b] = actor[b] /\ call'[b] = call[b] /\ target'[b] = target[b] /\ HandlerOK(b)
      BY <1>0, <1>2
    <2>2. ASSUME call[b].op = "archive"
          PROVE  target'[b] # NoTarget /\ ws'[target'[b]].state \notin {"none", "preparing"}
      <3>1. target[b] # NoTarget /\ ws[target[b]].state \notin {"none", "preparing"}
        BY <2>1, <2>2 DEF HandlerOK
      <3>2. target[b] \in Workspaces
        BY <3>1, InvByWorkspace
      <3> QED BY <2>1, <3>1, <3>2
    <2> QED BY <2>1, <2>2 DEF HandlerOK, Active, HasPending
  <1>3. ASSUME NEW w \in Workspaces, w # v PROVE WorkspaceOK(w)' /\ Onward(w)
    <2>0. ws'[w] = ws[w] /\ job'[w] = job[w] /\ WorkspaceOK(w)
      BY <1>0, <1>3
    <2>1. OwnerOf(w)' = OwnerOf(w)
      BY <2>0 DEF OwnerOf
    <2>2. ws[w].state # "none" => OwnerOf(w) \in Actors
      BY <2>0 DEF WorkspaceOK, RecordOK, NoWorkspace
    <2>3. Usable(w)'
      BY <2>0, <2>1, <2>2 DEF WorkspaceOK, Usable, Active
    <2>4. \A b \in Actors : NotClosing(b, w)'
      BY <1>0, <2>0 DEF WorkspaceOK, NotClosing
    <2>5. RecordOK(w)'
      BY <1>0, <2>0, <2>1 DEF WorkspaceOK, RecordOK
    <2>6. JobOK(w)'
      <3>1. CASE ~Holds(w)
        BY <2>0, <3>1 DEF JobOK, Holds
      <3>2. CASE Holds(w)
        <4>1. OwnerOf(w) \in Actors
          BY <2>0, <2>2, <3>2 DEF WorkspaceOK, Holds
        <4>2. actor'[OwnerOf(w)] = actor[OwnerOf(w)] /\ call'[OwnerOf(w)] = call[OwnerOf(w)]
          BY <1>3, <3>2, <4>1
        <4> QED BY <2>0, <2>1, <4>2 DEF WorkspaceOK, JobOK, Holds, Active
      <3> QED BY <3>1, <3>2
    <2>7. Onward(w)
      BY <2>0 DEF Onward, Over, InUse
    <2>8. (ws'[w].state = "preparing") <=> (job'[w] # "none")
      BY <2>0 DEF WorkspaceOK
    <2> QED BY <2>3, <2>4, <2>5, <2>6, <2>7, <2>8 DEF WorkspaceOK
  <1>4. OneAtATime'
    <2> SUFFICES ASSUME NEW w1 \in Workspaces, NEW w2 \in Workspaces, Holds(w1)', Holds(w2)',
                        OwnerOf(w1)' = OwnerOf(w2)', w1 # w2
                 PROVE  FALSE
      BY DEF OneAtATime
    <2>1. ASSUME NEW w \in Workspaces \ {v}, Holds(w)'
          PROVE  Holds(w) /\ OwnerOf(w)' = OwnerOf(w)
      BY <2>1 DEF Holds, OwnerOf
    <2>2. CASE w1 # v /\ w2 # v
      BY <1>0, <2>1, <2>2 DEF OneAtATime
    <2>3. ASSUME NEW w \in Workspaces \ {v}, Holds(w)', v \in Workspaces, Holds(v)'
          PROVE  OwnerOf(w)' # OwnerOf(v)'
      BY <2>1, <2>3
    <2>4. CASE w1 = v \/ w2 = v
      BY <2>3, <2>4
    <2> QED BY <2>2, <2>4
  <1>5. \A w \in Workspaces : WorkspaceOK(w)' /\ Onward(w)
    BY <1>3
  <1>6. \A b \in Actors : HandlerOK(b)' /\ CloseOK(b)'
    BY <1>1, <1>2
  <1> QED BY <1>4, <1>5, <1>6, InvByWorkspaceNext

\* What the steps read of the invariant.
LEMMA CheckoutFacts ==
    ASSUME CheckoutInv
    PROVE  /\ RuntimeInv /\ RuntimeTypeOK
           /\ actor \in [Actors -> Actor] /\ call \in [Actors -> Call]
           /\ ws \in [Workspaces -> Workspace]
           /\ job \in [Workspaces -> Phases]
           /\ target \in [Actors -> Workspaces \cup {NoTarget}]
           /\ \A a \in Actors : HandlerOK(a) /\ CloseOK(a) /\ TenureOK(a)
           /\ \A w \in Workspaces : WorkspaceOK(w)
           /\ \A w \in Workspaces : job[w] # "none" =>
                 ws[w].state = "preparing" /\ OwnerOf(w) \in Actors
           /\ \A w \in Workspaces : Holds(w) =>
                 /\ OwnerOf(w) \in Actors /\ call[OwnerOf(w)].op \in {"prepare", "observe"}
                 /\ ~actor[OwnerOf(w)].paused
           /\ OneAtATime
  <1>1. /\ RuntimeInv /\ job \in [Workspaces -> Phases]
        /\ target \in [Actors -> Workspaces \cup {NoTarget}]
        /\ \A a \in Actors : HandlerOK(a) /\ CloseOK(a)
        /\ \A w \in Workspaces : WorkspaceOK(w)
        /\ OneAtATime
    BY InvByWorkspace
  <1>2. /\ RuntimeTypeOK
        /\ actor \in [Actors -> Actor] /\ call \in [Actors -> Call]
        /\ ws \in [Workspaces -> Workspace]
        /\ \A a \in Actors : TenureOK(a)
    BY <1>1 DEF RuntimeInv, TypeOK, RuntimeTypeOK
  <1>3. ASSUME NEW w \in Workspaces, job[w] # "none"
        PROVE  ws[w].state = "preparing" /\ OwnerOf(w) \in Actors
    BY <1>1, <1>3 DEF WorkspaceOK, RecordOK, NoWorkspace
  <1>4. ASSUME NEW w \in Workspaces, Holds(w)
        PROVE  /\ OwnerOf(w) \in Actors /\ call[OwnerOf(w)].op \in {"prepare", "observe"}
               /\ ~actor[OwnerOf(w)].paused
    BY <1>1, <1>3, <1>4 DEF WorkspaceOK, JobOK, Holds
  <1> QED BY <1>1, <1>2, <1>3, <1>4

\* The state of one record is overwritten.
LEMMA StateWritten ==
    ASSUME CheckoutInv, NEW w \in Workspaces, NEW s \in WorkspaceStates,
           ws' = [ws EXCEPT ![w].state = s]
    PROVE  /\ ws' \in [Workspaces -> Workspace]
           /\ ws'[w] = [ws[w] EXCEPT !.state = s]
           /\ ws'[w].state = s /\ OwnerOf(w)' = OwnerOf(w)
           /\ ws'[w].claim = ws[w].claim /\ ws'[w].issue = ws[w].issue
           /\ \A x \in Workspaces \ {w} : ws'[x] = ws[x]
  <1>1. ws \in [Workspaces -> Workspace] /\ ws[w] \in Workspace
    BY CheckoutFacts
  <1>2. ws'[w] = [ws[w] EXCEPT !.state = s] /\ \A x \in Workspaces \ {w} : ws'[x] = ws[x]
    BY <1>1
  <1>3. [ws[w] EXCEPT !.state = s] \in Workspace
    BY <1>1 DEF Workspace
  <1> QED BY <1>1, <1>2, <1>3 DEF Workspace, OwnerOf

\* The taking of an actor's mutex, and what that makes of its call.
LEMMA BeginFacts ==
    ASSUME CheckoutInv, NEW a \in Actors, NEW op \in CheckoutOps, NEW t \in Tenure, Begin(a, op, t)
    PROVE  /\ call' \in [Actors -> Call]
           /\ call'[a].op = op /\ call'[a].op \notin PendingOps
           /\ \A b \in Actors \ {a} : call'[b] = call[b]
  <1>1. op \in CallOps /\ op \notin PendingOps
    BY DEF CheckoutOps, CallOps, PendingOps, RefreshOps
  <1>2. RuntimeTypeOK
    BY CheckoutFacts
  <1>3. call' \in [Actors -> Call]
    BY <1>1, <1>2, UpdateTypes
  <1>4. call'[a].op = op /\ \A b \in Actors \ {a} : call'[b] = call[b]
    BY <1>2, UpdateValues
  <1> QED BY <1>1, <1>3, <1>4

\* The giving back of an actor's mutex.
LEMMA UnlockFacts ==
    ASSUME CheckoutInv, NEW a \in Actors, Unlock(a)
    PROVE  /\ call' \in [Actors -> Call]
           /\ call'[a] = NoCall /\ call'[a].op = "none" /\ call'[a].op \notin PendingOps
           /\ \A b \in Actors \ {a} : call'[b] = call[b]
           /\ HandlerOK(a)'
  <1>1. RuntimeTypeOK
    BY CheckoutFacts
  <1>2. /\ call' \in [Actors -> Call] /\ call'[a] = NoCall
        /\ \A b \in Actors \ {a} : call'[b] = call[b]
    BY <1>1, UpdateTypes, UpdateValues
  <1> QED BY <1>2 DEF NoCall, PendingOps, HandlerOK

\* An answer that carries no lease.
LEMMA ReplyFacts ==
    ASSUME CheckoutInv, NEW a \in Actors, NEW out \in {"ok", "rejected", "unknown"}, Reply(a, out),
           call[a].op \in CheckoutOps
    PROVE  /\ call' \in [Actors -> Call]
           /\ call'[a].op = call[a].op /\ call'[a].op \notin PendingOps
           /\ \A b \in Actors \ {a} : call'[b] = call[b]
  <1>1. RuntimeTypeOK
    BY CheckoutFacts
  <1>2. call[a].op \notin PendingOps
    BY DEF CheckoutOps, PendingOps
  <1>3. call' \in [Actors -> Call]
    BY <1>1, UpdateTypes
  <1>4. call'[a].op = call[a].op /\ \A b \in Actors \ {a} : call'[b] = call[b]
    BY <1>1, UpdateValues
  <1> QED BY <1>2, <1>3, <1>4

\* A checkout starts its look at Kata.
LEMMA StartCheckoutInv ==
    ASSUME CheckoutInv, NEW a \in Actors, StartCheckout(a)
    PROVE  CheckoutInv' /\ \A w \in Workspaces : Onward(w)
  <1>0. /\ RuntimeInv /\ ws \in [Workspaces -> Workspace] /\ actor[a].active \in Tenure
        /\ job \in [Workspaces -> Phases] /\ target \in [Actors -> Workspaces \cup {NoTarget}]
        /\ \A w \in Workspaces : Holds(w) => call[OwnerOf(w)].op \in {"prepare", "observe"}
    BY CheckoutFacts DEF Actor
  <1>1. /\ call[a] = NoCall /\ ~HasPending(a) /\ Active(a)
        /\ Begin(a, "checkout", actor[a].active)
        /\ UNCHANGED <<authorityVars, instance, ended, actor, ws, minted, job, target>>
    BY DEF StartCheckout, Serves
  <1>2. /\ call' \in [Actors -> Call] /\ call'[a].op = "checkout" /\ call'[a].op \notin PendingOps
        /\ \A b \in Actors \ {a} : call'[b] = call[b]
    BY <1>0, <1>1, BeginFacts DEF CheckoutOps
  <1>3. RuntimeInv'
    BY <1>0, <1>1, <1>2, PlainInv
  <1>4. HandlerOK(a)'
    BY <1>1, <1>2 DEF HandlerOK, Active, HasPending
  <1>5. \A w \in Workspaces : ~(OwnerOf(w) = a /\ Holds(w))
    BY <1>0, <1>1 DEF NoCall
  <1> DEFINE v == NoTarget
  <1>6. v \notin Workspaces
    BY CheckoutAssumption
  <1> HIDE DEF v
  <1> QED BY <1>0, <1>1, <1>2, <1>3, <1>4, <1>5, <1>6, OneWorkspace

\* checkout_archive starts.
LEMMA StartArchiveInv ==
    ASSUME CheckoutInv, NEW a \in Actors, NEW x \in Workspaces, StartArchive(a, x)
    PROVE  CheckoutInv' /\ \A w \in Workspaces : Onward(w)
  <1>0. /\ RuntimeInv /\ ws \in [Workspaces -> Workspace]
        /\ job \in [Workspaces -> Phases] /\ target \in [Actors -> Workspaces \cup {NoTarget}]
        /\ \A w \in Workspaces : Holds(w) => call[OwnerOf(w)].op \in {"prepare", "observe"}
    BY CheckoutFacts
  <1>1. /\ call[a] = NoCall /\ Archivable(x) /\ target' = [target EXCEPT ![a] = x]
        /\ Begin(a, "archive", NoTenure)
        /\ UNCHANGED <<authorityVars, instance, ended, actor, ws, minted, job>>
    BY DEF StartArchive, Serves
  <1>2. /\ call' \in [Actors -> Call] /\ call'[a].op = "archive" /\ call'[a].op \notin PendingOps
        /\ \A b \in Actors \ {a} : call'[b] = call[b]
    BY <1>0, <1>1, BeginFacts, NullTypes DEF CheckoutOps
  <1>3. RuntimeInv'
    BY <1>0, <1>1, <1>2, PlainInv
  <1>4. /\ target' \in [Actors -> Workspaces \cup {NoTarget}] /\ target'[a] = x
        /\ \A b \in Actors \ {a} : target'[b] = target[b]
    BY <1>0, <1>1
  <1>5. HandlerOK(a)'
    BY <1>1, <1>2, <1>4, CheckoutAssumption DEF HandlerOK, Archivable
  <1>6. \A w \in Workspaces : ~(OwnerOf(w) = a /\ Holds(w))
    BY <1>0, <1>1 DEF NoCall
  <1> DEFINE v == NoTarget
  <1>7. v \notin Workspaces
    BY CheckoutAssumption
  <1> HIDE DEF v
  <1> QED BY <1>0, <1>1, <1>2, <1>3, <1>4, <1>5, <1>6, <1>7, OneWorkspace

\* Kata says whether the issue is closed.
LEMMA ArchiveLookInv ==
    ASSUME CheckoutInv, NEW a \in Actors, ArchiveLook(a)
    PROVE  CheckoutInv' /\ \A w \in Workspaces : Onward(w)
  <1>0. /\ RuntimeInv /\ ws \in [Workspaces -> Workspace] /\ HandlerOK(a)
        /\ job \in [Workspaces -> Phases] /\ target \in [Actors -> Workspaces \cup {NoTarget}]
        /\ \A w \in Workspaces : Holds(w) => call[OwnerOf(w)].op \in {"prepare", "observe"}
    BY CheckoutFacts
  <1>1. PICK out \in {"ok", "rejected", "unknown"} :
           /\ call[a].op = "archive" /\ Reply(a, out)
           /\ UNCHANGED <<authorityVars, instance, ended, actor, ws, minted, job, target>>
    BY DEF ArchiveLook, AtStage
  <1>2. /\ call' \in [Actors -> Call] /\ call'[a].op = "archive" /\ call'[a].op \notin PendingOps
        /\ \A b \in Actors \ {a} : call'[b] = call[b]
    BY <1>0, <1>1, ReplyFacts DEF CheckoutOps
  <1>3. RuntimeInv'
    BY <1>0, <1>1, <1>2, PlainInv
  <1>4. HandlerOK(a)'
    BY <1>0, <1>1, <1>2 DEF HandlerOK
  <1>5. \A w \in Workspaces : ~(OwnerOf(w) = a /\ Holds(w))
    BY <1>0, <1>1
  <1> DEFINE v == NoTarget
  <1>6. v \notin Workspaces
    BY CheckoutAssumption
  <1> HIDE DEF v
  <1> QED BY <1>0, <1>1, <1>2, <1>3, <1>4, <1>5, <1>6, OneWorkspace

\* The archived workspace was none and not preparing when the archive started,
\* and cannot have become so since.
LEMMA FinishArchiveInv ==
    ASSUME CheckoutInv, NEW a \in Actors, FinishArchive(a)
    PROVE  CheckoutInv' /\ \A w \in Workspaces : Onward(w)
  <1>0. /\ RuntimeInv /\ ws \in [Workspaces -> Workspace] /\ HandlerOK(a)
        /\ job \in [Workspaces -> Phases] /\ target \in [Actors -> Workspaces \cup {NoTarget}]
        /\ \A w \in Workspaces : Holds(w) => call[OwnerOf(w)].op \in {"prepare", "observe"}
        /\ \A w \in Workspaces : WorkspaceOK(w)
        /\ \A b \in Actors : CloseOK(b)
    BY CheckoutFacts
  <1>1. /\ call[a].op = "archive" /\ Unlock(a)
        /\ target' = [target EXCEPT ![a] = NoTarget]
        /\ UNCHANGED <<authorityVars, instance, ended, actor, minted, job>>
        /\ \/ Put(target[a], "archived", "archive_pending")
           \/ ws' = ws
    BY DEF FinishArchive, AtStage
  <1>2. PICK v \in Workspaces : v = target[a] /\ ws[v].state \notin {"none", "preparing"}
    BY <1>0, <1>1 DEF HandlerOK
  <1>3. /\ call' \in [Actors -> Call] /\ call'[a] = NoCall /\ call'[a].op \notin PendingOps
        /\ \A b \in Actors \ {a} : call'[b] = call[b]
        /\ HandlerOK(a)'
    BY <1>1, UnlockFacts
  <1>4. /\ target' \in [Actors -> Workspaces \cup {NoTarget}]
        /\ \A b \in Actors \ {a} : target'[b] = target[b]
    BY <1>0, <1>1
  <1>5. \A w \in Workspaces : ~(OwnerOf(w) = a /\ Holds(w))
    BY <1>0, <1>1
  <1>6. CASE ws' = ws
    <2> DEFINE u == NoTarget
    <2>1. u \notin Workspaces
      BY CheckoutAssumption
    <2> HIDE DEF u
    <2>2. RuntimeInv'
      BY <1>0, <1>1, <1>3, <1>6, PlainInv
    <2> QED BY <1>0, <1>1, <1>3, <1>4, <1>5, <1>6, <2>1, <2>2, OneWorkspace
  <1>7. CASE Put(v, "archived", "archive_pending")
    <2>1. PICK s \in {"archived", "archive_pending"} : ws' = [ws EXCEPT ![v].state = s]
      BY <1>7 DEF Put
    <2>2. s \in WorkspaceStates
      BY DEF WorkspaceStates
    <2>3. /\ ws' \in [Workspaces -> Workspace]
          /\ ws'[v].state = s /\ OwnerOf(v)' = OwnerOf(v)
          /\ ws'[v].claim = ws[v].claim /\ ws'[v].issue = ws[v].issue
          /\ \A x \in Workspaces \ {v} : ws'[x] = ws[x]
      BY <1>2, <2>1, <2>2, StateWritten
    <2>4. RuntimeInv'
      BY <1>0, <1>1, <1>3, <2>3, PlainInv
    <2>5. job[v] = "none" /\ job' = job /\ claims' = claims
      BY <1>0, <1>1, <1>2 DEF WorkspaceOK, authorityVars
    <2>6. WorkspaceOK(v)'
      <3>1. Usable(v)' /\ \A b \in Actors : NotClosing(b, v)'
        BY <2>3 DEF Usable, NotClosing
      <3>2. RecordOK(v)'
        BY <1>0, <1>2, <2>3, <2>5 DEF WorkspaceOK, RecordOK, NoWorkspace
      <3>3. JobOK(v)' /\ (ws'[v].state = "preparing" <=> job'[v] # "none")
        BY <2>3, <2>5 DEF JobOK, Holds
      <3> QED BY <3>1, <3>2, <3>3 DEF WorkspaceOK
    <2>7. /\ Onward(v) /\ ~Holds(v)'
          /\ ws'[v].state \notin {"none", "preparing"}
      BY <2>3, <2>5 DEF Onward, InUse, Holds
    <2> QED BY <1>0, <1>1, <1>3, <1>4, <1>5, <2>3, <2>4, <2>6, <2>7, OneWorkspace
  <1> QED BY <1>1, <1>2, <1>6, <1>7

\* The record a checkout writes is of the tenure it has just refreshed, which no
\* close that is under way can be of.
LEMMA FinishCheckoutInv ==
    ASSUME CheckoutInv, NEW a \in Actors, FinishCheckout(a)
    PROVE  CheckoutInv' /\ \A w \in Workspaces : Onward(w)
  <1>0. /\ RuntimeInv /\ ws \in [Workspaces -> Workspace] /\ HandlerOK(a)
        /\ actor \in [Actors -> Actor]
        /\ job \in [Workspaces -> Phases] /\ target \in [Actors -> Workspaces \cup {NoTarget}]
        /\ \A w \in Workspaces : Holds(w) => call[OwnerOf(w)].op \in {"prepare", "observe"}
        /\ \A w \in Workspaces : WorkspaceOK(w)
        /\ \A b \in Actors : CloseOK(b)
        /\ TenureOK(a)
    BY CheckoutFacts
  <1>1. PICK r : /\ r = Refreshed(a, call[a]) /\ SetActor(a, r)
                 /\ \/ /\ MayCheckout(r)
                       /\ \E w \in Workspaces : ws[w].state = "none" /\ Recorded(a, w, r.active)
                    \/ UNCHANGED <<ws, job>>
    BY DEF FinishCheckout
  <1>2. /\ call[a].op = "checkout" /\ Unlock(a)
        /\ UNCHANGED <<authorityVars, instance, ended, minted, target>>
    BY DEF FinishCheckout, AtStage
  <1>3. /\ r \in Actor /\ r.pending = actor[a].pending /\ r.paused = actor[a].paused
        /\ \/ r.active = NoTenure
           \/ /\ r.active.issue = actor[a].active.issue
              /\ r.active.holder = actor[a].active.holder
              /\ r.active.claim = actor[a].active.claim
    BY <1>0, <1>1, RefreshedFacts
  <1>4. /\ actor'[a] = r /\ \A b \in Actors \ {a} : actor'[b] = actor[b]
    BY <1>0, <1>1, <1>3 DEF SetActor
  <1>5. /\ actor'[a].pending = actor[a].pending /\ actor'[a].paused = actor[a].paused
        /\ actor'[a].active.claim \in {actor[a].active.claim, NoClaim}
    BY <1>3, <1>4 DEF NoTenure
  <1>6. /\ call' \in [Actors -> Call] /\ call'[a] = NoCall /\ call'[a].op \notin PendingOps
        /\ \A b \in Actors \ {a} : call'[b] = call[b]
        /\ HandlerOK(a)'
    BY <1>2, UnlockFacts
  <1>7. \A w \in Workspaces : ~(OwnerOf(w) = a /\ Holds(w))
    BY <1>0, <1>2
  <1>8. ASSUME ws' \in [Workspaces -> Workspace] PROVE RuntimeInv'
    BY <1>0, <1>1, <1>2, <1>6, <1>8, PlainInv
  <1>9. CASE UNCHANGED <<ws, job>>
    <2> DEFINE u == NoTarget
    <2>1. u \notin Workspaces
      BY CheckoutAssumption
    <2> HIDE DEF u
    <2>2. RuntimeInv'
      BY <1>0, <1>8, <1>9
    <2> QED BY <1>0, <1>2, <1>4, <1>5, <1>6, <1>7, <1>9, <2>1, <2>2, OneWorkspace
  <1>10. ASSUME MayCheckout(r), NEW v \in Workspaces, ws[v].state = "none", Recorded(a, v, r.active)
         PROVE  CheckoutInv' /\ \A w \in Workspaces : Onward(w)
    <2> DEFINE c == actor[a].active.claim
               i == actor[a].active.issue
    <2>1. /\ r.active.issue = i /\ r.active.claim = c
      BY <1>3, <1>10 DEF MayCheckout
    <2>2. /\ Active(a) /\ ~HasPending(a)
      BY <1>0, <1>2 DEF HandlerOK
    <2>3. /\ c \in Claims /\ claims[c].state # "free" /\ claims[c].issue = i
          /\ claims[c].holder = actor[a].active.holder
      BY <1>0, <2>2 DEF TenureOK, Backed, Lasts
    <2>4. PICK s \in {"preparing", "failed"} :
             /\ ws' = [ws EXCEPT ![v] = [state |-> s, owner |-> a, issue |-> i, claim |-> c]]
             /\ IF s = "preparing" THEN SetJob(v, "capture") ELSE UNCHANGED job
      BY <1>10, <2>1 DEF Recorded
    <2>5. [state |-> s, owner |-> a, issue |-> i, claim |-> c] \in Workspace
      <3>1. i \in Issues \cup {NoIssue} /\ c \in Nat
        BY <1>0 DEF Actor, Tenure
      <3> QED BY <3>1 DEF Workspace, WorkspaceStates
    <2>6. /\ ws' \in [Workspaces -> Workspace]
          /\ ws'[v].state = s /\ ws'[v].owner = a /\ ws'[v].issue = i /\ ws'[v].claim = c
          /\ \A w \in Workspaces \ {v} : ws'[w] = ws[w]
      BY <1>0, <2>4, <2>5
    <2>7. job[v] = "none"
      BY <1>0, <1>10 DEF WorkspaceOK
    <2>8. /\ job' \in [Workspaces -> Phases] /\ job'[v] = IF s = "preparing" THEN "capture" ELSE "none"
          /\ \A w \in Workspaces \ {v} : job'[w] = job[w]
      BY <1>0, <2>4, <2>7 DEF SetJob, Phases
    <2>9. RuntimeInv'
      BY <1>8, <2>6
    <2>10. ASSUME NEW b \in Actors PROVE NotClosing(b, v)'
      <3>1. CASE b = a
        BY <1>5, <2>2, <3>1 DEF NotClosing, HasPending
      <3>2. CASE b # a
        <4> SUFFICES ASSUME actor[b].pending.op = "close", actor[b].pending.claim = c PROVE FALSE
          BY <1>4, <2>6, <3>2 DEF NotClosing
        <4>1. actor[b].pending.holder = actor[a].active.holder
          BY <1>0, <2>3 DEF CloseOK
        <4>2. actor[a].active.holder \in PrincipalsOf(a) \cap PrincipalsOf(b)
          BY <2>2, <4>1 DEF PrincipalsOf, HasPending
        <4> QED BY <1>0, <3>2, <4>2 DEF RuntimeInv, Apart
      <3> QED BY <3>1, <3>2
    <2>11. WorkspaceOK(v)'
      <3>1. Usable(v)'
        BY <2>6 DEF Usable
      <3>2. (ws'[v].state = "preparing") <=> (job'[v] # "none")
        BY <2>6, <2>8
      <3>3. RecordOK(v)'
        BY <1>2, <2>3, <2>6 DEF RecordOK, OwnerOf, authorityVars
      <3>4. JobOK(v)'
        BY <2>8 DEF JobOK, Holds
      <3> QED BY <2>10, <3>1, <3>2, <3>3, <3>4 DEF WorkspaceOK
    <2>12. /\ Onward(v) /\ ~Holds(v)'
      BY <1>10, <2>8 DEF Onward, Over, Holds
    <2> QED BY <1>0, <1>2, <1>4, <1>5, <1>6, <1>7, <1>10, <2>6, <2>8, <2>9, <2>11, <2>12, OneWorkspace
  <1> QED BY <1>1, <1>9, <1>10

-----------------------------------------------------------------------------
(* Steps of the goroutine of a workspace.                                    *)

\* The mutex of the owner is the goroutine's, or the step does without it.
AloneWith(w, a) ==
    \/ \A x \in Workspaces \ {w} : ~(OwnerOf(x) = a /\ Holds(x))
    \/ actor'[a] = actor[a] /\ call'[a] = call[a] /\ ~Holds(w)'

\* A preparation enters its next phase; the record stays.
LEMMA JobGoesOn ==
    ASSUME CheckoutInv, NEW w \in Workspaces, NEW a \in Actors, a = OwnerOf(w), job[w] # "none",
           NEW phase \in Phases \ {"none"}, SetJob(w, phase), UNCHANGED <<authorityVars, ws, target>>,
           RuntimeInv',
           \A b \in Actors \ {a} : actor'[b] = actor[b] /\ call'[b] = call[b],
           actor'[a].pending = actor[a].pending, actor'[a].paused = actor[a].paused,
           actor'[a].active.claim \in {actor[a].active.claim, NoClaim},
           AloneWith(w, a), HandlerOK(a)', JobOK(w)'
    PROVE  CheckoutInv' /\ \A x \in Workspaces : Onward(x)
  <1>0. /\ job \in [Workspaces -> Phases] /\ target \in [Actors -> Workspaces \cup {NoTarget}]
        /\ ws[w].state = "preparing" /\ WorkspaceOK(w)
    BY CheckoutFacts
  <1>1. /\ job' \in [Workspaces -> Phases] /\ job'[w] # "none"
        /\ \A x \in Workspaces \ {w} : job'[x] = job[x]
    BY <1>0 DEF SetJob
  <1>2. \A b \in Actors : actor'[b].pending = actor[b].pending
    OBVIOUS
  <1>3. WorkspaceOK(w)'
    <2>1. Usable(w)'
      BY <1>0 DEF Usable
    <2>2. \A b \in Actors : NotClosing(b, w)'
      BY <1>0, <1>2 DEF WorkspaceOK, NotClosing
    <2>3. RecordOK(w)'
      BY <1>0 DEF WorkspaceOK, RecordOK, OwnerOf, authorityVars
    <2> QED BY <1>0, <1>1, <2>1, <2>2, <2>3 DEF WorkspaceOK
  <1>4. Onward(w) /\ OwnerOf(w)' = a
    BY <1>0 DEF Onward, Over, OwnerOf
  <1>5. \/ \A x \in Workspaces \ {w} : ~(OwnerOf(x) = a /\ Holds(x))
        \/ actor'[a] = actor[a] /\ call'[a] = call[a] /\ ~Holds(w)'
    BY DEF AloneWith
  <1> QED BY <1>0, <1>1, <1>3, <1>4, <1>5, OneWorkspace

\* A preparation ends with its record written.
LEMMA JobEnds ==
    ASSUME CheckoutInv, NEW w \in Workspaces, NEW a \in Actors, a = OwnerOf(w), job[w] # "none",
           NEW s \in {"ready", "orphaned", "failed"}, Ended(w, s), UNCHANGED <<authorityVars, target>>,
           RuntimeInv',
           \A b \in Actors \ {a} : actor'[b] = actor[b] /\ call'[b] = call[b],
           actor'[a].pending = actor[a].pending, actor'[a].paused = actor[a].paused,
           actor'[a].active.claim \in {actor[a].active.claim, NoClaim},
           AloneWith(w, a), HandlerOK(a)',
           s = "ready" => ws[w].claim = actor[a].active.claim /\ ~actor[a].paused
    PROVE  CheckoutInv' /\ \A x \in Workspaces : Onward(x)
  <1>0. /\ job \in [Workspaces -> Phases] /\ target \in [Actors -> Workspaces \cup {NoTarget}]
        /\ ws[w].state = "preparing" /\ WorkspaceOK(w)
    BY CheckoutFacts
  <1>1. /\ job' \in [Workspaces -> Phases] /\ job'[w] = "none"
        /\ \A x \in Workspaces \ {w} : job'[x] = job[x]
    BY <1>0 DEF Ended, SetJob, Phases
  <1>2. /\ ws'[w].state = s /\ OwnerOf(w)' = a
        /\ ws'[w].claim = ws[w].claim /\ ws'[w].issue = ws[w].issue
        /\ \A x \in Workspaces \ {w} : ws'[x] = ws[x]
    BY StateWritten DEF Ended, WorkspaceStates
  <1>3. WorkspaceOK(w)'
    <2>1. Usable(w)'
      BY <1>2 DEF Usable, Active
    <2>2. \A b \in Actors : NotClosing(b, w)'
      BY <1>2 DEF NotClosing
    <2>3. RecordOK(w)'
      BY <1>0, <1>2 DEF WorkspaceOK, RecordOK, NoWorkspace, authorityVars
    <2>4. JobOK(w)'
      BY <1>1 DEF JobOK, Holds
    <2> QED BY <1>1, <1>2, <2>1, <2>2, <2>3, <2>4 DEF WorkspaceOK
  <1>4. Onward(w) /\ ~Holds(w)'
    BY <1>0, <1>1 DEF Onward, Over, Holds
  <1>5. \/ \A x \in Workspaces \ {w} : ~(OwnerOf(x) = a /\ Holds(x))
        \/ actor'[a] = actor[a] /\ call'[a] = call[a] /\ ~Holds(w)'
    BY DEF AloneWith
  <1> QED BY <1>0, <1>1, <1>2, <1>3, <1>4, <1>5, OneWorkspace

\* A handler that is under way is not disturbed by what happens to a record
\* that is preparing.
LEMMA HandlerKept ==
    ASSUME CheckoutInv, NEW w \in Workspaces, job[w] # "none", NEW a \in Actors,
           UNCHANGED <<actor, call, target>>,
           \A x \in Workspaces \ {w} : ws'[x] = ws[x]
    PROVE  HandlerOK(a)'
  <1>1. /\ HandlerOK(a) /\ ws[w].state = "preparing"
        /\ target[a] \in Workspaces \cup {NoTarget}
    BY CheckoutFacts
  <1> QED BY <1>1 DEF HandlerOK, Active, HasPending

\* The work of a preparation fails, outside the mutex.
LEMMA WorkFailsInv ==
    ASSUME CheckoutInv, NEW w \in Workspaces, WorkFails(w)
    PROVE  CheckoutInv' /\ \A x \in Workspaces : Onward(x)
  <1>1. /\ job[w] # "none" /\ SetJob(w, "failing")
        /\ UNCHANGED <<authorityVars, instance, ended, actor, call, ws, minted, target>>
    BY DEF WorkFails, vars, authorityVars
  <1>2. PICK a \in Actors : a = OwnerOf(w)
    BY <1>1, CheckoutFacts
  <1>3. RuntimeInv'
    <2>1. RuntimeInv /\ RuntimeTypeOK
      BY CheckoutFacts
    <2>2. RuntimeTypeOK' /\ Transaction /\ receipts' = receipts
      BY <1>1, <2>1 DEF RuntimeTypeOK, Transaction, authorityVars
    <2> QED BY <1>1, <2>1, <2>2, IdleInv
  <1>4. HandlerOK(a)'
    BY <1>1, HandlerKept
  <1>5. job'[w] = "failing"
    BY <1>1, CheckoutFacts DEF SetJob
  <1>6. JobOK(w)' /\ AloneWith(w, a)
    BY <1>1, <1>5 DEF JobOK, Holds, AloneWith
  <1>7. "failing" \in Phases \ {"none"}
    BY DEF Phases
  <1> QED BY <1>1, <1>2, <1>3, <1>4, <1>6, <1>7, JobGoesOn

\* workspaceFailed outside the mutex.
LEMMA AbandonInv ==
    ASSUME CheckoutInv, NEW w \in Workspaces, Abandon(w)
    PROVE  CheckoutInv' /\ \A x \in Workspaces : Onward(x)
  <1>1. PICK s \in {"orphaned", "failed"} :
           /\ job[w] # "none" /\ Ended(w, s)
           /\ UNCHANGED <<authorityVars, instance, ended, actor, call, minted, target>>
    BY DEF Abandon
  <1>2. PICK a \in Actors : a = OwnerOf(w)
    BY <1>1, CheckoutFacts
  <1>3. /\ ws' \in [Workspaces -> Workspace]
        /\ \A x \in Workspaces \ {w} : ws'[x] = ws[x]
    BY <1>1, StateWritten DEF Ended, WorkspaceStates
  <1>4. RuntimeInv'
    <2>1. RuntimeInv /\ RuntimeTypeOK
      BY CheckoutFacts
    <2>2. RuntimeTypeOK' /\ Transaction /\ receipts' = receipts
      BY <1>1, <1>3, <2>1 DEF RuntimeTypeOK, Transaction, authorityVars
    <2> QED BY <1>1, <2>1, <2>2, IdleInv
  <1>5. HandlerOK(a)'
    BY <1>1, <1>3, HandlerKept
  <1>6. job'[w] = "none"
    BY <1>1, CheckoutFacts DEF Ended, SetJob
  <1>7. AloneWith(w, a)
    BY <1>1, <1>6 DEF Holds, AloneWith
  <1> QED BY <1>1, <1>2, <1>4, <1>5, <1>7, JobEnds

\* workspaceFailed inside the mutex ends the preparation, after the first
\* revalidation it only leaves that to a step of its own.
LEMMA LeavesMutex ==
    ASSUME CheckoutInv, NEW w \in Workspaces, NEW a \in Actors, a = OwnerOf(w), job[w] # "none",
           \/ Lost(w)
           \/ Fails(w),
           UNCHANGED <<authorityVars, instance, ended, minted, target>>,
           RuntimeTypeOK' => RuntimeInv', actor' \in [Actors -> Actor], call' \in [Actors -> Call],
           \A b \in Actors \ {a} : actor'[b] = actor[b] /\ call'[b] = call[b],
           actor'[a].pending = actor[a].pending, actor'[a].paused = actor[a].paused,
           actor'[a].active.claim \in {actor[a].active.claim, NoClaim},
           \A x \in Workspaces \ {w} : ~(OwnerOf(x) = a /\ Holds(x)),
           HandlerOK(a)'
    PROVE  CheckoutInv' /\ \A x \in Workspaces : Onward(x)
  <1>0. /\ RuntimeTypeOK /\ job \in [Workspaces -> Phases] /\ ws \in [Workspaces -> Workspace]
    BY CheckoutFacts
  <1>1. AloneWith(w, a)
    BY DEF AloneWith
  <1>2. ASSUME NEW s \in {"orphaned", "failed"}, Ended(w, s)
        PROVE  CheckoutInv' /\ \A x \in Workspaces : Onward(x)
    <2>1. ws' \in [Workspaces -> Workspace]
      BY <1>2, StateWritten DEF Ended, WorkspaceStates
    <2>2. RuntimeInv'
      BY <1>0, <2>1 DEF RuntimeTypeOK
    <2> QED BY <1>1, <1>2, <2>2, JobEnds
  <1>3. ASSUME NEW phase \in {"lost", "failing"}, SetJob(w, phase), UNCHANGED ws
        PROVE  CheckoutInv' /\ \A x \in Workspaces : Onward(x)
    <2>1. job'[w] = phase
      BY <1>0, <1>3 DEF SetJob
    <2>2. JobOK(w)'
      BY <2>1 DEF JobOK, Holds
    <2>3. RuntimeInv'
      BY <1>0, <1>3 DEF RuntimeTypeOK
    <2>4. phase \in Phases \ {"none"}
      BY DEF Phases
    <2> QED BY <1>1, <1>3, <2>2, <2>3, <2>4, JobGoesOn
  <1>4. CASE Lost(w)
    BY <1>2, <1>3, <1>4 DEF Lost
  <1>5. CASE Fails(w)
    BY <1>2, <1>3, <1>5 DEF Fails
  <1> QED BY <1>4, <1>5

\* The work is done: the owner is asked whether it may still act.
LEMMA RevalidateInv ==
    ASSUME CheckoutInv, NEW w \in Workspaces, Revalidate(w)
    PROVE  CheckoutInv' /\ \A x \in Workspaces : Onward(x)
  <1>1. job[w] # "none"
    BY DEF Revalidate
  <1>2. PICK a \in Actors : a = OwnerOf(w)
    BY <1>1, CheckoutFacts
  <1>3. /\ RuntimeInv /\ RuntimeTypeOK /\ actor[a].active \in Tenure
        /\ actor \in [Actors -> Actor] /\ call \in [Actors -> Call]
        /\ ws \in [Workspaces -> Workspace] /\ job \in [Workspaces -> Phases] /\ HandlerOK(a)
        /\ \A x \in Workspaces : Holds(x) => call[OwnerOf(x)].op \in {"prepare", "observe"}
    BY CheckoutFacts DEF Actor
  <1>4. /\ call[a] = NoCall /\ actor' = actor
        /\ UNCHANGED <<authorityVars, instance, ended, actor, minted, target>>
        /\ \/ /\ OwnerLive(a) /\ Begin(a, "prepare", actor[a].active) /\ UNCHANGED ws
              /\ SetJob(w, IF Second(w) THEN "look2" ELSE "look1")
           \/ Lost(w) /\ UNCHANGED call
    BY <1>2 DEF Revalidate
  <1>5. \A x \in Workspaces : ~(OwnerOf(x) = a /\ Holds(x))
    BY <1>3, <1>4 DEF NoCall
  <1>6. CASE Lost(w) /\ UNCHANGED call
    <2>1. HandlerOK(a)'
      BY <1>4, <1>6 DEF HandlerOK, NoCall
    <2>2. ASSUME RuntimeTypeOK' PROVE RuntimeInv'
      <3>1. Transaction /\ receipts' = receipts
        BY <1>4 DEF Transaction, authorityVars
      <3> QED BY <1>3, <1>4, <1>6, <2>2, <3>1, IdleInv
    <2> QED BY <1>1, <1>2, <1>3, <1>4, <1>5, <1>6, <2>1, <2>2, LeavesMutex
  <1>7. ASSUME OwnerLive(a), Begin(a, "prepare", actor[a].active), UNCHANGED ws,
               NEW phase \in {"look1", "look2"}, SetJob(w, phase)
        PROVE  CheckoutInv' /\ \A x \in Workspaces : Onward(x)
    <2>1. /\ call' \in [Actors -> Call] /\ call'[a].op = "prepare" /\ call'[a].op \notin PendingOps
          /\ \A b \in Actors \ {a} : call'[b] = call[b]
      BY <1>3, <1>7, BeginFacts DEF CheckoutOps
    <2>2. RuntimeInv'
      BY <1>3, <1>4, <1>7, <2>1, PlainInv
    <2>3. HandlerOK(a)'
      BY <2>1 DEF HandlerOK
    <2>4. JobOK(w)'
      <3>1. job'[w] = phase
        BY <1>3, <1>7 DEF SetJob
      <3>2. OwnerOf(w)' = a
        BY <1>2, <1>7 DEF OwnerOf
      <3> QED BY <1>4, <1>7, <2>1, <3>1, <3>2 DEF JobOK, OwnerLive
    <2>5. AloneWith(w, a)
      BY <1>5 DEF AloneWith
    <2>6. phase \in Phases \ {"none"}
      BY DEF Phases
    <2> QED BY <1>1, <1>2, <1>4, <1>7, <2>1, <2>2, <2>3, <2>4, <2>5, <2>6, JobGoesOn
  <1> QED BY <1>4, <1>6, <1>7

\* The owner is refreshed; the preparation goes on only under its own tenure.
LEMMA LookedInv ==
    ASSUME CheckoutInv, NEW w \in Workspaces, Looked(w)
    PROVE  CheckoutInv' /\ \A x \in Workspaces : Onward(x)
  <1>1. job[w] # "none" /\ Holds(w)
    BY DEF Looked, Holds
  <1>2. PICK a \in Actors : a = OwnerOf(w)
    BY <1>1, CheckoutFacts
  <1>3. /\ RuntimeInv /\ RuntimeTypeOK
        /\ actor \in [Actors -> Actor] /\ call \in [Actors -> Call]
        /\ ws \in [Workspaces -> Workspace] /\ job \in [Workspaces -> Phases]
        /\ WorkspaceOK(w) /\ ~actor[a].paused
        /\ \A x \in Workspaces \ {w} : ~(OwnerOf(x) = a /\ Holds(x))
    BY <1>1, <1>2, CheckoutFacts DEF OneAtATime
  <1>4. PICK r : /\ r = Refreshed(a, call[a]) /\ SetActor(a, r)
                 /\ \/ /\ StillHolds(w, r) /\ Begin(a, "observe", NoTenure) /\ UNCHANGED ws
                       /\ SetJob(w, IF Second(w) THEN "observe2" ELSE "observe1")
                    \/ Lost(w) /\ Unlock(a)
    BY <1>2 DEF Looked
  <1>5. UNCHANGED <<authorityVars, instance, ended, minted, target>>
    BY DEF Looked
  <1>6. /\ r \in Actor /\ r.pending = actor[a].pending /\ r.paused = actor[a].paused
        /\ r.active = NoTenure \/ r.active.claim = actor[a].active.claim
    BY <1>3, <1>4, RefreshedFacts
  <1>7. /\ actor'[a] = r /\ \A b \in Actors \ {a} : actor'[b] = actor[b]
        /\ actor' \in [Actors -> Actor]
    BY <1>3, <1>4, <1>6 DEF SetActor
  <1>8. /\ actor'[a].pending = actor[a].pending /\ actor'[a].paused = actor[a].paused
        /\ actor'[a].active.claim \in {actor[a].active.claim, NoClaim}
    BY <1>6, <1>7 DEF NoTenure
  <1>9. CASE Lost(w) /\ Unlock(a)
    <2>1. /\ call' \in [Actors -> Call] /\ call'[a].op \notin PendingOps
          /\ \A b \in Actors \ {a} : call'[b] = call[b]
          /\ HandlerOK(a)'
      BY <1>9, UnlockFacts
    <2>2. ASSUME RuntimeTypeOK' PROVE RuntimeInv'
      BY <1>3, <1>4, <1>5, <2>1, <2>2, PlainInv DEF RuntimeTypeOK
    <2> QED BY <1>1, <1>2, <1>3, <1>5, <1>7, <1>8, <1>9, <2>1, <2>2, LeavesMutex
  <1>10. ASSUME StillHolds(w, r), Begin(a, "observe", NoTenure), UNCHANGED ws,
                NEW phase \in {"observe1", "observe2"}, SetJob(w, phase)
         PROVE  CheckoutInv' /\ \A x \in Workspaces : Onward(x)
    <2>1. /\ call' \in [Actors -> Call] /\ call'[a].op = "observe" /\ call'[a].op \notin PendingOps
          /\ \A b \in Actors \ {a} : call'[b] = call[b]
      BY <1>10, BeginFacts, NullTypes DEF CheckoutOps
    <2>2. RuntimeInv'
      BY <1>3, <1>4, <1>5, <1>10, <2>1, PlainInv
    <2>3. HandlerOK(a)'
      BY <2>1 DEF HandlerOK
    <2>4. ws[w].claim \in Claims
      BY <1>1, <1>3 DEF WorkspaceOK, RecordOK, NoWorkspace
    <2>5. JobOK(w)'
      <3>1. job'[w] = phase
        BY <1>3, <1>10 DEF SetJob
      <3>2. OwnerOf(w)' = a
        BY <1>2, <1>10 DEF OwnerOf
      <3>3. Active(a)' /\ ws'[w].claim = actor'[a].active.claim
        BY <1>7, <1>10, <2>4 DEF StillHolds, Active, Claims, NoClaim
      <3> QED BY <1>3, <1>8, <2>1, <3>1, <3>2, <3>3 DEF JobOK
    <2>6. AloneWith(w, a)
      BY <1>3 DEF AloneWith
    <2>7. phase \in Phases \ {"none"}
      BY DEF Phases
    <2> QED BY <1>1, <1>2, <1>5, <1>7, <1>8, <1>10, <2>1, <2>2, <2>3, <2>5, <2>6, <2>7, JobGoesOn
  <1> QED BY <1>4, <1>9, <1>10

\* The observation reaches Kata.
LEMMA ObserveInv ==
    ASSUME CheckoutInv, NEW w \in Workspaces, Observe(w)
    PROVE  CheckoutInv' /\ \A x \in Workspaces : Onward(x)
  <1>1. job[w] # "none" /\ Holds(w)
    BY DEF Observe, Holds
  <1>2. PICK a \in Actors : a = OwnerOf(w)
    BY <1>1, CheckoutFacts
  <1>3. /\ RuntimeInv /\ ws \in [Workspaces -> Workspace] /\ job \in [Workspaces -> Phases]
        /\ target \in [Actors -> Workspaces \cup {NoTarget}]
        /\ WorkspaceOK(w)
        /\ \A x \in Workspaces \ {w} : ~(OwnerOf(x) = a /\ Holds(x))
    BY <1>1, <1>2, CheckoutFacts DEF OneAtATime
  <1>4. PICK out \in {"ok", "rejected", "unknown"} :
           /\ call[a].op = "observe" /\ Reply(a, out)
           /\ UNCHANGED <<authorityVars, instance, ended, actor, ws, minted, job, target>>
    BY <1>2 DEF Observe, AtStage
  <1>5. /\ call' \in [Actors -> Call] /\ call'[a].op = "observe" /\ call'[a].op \notin PendingOps
        /\ \A b \in Actors \ {a} : call'[b] = call[b]
    BY <1>4, ReplyFacts DEF CheckoutOps
  <1>6. RuntimeInv'
    BY <1>3, <1>4, <1>5, PlainInv
  <1>7. HandlerOK(a)'
    BY <1>5 DEF HandlerOK
  <1>8. JobOK(w)'
    BY <1>2, <1>3, <1>4, <1>5 DEF WorkspaceOK, JobOK, Holds, OwnerOf, Active, Observe
  <1>9. AloneWith(w, a)
    BY <1>3 DEF AloneWith
  <1>10. SetJob(w, job[w]) /\ job[w] \in Phases \ {"none"}
    BY <1>1, <1>3, <1>4 DEF SetJob
  <1> QED BY <1>1, <1>2, <1>4, <1>5, <1>6, <1>7, <1>8, <1>9, <1>10, JobGoesOn

\* The observation is answered.
LEMMA ObservedInv ==
    ASSUME CheckoutInv, NEW w \in Workspaces, Observed(w)
    PROVE  CheckoutInv' /\ \A x \in Workspaces : Onward(x)
  <1>1. job[w] # "none" /\ Holds(w)
    BY DEF Observed, Holds
  <1>2. PICK a \in Actors : a = OwnerOf(w)
    BY <1>1, CheckoutFacts
  <1>3. /\ RuntimeInv /\ RuntimeTypeOK
        /\ actor \in [Actors -> Actor] /\ call \in [Actors -> Call]
        /\ ws \in [Workspaces -> Workspace] /\ job \in [Workspaces -> Phases]
        /\ WorkspaceOK(w) /\ ~actor[a].paused
        /\ \A x \in Workspaces \ {w} : ~(OwnerOf(x) = a /\ Holds(x))
    BY <1>1, <1>2, CheckoutFacts DEF OneAtATime
  <1>4. /\ Unlock(a) /\ UNCHANGED <<authorityVars, instance, ended, actor, minted, target>>
        /\ \/ Ended(w, "ready")
           \/ SetJob(w, "restore") /\ UNCHANGED ws
           \/ Fails(w)
    BY <1>2 DEF Observed
  <1>5. /\ call' \in [Actors -> Call] /\ call'[a].op \notin PendingOps
        /\ \A b \in Actors \ {a} : call'[b] = call[b]
        /\ HandlerOK(a)'
    BY <1>4, UnlockFacts
  <1>6. ASSUME ws' \in [Workspaces -> Workspace] PROVE RuntimeInv'
    BY <1>3, <1>4, <1>5, <1>6, PlainInv
  <1>7. AloneWith(w, a)
    BY <1>3 DEF AloneWith
  <1>8. CASE Ended(w, "ready")
    <2>1. ws' \in [Workspaces -> Workspace]
      BY <1>8, StateWritten DEF Ended, WorkspaceStates
    <2>2. ws[w].claim = actor[a].active.claim
      BY <1>2, <1>3 DEF WorkspaceOK, JobOK, Observed
    <2> QED BY <1>1, <1>2, <1>3, <1>4, <1>5, <1>6, <1>7, <1>8, <2>1, <2>2, JobEnds
  <1>9. CASE SetJob(w, "restore") /\ UNCHANGED ws
    <2>1. job'[w] = "restore"
      BY <1>3, <1>9 DEF SetJob
    <2>2. JobOK(w)'
      BY <2>1 DEF JobOK, Holds
    <2>3. RuntimeInv'
      BY <1>3, <1>6, <1>9
    <2>4. "restore" \in Phases \ {"none"}
      BY DEF Phases
    <2> QED BY <1>1, <1>2, <1>4, <1>5, <1>7, <1>9, <2>2, <2>3, <2>4, JobGoesOn
  <1>10. CASE Fails(w)
    <2>1. RuntimeTypeOK' => RuntimeInv'
      BY <1>6 DEF RuntimeTypeOK
    <2> QED BY <1>1, <1>2, <1>3, <1>4, <1>5, <1>10, <2>1, LeavesMutex
  <1> QED BY <1>4, <1>8, <1>9, <1>10

-----------------------------------------------------------------------------
(* Steps of the runtime, as checkouts see them.                              *)

\* A step of a moves only a's records, between the states in use and out of
\* them, and never one that is preparing.
RecordMoves(a, w) ==
    \/ ws'[w] = ws[w]
    \/ \E s \in {"ready", "paused", "orphaned", "archived", "archive_pending"} :
          /\ ws[w].owner = a /\ ws[w].state \notin {"none", "preparing"}
          /\ ws[w].state \in {"ready", "paused"} \/ s \in {"archived", "archive_pending"}
          /\ ws'[w] = [ws[w] EXCEPT !.state = s]

\* A close starts while nothing of the tenure prepares.
CloseStarts(a) ==
    /\ Active(a) /\ ~CheckoutBusy(a) /\ ws' = ws
    /\ \E key \in Nat : actor'[a].pending = HeldPending(a, "close", key)

Moves(a) ==
    /\ \A b \in Actors \ {a} : actor'[b] = actor[b] /\ call'[b] = call[b]
    /\ \A w \in Workspaces : RecordMoves(a, w)
    /\ \A w \in Workspaces : ws[w].owner = a => Usable(w)'
    /\ \/ actor'[a] = actor[a] /\ call'[a].op = call[a].op
       \/ call[a].op \notin CheckoutOps /\ call'[a].op \notin CheckoutOps
    /\ call'[a].op = "prompt" => ~actor'[a].paused
    /\ actor'[a].pending.op = "close" =>
          actor'[a].pending = actor[a].pending \/ CloseStarts(a)

\* A step that moves so keeps what checkouts rely on.
LEMMA MovesInv ==
    ASSUME CheckoutInv, NEW a \in Actors, Moves(a), RowsStay, RuntimeInv', UNCHANGED <<job, target>>
    PROVE  CheckoutInv' /\ \A w \in Workspaces : Onward(w)
  <1>0. /\ RuntimeInv /\ ws \in [Workspaces -> Workspace]
        /\ job \in [Workspaces -> Phases] /\ target \in [Actors -> Workspaces \cup {NoTarget}]
        /\ \A b \in Actors : HandlerOK(b) /\ CloseOK(b) /\ TenureOK(b)
        /\ \A w \in Workspaces : WorkspaceOK(w)
        /\ \A w \in Workspaces : job[w] # "none" =>
                 ws[w].state = "preparing" /\ OwnerOf(w) \in Actors
        /\ \A w \in Workspaces : Holds(w) => call[OwnerOf(w)].op \in {"prepare", "observe"}
        /\ OneAtATime
    BY CheckoutFacts
  <1>1. ASSUME NEW w \in Workspaces
        PROVE  /\ OwnerOf(w)' = OwnerOf(w) /\ ws'[w].claim = ws[w].claim
               /\ ws'[w].issue = ws[w].issue
               /\ (ws'[w].state = "preparing") <=> (ws[w].state = "preparing")
               /\ (ws'[w].state = "none") <=> (ws[w].state = "none")
               /\ Onward(w)
    <2>1. ws[w] \in Workspace /\ RecordMoves(a, w)
      BY <1>0 DEF Moves
    <2> QED BY <2>1 DEF RecordMoves, Workspace, OwnerOf, Onward, Over, InUse
  <1>2. ASSUME NEW b \in Actors PROVE HandlerOK(b)'
    <2>1. CASE actor'[b] = actor[b] /\ call'[b].op = call[b].op
      <3>1. HandlerOK(b) /\ target[b] \in Workspaces \cup {NoTarget}
        BY <1>0
      <3>2. call'[b].op = "prompt" => ~actor'[b].paused
        BY <2>1, <3>1 DEF HandlerOK
      <3>3. call'[b].op = "checkout" => Active(b)' /\ ~HasPending(b)'
        BY <2>1, <3>1 DEF HandlerOK, Active, HasPending
      <3>4. call'[b].op = "archive" =>
               target'[b] # NoTarget /\ ws'[target'[b]].state \notin {"none", "preparing"}
        BY <1>1, <2>1, <3>1 DEF HandlerOK
      <3> QED BY <3>2, <3>3, <3>4 DEF HandlerOK
    <2>2. CASE b = a /\ call'[a].op \notin CheckoutOps
      BY <2>2 DEF HandlerOK, Moves, CheckoutOps
    <2> QED BY <2>1, <2>2 DEF Moves
  <1>3. ASSUME NEW b \in Actors PROVE CloseOK(b)'
    <2>1. CASE actor'[b].pending = actor[b].pending
      BY <1>0, <2>1 DEF CloseOK, RowsStay
    <2>2. CASE b = a /\ CloseStarts(a)
      <3>1. /\ actor'[a].pending.claim = actor[a].active.claim
            /\ actor'[a].pending.holder = actor[a].active.holder
        BY <2>2 DEF CloseStarts, HeldPending
      <3>2. /\ actor[a].active.claim \in Claims
            /\ claims[actor[a].active.claim].state # "free"
            /\ claims[actor[a].active.claim].holder = actor[a].active.holder
        BY <1>0, <2>2 DEF CloseStarts, TenureOK, Backed, Lasts
      <3> QED BY <2>2, <3>1, <3>2 DEF CloseOK, RowsStay
    <2> QED BY <2>1, <2>2 DEF Moves, CloseOK
  <1>4. ASSUME NEW w \in Workspaces PROVE WorkspaceOK(w)'
    <2>0. WorkspaceOK(w) /\ ws[w] \in Workspace
      BY <1>0
    <2>1. Usable(w)'
      <3>1. CASE ws[w].owner = a
        BY <3>1 DEF Moves
      <3>2. CASE ws[w].owner # a
        <4>1. ws'[w] = ws[w]
          BY <3>2 DEF Moves, RecordMoves
        <4>2. CASE ws[w] = NoWorkspace
          BY <4>1, <4>2 DEF Usable, NoWorkspace
        <4>3. CASE OwnerOf(w) \in Actors
          <5>1. actor'[OwnerOf(w)] = actor[OwnerOf(w)]
            BY <3>2, <4>3 DEF Moves, OwnerOf
          <5> QED BY <1>1, <2>0, <4>1, <5>1 DEF WorkspaceOK, Usable, Active
        <4> QED BY <2>0, <4>2, <4>3 DEF WorkspaceOK, RecordOK
      <3> QED BY <3>1, <3>2
    <2>2. ASSUME NEW b \in Actors PROVE NotClosing(b, w)'
      <3>1. CASE actor'[b].pending = actor[b].pending
        BY <1>1, <2>0, <3>1 DEF WorkspaceOK, NotClosing
      <3>2. CASE b = a /\ CloseStarts(a)
        <4> SUFFICES ASSUME ws'[w].claim = actor'[a].pending.claim, ws'[w].state = "preparing"
                     PROVE  FALSE
          BY <3>2 DEF NotClosing
        <4>1. ws[w].claim = actor[a].active.claim /\ ws[w].state = "preparing" /\ Active(a)
          BY <1>1, <3>2 DEF CloseStarts, HeldPending
        <4>2. claims[ws[w].claim].issue = ws[w].issue
          BY <2>0, <4>1 DEF WorkspaceOK, RecordOK, NoWorkspace
        <4>3. claims[actor[a].active.claim].issue = actor[a].active.issue
          BY <1>0, <4>1 DEF TenureOK, Backed
        <4> QED BY <3>2, <4>1, <4>2, <4>3 DEF CloseStarts, CheckoutBusy
      <3> QED BY <3>1, <3>2 DEF Moves, NotClosing
    <2>3. RecordOK(w)'
      <3>1. CASE ws[w] = NoWorkspace
        <4>0. ws[w].state = "none"
          BY <3>1 DEF NoWorkspace
        <4>1. ws'[w] = ws[w]
          BY <4>0 DEF Moves, RecordMoves
        <4> QED BY <3>1, <4>1 DEF RecordOK
      <3>2. CASE /\ ws[w].state # "none" /\ OwnerOf(w) \in Actors
                 /\ ws[w].claim \in Claims /\ claims[ws[w].claim].state # "free"
                 /\ claims[ws[w].claim].issue = ws[w].issue
        BY <1>1, <3>2 DEF RecordOK, RowsStay
      <3> QED BY <2>0, <3>1, <3>2 DEF WorkspaceOK, RecordOK
    <2>4. JobOK(w)'
      <3>1. CASE ~Holds(w)
        BY <3>1 DEF JobOK, Holds
      <3>2. CASE Holds(w)
        <4>1. OwnerOf(w) \in Actors /\ call[OwnerOf(w)].op \in CheckoutOps
          BY <1>0, <3>2 DEF Holds, CheckoutOps
        <4>2. /\ actor'[OwnerOf(w)] = actor[OwnerOf(w)]
              /\ call'[OwnerOf(w)].op = call[OwnerOf(w)].op
          BY <4>1 DEF Moves
        <4> QED BY <1>1, <2>0, <4>2 DEF WorkspaceOK, JobOK, Holds, Active
      <3> QED BY <3>1, <3>2
    <2>5. (ws'[w].state = "preparing") <=> (job'[w] # "none")
      BY <1>1, <2>0 DEF WorkspaceOK
    <2> QED BY <2>1, <2>2, <2>3, <2>4, <2>5 DEF WorkspaceOK
  <1>5. OneAtATime'
    BY <1>0, <1>1 DEF OneAtATime, Holds
  <1> QED BY <1>0, <1>1, <1>2, <1>3, <1>4, <1>5, InvByWorkspaceNext

\* markWorkspaces, as checkouts see it.
LEMMA MarkedMoves ==
    ASSUME CheckoutInv, NEW a \in Actors, NEW t, NEW to \in {"ready", "paused", "orphaned"},
           ws' = Marked(a, t, to)
    PROVE  /\ \A w \in Workspaces : RecordMoves(a, w)
           /\ to = "orphaned" =>
                 \A w \in Workspaces : ws[w].owner = a => ws'[w].state \notin {"ready", "paused"}
           /\ to # "orphaned" =>
                 \A w \in Workspaces :
                    (/\ ws[w].owner = a /\ ws'[w].state \in {"ready", "paused"}
                     /\ t.claim # NoClaim /\ ws[w].claim = t.claim) => ws'[w].state = to
  <1>0. ws \in [Workspaces -> Workspace]
    BY CheckoutFacts
  <1>1. ASSUME NEW w \in Workspaces
        PROVE  ws'[w] = IF /\ ws[w].owner = a
                           /\ ws[w].state \in {"ready", "paused"}
                           /\ to \in {"ready", "paused"} => t.claim # NoClaim /\ ws[w].claim = t.claim
                        THEN [ws[w] EXCEPT !.state = to] ELSE ws[w]
    BY DEF Marked
  <1>2. ASSUME NEW w \in Workspaces
        PROVE  /\ RecordMoves(a, w)
               /\ (to = "orphaned" /\ ws[w].owner = a) => ws'[w].state \notin {"ready", "paused"}
               /\ (/\ to # "orphaned" /\ ws[w].owner = a /\ ws'[w].state \in {"ready", "paused"}
                   /\ t.claim # NoClaim /\ ws[w].claim = t.claim) => ws'[w].state = to
    <2>1. ws[w] \in Workspace
      BY <1>0
    <2> QED BY <1>1, <2>1 DEF RecordMoves, Workspace
  <1> QED BY <1>2

\* An actor's workspaces stay usable when its tenure is dropped, when none of
\* them is left in use, and when they follow a tenure that is kept.
LEMMA UsableLater ==
    ASSUME CheckoutInv, NEW a \in Actors, \A w \in Workspaces : RecordMoves(a, w),
           \/ actor'[a].active.claim = NoClaim
           \/ \A w \in Workspaces : ws[w].owner = a => ws'[w].state \notin {"ready", "paused"}
           \/ /\ actor'[a].active.claim = actor[a].active.claim
              /\ \/ ws' = ws /\ (actor'[a].paused => actor[a].paused)
                 \/ \A w \in Workspaces :
                       (/\ ws[w].owner = a /\ ws'[w].state = "ready"
                        /\ actor[a].active.claim # NoClaim
                        /\ ws[w].claim = actor[a].active.claim) => ~actor'[a].paused
    PROVE  \A w \in Workspaces : ws[w].owner = a => Usable(w)'
  <1> SUFFICES ASSUME NEW w \in Workspaces, ws[w].owner = a, ws'[w].state \in {"ready", "paused"},
                      ws'[w].owner = a => actor'[a].active.claim # NoClaim
               PROVE  /\ ws'[w].owner = a
                      /\ ws'[w].claim = actor'[a].active.claim
                      /\ ws'[w].state = "ready" => ~actor'[a].paused
    BY DEF Usable, Active, OwnerOf
  <1>1. ws[w] \in Workspace /\ RecordMoves(a, w) /\ Usable(w)
    BY CheckoutFacts DEF WorkspaceOK
  <1>2. ws'[w].owner = a /\ ws'[w].claim = ws[w].claim /\ ws[w].state \in {"ready", "paused"}
    BY <1>1 DEF RecordMoves, Workspace
  <1>3. actor'[a].active.claim = actor[a].active.claim /\ actor[a].active.claim # NoClaim
    BY <1>2
  <1>4. ws[w].claim = actor[a].active.claim /\ (ws[w].state = "ready" => ~actor[a].paused)
    BY <1>1, <1>2, <1>3 DEF Usable, Active, OwnerOf
  <1> QED BY <1>2, <1>3, <1>4

\* A step that leaves the records alone.
LEMMA QuietMoves ==
    ASSUME CheckoutInv, NEW a \in Actors, ws' = ws,
           \A b \in Actors \ {a} : actor'[b] = actor[b] /\ call'[b] = call[b],
           actor'[a].active.claim \in {actor[a].active.claim, NoClaim},
           actor'[a].paused => actor[a].paused,
           \/ actor'[a] = actor[a] /\ call'[a].op = call[a].op
           \/ call[a].op \notin CheckoutOps /\ call'[a].op \notin CheckoutOps,
           call'[a].op = "prompt" => ~actor'[a].paused,
           actor'[a].pending.op = "close" =>
              actor'[a].pending = actor[a].pending \/ CloseStarts(a)
    PROVE  Moves(a)
  <1>1. \A w \in Workspaces : RecordMoves(a, w)
    BY DEF RecordMoves
  <1>2. \A w \in Workspaces : ws[w].owner = a => Usable(w)'
    BY <1>1, UsableLater
  <1> QED BY <1>1, <1>2 DEF Moves

\* A step under the mutex that moves records.
LEMMA WritingMoves ==
    ASSUME CheckoutInv, NEW a \in Actors,
           \A b \in Actors \ {a} : actor'[b] = actor[b] /\ call'[b] = call[b],
           \A w \in Workspaces : RecordMoves(a, w),
           \A w \in Workspaces : ws[w].owner = a => Usable(w)',
           call[a].op \notin CheckoutOps, call'[a].op \in {"none", "final"},
           actor'[a].pending \in {actor[a].pending, NoPending}
    PROVE  Moves(a)
  BY DEF Moves, CheckoutOps, NoPending

\* Requests of clients.
LEMMA ClientMoves ==
    ASSUME CheckoutInv, NEW a \in Actors, ClientStep(a)
    PROVE  Moves(a)
  <1> DEFINE t == actor[a].active
             p == actor[a].pending
  <1>0. /\ RuntimeInv /\ RuntimeTypeOK /\ actor \in [Actors -> Actor] /\ actor[a] \in Actor
        /\ t \in Tenure /\ p \in Pending /\ minted \in Nat /\ HandlerOK(a)
    BY CheckoutFacts DEF RuntimeTypeOK, Actor
  <1>1. CASE SessionEnd(a)
    <2>1. actor' = actor /\ call' = call /\ ws' = ws
      BY <1>1 DEF SessionEnd
    <2> QED BY <1>0, <2>1, QuietMoves DEF HandlerOK
  <1>none. "none" \notin CheckoutOps /\ NoCall.op = "none"
    BY DEF CheckoutOps, NoCall
  <1>2. ASSUME NEW r, SetActor(a, r), ws' = ws, r.active.claim \in {t.claim, NoClaim},
               r.paused => actor[a].paused, call[a] = NoCall,
               call'[a].op \notin CheckoutOps, call'[a].op = "prompt" => ~r.paused,
               \A b \in Actors \ {a} : call'[b] = call[b],
               r.pending.op = "close" =>
                  \/ r.pending = p
                  \/ /\ Active(a) /\ ~CheckoutBusy(a)
                     /\ \E key \in Nat : r.pending = HeldPending(a, "close", key)
        PROVE  Moves(a)
    <2>1. actor'[a] = r /\ \A b \in Actors \ {a} : actor'[b] = actor[b]
      BY <1>0, <1>2, UpdateValues
    <2>2. actor'[a].pending.op = "close" => actor'[a].pending = p \/ CloseStarts(a)
      BY <1>2, <2>1 DEF CloseStarts
    <2> QED BY <1>2, <1>none, <2>1, <2>2, QuietMoves
  <1>3. ASSUME NEW op, NEW u, Begin(a, op, u)
        PROVE  call'[a].op = op /\ \A b \in Actors \ {a} : call'[b] = call[b]
    BY <1>0, <1>3, UpdateValues
  <1>4. ASSUME NEW i \in Issues, StartClaim(a, i) PROVE Moves(a)
    <2> DEFINE q == [op |-> "claim", issue |-> i, holder |-> minted + 1, claim |-> NoClaim, key |-> 0]
               r == [actor[a] EXCEPT !.active = NoTenure, !.pending = q]
    <2>1. /\ SetActor(a, r) /\ Begin(a, "claim", NoTenure) /\ ws' = ws /\ call[a] = NoCall
      BY <1>4 DEF StartClaim, Serves
    <2>2. r.active = NoTenure /\ r.pending = q /\ r.paused = actor[a].paused /\ q.op = "claim"
      BY <1>0 DEF Actor
    <2>3. call'[a].op = "claim" /\ \A b \in Actors \ {a} : call'[b] = call[b]
      BY <1>3, <2>1
    <2> HIDE DEF r, q
    <2> QED BY <1>2, <2>1, <2>2, <2>3 DEF NoTenure, CheckoutOps
  <1>5. ASSUME NEW op \in {"renew", "release", "close"}, NEW key \in Nat,
               SetActor(a, [actor[a] EXCEPT !.pending = HeldPending(a, op, key)]),
               Begin(a, op, t), ws' = ws, call[a] = NoCall, Active(a),
               op = "close" => ~CheckoutBusy(a)
        PROVE  Moves(a)
    <2> DEFINE r == [actor[a] EXCEPT !.pending = HeldPending(a, op, key)]
    <2>1. r.active = t /\ r.pending = HeldPending(a, op, key) /\ r.paused = actor[a].paused
      BY <1>0 DEF Actor
    <2>2. SetActor(a, r)
      BY <1>5
    <2>3. call'[a].op = op /\ \A b \in Actors \ {a} : call'[b] = call[b]
      BY <1>3, <1>5
    <2>4. r.pending.op = op
      BY <2>1 DEF HeldPending
    <2> HIDE DEF r
    <2> QED BY <1>2, <1>5, <2>1, <2>2, <2>3, <2>4 DEF CheckoutOps
  <1>6. ASSUME NEW op \in {"renew", "release"}, StartHeld(a, op) PROVE Moves(a)
    BY <1>5, <1>6 DEF StartHeld, Serves, Believes
  <1>7. CASE StartClose(a)
    <2>1. minted + 1 \in Nat
      BY <1>0
    <2>2. /\ SetActor(a, [actor[a] EXCEPT !.pending = HeldPending(a, "close", minted + 1)])
          /\ Begin(a, "close", t) /\ ws' = ws /\ call[a] = NoCall /\ Active(a)
          /\ ~CheckoutBusy(a)
      BY <1>7 DEF StartClose, Serves, Believes
    <2> QED BY <1>5, <2>1, <2>2
  <1>8. CASE Resend(a)
    <2>1. /\ SetActor(a, actor[a]) /\ Begin(a, p.op, t) /\ ws' = ws /\ call[a] = NoCall
      BY <1>0, <1>8 DEF Resend, Serves, SetActor
    <2>2. call'[a].op = p.op /\ \A b \in Actors \ {a} : call'[b] = call[b]
      BY <1>3, <2>1
    <2>3. p.op \notin CheckoutOps /\ p.op # "prompt"
      BY <1>0 DEF Pending, PendingOps, CheckoutOps
    <2> QED BY <1>2, <2>1, <2>2, <2>3
  <1>9. CASE Touch(a)
    <2> DEFINE r == [actor[a] EXCEPT !.active = NoTenure]
    <2>1. r.active = NoTenure /\ r.pending = p /\ r.paused = actor[a].paused
      BY <1>0 DEF Actor
    <2>2. SetActor(a, r) /\ ws' = ws /\ call[a] = NoCall /\ call' = call
      BY <1>9 DEF Touch, Serves
    <2> HIDE DEF r
    <2> QED BY <1>2, <1>none, <2>1, <2>2 DEF NoTenure
  <1>10. ASSUME NEW op \in {"look", "prompt"}, StartRefresh(a, op) PROVE Moves(a)
    <2> DEFINE r == IF op = "prompt" THEN [actor[a] EXCEPT !.paused = FALSE] ELSE actor[a]
    <2>1. /\ r.active = t /\ r.pending = p
          /\ r.paused => actor[a].paused
          /\ op = "prompt" => ~r.paused
      BY <1>0 DEF Actor
    <2>2. SetActor(a, r) /\ Begin(a, op, t) /\ ws' = ws /\ call[a] = NoCall
      BY <1>10 DEF StartRefresh, Serves
    <2>3. call'[a].op = op /\ \A b \in Actors \ {a} : call'[b] = call[b]
      BY <1>3, <2>2
    <2> HIDE DEF r
    <2>4. call'[a].op \notin CheckoutOps
      BY <2>3 DEF CheckoutOps
    <2>5. r.active.claim \in {t.claim, NoClaim} /\ (call'[a].op = "prompt" => ~r.paused)
      BY <2>1, <2>3
    <2> QED BY <1>2, <2>1, <2>2, <2>3, <2>4, <2>5
  \* The status of the reply drops a lapsed tenure, and nothing else.
  <1>11. ASSUME NEW b \in BOOLEAN,
                SetActor(a, [actor[a] EXCEPT !.paused = b, !.active = Unlapsed(t)])
         PROVE  /\ actor'[a].paused = b /\ actor'[a].pending = p
                /\ actor'[a].active.claim \in {t.claim, NoClaim}
                /\ \A c \in Actors \ {a} : actor'[c] = actor[c]
    <2> DEFINE r == [actor[a] EXCEPT !.paused = b, !.active = Unlapsed(t)]
    <2>1. r.active = Unlapsed(t) /\ r.pending = p /\ r.paused = b
      BY <1>0 DEF Actor
    <2>2. SetActor(a, r)
      BY <1>11
    <2> HIDE DEF r
    <2>3. actor'[a] = r /\ \A c \in Actors \ {a} : actor'[c] = actor[c]
      BY <1>0, <2>2, UpdateValues
    <2> QED BY <2>1, <2>3 DEF Unlapsed, NoTenure
  <1>12. CASE Pause(a)
    <2>1. /\ SetActor(a, [actor[a] EXCEPT !.paused = TRUE, !.active = Unlapsed(t)])
          /\ ws' = Marked(a, t, "paused") /\ call[a] = NoCall /\ call' = call
      BY <1>0, <1>12 DEF Pause, Serves, Actor
    <2>2. /\ \A w \in Workspaces : RecordMoves(a, w)
          /\ \A w \in Workspaces :
                (/\ ws[w].owner = a /\ ws'[w].state \in {"ready", "paused"}
                 /\ t.claim # NoClaim /\ ws[w].claim = t.claim) => ws'[w].state = "paused"
      BY <2>1, MarkedMoves
    <2>3. \A w \in Workspaces : ws[w].owner = a => Usable(w)'
      BY <1>11, <2>1, <2>2, UsableLater
    <2> QED BY <1>11, <1>none, <2>1, <2>2, <2>3, WritingMoves
  <1>13. CASE PromptLocally(a)
    <2>1. /\ SetActor(a, [actor[a] EXCEPT !.paused = FALSE, !.active = Unlapsed(t)])
          /\ ws' = Prompted(a, actor[a]) /\ call[a] = NoCall /\ call' = call
      BY <1>0, <1>13 DEF PromptLocally, Serves, Actor
    <2>2. PICK to \in {"ready", "orphaned"} : ws' = Marked(a, t, to)
      BY <2>1 DEF Prompted
    <2>3. \A w \in Workspaces : RecordMoves(a, w)
      BY <2>2, MarkedMoves
    <2>4. ~actor'[a].paused /\ actor'[a].active.claim \in {t.claim, NoClaim}
      BY <1>11, <2>1
    <2>5. \A w \in Workspaces : ws[w].owner = a => Usable(w)'
      BY <2>3, <2>4, UsableLater
    <2> QED BY <1>11, <1>none, <2>1, <2>3, <2>5, WritingMoves
  <1> QED BY <1>1, <1>4, <1>6, <1>7, <1>8, <1>9, <1>10, <1>12, <1>13 DEF ClientStep

\* The steps of a dispatch move its call from stage to stage.
LEMMA KataMoves ==
    ASSUME CheckoutInv, NEW a \in Actors, KataStep(a)
    PROVE  Moves(a)
  <1>0. /\ RuntimeTypeOK /\ call \in [Actors -> Call] /\ call[a] \in Call /\ HandlerOK(a)
    BY CheckoutFacts
  <1>1. actor' = actor /\ ws' = ws
    BY DEF KataStep, DispatchFails, ShowIssue, AcquireLease, AcquireIsDenied, ConfirmIssue,
           CleanupClaim, RenewLease, ReleaseLease, CloseIssue, LookAtIssue, FinalRelease
  <1>2. ASSUME call'[a].op = call[a].op, \A b \in Actors \ {a} : call'[b] = call[b]
        PROVE  Moves(a)
    BY <1>0, <1>1, <1>2, QuietMoves DEF HandlerOK
  <1>3. ASSUME NEW out, Reply(a, out) PROVE Moves(a)
    BY <1>0, <1>2, <1>3, UpdateValues
  <1>4. ASSUME NEW r, call' = [call EXCEPT ![a] = r], r.op = call[a].op PROVE Moves(a)
    BY <1>0, <1>2, <1>4
  <1>5. CASE DispatchFails(a)
    BY <1>3, <1>5 DEF DispatchFails
  <1>6. CASE ShowIssue(a)
    <2>1. CASE call' = [call EXCEPT ![a].stage = "acquire"]
      <3>1. call'[a].op = call[a].op /\ \A b \in Actors \ {a} : call'[b] = call[b]
        BY <1>0, <2>1 DEF Call
      <3> QED BY <1>2, <3>1
    <2> QED BY <1>3, <1>6, <2>1 DEF ShowIssue
  <1>7. CASE AcquireLease(a)
    <2>1. PICK c \in Claims : call' = [call EXCEPT ![a].stage = "confirm", ![a].claim = c,
                                                   ![a].span = claims'[c].left]
      BY <1>7 DEF AcquireLease
    <2>2. call'[a].op = call[a].op /\ \A b \in Actors \ {a} : call'[b] = call[b]
      BY <1>0, <2>1 DEF Call
    <2> QED BY <1>2, <2>2
  <1>8. CASE AcquireIsDenied(a)
    BY <1>3, <1>8 DEF AcquireIsDenied
  <1>9. CASE ConfirmIssue(a)
    <2>1. CASE Granted(a)
      <3>1. call'[a].op = call[a].op /\ \A b \in Actors \ {a} : call'[b] = call[b]
        BY <1>0, <2>1 DEF Granted, Call
      <3> QED BY <1>2, <3>1
    <2>2. CASE call' = [call EXCEPT ![a] = [NoCall EXCEPT !.op = "claim", !.stage = "cleanup"]]
      <3>1. [NoCall EXCEPT !.op = "claim", !.stage = "cleanup"].op = "claim" /\ call[a].op = "claim"
        BY <1>9 DEF NoCall, ConfirmIssue, AtStage
      <3> QED BY <1>4, <2>2, <3>1
    <2> QED BY <1>9, <2>1, <2>2 DEF ConfirmIssue
  <1>10. CASE CleanupClaim(a)
    BY <1>3, <1>10 DEF CleanupClaim
  <1>11. CASE RenewLease(a)
    <2>1. ASSUME NEW c \in Claims,
                 call' = [call EXCEPT ![a].stage = "reply", ![a].out = "ok",
                                      ![a].claim = c, ![a].span = TTL]
          PROVE  Moves(a)
      <3>1. call'[a].op = call[a].op /\ \A b \in Actors \ {a} : call'[b] = call[b]
        BY <1>0, <2>1 DEF Call
      <3> QED BY <1>2, <3>1
    <2> QED BY <1>3, <1>11, <2>1 DEF RenewLease
  <1>12. CASE ReleaseLease(a)
    BY <1>3, <1>12 DEF ReleaseLease
  <1>13. CASE CloseIssue(a)
    BY <1>3, <1>13 DEF CloseIssue
  <1>14. CASE LookAtIssue(a)
    <2> DEFINE t == actor[a].active
    <2>1. ASSUME call' = [call EXCEPT ![a].stage = "reply", ![a].out = "ok",
                                      ![a].claim = t.claim, ![a].span = claims[t.claim].left]
          PROVE  Moves(a)
      <3>1. call'[a].op = call[a].op /\ \A b \in Actors \ {a} : call'[b] = call[b]
        BY <1>0, <2>1 DEF Call
      <3> QED BY <1>2, <3>1
    <2> QED BY <1>3, <1>14, <2>1 DEF LookAtIssue
  <1>15. CASE FinalRelease(a)
    BY <1>3, <1>15 DEF FinalRelease
  <1> QED BY <1>5, <1>6, <1>7, <1>8, <1>9, <1>10, <1>11, <1>12, <1>13, <1>14, <1>15 DEF KataStep

\* The end of a handler of the runtime.
LEMMA FinishMoves ==
    ASSUME CheckoutInv, NEW a \in Actors, FinishStep(a)
    PROVE  Moves(a)
  <1> DEFINE t == actor[a].active
             p == actor[a].pending
  <1>0. /\ RuntimeInv /\ RuntimeTypeOK /\ actor \in [Actors -> Actor] /\ actor[a] \in Actor
        /\ t \in Tenure /\ p \in Pending /\ HandlerOK(a) /\ CallOK(a)
        /\ ws \in [Workspaces -> Workspace]
        /\ \A w \in Workspaces : WorkspaceOK(w)
    BY CheckoutFacts DEF Actor, RuntimeInv
  <1>1. /\ call[a].op \notin CheckoutOps /\ Unlock(a)
    BY DEF FinishStep, FinishUnknown, FinishRejected, FinishClaim, FinishRenew, FinishRelease,
           FinishClose, FinishRefresh, FinishFinal, AtStage, CheckoutOps, PendingOps
  <1>2. call'[a].op = "none" /\ \A b \in Actors \ {a} : call'[b] = call[b]
    BY <1>1, UnlockFacts
  \* The tenure kept or dropped, the records alone.
  <1>3. ASSUME NEW r, SetActor(a, r), ws' = ws, r.active.claim \in {t.claim, NoClaim},
               r.paused = actor[a].paused, r.pending \in {p, NoPending}
        PROVE  Moves(a)
    <2>1. actor'[a] = r /\ \A b \in Actors \ {a} : actor'[b] = actor[b]
      BY <1>0, <1>3, UpdateValues
    <2>2. \A w \in Workspaces : RecordMoves(a, w)
      BY <1>3 DEF RecordMoves
    <2>3. \A w \in Workspaces : ws[w].owner = a => Usable(w)'
      BY <1>3, <2>1, <2>2, UsableLater
    <2> QED BY <1>1, <1>2, <1>3, <2>1, <2>2, <2>3, WritingMoves
  \* The records orphaned.
  <1>4. ASSUME NEW r, SetActor(a, r), ws' = Marked(a, t, "orphaned"), r.pending \in {p, NoPending}
        PROVE  Moves(a)
    <2>1. actor'[a] = r /\ \A b \in Actors \ {a} : actor'[b] = actor[b]
      BY <1>0, <1>4, UpdateValues
    <2>2. /\ \A w \in Workspaces : RecordMoves(a, w)
          /\ \A w \in Workspaces : ws[w].owner = a => ws'[w].state \notin {"ready", "paused"}
      BY <1>4, MarkedMoves
    <2>3. \A w \in Workspaces : ws[w].owner = a => Usable(w)'
      BY <2>2, UsableLater
    <2> QED BY <1>1, <1>2, <1>4, <2>1, <2>2, <2>3, WritingMoves
  <1>5. CASE FinishUnknown(a)
    <2>1. SetActor(a, actor[a]) /\ ws' = ws
      BY <1>0, <1>5 DEF FinishUnknown, SetActor
    <2> QED BY <1>3, <2>1
  <1>6. CASE FinishRejected(a)
    <2> DEFINE u == IF call[a].op \in {"renew", "release"} THEN NoTenure ELSE t
               r == [actor[a] EXCEPT !.pending = NoPending, !.active = u]
    <2>1. SetActor(a, r) /\ ws' = ws
      BY <1>0, <1>6 DEF FinishRejected, Actor
    <2>2. r.active = u /\ r.paused = actor[a].paused /\ r.pending = NoPending
      BY <1>0 DEF Actor
    <2>3. u.claim \in {t.claim, NoClaim}
      BY DEF NoTenure
    <2> HIDE DEF r, u
    <2> QED BY <1>3, <2>1, <2>2, <2>3
  <1>7. ASSUME LoseLease(a) PROVE Moves(a)
    <2> DEFINE r == [actor[a] EXCEPT !.pending = NoPending, !.active = NoTenure]
    <2>1. SetActor(a, r) /\ ws' = ws
      BY <1>7 DEF LoseLease
    <2>2. r.active.claim = NoClaim /\ r.paused = actor[a].paused /\ r.pending = NoPending
      BY <1>0 DEF Actor, NoTenure
    <2> HIDE DEF r
    <2> QED BY <1>3, <2>1, <2>2
  <1>8. CASE FinishClaim(a)
    <2> DEFINE r == [actor[a] EXCEPT
                       !.active = [issue |-> p.issue, holder |-> p.holder,
                                   claim |-> call[a].claim, left |-> GrantedLeft(call[a])],
                       !.pending = NoPending, !.unknown = FALSE, !.paused = FALSE,
                       !.renewIn = RenewEvery]
    <2>1. CASE SetActor(a, r) /\ ws' = Marked(a, t, "orphaned")
      <3>1. r.pending = NoPending
        BY <1>0 DEF Actor
      <3> HIDE DEF r
      <3> QED BY <1>4, <2>1, <3>1
    <2> QED BY <1>7, <1>8, <2>1 DEF FinishClaim
  <1>9. CASE FinishRenew(a)
    <2> DEFINE left == GrantedLeft(call[a])
               u == [t EXCEPT !.left = left]
               r == [actor[a] EXCEPT !.active = u, !.pending = NoPending, !.unknown = FALSE,
                                     !.renewIn = RenewEvery]
    <2>1. CASE SetActor(a, r) /\ ws' = ws
      <3>1. r.pending = NoPending /\ r.paused = actor[a].paused /\ r.active = u
        BY <1>0 DEF Actor
      <3>2. u.claim = t.claim
        BY <1>0 DEF Tenure
      <3> HIDE DEF r, u
      <3> QED BY <1>3, <2>1, <3>1, <3>2
    <2>2. LoseLease(a) \/ (SetActor(a, r) /\ ws' = ws)
      BY <1>0, <1>9 DEF FinishRenew, Actor, Tenure
    <2> QED BY <1>7, <2>1, <2>2
  <1>10. CASE FinishRelease(a)
    <2> DEFINE r == [actor[a] EXCEPT !.pending = NoPending, !.active = NoTenure, !.unknown = FALSE]
    <2>1. SetActor(a, r) /\ ws' = Marked(a, t, "orphaned")
      BY <1>10 DEF FinishRelease
    <2>2. r.pending = NoPending
      BY <1>0 DEF Actor
    <2> HIDE DEF r
    <2> QED BY <1>4, <2>1, <2>2
  \* Nothing that the close archives is preparing.
  <1>11. CASE FinishClose(a)
    <2> DEFINE r == [actor[a] EXCEPT !.pending = NoPending, !.active = NoTenure, !.unknown = FALSE]
    <2>1. SetActor(a, r) /\ p.op = "close"
      BY <1>0, <1>11 DEF FinishClose, AtStage, CallOK, PendingOps
    <2>2. PICK F \in SUBSET Workspaces : ws' = Archived(a, p.claim, F)
      BY <1>11 DEF FinishClose
    <2>3. r.pending = NoPending /\ r.active.claim = NoClaim
      BY <1>0 DEF Actor, NoTenure
    <2> HIDE DEF r
    <2>4. actor'[a] = r /\ \A b \in Actors \ {a} : actor'[b] = actor[b]
      BY <1>0, <2>1, UpdateValues
    <2>5. ASSUME NEW w \in Workspaces PROVE RecordMoves(a, w)
      <3>1. CASE ws[w].owner = a /\ ws[w].claim = p.claim /\ p.claim # NoClaim
        <4>1. ws[w].state # "preparing"
          BY <1>0, <2>1, <3>1 DEF WorkspaceOK, NotClosing
        <4>2. ws[w].state # "none"
          BY <1>0, <3>1 DEF WorkspaceOK, RecordOK, NoWorkspace
        <4>3. \E s \in {"archived", "archive_pending"} : ws'[w] = [ws[w] EXCEPT !.state = s]
          BY <2>2, <3>1 DEF Archived
        <4> QED BY <3>1, <4>1, <4>2, <4>3 DEF RecordMoves
      <3>2. CASE ~(ws[w].owner = a /\ ws[w].claim = p.claim /\ p.claim # NoClaim)
        BY <2>2, <3>2 DEF Archived, RecordMoves
      <3> QED BY <3>1, <3>2
    <2>6. \A w \in Workspaces : ws[w].owner = a => Usable(w)'
      BY <2>3, <2>4, <2>5, UsableLater
    <2> QED BY <1>1, <1>2, <2>3, <2>4, <2>5, <2>6, WritingMoves
  <1>12. CASE FinishRefresh(a)
    <2>1. PICK q : /\ q = Refreshed(a, call[a])
                   /\ ws' = IF call[a].op = "prompt" THEN Prompted(a, q) ELSE ws
                   /\ SetActor(a, [q EXCEPT !.active = Unlapsed(q.active)])
                   /\ call[a].op \in {"look", "prompt"}
      <3>1. Refreshed(a, call[a]) \in Actor
        BY <1>0, RefreshedFacts
      <3> QED BY <1>12, <3>1 DEF FinishRefresh, Actor
    <2>2. /\ q \in Actor /\ q.pending = p /\ q.paused = actor[a].paused
          /\ q.active = NoTenure \/ q.active.claim = t.claim
      BY <1>0, <2>1, RefreshedFacts
    <2> DEFINE r == [q EXCEPT !.active = Unlapsed(q.active)]
    <2>3. /\ r.pending = p /\ r.paused = actor[a].paused
          /\ r.active \in {q.active, NoTenure}
      BY <2>2 DEF Actor, Unlapsed
    <2>4. r.active.claim \in {t.claim, NoClaim}
      BY <2>2, <2>3 DEF NoTenure
    <2>5. SetActor(a, r)
      BY <2>1
    <2> HIDE DEF r
    <2>6. CASE call[a].op = "look"
      BY <1>3, <2>1, <2>3, <2>4, <2>5, <2>6
    <2>7. CASE call[a].op = "prompt"
      <3>1. PICK to \in {"ready", "orphaned"} : ws' = Marked(a, q.active, to)
        BY <2>1, <2>7 DEF Prompted
      <3>2. \A w \in Workspaces : RecordMoves(a, w)
        BY <3>1, MarkedMoves
      <3>3. actor'[a] = r /\ \A b \in Actors \ {a} : actor'[b] = actor[b]
        BY <1>0, <2>5, UpdateValues
      <3>4. ~actor'[a].paused
        BY <1>0, <2>3, <2>7, <3>3 DEF HandlerOK
      <3>5. \A w \in Workspaces : ws[w].owner = a => Usable(w)'
        BY <2>4, <3>2, <3>3, <3>4, UsableLater
      <3> QED BY <1>1, <1>2, <2>3, <3>2, <3>3, <3>5, WritingMoves
    <2> QED BY <2>1, <2>6, <2>7
  <1>13. CASE FinishFinal(a)
    <2> DEFINE r == [actor[a] EXCEPT !.active = NoTenure, !.pending = NoPending]
    <2>1. SetActor(a, r) /\ ws' = ws
      BY <1>13 DEF FinishFinal
    <2>2. r.active.claim = NoClaim /\ r.paused = actor[a].paused /\ r.pending = NoPending
      BY <1>0 DEF Actor, NoTenure
    <2> HIDE DEF r
    <2> QED BY <1>3, <2>1, <2>2
  <1> QED BY <1>5, <1>6, <1>8, <1>9, <1>10, <1>11, <1>12, <1>13 DEF FinishStep

\* A tick orphans an actor's records or renews its tenure.
LEMMA TickMoves ==
    ASSUME CheckoutInv, NEW a \in Actors, TickStep(a)
    PROVE  Moves(a)
  <1> DEFINE t == actor[a].active
             p == actor[a].pending
  <1>0. /\ RuntimeTypeOK /\ actor \in [Actors -> Actor] /\ actor[a] \in Actor
        /\ t \in Tenure /\ p \in Pending
    BY CheckoutFacts DEF Actor
  <1>1. call[a] = NoCall /\ call[a].op = "none" /\ call[a].op \notin CheckoutOps
    BY DEF TickStep, RetireActor, RetireIdle, TickLapsed, TickRenew, Ticks, NoCall, CheckoutOps
  <1>2. ASSUME NEW r, SetActor(a, r), ws' = Marked(a, t, "orphaned"), r.pending \in {p, NoPending},
               call' = call \/ Begin(a, "final", t)
        PROVE  Moves(a)
    <2>1. actor'[a] = r /\ \A b \in Actors \ {a} : actor'[b] = actor[b]
      BY <1>0, <1>2, UpdateValues
    <2>2. /\ call'[a].op \in {"none", "final"}
          /\ \A b \in Actors \ {a} : call'[b] = call[b]
      <3>1. CASE call' = call
        BY <1>1, <3>1
      <3>2. CASE Begin(a, "final", t)
        <4>1. call'[a].op = "final" /\ \A b \in Actors \ {a} : call'[b] = call[b]
          BY <1>0, <3>2, UpdateValues
        <4> QED BY <4>1
      <3> QED BY <1>2, <3>1, <3>2
    <2>3. /\ \A w \in Workspaces : RecordMoves(a, w)
          /\ \A w \in Workspaces : ws[w].owner = a => ws'[w].state \notin {"ready", "paused"}
      BY <1>2, MarkedMoves
    <2>4. \A w \in Workspaces : ws[w].owner = a => Usable(w)'
      BY <2>3, UsableLater
    <2>5. call'[a].op \notin CheckoutOps
      BY <2>2 DEF CheckoutOps
    <2>6. actor'[a].pending \in {p, NoPending}
      BY <1>2, <2>1
    <2> QED BY <1>1, <2>1, <2>2, <2>3, <2>4, <2>5, <2>6, WritingMoves
  <1>3. CASE RetireActor(a) \/ RetireIdle(a)
    <2> DEFINE r1 == [actor[a] EXCEPT !.retired = TRUE]
               r2 == [actor[a] EXCEPT !.retired = TRUE, !.active = NoTenure, !.pending = NoPending]
    <2>1. r1.pending = p /\ r2.pending = NoPending
      BY <1>0 DEF Actor
    <2>2. /\ ws' = Marked(a, t, "orphaned")
          /\ \/ SetActor(a, r1) /\ Begin(a, "final", t)
             \/ SetActor(a, r2) /\ call' = call
      BY <1>3 DEF RetireActor, RetireIdle
    <2> HIDE DEF r1, r2
    <2> QED BY <1>2, <2>1, <2>2
  <1>4. CASE TickLapsed(a)
    <2> DEFINE r == [actor[a] EXCEPT !.active = NoTenure]
    <2>1. r.pending = p
      BY <1>0 DEF Actor
    <2>2. /\ ws' = Marked(a, t, "orphaned") /\ call' = call
          /\ SetActor(a, actor[a]) \/ SetActor(a, r)
      BY <1>0, <1>4 DEF TickLapsed, SetActor
    <2> HIDE DEF r
    <2> QED BY <1>2, <2>1, <2>2
  <1>5. CASE TickRenew(a)
    <2> DEFINE later == [actor[a] EXCEPT !.renewIn = RenewRetry]
               begun == [later EXCEPT !.pending = HeldPending(a, "renew", 0)]
    <2>1. /\ later.active = t /\ later.pending = p /\ later.paused = actor[a].paused
          /\ begun.active = t /\ begun.paused = actor[a].paused
          /\ begun.pending = HeldPending(a, "renew", 0)
      BY <1>0 DEF Actor
    <2>2. begun.pending.op = "renew"
      BY <2>1 DEF HeldPending
    <2>3. /\ ws' = ws
          /\ SetActor(a, later) \/ SetActor(a, begun)
          /\ call' = call \/ Begin(a, "renew", t)
      BY <1>5 DEF TickRenew
    <2> HIDE DEF begun, later
    <2>4. /\ call'[a].op \in {"none", "renew"}
          /\ \A b \in Actors \ {a} : call'[b] = call[b]
      <3>1. CASE call' = call
        BY <1>1, <3>1
      <3>2. CASE Begin(a, "renew", t)
        <4>1. call'[a].op = "renew" /\ \A b \in Actors \ {a} : call'[b] = call[b]
          BY <1>0, <3>2, UpdateValues
        <4> QED BY <4>1
      <3> QED BY <2>3, <3>1, <3>2
    <2>5. ASSUME NEW r \in {later, begun}, SetActor(a, r) PROVE Moves(a)
      <3>1. actor'[a] = r /\ \A b \in Actors \ {a} : actor'[b] = actor[b]
        BY <1>0, <2>5, UpdateValues
      <3>2. /\ actor'[a].active = t /\ actor'[a].paused = actor[a].paused
            /\ actor'[a].pending.op = "close" => actor'[a].pending = p
        BY <2>1, <2>2, <2>5, <3>1
      <3>3. call'[a].op \notin CheckoutOps /\ call'[a].op # "prompt"
        BY <2>4 DEF CheckoutOps
      <3> QED BY <1>1, <2>3, <2>4, <3>1, <3>2, <3>3, QuietMoves
    <2> QED BY <2>3, <2>5
  <1> QED BY <1>3, <1>4, <1>5 DEF TickStep

\* A step of one actor of the runtime keeps the checkouts in order.
LEMMA ActorStepKeeps ==
    ASSUME CheckoutInv, NEW a \in Actors, ActorStep(a), UNCHANGED <<job, target>>
    PROVE  CheckoutInv' /\ \A w \in Workspaces : Onward(w)
  <1>0. RuntimeInv /\ TypeOK
    BY CheckoutFacts DEF RuntimeInv
  <1>1. Moves(a)
    BY ClientMoves, KataMoves, FinishMoves, TickMoves DEF ActorStep
  <1>2. RuntimeInv'
    BY <1>0, ClientStepInv, KataStepInv, FinishStepInv, TickStepInv DEF ActorStep
  <1>3. Transaction
    BY <1>0, ClientStepType, KataStepType, FinishStepType, TickStepType DEF ActorStep, Transaction
  <1>4. RowsStay
    BY <1>0, <1>3, TransactionStays
  <1> QED BY <1>1, <1>2, <1>4, MovesInv

-----------------------------------------------------------------------------
(* What happens behind the actors' backs.                                    *)

\* A step that touches no record and leaves every actor its tenure, its pending
\* operation and its handler.
LEMMA StandsStill ==
    ASSUME CheckoutInv, RuntimeInv', RowsStay, UNCHANGED <<ws, job, target>>,
           \A b \in Actors : /\ actor'[b].pending = actor[b].pending
                             /\ actor'[b].paused = actor[b].paused
                             /\ actor'[b].active.claim = actor[b].active.claim
                             /\ call'[b].op = call[b].op
    PROVE  CheckoutInv' /\ \A w \in Workspaces : Onward(w)
  <1>0. /\ job \in [Workspaces -> Phases] /\ target \in [Actors -> Workspaces \cup {NoTarget}]
        /\ \A b \in Actors : HandlerOK(b) /\ CloseOK(b)
        /\ \A w \in Workspaces : WorkspaceOK(w)
        /\ OneAtATime
    BY CheckoutFacts
  <1>1. ASSUME NEW b \in Actors PROVE HandlerOK(b)' /\ CloseOK(b)'
    <2>1. HandlerOK(b)'
      BY <1>0 DEF HandlerOK, Active, HasPending
    <2>2. CloseOK(b)'
      BY <1>0 DEF CloseOK, RowsStay
    <2> QED BY <2>1, <2>2
  <1>2. ASSUME NEW w \in Workspaces PROVE WorkspaceOK(w)' /\ Onward(w)
    <2>0. WorkspaceOK(w)
      BY <1>0
    <2>1. CASE ws[w] = NoWorkspace
      <3>1. ws[w].state = "none" /\ job[w] = "none"
        BY <2>0, <2>1 DEF NoWorkspace, WorkspaceOK
      <3>2. Usable(w)' /\ \A b \in Actors : NotClosing(b, w)'
        BY <3>1 DEF Usable, NotClosing
      <3>3. RecordOK(w)' /\ JobOK(w)' /\ Onward(w)
        BY <2>1, <3>1 DEF RecordOK, JobOK, Holds, Onward, Over
      <3> QED BY <3>1, <3>2, <3>3 DEF WorkspaceOK
    <2>2. CASE /\ ws[w].state # "none" /\ OwnerOf(w) \in Actors
               /\ ws[w].claim \in Claims /\ claims[ws[w].claim].state # "free"
               /\ claims[ws[w].claim].issue = ws[w].issue
      <3>1. OwnerOf(w)' = OwnerOf(w)
        BY DEF OwnerOf
      <3>2. Usable(w)' /\ \A b \in Actors : NotClosing(b, w)'
        BY <2>0, <2>2, <3>1 DEF WorkspaceOK, Usable, NotClosing, Active
      <3>3. RecordOK(w)'
        BY <2>2, <3>1 DEF RecordOK, RowsStay
      <3>4. JobOK(w)'
        BY <2>0, <2>2, <3>1 DEF WorkspaceOK, JobOK, Holds, Active
      <3>5. Onward(w)
        BY DEF Onward, Over, InUse
      <3> QED BY <2>0, <3>2, <3>3, <3>4, <3>5 DEF WorkspaceOK
    <2> QED BY <2>0, <2>1, <2>2 DEF WorkspaceOK, RecordOK
  <1>3. OneAtATime'
    BY <1>0 DEF OneAtATime, Holds, OwnerOf
  <1> QED BY <1>0, <1>1, <1>2, <1>3, InvByWorkspaceNext

\* Processes, hosts, the sweeper and time.
LEMMA EnvironmentKeeps ==
    ASSUME CheckoutInv, Environment, UNCHANGED <<job, target>>
    PROVE  CheckoutInv' /\ \A w \in Workspaces : Onward(w)
  <1>0. /\ RuntimeInv /\ actor \in [Actors -> Actor] /\ call \in [Actors -> Call]
    BY CheckoutFacts
  <1>1. RuntimeInv' /\ (Advance \/ Transaction)
    BY <1>0, EnvironmentInv, EnvironmentType
  <1>2. RowsStay
    BY <1>0, <1>1, TransactionStays, ElapseStays DEF Advance
  <1>3. CASE Advance
    <2>1. ws' = ws
      BY <1>3 DEF Advance
    <2>2. ASSUME NEW b \in Actors
          PROVE  /\ actor'[b].pending = actor[b].pending
                 /\ actor'[b].paused = actor[b].paused
                 /\ actor'[b].active.claim = actor[b].active.claim
                 /\ call'[b].op = call[b].op
      <3>1. /\ actor[b] \in Actor /\ actor[b].active \in Tenure /\ call[b] \in Call
        BY <1>0 DEF Actor
      <3>2. actor'[b] = [actor[b] EXCEPT !.active.left = Monus(actor[b].active.left, 1),
                                         !.renewIn = Monus(actor[b].renewIn, 1)]
        BY <1>3, <3>1 DEF Advance, Actor, Tenure
      <3>3. call'[b] = Aged(call[b])
        BY <1>3 DEF Advance
      <3>4. call'[b].op = call[b].op
        BY <3>1, <3>3 DEF Aged, Call
      <3> QED BY <3>1, <3>2, <3>4 DEF Actor, Tenure
    <2> QED BY <1>1, <1>2, <2>1, <2>2, StandsStill
  <1>4. CASE ~Advance
    <2>1. actor' = actor /\ call' = call /\ ws' = ws
      BY <1>4 DEF Environment, Register, ProcessExit, EndInstance, RetireDead, Authority, runtimeVars
    <2> QED BY <1>1, <1>2, <2>1, StandsStill
  <1> QED BY <1>3, <1>4

\* A restart leaves no goroutine, no handler and no record as live execution.
LEMMA RestartKeeps ==
    ASSUME CheckoutInv, CheckoutRestart
    PROVE  CheckoutInv' /\ \A w \in Workspaces : Onward(w)
  <1>0. /\ RuntimeInv /\ ws \in [Workspaces -> Workspace]
        /\ \A w \in Workspaces : WorkspaceOK(w)
    BY CheckoutFacts
  <1>1. RuntimeInv'
    BY <1>0, EnvironmentInv DEF CheckoutRestart
  <1>2. /\ job' = [w \in Workspaces |-> "none"] /\ target' = [a \in Actors |-> NoTarget]
        /\ claims' = claims
    BY DEF CheckoutRestart, DaemonRestart, authorityVars
  <1>3. ASSUME NEW a \in Actors
        PROVE  /\ actor'[a].pending = NoPending /\ actor'[a].active = NoTenure
               /\ call'[a] = NoCall
    BY DEF CheckoutRestart, DaemonRestart, FreshActor
  <1>4. ASSUME NEW a \in Actors PROVE HandlerOK(a)' /\ CloseOK(a)'
    BY <1>3 DEF HandlerOK, CloseOK, NoCall, NoPending
  <1>5. PICK s \in [Workspaces -> WorkspaceStates] :
           /\ \A w \in Workspaces : s[w] \in Restarted(ws[w].state)
           /\ ws' = [w \in Workspaces |-> [ws[w] EXCEPT !.state = s[w]]]
    BY DEF CheckoutRestart, DaemonRestart
  <1>6. ASSUME NEW w \in Workspaces PROVE WorkspaceOK(w)' /\ Onward(w)
    <2>0. ws[w] \in Workspace /\ WorkspaceOK(w) /\ s[w] \in Restarted(ws[w].state)
      BY <1>0, <1>5
    <2>1. /\ ws'[w].state = s[w] /\ ws'[w].owner = ws[w].owner
          /\ ws'[w].claim = ws[w].claim /\ ws'[w].issue = ws[w].issue
          /\ ws'[w] = [ws[w] EXCEPT !.state = s[w]]
      BY <1>5, <2>0 DEF Workspace
    <2>2. /\ s[w] \notin InUse
          /\ (s[w] = "none") <=> (ws[w].state = "none")
      BY <2>0 DEF Restarted, InUse, Workspace, WorkspaceStates
    <2>3. job'[w] = "none"
      BY <1>2
    <2>4. Usable(w)' /\ \A b \in Actors : NotClosing(b, w)'
      BY <2>1, <2>2 DEF Usable, NotClosing, InUse
    <2>5. RecordOK(w)'
      <3>1. CASE ws[w] = NoWorkspace
        <4>1. s[w] = "none"
          BY <2>2, <3>1 DEF NoWorkspace
        <4> QED BY <2>1, <3>1, <4>1 DEF RecordOK, NoWorkspace
      <3>2. CASE /\ ws[w].state # "none" /\ OwnerOf(w) \in Actors
                 /\ ws[w].claim \in Claims /\ claims[ws[w].claim].state # "free"
                 /\ claims[ws[w].claim].issue = ws[w].issue
        BY <1>2, <2>1, <2>2, <3>2 DEF RecordOK, OwnerOf
      <3> QED BY <2>0, <3>1, <3>2 DEF WorkspaceOK, RecordOK
    <2>6. JobOK(w)' /\ ((ws'[w].state = "preparing") <=> (job'[w] # "none"))
      BY <2>1, <2>2, <2>3 DEF JobOK, Holds, InUse
    <2>7. Onward(w)
      BY <2>1, <2>2 DEF Onward
    <2> QED BY <2>4, <2>5, <2>6, <2>7 DEF WorkspaceOK
  <1>7. OneAtATime'
    BY <1>2 DEF OneAtATime, Holds
  <1>8. job' \in [Workspaces -> Phases] /\ target' \in [Actors -> Workspaces \cup {NoTarget}]
    BY <1>2 DEF Phases
  <1> QED BY <1>1, <1>4, <1>6, <1>7, <1>8, InvByWorkspaceNext

-----------------------------------------------------------------------------
(* The theorems.                                                             *)

\* No record and no goroutine at the start.
LEMMA CheckoutInitInv == CheckoutInit => CheckoutInv
  <1> SUFFICES ASSUME CheckoutInit PROVE CheckoutInv
    OBVIOUS
  <1>1. RuntimeInv
    BY InitInv DEF CheckoutInit
  <1>2. ASSUME NEW a \in Actors PROVE HandlerOK(a) /\ CloseOK(a)
    BY DEF CheckoutInit, Init, FreshActor, NoCall, NoPending, HandlerOK, CloseOK
  <1>3. ASSUME NEW w \in Workspaces PROVE WorkspaceOK(w)
    <2>1. ws[w] = NoWorkspace /\ ws[w].state = "none" /\ job[w] = "none"
      BY DEF CheckoutInit, Init, NoWorkspace
    <2> QED BY <2>1 DEF WorkspaceOK, Usable, NotClosing, RecordOK, JobOK, Holds
  <1>4. OneAtATime
    BY DEF CheckoutInit, OneAtATime, Holds
  <1>5. job \in [Workspaces -> Phases] /\ target \in [Actors -> Workspaces \cup {NoTarget}]
    BY DEF CheckoutInit, Phases
  <1> QED BY <1>1, <1>2, <1>3, <1>4, <1>5, InvByWorkspace

\* Every step, of the runtime, of a checkout command and of a preparation, keeps
\* the invariant and revives no record.
LEMMA CheckoutNextInv ==
    ASSUME CheckoutInv, [CheckoutNext]_checkoutVars
    PROVE  CheckoutInv' /\ \A w \in Workspaces : Onward(w)
  <1>1. CASE RuntimeStep
    BY <1>1, EnvironmentKeeps, ActorStepKeeps DEF RuntimeStep
  <1>2. CASE CheckoutRestart
    BY <1>2, RestartKeeps
  <1>3. ASSUME NEW a \in Actors, CheckoutStep(a)
        PROVE  CheckoutInv' /\ \A w \in Workspaces : Onward(w)
    BY <1>3, StartCheckoutInv, FinishCheckoutInv, StartArchiveInv, ArchiveLookInv, FinishArchiveInv
    DEF CheckoutStep
  <1>4. ASSUME NEW x \in Workspaces, JobStep(x)
        PROVE  CheckoutInv' /\ \A w \in Workspaces : Onward(w)
    BY <1>4, WorkFailsInv, AbandonInv, RevalidateInv, LookedInv, ObserveInv, ObservedInv
    DEF JobStep
  <1>5. CASE UNCHANGED checkoutVars
    <2>1. /\ RuntimeInv /\ UNCHANGED vars
          /\ UNCHANGED <<authorityVars, actor, call, ws, job, target>>
      BY <1>5, CheckoutFacts DEF checkoutVars, vars, authorityVars
    <2>2. RuntimeInv'
      BY <2>1, InvariantIsInductive
    <2>3. RowsStay
      BY <2>1 DEF RowsStay, authorityVars
    <2> QED BY <2>1, <2>2, <2>3, StandsStill
  <1> QED BY <1>1, <1>2, <1>3, <1>4, <1>5 DEF CheckoutNext

\* CheckoutInv is an invariant of the runtime with its checkouts
\* (codex_checkout.go): the invariant of the runtime holds beside them, and what
\* records, goroutines and pending closes owe one another.
THEOREM CheckoutInvariance == CheckoutSpec => []CheckoutInv
  <1>1. CheckoutInit => CheckoutInv
    BY CheckoutInitInv
  <1>2. CheckoutInv /\ [CheckoutNext]_checkoutVars => CheckoutInv'
    BY CheckoutNextInv
  <1> QED BY <1>1, <1>2, PTL DEF CheckoutSpec

\* The deadline arithmetic of execute() stays safe with checkouts refreshing
\* and observing the tenure between the handlers of clients and ticks.
THEOREM CheckoutsKeepLeases == CheckoutSpec => []RuntimeInv
  <1>1. CheckoutInv => RuntimeInv
    BY DEF CheckoutInv
  <1> QED BY <1>1, CheckoutInvariance, PTL

\* A ready or paused workspace is of the tenure its owner holds, and none is
\* ready while the owner is paused (markWorkspaces, prepareWorkspace).
THEOREM ReadyWorkspacesAreUsable == CheckoutSpec => []ReadyIsUsable
  <1>1. CheckoutInv => ReadyIsUsable
    BY DEF CheckoutInv
  <1> QED BY <1>1, CheckoutInvariance, PTL

\* While a close is pending no workspace of its tenure is preparing
\* (checkoutBusy).
THEOREM ClosesFindNonePreparing == CheckoutSpec => []CloseFindsNonePreparing
  <1>1. CheckoutInv => CloseFindsNonePreparing
    BY DEF CheckoutInv
  <1> QED BY <1>1, CheckoutInvariance, PTL

\* A record is preparing exactly while its goroutine runs (prepareWorkspace).
THEOREM PreparingRecordsAreRunning == CheckoutSpec => []PreparingIsRunning
  <1>1. CheckoutInv => PreparingIsRunning
    BY DEF CheckoutInv
  <1> QED BY <1>1, CheckoutInvariance, PTL

\* No step brings back a workspace that was orphaned, failed or archived.
THEOREM WorkspacesAreNotRevived == CheckoutSpec => NoRevivedWorkspace
  <1> DEFINE A == \A w \in Workspaces :
                     ws[w].state \in {"orphaned", "failed", "archived", "archive_pending"}
                        => ws'[w].state \notin {"preparing", "ready", "paused"}
  <1>1. CheckoutInv /\ [CheckoutNext]_checkoutVars => [A]_checkoutVars
    BY CheckoutNextInv DEF Onward, Over, InUse
  <1>2. CheckoutSpec => [][A]_checkoutVars
    BY <1>1, CheckoutInvariance, PTL DEF CheckoutSpec
  <1> QED BY <1>2 DEF NoRevivedWorkspace
=============================================================================
