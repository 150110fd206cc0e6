-------------------------- MODULE SupervisedCheckout --------------------------
(***************************************************************************)
(* Checkouts of the supervised runtime (internal/forge/codex_checkout.go):  *)
(* the checkout and checkout_archive commands, and the goroutine that       *)
(* prepares a workspace beside the handlers.                                *)
(*                                                                          *)
(* prepareWorkspace captures and restores without any mutex, for minutes,   *)
(* and takes its owner's mutex twice to revalidate the tenure; each time it *)
(* looks at Kata and posts an observation there while it holds the mutex.   *)
(* In between the tenure may lapse, be paused, released, closed or replaced.*)
(* Git and the filesystem are abstracted to whether a phase succeeds.       *)
(***************************************************************************)
EXTENDS SupervisedRuntime, FiniteSets

CONSTANTS Slots,        \* preparations that run at a time: 4
          NoTarget

ASSUME CheckoutAssumption ==
    /\ Slots \in Nat \ {0}
    /\ NoTarget \notin Workspaces

VARIABLES job,          \* workspace -> phase of its prepareWorkspace goroutine
          target        \* actor -> workspace its checkout_archive names

checkoutVars == <<vars, job, target>>

\* "look" and "observe" hold the owner's mutex, before (1) and after (2) the
\* restore; "lost" and "failing" are about to write the record.
Phases == {"none", "capture", "look1", "observe1", "restore", "look2", "observe2",
           "lost", "failing"}

CheckoutTypeOK ==
    /\ TypeOK
    /\ job \in [Workspaces -> Phases]
    /\ target \in [Actors -> Workspaces \cup {NoTarget}]

CheckoutInit ==
    /\ Init
    /\ job = [w \in Workspaces |-> "none"]
    /\ target = [a \in Actors |-> NoTarget]

OwnerOf(w) == ws[w].owner

\* put: the record is written, or only its state in memory says `unwritten`.
Put(w, written, unwritten) ==
    \E s \in {written, unwritten} : ws' = [ws EXCEPT ![w].state = s]

SetJob(w, phase) == job' = [job EXCEPT ![w] = phase]

-----------------------------------------------------------------------------
(* checkout.                                                                 *)

\* The look at Kata of refreshActor.  Without a tenure, or with an operation
\* pending, the command is refused at once.
StartCheckout(a) ==
    /\ Serves(a) /\ ~HasPending(a) /\ Active(a)
    /\ Begin(a, "checkout", actor[a].active)
    /\ UNCHANGED <<authorityVars, instance, ended, actor, ws, minted, job, target>>

MayCheckout(r) == r.active # NoTenure /\ ~r.unknown /\ ~r.paused

SlotFree == Cardinality({w \in Workspaces : job[w] # "none"}) < Slots

\* The record of w for tenure t, and its goroutine, unless it is not written.
Recorded(a, w, t) ==
    \E s \in {"preparing", "failed"} :
        /\ ws' = [ws EXCEPT ![w] = [state |-> s, owner |-> a, issue |-> t.issue,
                                    claim |-> t.claim]]
        /\ IF s = "preparing" THEN SetJob(w, "capture") ELSE UNCHANGED job

\* The answer of the look decides; a source that cannot be used, or the lack
\* of a slot, refuses the checkout as well.
FinishCheckout(a) ==
    /\ AtStage(a, "checkout", "reply")
    /\ LET r == Refreshed(a, call[a]) IN
       /\ SetActor(a, r)
       /\ \/ /\ MayCheckout(r) /\ SlotFree
             /\ \E w \in Workspaces : ws[w].state = "none" /\ Recorded(a, w, r.active)
          \/ UNCHANGED <<ws, job>>
    /\ Unlock(a)
    /\ UNCHANGED <<authorityVars, instance, ended, minted, target>>

-----------------------------------------------------------------------------
(* checkout_archive, of any actor's workspace.                               *)

\* Mutant: a workspace that is still preparing may be archived.
ArchivableAlways(w) == ws[w].state # "none"

Archivable(w) == ws[w].state \notin {"none", "preparing"}

StartArchive(a, w) ==
    /\ Serves(a) /\ Archivable(w)
    /\ target' = [target EXCEPT ![a] = w]
    /\ Begin(a, "archive", NoTenure)
    /\ UNCHANGED <<authorityVars, instance, ended, actor, ws, minted, job>>

\* Only the authority says whether the issue is closed.
ArchiveLook(a) ==
    /\ AtStage(a, "archive", "kata")
    /\ Reply(a, IF status[ws[target[a]].issue] = "closed" THEN "ok" ELSE "rejected")
    /\ UNCHANGED <<authorityVars, instance, ended, actor, ws, minted, job, target>>

\* The record may have moved since; only its state is overwritten.
FinishArchive(a) ==
    /\ AtStage(a, "archive", "reply")
    /\ IF call[a].out = "ok" THEN Put(target[a], "archived", "archive_pending")
                             ELSE UNCHANGED ws
    /\ target' = [target EXCEPT ![a] = NoTarget]
    /\ Unlock(a)
    /\ UNCHANGED <<authorityVars, instance, ended, actor, minted, job>>

-----------------------------------------------------------------------------
(* prepareWorkspace.                                                         *)

Second(w) == job[w] \in {"restore", "look2", "observe2"}

\* The goroutine ends, its record saying `state`.
Ended(w, state) ==
    /\ ws' = [ws EXCEPT ![w].state = state]
    /\ SetJob(w, "none")

\* Mutant: a preparation whose tenure is gone ends without a record of it.
LostSilently(w) == SetJob(w, "none") /\ UNCHANGED ws

\* workspaceFailed after the first revalidation runs outside the mutex, a
\* step of its own; after the second it is still inside.
Lost(w) == IF Second(w) THEN Ended(w, "orphaned") ELSE SetJob(w, "lost") /\ UNCHANGED ws
Fails(w) == IF Second(w) THEN Ended(w, "failed") ELSE SetJob(w, "failing") /\ UNCHANGED ws

\* The root, the snapshot or the restore fails.
WorkFails(w) ==
    /\ job[w] \in {"capture", "restore"}
    /\ SetJob(w, "failing")
    /\ UNCHANGED <<vars, target>>

Abandon(w) ==
    /\ job[w] \in {"lost", "failing"}
    /\ Ended(w, IF job[w] = "lost" THEN "orphaned" ELSE "failed")
    /\ UNCHANGED <<authorityVars, instance, ended, actor, call, minted, target>>

\* workspaceLive before its look: the owner may still act.
OwnerLive(a) ==
    /\ instance[InstanceOf[a]] = "live" /\ ~ended[SessionOf[a]]
    /\ ~actor[a].retired /\ ~actor[a].paused /\ ~HasPending(a)
    /\ Active(a)

\* The work is done and the owner's mutex free.
Revalidate(w) ==
    /\ job[w] \in {"capture", "restore"}
    /\ call[OwnerOf(w)] = NoCall
    /\ IF OwnerLive(OwnerOf(w))
       THEN /\ Begin(OwnerOf(w), "prepare", actor[OwnerOf(w)].active)
            /\ SetJob(w, IF Second(w) THEN "look2" ELSE "look1")
            /\ UNCHANGED ws
       ELSE Lost(w) /\ UNCHANGED call
    /\ UNCHANGED <<authorityVars, instance, ended, actor, minted, target>>

\* Mutant: any tenure of the owner will do.
StillHoldsAny(w, r) == r.active # NoTenure /\ ~r.unknown

\* workspaceLive after its look, r being the owner refreshed by it.
StillHolds(w, r) == r.active # NoTenure /\ ~r.unknown /\ r.active.claim = ws[w].claim

Looked(w) ==
    /\ job[w] \in {"look1", "look2"}
    /\ LET a == OwnerOf(w)
           r == Refreshed(a, call[a])
       IN  /\ AtStage(a, "prepare", "reply")
           /\ SetActor(a, r)
           /\ IF StillHolds(w, r)
              THEN /\ Begin(a, "observe", NoTenure)
                   /\ SetJob(w, IF Second(w) THEN "observe2" ELSE "observe1")
                   /\ UNCHANGED ws
              ELSE Lost(w) /\ Unlock(a)
    /\ UNCHANGED <<authorityVars, instance, ended, minted, target>>

\* issue_workspace: an observation is recorded while the lease is live.
Observe(w) ==
    /\ job[w] \in {"observe1", "observe2"}
    /\ LET a == OwnerOf(w) IN
       /\ AtStage(a, "observe", "kata")
       /\ Reply(a, IF status[ws[w].issue] = "open" /\ actor[a].active.claim \in Live(ws[w].issue)
                   THEN "ok" ELSE "rejected")
    /\ UNCHANGED <<authorityVars, instance, ended, actor, ws, minted, job, target>>

\* The observation is answered: go on to the restore, or ready.  A record
\* that cannot be written fails.
Observed(w) ==
    /\ job[w] \in {"observe1", "observe2"}
    /\ LET a == OwnerOf(w) IN
       /\ AtStage(a, "observe", "reply")
       /\ \/ /\ call[a].out = "ok"
             /\ IF Second(w) THEN Ended(w, "ready") ELSE SetJob(w, "restore") /\ UNCHANGED ws
          \/ Fails(w)
       /\ Unlock(a)
    /\ UNCHANGED <<authorityVars, instance, ended, actor, minted, target>>

-----------------------------------------------------------------------------
CheckoutStep(a) ==
    \/ StartCheckout(a) \/ FinishCheckout(a)
    \/ \E w \in Workspaces : StartArchive(a, w)
    \/ ArchiveLook(a) \/ FinishArchive(a)

JobStep(w) ==
    \/ WorkFails(w) \/ Abandon(w) \/ Revalidate(w)
    \/ Looked(w) \/ Observe(w) \/ Observed(w)

\* The goroutines die with the daemon.
CheckoutRestart ==
    /\ DaemonRestart
    /\ job' = [w \in Workspaces |-> "none"]
    /\ target' = [a \in Actors |-> NoTarget]

RuntimeStep ==
    /\ Environment \/ \E a \in Actors : ActorStep(a)
    /\ UNCHANGED <<job, target>>

CheckoutNext ==
    \/ RuntimeStep
    \/ CheckoutRestart
    \/ \E a \in Actors : CheckoutStep(a)
    \/ \E w \in Workspaces : JobStep(w)

CheckoutSpec == CheckoutInit /\ [][CheckoutNext]_checkoutVars

\* Fairness.  A dispatch and the capture and restore have timeouts, so what
\* holds a mutex or works without one ends; Go's mutexes do not starve those
\* who wait for one, a tick comes every second, and time passes.
Quietly(A) == A /\ UNCHANGED <<job, target>>

Fairness ==
    /\ WF_checkoutVars(Quietly(Advance)) /\ WF_checkoutVars(Quietly(RetireDead))
    /\ \A a \in Actors : /\ WF_checkoutVars(Quietly(KataStep(a) \/ FinishStep(a)))
                         /\ WF_checkoutVars(FinishCheckout(a))
                         /\ WF_checkoutVars(ArchiveLook(a) \/ FinishArchive(a))
                         /\ SF_checkoutVars(Quietly(TickLapsed(a)))
                         /\ SF_checkoutVars(Quietly(RetireActor(a)))
    /\ \A w \in Workspaces : /\ WF_checkoutVars(Looked(w) \/ Observe(w) \/ Observed(w) \/ Abandon(w))
                             /\ SF_checkoutVars(Revalidate(w) \/ WorkFails(w))

-----------------------------------------------------------------------------
(* Properties.                                                               *)

\* ReadyIsUsable.  While an actor holds a tenure its ready and paused workspaces
\* are of that tenure, not of an earlier one; and while it is paused none is
\* ready, even if a preparation ends during the pause: "Codex pause/interrupt
\* marks ready workspaces paused", docs/codex-checkout.md:179.
ReadyIsUsable ==
    \A w \in Workspaces :
        (ws[w].state \in {"ready", "paused"} /\ Active(OwnerOf(w)))
            => /\ ws[w].claim = actor[OwnerOf(w)].active.claim
               /\ ws[w].state = "ready" => ~actor[OwnerOf(w)].paused

\* CloseFindsNonePreparing.  From the start of a close until it is resolved no
\* workspace of its tenure is preparing, whatever retries happen meanwhile:
\* "Close is refused while an attached checkout is still preparing",
\* docs/codex-checkout.md:160.
CloseFindsNonePreparing ==
    \A a \in Actors, w \in Workspaces :
        (actor[a].pending.op = "close" /\ ws[w].claim = actor[a].pending.claim)
            => ws[w].state # "preparing"

\* PreparingIsRunning.  A record is preparing exactly while its goroutine runs:
\* none is left behind that would refuse every later close of its tenure, and
\* none is written over by a goroutine after it was decided.
PreparingIsRunning ==
    \A w \in Workspaces : (ws[w].state = "preparing") <=> (job[w] # "none")

\* NoRevivedWorkspace.  A workspace that was orphaned, failed or archived is
\* never in use again: not by an event of its owner, a late goroutine or a
\* restart.  "No in-place authority transfer is implemented",
\* docs/codex-checkout.md:192.
NoRevivedWorkspace ==
    [][\A w \in Workspaces :
          ws[w].state \in {"orphaned", "failed", "archived", "archive_pending"}
             => ws'[w].state \notin {"preparing", "ready", "paused"}]_checkoutVars

\* PreparingIsDecided.  Every preparation is decided, however often its owner
\* pauses, closes, is retired or loses its tenure meanwhile; so checkout_busy
\* never refuses a close for good.
PreparingIsDecided ==
    \A w \in Workspaces : ws[w].state = "preparing" ~> ws[w].state # "preparing"

\* ReadyFades.  The heartbeat takes a ready workspace away from an actor that
\* has lost its tenure, unless a close is still unresolved.
ReadyFades ==
    \A w \in Workspaces :
        (ws[w].state = "ready" /\ ~Believes(OwnerOf(w)))
            ~> \/ ws[w].state # "ready"
               \/ Believes(OwnerOf(w)) \/ actor[OwnerOf(w)].pending.op = "close"

-----------------------------------------------------------------------------
(* The inductive invariant behind the state properties above.                *)

\* What the handlers of this module hold with the mutex of a.
HandlerOK(a) ==
    /\ call[a].op = "checkout" => Active(a) /\ ~HasPending(a)
    /\ call[a].op = "prompt" => ~actor[a].paused
    /\ call[a].op = "archive" =>
          target[a] # NoTarget /\ ws[target[a]].state \notin {"none", "preparing"}

\* The claim of a close is one of the actor's own principal.
CloseOK(a) ==
    LET p == actor[a].pending IN
    p.op = "close" => /\ p.claim \in Claims /\ claims[p.claim].state # "free"
                      /\ claims[p.claim].holder = p.holder

\* A record is of a tenure that the authority granted.
RecordOK(w) ==
    \/ ws[w] = NoWorkspace
    \/ /\ ws[w].state # "none" /\ OwnerOf(w) \in Actors
       /\ ws[w].claim \in Claims /\ claims[ws[w].claim].state # "free"
       /\ claims[ws[w].claim].issue = ws[w].issue

\* The goroutine of w holds its owner's mutex.
Holds(w) == job[w] \in {"look1", "look2", "observe1", "observe2"}

JobOK(w) ==
    LET a == OwnerOf(w) IN
    /\ Holds(w) => ~actor[a].paused
    /\ job[w] \in {"look1", "look2"} => call[a].op = "prepare"
    /\ job[w] \in {"observe1", "observe2"} =>
          call[a].op = "observe" /\ Active(a) /\ ws[w].claim = actor[a].active.claim

OneAtATime ==
    \A v, w \in Workspaces : (Holds(v) /\ Holds(w) /\ OwnerOf(v) = OwnerOf(w)) => v = w

CheckoutInv ==
    /\ RuntimeInv
    /\ job \in [Workspaces -> Phases]
    /\ target \in [Actors -> Workspaces \cup {NoTarget}]
    /\ ReadyIsUsable /\ CloseFindsNonePreparing /\ PreparingIsRunning
    /\ \A a \in Actors : HandlerOK(a) /\ CloseOK(a)
    /\ \A w \in Workspaces : RecordOK(w) /\ JobOK(w)
    /\ OneAtATime
=============================================================================
