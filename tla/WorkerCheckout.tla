---------------------------- MODULE WorkerCheckout ----------------------------
(***************************************************************************)
(* Checkouts of workers (internal/forge/worker_checkout.go and the release  *)
(* and close of internal/forge/tools.go): the command line and Pi bring the *)
(* proof of a tenure they hold themselves, and the daemon keeps no lease.   *)
(*                                                                          *)
(* checkout, issue_release and issue_close of a tenure pass one of a few    *)
(* gates, chosen by the claim, and hold it until they answer.  Inside they  *)
(* take the mutex of the tenure's thread, if it has workspaces; the         *)
(* goroutine that prepares a workspace takes that mutex too, but no gate.   *)
(* Any call may be repeated at any time, after its answer was lost.         *)
(*                                                                          *)
(* A look at Kata is one step: nobody else sees what it decides before the  *)
(* mutex is free.  A handler that waits for its gate has done nothing yet,  *)
(* so that a gate has at most one call.                                     *)
(***************************************************************************)
EXTENDS LeaseAuthority, FiniteSets

CONSTANTS Workspaces,   \* records the store may come to hold
          Requests,     \* Idempotency-Keys of checkouts
          NoRequest,
          Gates,        \* gates: 64
          Slots         \* preparations that run at a time: 4

ASSUME WorkerAssumption ==
    /\ NoRequest \notin Requests
    /\ Gates \in Nat \ {0}
    /\ Slots \in Nat \ {0}

VARIABLES call,         \* gate -> the call that holds it
          active,       \* claim -> its thread believes in the tenure (t.active)
          ws,           \* workspace -> its record in memory
          disk,         \* workspace -> the state recovery finds its record in
          job,          \* workspace -> phase of its prepareWorkspace goroutine
          answered      \* history: claim -> the success its holder was told

workerVars == <<call, active, ws, disk, job, answered>>
vars == <<authorityVars, workerVars>>

GateIds == 0 .. (Gates - 1)
GateOf(c) == c % Gates

\* "kata" and "archive" of a close hold the mutex if it is `locked`; "look"
\* always does.
Call == [op : {"none", "checkout", "release", "close"}, claim : Claims \cup {NoClaim},
         request : Requests \cup {NoRequest}, locked : BOOLEAN,
         stage : {"none", "mutex", "look", "kata", "retire", "archive"}]
NoCall == [op |-> "none", claim |-> NoClaim, request |-> NoRequest, locked |-> FALSE,
           stage |-> "none"]

States == {"none", "preparing", "ready", "failed", "orphaned", "archived", "archive_pending"}
Record == [state : States, claim : Claims \cup {NoClaim}, request : Requests \cup {NoRequest}]
NoRecord == [state |-> "none", claim |-> NoClaim, request |-> NoRequest]

\* The looks, the observations and what follows the second one hold the mutex.
Phases == {"none", "capture", "look1", "observe1", "restore", "look2", "observe2",
           "observed", "lost", "failing"}
Locking == {"look1", "observe1", "look2", "observe2", "observed"}

\* Every variable has its declared shape, a record says "preparing" exactly
\* while its goroutine runs, and what memory does not know is not on disk.
TypeOK ==
    /\ AuthorityTypeOK
    /\ call \in [GateIds -> Call]
    /\ active \in [Claims -> BOOLEAN]
    /\ ws \in [Workspaces -> Record]
    /\ disk \in [Workspaces -> {"none", "failed", "orphaned", "archived"}]
    /\ job \in [Workspaces -> Phases]
    /\ answered \in [Claims -> {"nothing", "released", "closed"}]
    /\ \A w \in Workspaces : /\ ws[w].state = "preparing" <=> job[w] # "none"
                             /\ ws[w].state = "none" => disk[w] = "none"

Init ==
    /\ AuthorityInit
    /\ call = [g \in GateIds |-> NoCall]
    /\ active = [c \in Claims |-> FALSE]
    /\ ws = [w \in Workspaces |-> NoRecord]
    /\ disk = [w \in Workspaces |-> "none"]
    /\ job = [w \in Workspaces |-> "none"]
    /\ answered = [c \in Claims |-> "nothing"]

-----------------------------------------------------------------------------
(* Holders and rows.  Each attempt to claim is a principal of its own, so     *)
(* that the holder of a tenure has the tenure's number; its close has one     *)
(* key, the same number.                                                     *)

IssueOf(c) == claims[c].issue
IsHeld(c) == GuardHolds(IssueOf(c), c, c)

\* issue_claim: the release that follows a claim of closed work is left out.
Claim(i) ==
    /\ status[i] = "open"
    /\ \E c \in Claims : Acquire(i, nextClaim, c)
    /\ UNCHANGED workerVars

\* Time matters while a tenure is live.
Lapse == (\E i \in Issues : Live(i) # {}) /\ Elapse

Authority ==
    /\ \/ \E i \in Issues : HumanClose(i) \/ HumanReopen(i) \/ ForceRelease(i)
       \/ Sweep \/ Lapse
    /\ UNCHANGED workerVars

-----------------------------------------------------------------------------
(* Records, gates and mutexes.                                               *)

Of(c) == {w \in Workspaces : ws[w].claim = c}

\* What newWorkspaceStore makes of a state it reads.
Recovered(state) == IF state \in {"preparing", "ready"} THEN "orphaned" ELSE state

\* put of `state` for w: memory says it in any case.
Put(w, state) ==
    /\ ws' = [ws EXCEPT ![w].state = state]
    /\ \E d \in {Recovered(state), disk[w]} : disk' = [disk EXCEPT ![w] = d]

MutexFree(c) ==
    /\ \A g \in GateIds : ~(call[g].locked /\ call[g].claim = c)
    /\ \A w \in Of(c) : job[w] \notin Locking

\* A call for tenure c, whose gate is free.
Enter(c, k) ==
    /\ claims[c].state # "free" /\ call[GateOf(c)] = NoCall
    /\ call' = [call EXCEPT ![GateOf(c)] = [k EXCEPT !.claim = c]]
    /\ UNCHANGED <<authorityVars, active, ws, disk, job, answered>>

At(g, op, stage) == call[g].op = op /\ call[g].stage = stage
Go(g, stage) == call' = [call EXCEPT ![g].stage = stage]
GoLocked(g, stage) == call' = [call EXCEPT ![g].stage = stage, ![g].locked = TRUE]
Answer(g) == call' = [call EXCEPT ![g] = NoCall]
Tell(c, what) == answered' = [answered EXCEPT ![c] = what]

-----------------------------------------------------------------------------
(* checkout.                                                                 *)

StartCheckout(c, r) ==
    Enter(c, [NoCall EXCEPT !.op = "checkout", !.request = r, !.stage = "mutex"])

\* Mutant: a request that failed may be tried again.
KnownIfLive(c, r) == \E w \in Of(c) : ws[w].request = r /\ ws[w].state # "failed"

\* The request is known: its record is the answer, whatever its state.
Known(c, r) == \E w \in Of(c) : ws[w].request = r

\* The tenure is taken from the proof, to be looked up.
LockCheckout(g) ==
    /\ At(g, "checkout", "mutex") /\ MutexFree(call[g].claim)
    /\ IF Known(call[g].claim, call[g].request)
       THEN Answer(g) /\ UNCHANGED active
       ELSE GoLocked(g, "look") /\ active' = [active EXCEPT ![call[g].claim] = TRUE]
    /\ UNCHANGED <<authorityVars, ws, disk, job, answered>>

\* What refreshActor makes of its look: "gone" as well when the little that is
\* left of the tenure is within the margin, "unknown" when Kata does not answer.
Looks(c) == {"gone", "unknown"} \cup (IF IsHeld(c) /\ status[IssueOf(c)] = "open"
                                      THEN {"held"} ELSE {})
Believed(c, look) == active' = [active EXCEPT ![c] = @ /\ look # "gone"]

SlotFree == Cardinality({w \in Workspaces : job[w] # "none"}) < Slots

Free == {w \in Workspaces : ws[w] = NoRecord}

\* The record w and its goroutine; a record that is not written has none.
Recorded(c, r, w) ==
    \/ /\ ws' = [ws EXCEPT ![w] = [state |-> "preparing", claim |-> c, request |-> r]]
       /\ disk' = [disk EXCEPT ![w] = Recovered("preparing")]
       /\ job' = [job EXCEPT ![w] = "capture"]
    \/ /\ ws' = [ws EXCEPT ![w] = [state |-> "failed", claim |-> c, request |-> r]]
       /\ \E d \in {"none", Recovered("preparing")} : disk' = [disk EXCEPT ![w] = d]
       /\ UNCHANGED job

\* A source that cannot be used or the lack of a slot refuses it as well.
LookCheckout(g) ==
    /\ At(g, "checkout", "look")
    /\ \E look \in Looks(call[g].claim) :
          /\ Believed(call[g].claim, look)
          /\ \/ /\ look = "held" /\ SlotFree /\ Free # {}
                /\ Recorded(call[g].claim, call[g].request, CHOOSE w \in Free : TRUE)
             \/ UNCHANGED <<ws, disk, job>>
    /\ Answer(g)
    /\ UNCHANGED <<authorityVars, answered>>

-----------------------------------------------------------------------------
(* issue_release.                                                            *)

StartRelease(c) == Enter(c, [NoCall EXCEPT !.op = "release", !.stage = "kata"])

\* Kata releases the tenure, or says that it is not held, or does either and
\* does not answer.
AskRelease(g) ==
    /\ At(g, "release", "kata")
    /\ LET c == call[g].claim IN
       \/ /\ Release(IssueOf(c), c)
          /\ \/ Of(c) # {} /\ Go(g, "retire") /\ UNCHANGED answered
             \/ Of(c) = {} /\ Answer(g) /\ Tell(c, "released")
             \/ Answer(g) /\ UNCHANGED answered
       \/ Answer(g) /\ UNCHANGED <<authorityVars, answered>>
    /\ UNCHANGED <<active, ws, disk, job>>

\* Mutant: ready workspaces are marked while a preparation holds the mutex.
RetireFree(c) == TRUE

MayRetire(c) == MutexFree(c)

\* retireWorkerWorkspaces.  Recovery would orphan them as well.
Retire(g) ==
    /\ At(g, "release", "retire")
    /\ LET c == call[g].claim
           S == {w \in Of(c) : ws[w].state = "ready"}
       IN  /\ MayRetire(c)
           /\ active' = [active EXCEPT ![c] = FALSE]
           /\ ws' = [w \in Workspaces |-> IF w \in S THEN [ws[w] EXCEPT !.state = "orphaned"]
                                                     ELSE ws[w]]
           /\ Tell(c, "released")
    /\ Answer(g)
    /\ UNCHANGED <<authorityVars, disk, job>>

-----------------------------------------------------------------------------
(* issue_close.                                                              *)

\* Only a tenure with workspaces has a mutex to take.
StartClose(c) ==
    Enter(c, [NoCall EXCEPT !.op = "close", !.stage = IF Of(c) = {} THEN "kata" ELSE "mutex"])

\* Mutant: a preparation does not stop a close.
NeverBusy(c) == FALSE

\* workerCheckoutBusy.
Busy(c) == \E w \in Of(c) : ws[w].state = "preparing"

\* Mutant: a close that finds a preparation holds the mutex and waits for it.
LockCloseAndWait(g) ==
    /\ At(g, "close", "mutex") /\ MutexFree(call[g].claim)
    /\ GoLocked(g, IF Busy(call[g].claim) THEN "mutex" ELSE "kata")
    /\ UNCHANGED <<authorityVars, active, ws, disk, job, answered>>

LockClose(g) ==
    /\ At(g, "close", "mutex") /\ MutexFree(call[g].claim)
    /\ IF Busy(call[g].claim) THEN Answer(g) ELSE GoLocked(g, "kata")
    /\ UNCHANGED <<authorityVars, active, ws, disk, job, answered>>

\* The close commits or is replayed, and its answer arrives or is lost; or it
\* is refused.
AskClose(g) ==
    /\ At(g, "close", "kata")
    /\ LET c == call[g].claim IN
       \/ /\ CloseCommit(IssueOf(c), c, c, c) \/ CloseReplay(c)
          /\ \/ call[g].locked /\ Go(g, "archive") /\ UNCHANGED answered
             \/ ~call[g].locked /\ Answer(g) /\ Tell(c, "closed")
             \/ Answer(g) /\ UNCHANGED answered
       \/ c \notin receipts /\ Answer(g) /\ UNCHANGED <<authorityVars, answered>>
    /\ UNCHANGED <<active, ws, disk, job>>

\* The records of S are written, some of them without success: those are
\* pending, their last state or the new one on disk.
Archived(S) ==
    \E safe \in SUBSET S : \E written \in SUBSET (S \ safe) :
        /\ ws' = [w \in Workspaces |->
                    IF w \in safe THEN [ws[w] EXCEPT !.state = "archived"]
                    ELSE IF w \in S THEN [ws[w] EXCEPT !.state = "archive_pending"] ELSE ws[w]]
        /\ disk' = [w \in Workspaces |-> IF w \in safe \cup written THEN "archived" ELSE disk[w]]

\* archiveWorkspaces.
ArchiveClosed(g) ==
    /\ At(g, "close", "archive")
    /\ Archived(Of(call[g].claim))
    /\ Tell(call[g].claim, "closed")
    /\ Answer(g)
    /\ UNCHANGED <<authorityVars, active, job>>

-----------------------------------------------------------------------------
(* checkout_archive passes no gate and takes no mutex.  Its look and its put *)
(* are one step: a record it may archive stays one, and a host that reopens   *)
(* the issue in between touches no record, so the put counts as made before.  *)

Archivable(w) == ws[w].state \notin {"none", "preparing"}

Archive(w) ==
    /\ Archivable(w) /\ status[IssueOf(ws[w].claim)] = "closed"
    /\ Archived({w})
    /\ UNCHANGED <<authorityVars, call, active, job, answered>>

-----------------------------------------------------------------------------
(* prepareWorkspace.                                                         *)

Phase(w, phase) == job' = [job EXCEPT ![w] = phase] /\ UNCHANGED <<ws, disk>>
Ended(w, state) == Put(w, state) /\ job' = [job EXCEPT ![w] = "none"]

\* workspaceFailed after the second look is still inside the mutex.
Lost(w) == IF job[w] \in {"restore", "look2"} THEN Ended(w, "orphaned") ELSE Phase(w, "lost")

\* The snapshot or the restore fails.
WorkFails(w) ==
    /\ job[w] \in {"capture", "restore"}
    /\ Phase(w, "failing")
    /\ UNCHANGED <<authorityVars, call, active, answered>>

Abandon(w) ==
    /\ job[w] \in {"lost", "failing"}
    /\ Ended(w, IF job[w] = "lost" THEN "orphaned" ELSE "failed")
    /\ UNCHANGED <<authorityVars, call, active, answered>>

\* The mutex is taken; a thread without a tenure is not looked up.
Revalidate(w) ==
    /\ job[w] \in {"capture", "restore"}
    /\ MutexFree(ws[w].claim)
    /\ IF active[ws[w].claim] THEN Phase(w, IF job[w] = "capture" THEN "look1" ELSE "look2")
                              ELSE Lost(w)
    /\ UNCHANGED <<authorityVars, call, active, answered>>

\* workspaceLive.
JobLook(w) ==
    /\ job[w] \in {"look1", "look2"}
    /\ \E look \in Looks(ws[w].claim) :
          /\ Believed(ws[w].claim, look)
          /\ IF look = "held" THEN Phase(w, IF job[w] = "look1" THEN "observe1" ELSE "observe2")
                              ELSE Lost(w)
    /\ UNCHANGED <<authorityVars, call, answered>>

\* issue_workspace: an observation is recorded while the tenure is live.  After
\* the first the mutex is free again.
Observe(w) ==
    /\ job[w] \in {"observe1", "observe2"}
    /\ \/ /\ IsHeld(ws[w].claim) /\ status[IssueOf(ws[w].claim)] = "open"
          /\ \/ job[w] = "observe1" /\ Phase(w, "restore")
             \/ job[w] = "observe2" /\ Phase(w, "observed")
       \/ job[w] = "observe1" /\ Phase(w, "failing")
       \/ job[w] = "observe2" /\ Ended(w, "failed")
    /\ UNCHANGED <<authorityVars, call, active, answered>>

\* The answer is there: the workspace is ready, or its record is not written.
Deliver(w) ==
    /\ job[w] = "observed"
    /\ \/ /\ ws' = [ws EXCEPT ![w].state = "ready"]
          /\ UNCHANGED disk
          /\ job' = [job EXCEPT ![w] = "none"]
       \/ Ended(w, "failed")
    /\ UNCHANGED <<authorityVars, call, active, answered>>

-----------------------------------------------------------------------------
\* The daemon is restarted: threads, calls and goroutines are gone, and
\* recovery orphans every record in use.
Restart ==
    /\ call' = [g \in GateIds |-> NoCall]
    /\ active' = [c \in Claims |-> FALSE]
    /\ job' = [w \in Workspaces |-> "none"]
    /\ ws' = [w \in Workspaces |-> IF disk[w] = "none" THEN NoRecord
                                   ELSE [ws[w] EXCEPT !.state = disk[w]]]
    /\ UNCHANGED <<authorityVars, disk, answered>>

-----------------------------------------------------------------------------
Inside(g) == LookCheckout(g) \/ AskRelease(g) \/ AskClose(g) \/ ArchiveClosed(g)
JobStep(w) ==
    \/ WorkFails(w) \/ Abandon(w) \/ Revalidate(w)
    \/ JobLook(w) \/ Observe(w) \/ Deliver(w)

TakeMutex(g) == LockCheckout(g) \/ Retire(g) \/ LockClose(g)

Next ==
    \/ \E i \in Issues : Claim(i)
    \/ \E c \in Claims : StartRelease(c) \/ StartClose(c)
    \/ \E c \in Claims, r \in Requests : StartCheckout(c, r)
    \/ Authority \/ Restart
    \/ \E g \in GateIds : Inside(g) \/ TakeMutex(g)
    \/ \E w \in Workspaces : Archive(w) \/ JobStep(w)

\* Fairness.  A dispatch and the capture and restore have timeouts, and Go's
\* mutexes do not starve those who wait for one.
Fairness ==
    /\ \A g \in GateIds : SF_vars(Inside(g) \/ TakeMutex(g))
    /\ \A w \in Workspaces : SF_vars(JobStep(w))

Spec == Init /\ [][Next]_vars /\ Fairness

-----------------------------------------------------------------------------
(* Properties.                                                               *)

\* ClosedHasNonePreparing.  Once the close of a tenure has committed, answered
\* or not, no workspace of it is preparing, not even one whose checkout began
\* with the close under way: "A confirmed close cannot leave one preparing",
\* tools.go:320.
ClosedHasNonePreparing ==
    \A w \in Workspaces : ws[w].state = "preparing" => ws[w].claim \notin receipts

\* AnsweredLeavesNoneReady.  Who is told that its tenure is released or closed
\* has no workspace ready then or ever after, whatever was being prepared,
\* delivered, repeated or not written meanwhile.
AnsweredLeavesNoneReady ==
    \A w \in Workspaces :
        ws[w].state = "ready" => answered[ws[w].claim] = "nothing"

\* OneJobPerRequest.  A checkout that is repeated, also when its record could
\* not be written for sure or the daemon was restarted, has one record: "so a
\* retry cannot create a second job", codex_checkout.go:359.
OneJobPerRequest ==
    \A v, w \in Workspaces :
        (ws[v].state # "none" /\ ws[v].claim = ws[w].claim /\ ws[v].request = ws[w].request)
            => v = w

\* CallsEnd.  Gate and mutex are taken in one order, and no holder of the mutex
\* waits for a preparation, which needs it: every call is answered, and gives
\* its gate back to the tenures that share it.
CallsEnd == \A g \in GateIds : call[g] # NoCall ~> call[g] = NoCall

-----------------------------------------------------------------------------
(* The inductive invariant behind the state properties above.                *)

\* Each tenure is a principal of its own, and is live on open work only.
TenureOK(c) == claims[c].state # "free" => claims[c].holder = c /\ OnOpenWork(c)

\* A tenure that was granted and is over; it is never held again.
Over(c) == claims[c].state # "free" /\ ~(claims[c].state = "held" /\ claims[c].left > 0)

\* Nobody is told of an end, and no close has a receipt, before the tenure ended.
EndOK(c) == (c \in receipts \/ answered[c] # "nothing") => Over(c)

\* What the holder of gate g has found, which nobody changes before it is done.
CallOK(g) ==
    LET k == call[g]
        c == call[g].claim
    IN  \/ k = NoCall
        \/ /\ c \in Claims /\ claims[c].state # "free" /\ GateOf(c) = g
           /\ k.op # "none"
           /\ k.stage \in CASE k.op = "checkout" -> {"mutex", "look"}
                            [] k.op = "release" -> {"kata", "retire"}
                            [] k.op = "close" -> {"mutex", "kata", "archive"}
           /\ k.stage \in {"look", "archive"} => k.locked
           /\ k.op = "release" \/ k.stage = "mutex" => ~k.locked
           /\ k.op = "checkout" => k.request \in Requests
           /\ k.stage = "look" => ~Known(c, k.request)
           /\ k.stage \in {"retire", "archive"} => Over(c)
           /\ k.op = "close" /\ k.stage # "mutex" =>
                 IF k.locked THEN ~Busy(c) ELSE Of(c) = {}

\* A record is of a tenure that was granted; a workspace about to be ready is of
\* one whose holder was not told of its end.
RecordOK(w) ==
    \/ ws[w] = NoRecord
    \/ /\ ws[w].state # "none" /\ ws[w].request \in Requests
       /\ ws[w].claim \in Claims /\ claims[ws[w].claim].state # "free"
       /\ job[w] = "observed" => answered[ws[w].claim] = "nothing"

WorkerInv ==
    /\ TypeOK /\ RowsOK
    /\ \A c \in Claims : TenureOK(c) /\ EndOK(c)
    /\ \A g \in GateIds : CallOK(g)
    /\ \A w \in Workspaces : RecordOK(w)
    /\ ClosedHasNonePreparing /\ AnsweredLeavesNoneReady /\ OneJobPerRequest
===============================================================================
