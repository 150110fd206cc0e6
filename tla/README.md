# Formal models of collaboration-forge

`forged` is a daemon that lets coding agents work on shared issues. It embeds
Kata (patched, `patches/kata`) as the authority over issues and leases, and
puts a *supervised runtime* in front of it: harness processes (Codex, Claude)
register, their threads claim issues, and the daemon keeps the leases alive,
remembers answers, and prepares worktrees. `forged checkout` runs one agent in a
worktree without the daemon's runtime, and the Pi extension is a client that
keeps its own lease. These modules model that core; TLC checks them on small
instances; TLAPS proves for every instance that the lease runtime implements its
abstract specification, and the safety of receipts, both kinds of the daemon's
checkouts, snapshots and the daemon's lifecycle.

## The system

| component | state | operations | hard parts |
|---|---|---|---|
| lease authority (Kata, reached through `internal/forge/tools.go`) | issue status, claim rows, close receipts | acquire, renew, release, guarded close, host close and reopen, force release, sweep | expiry is lazy: a row is unreleased, live, or lapsed and not yet expired; renew and release name a principal and not a claim; a receipt outlives the tenure it closed |
| supervised runtime (`runtime_core.go`, `runtime_events.go`) | instances, ended sessions, one record per actor (tenure, pending operation, pause), all in memory | register, end, events, execution commands, one tick a second | one mutex per actor held across a dispatch of several transactions, answers that are late or lost, retries, process death, daemon restart |
| request receipts and facades (`runtime_receipts.go`, `codex/facade.ts`, `claude/facade.ts`, `client/runtime-transport.ts`) | a receipt per request id, a queue of kept bodies, the last execution result | at most three copies of a request; replay, eviction, `retry` | copies are lost, delayed, overtaken by other commands; receipts stay open after a 5xx |
| supervised checkouts (`codex_checkout.go`) | workspace records in memory and on disk, up to four preparing goroutines | checkout, archive, prepare, mark, restart | a preparation works for minutes without a mutex while its tenure changes; two writers of a record |
| worker checkouts (`worker_checkout.go`, release and close of `tools.go`) | 64 gates, a thread per tenure, the same records | checkout, release and close of the CLI and Pi | three kinds of mutex taken in turn; the caller renews and repeats; no tick |
| snapshots (`internal/checkout/snapshot.go`, `submodule.go`) | a store of directories named by digest, working copies | Capture, Load, Restore | the source changes while it is read; crashes and loss of power around a publication; filesystems that alter names |
| checkout runtime (`internal/checkout/runtime.go`, `cmd/forged/checkout.go`) | one lease, a pending close, an agent's process and socket | claim, register, guard, close, retry, shutdown | heartbeat, command and socket handlers share a mutex; requests given up on are carried out later; SIGKILL |
| daemon lifecycle (`server.go`, `cmd/forged/main.go`, `execution_key.go`) | data directory: tokens, lock, identity, database, key, records | start, drain, Close | two starters, a dozen durable steps, handlers that outlive the listener |
| Pi controller (`pi-extension/controller.ts`) | a client-side tenure, retained requests, a heartbeat timer, a queue of operations | claim, renew, release, close, checkout, look, retry, shutdown | state read before an `await` and used after it; requests given up on that are carried out later; a heartbeat every operation may stop |
| CLI and session broker (`client/`) | a controller behind a socket, private session files | the same operations for other processes | broker start and end, time limits of its own |
| timeline, launchers and hooks | cursors, environment, processes | see `PROJECT.json` | paging over a growing log |

How they interact: harness processes, the CLI and Pi send HTTP requests to the
daemon; its runtime and its worker handlers dispatch to the tool facade, and the
facade to Kata, which alone decides who holds an issue. Checkouts read the lease
through the same facade and write records under the runtime's mutexes. The
snapshot store is used by both kinds of checkout, and `forged serve` opens and
closes everything.

What makes the core correct, in the order of importance:

1. an actor never acts on a tenure longer than the authority keeps it, and
   two actors never act on one issue unless a host took it from one of them;
2. an ambiguous outcome is resolved by repeating the same attempt, and neither a
   close nor a claim is forgotten, doubled or turned against another tenure;
3. a request that has its answer is never executed again;
4. a worktree is offered only under the tenure it was made for, is taken away
   with it, never comes back, and never blocks the close for good;
5. a client that keeps its own lease edits only while the authority covers it,
   and not while the outcome of a close or a claim is unknown; an agent that
   `forged checkout` started stops with its lease;
6. a snapshot is what the source was at one instant, whole, and once synced stays; a restored
   copy is exactly that;
7. one daemon writes to a data directory, under one identity and with secrets
   that its clients and successors find.

## Modules

| module | models | role |
|---|---|---|
| `LeaseAuthority` | one Kata project, a transaction per operator | composed by the others |
| `SupervisedRuntime` | registration, events, execution commands, tick, restart | extends `LeaseAuthority` |
| `ExclusiveTenure` | the promise of the lease runtime: grant, work, revocation, end | abstract specification |
| `TenureRefinement` | the mapping from rows and beliefs to that promise | extends `SupervisedRuntime`, instantiates `ExclusiveTenure` |
| `SupervisedCheckout` | checkout commands and preparing goroutines | extends `SupervisedRuntime` |
| `WorkerCheckout` | gates, threads and checkouts of workers, with their release and close | extends `LeaseAuthority` |
| `CheckoutRuntime` | one `forged checkout` process and the daemon's steps for its requests | extends `LeaseAuthority` |
| `PiController` | the client-side lease owner and the daemon's steps for its requests | extends `LeaseAuthority` |
| `RequestReceipts` | receipts and facade retries of one actor | stands alone: a dispatch is its outcome |
| `SnapshotStore` | capture, publication, restore | stands alone: the checkouts see whether a phase succeeds |
| `ServerLifecycle` | start and end of daemons on one data directory | stands alone: a preparation is a job that ends at any time |
| `LeaseAuthorityProofs` | lemmas about the authority's transactions | |
| `SupervisedRuntimeProofs` | the inductive invariants of the lease runtime and of its records and jobs, the refinement, the action properties | extends the lemmas, `TenureRefinement` and `SupervisedCheckout` |
| `RequestReceiptsProofs` | the inductive invariant of the receipts | extends `RequestReceipts` |
| `WorkerCheckoutProofs` | the inductive invariant of gates, records and answers | extends `LeaseAuthorityProofs` and `WorkerCheckout` |
| `ServerLifecycleProofs` | the inductive invariant of the data directory | extends `ServerLifecycle` |
| `SnapshotStoreProofs` | the inductive invariant of captures and restores | extends `SnapshotStore` |
| `CheckoutRuntimeProofs` | the inductive invariant of a command, its requests and its registrations | extends `LeaseAuthorityProofs` and `CheckoutRuntime` |
| `PiControllerProofs` | the inductive invariant of a controller, its requests and its tenure | extends `LeaseAuthorityProofs` and `PiController` |
| `MC...` | instances, symmetry, restricted next-state relations | |

`PROJECT.json` maps every definition to its source lines.

### LeaseAuthority

A claim row is never deleted, so `claims` is indexed by claim UID and each row
says how its tenure ended: `released` by somebody, or `expired`. This is
history the code does not need, and the properties do: they allow an actor to
be wrong about a released tenure (a host may release it under the actor) and
never about an expired one. Time is the time `left` on each row. Kata itself
is not in the repository; its transactions are taken from the patches, from
what their tests state, and from how `tools.go` uses them. A denied acquire
rolls back the expiry that came with it, renew and release look at the
principal only, and the receipt of a close is looked up before the guard.

### SupervisedRuntime

Every handler of the code that touches an actor takes the actor's mutex, makes
at most one dispatch and assigns the actor's fields. In the model `call[a]` is
the handler that holds a's mutex. `Start..` takes it, up to four steps are Kata
transactions, `Finish..` assigns and unlocks; other actors, hosts, process
deaths and time interleave between them. The code's early returns are the
guards; a command that is refused without changing state is no action. A
dispatch may end in a 5xx before or after its transaction committed.

| code | model |
|---|---|
| `serveProfile` register, end; `event` session_end | `Register`, `EndInstance`, `SessionEnd` |
| `execute`, up to the dispatch | `StartClaim`, `StartHeld`, `StartClose`, `Resend`, `Touch` |
| `tools.go` issue_claim, issue_renew, ... | `ShowIssue`, `AcquireLease`, `AcquireIsDenied`, `ConfirmIssue`, `CleanupClaim`, `RenewLease`, `ReleaseLease`, `CloseIssue` |
| `execute`, after the dispatch | `FinishUnknown`, `FinishRejected`, `FinishClaim`, `FinishRenew`, `FinishRelease`, `FinishClose` |
| `event` pause, prompt, ...; `refreshActor` | `Pause`, `PromptLocally`, `StartRefresh`, `LookAtIssue`, `FinishRefresh` |
| `tick` | `RetireDead`, `RetireActor`, `RetireIdle`, `FinalRelease`, `FinishFinal`, `TickLapsed`, `TickRenew` |
| crash and restart of the daemon | `DaemonRestart` |

Deadlines are kept as the time left until them (`active.left`, `renewIn`, the
`age` and `span` of an answer under way), so behaviours are unbounded in time
although the state is finite. `Advance` passes one unit everywhere and has no
guard that waits for anybody: every handler may be arbitrarily slow. A runtime
nonce is a number drawn from `minted`; principals and close keys are nonces.

### ExclusiveTenure and TenureRefinement

The promise, without leases, clocks, messages or retries: a tenure is granted
when its issue has no other one held; one actor works under it; it may be
revoked under its worker; it is over only when nobody works under it. The
mapping reads `phase` off the claim rows (a row whose time is up is `over` even if
Kata has not written that down) and `works` off the deadlines actors believe in.
`KeepsPromise` says that every step of the runtime is a step of the promise or
none. An actor may *start* to work under a tenure revoked meanwhile: its grant
was already under way.

### RequestReceipts

A request handler holds the actor's mutex from the receipt lookup to the
answer, so it is one action, `Handle`. `wire[r]` counts the copies of a request
that are not handled yet; `LoseCopy`, `TryAgain` and the interleaving of
commands model the transport and concurrent CLI processes. An attempt is what
one nonce, key or write identifies at the authority; `begunBy` is history.

### SupervisedCheckout

`job[w]` is the phase of w's preparing goroutine. It works without a mutex
(`capture`, `restore`), then takes its owner's mutex, looks at Kata and posts an
observation while it holds it. Git and the filesystem are reduced to whether a
phase succeeds. A record whose write fails has its new state in memory only:
`Restarted` lets a restart bring an earlier state back.

### WorkerCheckout

`call[g]` is the handler that holds gate g; one that waits for its gate has done
nothing yet. `Start..` takes the gate, `Lock..` the thread's mutex if the code takes
one, `Ask..` is the dispatch, and `Retire` and `ArchiveClosed` follow it. The job of
a workspace has the same phases as in `SupervisedCheckout`, but its thread has no
pending operation, pause or tick: what it believes is only what the last look
said (`active`). `disk[w]` is what recovery would make of w's record, so `Put` shows
at once which writes a restart can undo. Each tenure is a principal of its own,
as each attempt of a worker is.

### SnapshotStore

A *part* is what `scan` reads at once. `Capture` reads all parts, packs, reads
them again and compares; writers act in between, and `past` remembers every
state the source was in. Bytes written go through `cached`, `flushed` and `durable`;
`PowerLoss` takes from each file what its state allows and drops entries of the
store that no `syncDir` has covered. `home` is the name of the store itself: it
is there from the start, on disk, or `StartCapture` makes it, and then nothing ever
syncs it and a loss of power may take the whole store (`StoreLost`). `kept` and `found`
remember what a capture returned after its own rename and sync, or found there.
`Restore` writes a part as it is, altered, or
over another one; its verification is a scan again, and its check of names covers
the files of the work tree, not those of submodules (`snapshot.go:580`). Once a writer has brought
back an earlier content, two equal scans prove nothing, and
`WasOneInstant` claims nothing (`undone`): the code's comment concedes it.

### CheckoutRuntime

The Runtime's mutex is held over its requests, so `req[0]` is the only request
awaited and `phase` says where `runCheckout` is. `Beat`, `StartGuard`, `StartClose`,
`RetryClose` and `Shutdown` compete for the mutex. `GiveUp` ends a request with an
unknown outcome and may leave it behind as `req[1]`, which Kata carries out at any
later time, after the end of the process too. The daemon's steps are those of
`tools.go` and `workspace.go`, transaction by transaction.

### ServerLifecycle

A process is at one `step` of `run`, `New`, `shutdown` or `Close`; every durable
effect is a step of its own. `disk` is what the directory shows and `lossy` the set
of what a loss of power may leave: a name that appears adds to it, a sync of the
directory reduces it to what is shown. The lock is on an inode (`fd`), whatever
the name shows later. `late` handlers act after the listener is gone. The memory
of the workspace store (`recs`) and its files are kept apart, and `unsaved` marks
the records whose last write failed.

### PiController

A controller gives up the thread only at an `await`, so an operation is two
actions or more: one sends a request, the next applies the answer. `req[p][0]`
is the request awaited. Timers, `state()`, `retryPending` and `shutdown` get in
between; `#exclusive` admits no second operation (`Idle`). The private methods
`#stop`, `#checkExpiry`, `#schedule`, `#observe`, `#clearTenure` are functions on
the record of fields (`Stopped`, `Unlapsed`, `Scheduled`, `Observed`, `Cleared`),
composed as the code calls them. A request given up on (time limit, abort,
shutdown) is lost or moves to another slot, where it may commit at any later
time with nobody to hear of it. `guardTool`, `context` and a read of the bound
issue are one action, `StartLook`, since they differ only in what they return;
the gate itself is `Editing`. An answer's arrival and its application are one
step: what lies between is a few microtasks, and `shutdown` is called from hooks,
commands and I/O callbacks. The queue's order is left open, and
`retryPending` waits in it at most once. `CallRetry` captures the tool, the arguments
and the identity of what is retained (`Pending`); when its turn comes, `RunRetry` tests
the identity (`StillRetained`, `controller.ts:141`) and then offers all that `Execute` may do
with such a call, a fresh claim, close or checkout included. That only the
repeating branches are left after the test is what `RetryBeginsNothing` checks.

## Runs

| run | question | bounds | states |
|---|---|---|---|
| `lease_contention` | can two actors of one issue be wrong about their leases, and is what they do what `ExclusiveTenure` allows? | 2 actors, 1 issue, 2 tenures, 3 nonces, ttl 3, margin 1 | 0.9 M |
| `lease_late_answer` | can a late answer revive a lapsed tenure? (yes) | 1 actor | finds it |
| `requests_fenced` | is a request that has its answer fenced? | 3 requests, 2 copies, 2 receipts, 1 body, 3 attempts | 0.3 M |
| `requests_second_attempt` | does a request begin one attempt at most? (no) | 3 requests | finds it |
| `checkout_single` | is a worktree always of the tenure held, with everything that can end one? | 1 actor, 2 tenures, 1 workspace, ttl 2 | 1.7 M |
| `checkout_liveness` | is every preparation decided, every lost worktree taken away, the issue of a dead session free in the end? | 1 actor, 1 workspace, fairness | 0.16 M |
| `worker_checkout` | do release, close and checkout of a worker get in each other's way? | 2 tenures, 1 gate, 2 workspaces, 2 requests, fairness | 0.19 M |
| `forged_checkout` | does an agent run only under its lease, and is nothing left of it in the end? | 1 process, 2 claims, 2 tries, 1 close, ttl 2, fairness | 0.26 M |
| `server_lifecycle` | what do two starters, a kill or a loss of power leave? | 2 processes, 1 workspace, 3 ids | 0.78 M |
| `snapshot_store` | is a published snapshot one whole instant of the source, for good? | 2 captures, 1 restore, 2 parts, 2 contents, 2 faults | 0.84 M |
| `snapshot_returned` | is whatever a capture returned there for good? (no) | 2 captures, 2 parts, 2 faults | finds it |
| `pi_controller` | is the edit gate open only under a lease, with a heartbeat, and shut while an outcome is unknown; does a retry only repeat, and can a request given up on hurt another tenure? | 1 controller, 1 stray, 2 tenures, 4 ids and keys, ttl 3, 2 queued beats | 2.1 M |

Why these bounds are enough to be interesting: with two tenures an actor can
lose one and hold another, or two actors can hold one each in turn; a third
nonce lets one of them close or be retried in between. A ttl of three with a
margin of one leaves two units of belief, so a renewal can be sent before the
deadline, be answered before or after it, or not at all, and `RenewEvery` of
one makes the heartbeat act in between. One kept body and two receipts make
eviction, tombstones and the request limit happen within three requests. The
bounds are `MaxClaims`, `MaxNonces`, `MaxMinted`, `MaxAttempts`, `MaxBeats`, `MaxStrays`,
`MaxKeys` and `MaxFaults`, which only bound a behaviour, and `MaxReceipts`, `Kept`,
`MaxTries`, `Tries`, `Gates` and `Slots` of the code, made small. Two workspaces of a
worker let one be ready while another is prepared, and one gate makes its
successor wait for it. Two captures of two parts let one reuse, or race for, what
the other publishes; two faults let a file rot after a crash. Three ids are a
file's, and one that each of two starters generates.

The restricted relations of the MC modules leave out what another run covers:
`lease_contention` the ends of processes, pauses and looks, which `checkout_single`
has; the checkout runs the renewals a client asks for itself, which differ from
the heartbeat's only in who sends them; `checkout_single` also the background
sweeper, which expires what every transaction of the authority expires too;
`checkout_liveness` hosts that free the issue
themselves, and restarts; `worker_checkout` workspaces of the second tenure and
reopened issues; `forged_checkout` reopened issues and the sweeper. One actor suffices for the checkouts: a workspace of another
actor is touched by nobody but its owner and `checkout_archive`, which asks only
whether the issue is closed. A behaviour of `pi_controller` draws from one of two sets of calls
(`calls`), of which one leaves out abandoned requests, checkouts and `retryPending`, the other
hosts, the heartbeat and shutdown; between them they take every action. There is
one controller: the lease of
another would deny its claims as that of a forgotten attempt of its own does,
and that two principals never share an issue is `ExclusiveBelief` of
`lease_contention`. `forged_checkout` has one process for the same reason, and a
margin of zero since its ttl of two would otherwise be gone with the first tick.
Actors, request ids, captures, processes and ids are symmetric where a cfg says so.
The type invariants of the modules beside `SupervisedRuntime` state the shapes of
their variables for the reader; the cfgs list only what says more.
Deadlock is not checked where the system comes to rest: commands that ended send
nothing more (`requests_*`), captures run once (`snapshot_store`), and the process
ends (`forged_checkout`).

### Fairness

`checkout_liveness` (`Fairness` of `SupervisedCheckout`) assumes:

- weak fairness of the Kata and finish steps of a handler that holds a mutex:
  `dispatch` has a timeout of five seconds and then answers 5xx;
- weak fairness of what a goroutine does while it holds the mutex, and of
  writing its record;
- strong fairness of the end of capture and restore together with getting the
  mutex: both have a context of five minutes, and Go's mutexes hand over to
  waiters that starve;
- weak fairness of time and of the scan of the instances, and strong fairness of
  the tick's `TickLapsed` and `RetireActor`: `run` ticks every second, and a tick
  waits for the mutex of every actor. Renewals need no fairness: the property is
  that they stop.

`worker_checkout` assumes strong fairness of whoever is inside a gate and of every
job, for the same reasons. `forged_checkout` (`Fairness` of `CheckoutRuntime`) assumes
that time passes, that the command, the ticker and a handler whose answer is there
go on, that the daemon or the five seconds of `NewRuntime` end every request, and
strong fairness of `Beat` and `Shutdown`, which wait for the mutex against an agent
that may call for ever. The agent need not exit.

No client, host or process is assumed to do anything.

### Disagreements with the documentation

`lease_late_answer`: `execute` compares the *start* of a renewal with the
deadline, so an answer that arrives after the deadline still extends the tenure;
`docs/harness-adapters.md:222` says a late response cannot revive a locally
expired tenure. `LeaseCover` shows that the authority covers it all the same. The Pi
controller makes the same promise (`pi-extension/README.md:76`) and keeps it: it
checks the old deadline again before it sets the new one (`NoLateRevival` of
`pi_controller`).

`requests_second_attempt`: the doc comment of `claudeTool` promises that a retry
never starts a second execution attempt. A receipt left open by a 5xx is
executed from scratch when its next copy arrives; if a `retry` has resolved the
operation and the tenure was released meanwhile, the copy claims again.

`snapshot_returned` checks `ReturnedSurvives`: `docs/code-checkout.md:25`
says that the source may be deleted after publication and the snapshot remains
restorable. The first capture makes the store and what is missing above it with
`os.MkdirAll` (`snapshot.go:350`), and `syncDir(store)` flushes the entries of the store but
not its own name, so a loss of power may take the store with the snapshot that
was returned: that is what TLC shows. The property forbids a second case as well,
which TLC finds if the store is on disk from the start: a capture that finds its id
published returns it without a sync (`snapshot.go:426`) although the one that renamed
it may not have synced the store yet. What does hold, and is proved, is `PublishedSurvives`: in a store whose name
is on disk, what its own capture renamed, synced and returned stays.

## Proofs

`SupervisedRuntimeProofs` proves `Spec => []RuntimeInv` for every value of the
constants that satisfies `AuthorityAssumption` and `RuntimeAssumption` (distinct
"none" values, `InstanceOf` and `SessionOf` are functions, a margin between one
and the ttl, heartbeat periods no longer than the ttl). From it follow
`TypeOK`, `LeaseCover`, `ExclusiveBelief`, `ClosedWorkNotHeld` and
`RejectedCloseDidNothing`, the state properties of `lease_contention`.

None of these is inductive alone. A tenure is believed in because of an answer,
and the answer was backed by the authority when it was sent; so `RuntimeInv`
follows an answer through the steps of its handler:

- `TypeOK`, and `RowsOK`: rows not granted yet are free, and one issue has at
  most one unreleased row. This is what arbitration maintains.
- `TenureOK`: the row of a held tenure is held at least as long as the tenure or
  was released, its issue is open while it is live, its principal was drawn.
- `CallOK`: what an answer under way promises is backed in the same way. The
  span it carries minus the age of its request never exceeds what is left on the
  row (`Lasts`), so applying it gives `TenureOK`. A claim is backed from its
  acquire on, and on open work from its confirmation on. A rejected close has no
  receipt under its key.
- `PendingOK` and `Apart`: two actors never share a principal or a close key,
  since nonces are drawn once. Without this a renewal of one actor could extend
  the tenure of the other, and a close of one replay the receipt of the other.

`LeaseAuthorityProofs` has one lemma per transaction of the authority: what it
keeps of `RowsOK`, `Lasts`, `Backed` and `OnOpenWork`; the proofs about clients that
keep their own lease cite them too. The proof of
`InvariantIsInductive` has one step per action; each cites the lemma of its
transaction, and one for what it does to the actor.

The next part of `SupervisedRuntimeProofs` proves the rest of `lease_contention`. The mapping turns
rows into tenures, and an actor works under the tenure it believes in.
`TenureMoves` says what a handler may do to an actor's tenure and pending operation:
it never replaces one by another. So a handler maps to `StartWork`, to `Pass` (the
actor stops) or to nothing; a transaction of the authority maps to `Grant`, `Revoke` or
`Pass`; time and a restart map to `Pass`, where `BeliefOK` (from `RuntimeInv`) shows that
a tenure that is over has no worker left. `ClaimsFromNothing`, proved with it, says
that an actor that waits for a claim holds no tenure which the answer could
replace. `RuntimeKeepsPromise` is the implementation, `AttemptsAreStable` and
`ClosesLeaveOthersWork` are the action properties. The latter is about two actors: a close
that is delayed, repeated or retried finds the issue as hosts and another actor have
left it meanwhile. Its proof uses that the row of a tenure which is believed in is
unreleased unless a host released it (`BelievedRow`), that one issue has one such row, and
that actors share no principal (`Apart`); so the guard refuses the close.

Its last part proves `CheckoutSpec => []CheckoutInv` from the assumptions
of the runtime, `Slots` at least one and a `NoTarget` that is no workspace. The
properties of `checkout_single` are not inductive: a record is right because of
what the handler or the goroutine that wrote it knew. So `CheckoutInv` contains
`RuntimeInv` and says besides

- `HandlerOK`, `CloseOK`: a checkout under way is one of an actor with a tenure and
  nothing pending, a prompt has ended the pause, and the claim of a close is of
  the actor's own principal;
- `RecordOK`: a record is of a tenure that was granted, for the issue it names;
- `JobOK`, `OneAtATime`: a goroutine that looks or observes holds its owner's mutex,
  alone, and has found the tenure that its record is of; so what it writes at the end is
  true when it writes it, though it worked for minutes without a mutex.

`Moves` says what a step of the runtime about one actor does here: it writes records of
that actor only, as `markWorkspaces` does, leaves those usable that agree with the
tenure it leaves, and begins a close only while nothing of the tenure prepares.
`MovesInv` shows that such a step keeps `CheckoutInv`. `OneWorkspace` is the lemma for the
steps that write one record. `NoRevivedWorkspace` follows since no step but a
checkout makes a record "preparing", and only a preparation makes one ready.

`RequestReceiptsProofs` proves `Spec => []ReceiptsInv` from `ReceiptsAssumption`
(limits of at least one copy and one body, ids that are none of the heartbeat's
names), and from it the three properties of `requests_fenced`. `WritesOnce` needs
that a write never leaves its receipt open, so one without an answer was never
executed (`WritesOK`). `RetryTellsNewest` needs that what is pending is as new as
every confirmed answer, since a retry may confirm it for another request
(`NewestOK`), and that attempts are numbered as they begin (`AttemptsOK`).
`ExecuteAllOK` says what any command does to the pending operation, `RecordedOK` what
its answer does to the receipts; `HandleStep` combines them.

`WorkerCheckoutProofs` proves `Spec => []WorkerInv` from `AuthorityAssumption` and
`WorkerAssumption` (at least one gate and one slot, a `NoRequest` that is no request),
for any number of tenures, also where several have workspaces and issues are
reopened, which `worker_checkout` leaves out. Its parts:

- `TenureOK`, `EndOK`: each tenure is the only one of its principal and is live on open
  work only, so what is released or closed under a claim is that tenure; and whoever
  was told of an end, or has a receipt, is of a tenure that is over for good;
- `CallOK`: what a call has found while it holds its gate, and nobody changes: a
  checkout with the mutex is of a request without a record, a close past its mutex
  has no workspace preparing, or none at all if it took no mutex. Records are made
  only by a checkout that holds the gate, so this stays true until the call ends;
- `RecordOK`: a workspace about to be delivered is of a tenure whose holder was told of
  no end. `Retire` keeps this since it has the mutex that a delivery holds.

`CallStays` says which changes of records leave a call's findings true. `GateMoves`,
`RecordsMove` and `CreateKeeps` each cover the steps of one shape.

`ServerLifecycleProofs` proves `Spec => []LifecycleInv` from `LifecycleAssumption`
(`None` is no id), for any number of daemons. `OneWriter` needs that whoever is past
the lock has open the file that the name shows (`LockOK`): nobody removes it while
a daemon runs, so two holders would have locked one inode.
`OneIdentity` speaks of every directory in `lossy`, and holds because the identity
is synced before the database is made (`IdentityOK`). `TokenOK` and `KeyOK` carry a
token or key from its link to its use; `RecordsOK` follows the workspace store
through recovery, late handlers and the order of `Close`.

`SnapshotStoreProofs` proves `Spec => []SnapshotInv` from `SnapshotAssumption` (parts
and contents are numbers, `Missing` and `Altered` are no contents). `WasOneInstant`
rests on `Between`: while contents only grow, there is an instant between the two
scans whose source is, part by part, at least what the first scan saw and at
most what the second saw; if both saw the same, that instant's source is the
snapshot. `DirectoryOK` says that only durable files are published, which a loss
of power cannot take (`PublishedIsWhole`), and that what a capture published and returned
is linked. `PublishedSurvives`, an action property, follows where the store's name is on
disk: a capture that reuses a directory leaves it linked (`ReusePublishedOK`), and
a loss of power drops only entries that are not.

`PiControllerProofs` proves `Spec => []ControllerInv` from `AuthorityAssumption` and
`ControllerAssumption` (a margin, a heartbeat period and a retry delay between one and the
ttl), for any number of controllers, issues, attempts and abandoned requests; `pi_controller`
checks it with one controller. Its parts:

- `FieldsOK`, `Beating`: a gate is open only under a tenure and with no close unresolved,
  and then has a heartbeat scheduled or queued, but for the moment in which a
  renewal is under way;
- `Covered`, `AnswerOK`: the authority backs the tenure until its deadline, and backs a
  lease from the acquire or renewal to the end of the operation, for the time the answer
  grants less the age of its request. Applying the answer gives `Covered` back;
- `OperationOK`: while an answer is awaited the operation finds what it began with. A
  claim finds the attempt it retained; a renewal finds the tenure that it names, or none,
  though timers, `state()` and looks ran meanwhile;
- `RequestsOK`: a release or close that is still on its way, awaited or not, names a
  principal that is not that of a retained attempt, and the claim of the tenure if it is
  the tenure's. Attempt ids are drawn once, so a late request can end only the tenure
  it was sent for.

`Follows` says what the private methods may do to the fields: drop the tenure or move its
deadline earlier, retain and forget nothing, and leave an open gate its heartbeat. It is
transitive, so one lemma per method (`StoppedFollows`, `ScheduledFollows`,
`RefreshedFollows`, ...) covers every operation that composes them. `ClientInv` is the
step of one controller, `ServerInv` a transaction of the authority that writes one
request; every action is an instance of one of them, or time. `Moves` carries
`NoLateRevival` and `RetryBeginsNothing` through the same lemmas; for the second,
`RetainedRefusesAnew` shows from the types of what was captured that while that very request is
retained `Execute` cannot begin a claim, a close or a checkout. `LateSpares` shows
that a step that releases a row under a late request names another principal than the
sender's tenure. That tenure must have time left: a lapsed row is expired by whatever
transaction comes first.

`CheckoutRuntimeProofs` proves `Spec => []CommandInv` from `AuthorityAssumption` and
`RuntimeAssumption` (a margin and a heartbeat period of at most the ttl, at least one
sending), for any number of issues, tenures, keys and sendings. `DeadlineCover` and
`RegisteredInOrder`, which it contains, are not inductive without

- `AnswerOK`: the authority backs a lease from its acquire or renewal to the end of the
  request, for what its span leaves of the age of that request. `setLease` counts the
  deadline from when the request was sent, so applying an answer gives `DeadlineCover` back;
- `AwaitedOK`: a renewal under way is of the Runtime's own issue, and one that
  precedes a close has a key left to draw;
- `RequestOK`, of the awaited request and of the one given up but still under way:
  "ready" is sent only when "preparing" is in the history, and an answer that a
  registration succeeded means that it is there;
- `ProgressOK`: how far `runCheckout` is, the history is. So an agent is started only after both
  registrations, whichever sending of them was answered.

`ClientInv` and `FieldsInv` are the steps of the process, `SlotInv` a transaction of
the daemon for one of the two requests, `HistoryKeeps` says that a history that only grows
keeps what was posted, and `AdvanceInv` is time, which ages a request and runs down
deadline and rows together.

Only model-checked: the liveness properties `LostStopsAgent`, `LeavesNoLease`,
`PreparingIsDecided`, `ReadyFades`, `OverIssuesAreFreed` and `CallsEnd`. They need fairness
and ENABLED, which are beyond the prover. Every invariant and every action
property of a passing run is proved.

## What is not modelled

- Kata beyond one standalone project: federation, hard claims, events. The
  daemon serves one project and claims are timed.
- Content: titles, comments, evidence, revisions. A close may be refused for its
  content without effect, and that is all the runtime sees of it.
- Limits on instances, actors and records (256, 4096, 4096): they refuse
  newcomers. The limits on slots, receipts and bodies are modelled.
- When the last write of a record fails, `prepareWorkspace` leaves it `ready` in
  memory for the moment until `workspaceFailed` writes `failed` over it; both
  happen under the owner's mutex and are one step of the model.
- Credentials: a proof is the claim and the principal it names.
- `forged`'s tools that read or add (comments, links, the note of a failed
  checkout): they change no field of the runtimes and no lease. Their retries are
  in `RequestReceipts`.
- Git: objects, index flags and submodules are parts, and a digest is what it
  digests. The choice of a worktree root (`worktree_location.go`) is pure.
- A holder whose release committed without an answer is told "not held" when it
  repeats it, and its ready workspaces stay until the next restart. This is in the
  model, and the properties claim nothing there.
- The CLI's broker and the timeline: planned. Launchers, hooks, Pi's configuration
  and flag parsing keep no state of their own beyond a process.

## Plan

Done: the modules above, and proofs of all their safety properties. Next, in this
order:

1. `ClientSession`: the CLI's session broker and its private state.
2. `Timeline`: a reader paging against a log that grows.
