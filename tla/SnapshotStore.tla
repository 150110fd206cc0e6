---------------------------- MODULE SnapshotStore ----------------------------
(***************************************************************************)
(* Snapshots of a source repository: Capture, Load and Restore of           *)
(* internal/checkout/snapshot.go and submodule.go.                          *)
(*                                                                          *)
(* A capture cannot stop the source's writers.  It reads everything twice,  *)
(* part by part, with the packing of Git objects in between, and publishes  *)
(* a directory named by the digest of what it read if both scans agree.     *)
(* A restore loads a published directory and rebuilds the working copy in a *)
(* new place.  Captures, restores and writers interleave; the process or    *)
(* the power may fail at any step, and bytes on disk may rot.               *)
(*                                                                          *)
(* A part is what a scan reads at once: the base commit, an index entry, a  *)
(* working file, a clean submodule.  For a capture by commit the base is    *)
(* the only part, since the objects it names never change.  Digests do not  *)
(* collide, so a snapshot's id is what its manifest says.  The store's       *)
(* place, the bounds on sizes and the forms that are refused (index flags,   *)
(* credentials, nested submodules) end a capture like any other failure.    *)
(*                                                                          *)
(* A submodule is verified as one part: its bytes are compared, but names    *)
(* in it that the target merges, and whose bytes are equal, are not told     *)
(* apart, since the name check covers the superproject's files only.         *)
(***************************************************************************)
EXTENDS Naturals

CONSTANTS Parts,        \* 1 .. n: what a scan reads of the source, in this order
          Contents,     \* numbers that stand for the content of a part
          Captures,     \* captures, each run once
          Places,       \* destinations of restores, each used once
          Missing,      \* a part not read, or not written, yet
          Altered,      \* a part the target filesystem does not keep as it is
          MaxFaults     \* bound on crashes, power losses and rotten files

ASSUME SnapshotAssumption ==
    /\ Parts \subseteq Nat
    /\ Contents \subseteq Nat /\ 0 \in Contents
    /\ Missing # Altered /\ Missing \notin Contents /\ Altered \notin Contents
    /\ MaxFaults \in Nat

VARIABLES source,       \* part -> its content now
          past,         \* history: every state the source has been in
          undone,       \* history: a writer brought back an earlier content
          capture,      \* capture -> its step, its scans, its private directory
          home,         \* the name of the store's own directory
          store,        \* manifest -> the published directory of that id
          restore,      \* place -> the restore into it
          faults        \* how many faults have struck

vars == <<source, past, undone, capture, home, store, restore, faults>>

Manifest == [Parts -> Contents]
Scan == [Parts -> Contents \cup {Missing}]
NoScan == [p \in Parts |-> Missing]

\* A file is "cached" once written, "flushed" when its data is on disk and
\* "durable" when its name is, too; "torn" by a power loss, "rotten" by age.
FileState == {"absent", "cached", "flushed", "durable", "torn", "rotten"}
Files == [manifest : FileState, bundle : FileState]
NoFiles == [manifest |-> "absent", bundle |-> "absent"]

\* The name of the store, and of whatever above it had to be made: on disk
\* ("durable") or made and not on disk yet ("cached").
NameState == {"absent", "cached", "durable"}

\* `linked`: the entry in the store is on disk; `kept`: the capture that
\* published it has returned; `found`: one that found it there has.
Directory == [files : Files, linked : BOOLEAN, kept : BOOLEAN, found : BOOLEAN]
NoDirectory == [files |-> NoFiles, linked |-> FALSE, kept |-> FALSE, found |-> FALSE]

Capture == [step : {"idle", "scan", "rescan", "publish", "rename", "sync", "over"},
            first : Scan, second : Scan, files : Files]
NoCapture == [step |-> "idle", first |-> NoScan, second |-> NoScan, files |-> NoFiles]
Over == [NoCapture EXCEPT !.step = "over"]

Restore == [step : {"none", "fetch", "write", "done", "partial"},
            id : Scan, todo : SUBSET Parts,
            tree : [Parts -> Contents \cup {Missing, Altered}]]
NoRestore == [step |-> "none", id |-> NoScan, todo |-> {}, tree |-> NoScan]

\* Every variable has its declared shape, and what is published is a whole scan.
TypeOK ==
    /\ source \in Manifest
    /\ past \subseteq Manifest
    /\ undone \in BOOLEAN
    /\ capture \in [Captures -> Capture]
    /\ \A c \in Captures :
          capture[c].step \in {"publish", "rename", "sync"} => capture[c].first \in Manifest
    /\ home \in NameState
    /\ store \in [Manifest -> Directory]
    /\ restore \in [Places -> Restore]
    /\ faults \in 0 .. MaxFaults

\* The store was made long ago, or the first capture will make it.
Init ==
    /\ source = [p \in Parts |-> 0]
    /\ past = {source}
    /\ undone = FALSE
    /\ capture = [c \in Captures |-> NoCapture]
    /\ home \in {"absent", "durable"}
    /\ store = [m \in Manifest |-> NoDirectory]
    /\ restore = [r \in Places |-> NoRestore]
    /\ faults = 0

-----------------------------------------------------------------------------
(* The source's writers.  Contents are numbered so that new content has a     *)
(* higher number than what the part held before.  They stop after the first   *)
(* one that brings back a lower one: a bound, nothing is claimed after that.  *)

Write(p) ==
    /\ ~undone
    /\ \E v \in Contents \ {source[p]} :
          /\ source' = [source EXCEPT ![p] = v]
          /\ undone' = (undone \/ v < source[p])
    /\ past' = past \cup {source'}
    /\ UNCHANGED <<capture, home, store, restore, faults>>

-----------------------------------------------------------------------------
(* Capture.                                                                  *)

IsWhole(s) == \A p \in Parts : s[p] # Missing
At(c, step) == capture[c].step = step
Published(m) == store[m] # NoDirectory

SetCapture(c, k) ==
    /\ capture' = [capture EXCEPT ![c] = k]
    /\ UNCHANGED <<source, past, undone, restore, faults>>

\* MkdirAll makes the store and what is missing above it.  Nothing syncs the
\* directory that these names are in.
StartCapture(c) ==
    /\ At(c, "idle")
    /\ SetCapture(c, [NoCapture EXCEPT !.step = "scan"])
    /\ home' = IF home = "absent" THEN "cached" ELSE home
    /\ UNCHANGED store

IsNext(p, s) == s[p] = Missing /\ \A q \in Parts : q < p => s[q] # Missing

ReadPart(c, p) ==
    /\ At(c, "scan") /\ IsNext(p, capture[c].first)
    /\ SetCapture(c, [capture[c] EXCEPT !.first[p] = source[p]])
    /\ UNCHANGED <<home, store>>

\* The objects are fetched and bundled; the digests of the bundles go into
\* the manifest.
Pack(c) ==
    /\ At(c, "scan") /\ IsWhole(capture[c].first)
    /\ SetCapture(c, [capture[c] EXCEPT !.step = "rescan", !.files.bundle = "cached"])
    /\ UNCHANGED <<home, store>>

RereadPart(c, p) ==
    /\ At(c, "rescan") /\ IsNext(p, capture[c].second)
    /\ SetCapture(c, [capture[c] EXCEPT !.second[p] = source[p]])
    /\ UNCHANGED <<home, store>>

\* Mutant: only the number of parts is compared.
ScansAgreeInSize(k) == \A p \in Parts : k.second[p] # Missing

ScansAgree(k) == k.second = k.first

\* Mutant: the bundle that Git wrote is not written and flushed again.
FlushedManifestOnly(f) == [f EXCEPT !.manifest = "flushed"]

FlushedFiles(f) == [manifest |-> "flushed", bundle |-> "flushed"]

\* Both scans agree: manifest and bundles are written and flushed.
Compare(c) ==
    /\ At(c, "rescan") /\ IsWhole(capture[c].second)
    /\ ScansAgree(capture[c])
    /\ SetCapture(c, [capture[c] EXCEPT !.step = "publish", !.second = NoScan,
                                        !.files = FlushedFiles(@)])
    /\ UNCHANGED <<home, store>>

Good == {"cached", "flushed", "durable"}

\* Load: every artifact is there and has the digest that names it.
Loads(m) == store[m].files.manifest \in Good /\ store[m].files.bundle \in Good

\* The id exists already and loads: it is what Capture returns, and it syncs
\* nothing.
ReusePublished(c) ==
    /\ At(c, "publish")
    /\ Loads(capture[c].first)
    /\ store' = [store EXCEPT ![capture[c].first].found = TRUE]
    /\ SetCapture(c, Over)
    /\ UNCHANGED home

\* The id does not exist: syncDir of the private directory, which flushes the
\* names in it.
SyncNames(c) ==
    /\ At(c, "publish")
    /\ ~Published(capture[c].first)
    /\ SetCapture(c, [capture[c] EXCEPT
          !.step = "rename",
          !.files = [f \in DOMAIN @ |-> IF @[f] = "flushed" THEN "durable" ELSE @[f]]])
    /\ UNCHANGED <<home, store>>

\* The rename; onto a directory that appeared meanwhile it fails.
Rename(c) ==
    /\ At(c, "rename")
    /\ ~Published(capture[c].first)
    /\ store' = [store EXCEPT ![capture[c].first] =
                    [NoDirectory EXCEPT !.files = capture[c].files]]
    /\ SetCapture(c, [capture[c] EXCEPT !.step = "sync", !.files = NoFiles])
    /\ UNCHANGED home

\* Mutant: the entry of the new snapshot is not flushed.
ReturnUnsynced(c) ==
    /\ At(c, "sync")
    /\ store' = [store EXCEPT ![capture[c].first].kept = TRUE]
    /\ SetCapture(c, Over)
    /\ UNCHANGED home

\* syncDir of the store flushes all its entries, though not its own name, and
\* Capture returns.
SyncStore(c) ==
    /\ At(c, "sync")
    /\ store' = [m \in Manifest |->
                    IF Published(m)
                    THEN [store[m] EXCEPT !.linked = TRUE,
                                          !.kept = @ \/ m = capture[c].first]
                    ELSE store[m]]
    /\ SetCapture(c, Over)
    /\ UNCHANGED home

\* A refused source, a failed command, a timeout, scans that differ, or an id
\* that cannot be used: the private directory is removed.
FailCapture(c) ==
    /\ capture[c].step \notin {"idle", "over"}
    /\ SetCapture(c, Over)
    /\ UNCHANGED <<home, store>>

-----------------------------------------------------------------------------
(* Restore.                                                                  *)

SetRestore(r, k) ==
    /\ restore' = [restore EXCEPT ![r] = k]
    /\ UNCHANGED <<source, past, undone, capture, home, store, faults>>

\* Load, then the new directory; an existing one is never entered again.
StartRestore(r, m) ==
    /\ restore[r].step = "none"
    /\ Loads(m)
    /\ SetRestore(r, [NoRestore EXCEPT !.step = "fetch", !.id = m, !.todo = Parts])

\* Git reads the bundles again; their commits must be those of the manifest.
FetchBundles(r) ==
    /\ restore[r].step = "fetch"
    /\ store[restore[r].id].files.bundle \in Good
    /\ SetRestore(r, [restore[r] EXCEPT !.step = "write"])

\* The bytes come from the manifest as it was loaded.  The filesystem may
\* alter a part, or take its name for that of a part written before.
WritePart(r, p) ==
    /\ restore[r].step = "write" /\ p \in restore[r].todo
    /\ \A q \in restore[r].todo : p <= q
    /\ LET k == [restore[r] EXCEPT !.todo = @ \ {p}] IN
       \/ \E v \in {k.id[p], Altered} : SetRestore(r, [k EXCEPT !.tree[p] = v])
       \/ \E q \in Parts \ {p} :
             k.tree[q] # Missing /\ SetRestore(r, [k EXCEPT !.tree[q] = k.id[p]])

\* Every name is there, and a scan of the new working copy equals the manifest.
IsVerified(k) == k.tree = k.id

FinishRestore(r) ==
    /\ restore[r].step = "write" /\ restore[r].todo = {}
    /\ IsVerified(restore[r])
    /\ SetRestore(r, [NoRestore EXCEPT !.step = "done", !.tree = restore[r].tree])

\* What was written stays for inspection, and is never returned.
FailRestore(r) ==
    /\ restore[r].step \in {"fetch", "write"}
    /\ SetRestore(r, [NoRestore EXCEPT !.step = "partial"])

-----------------------------------------------------------------------------
(* Failures.  A restart knows nothing of the captures and restores that ran;  *)
(* working copies that were returned are orphaned by SupervisedCheckout.     *)

Fault == faults < MaxFaults /\ faults' = faults + 1

Restarted ==
    /\ Fault
    /\ capture' = [c \in Captures |-> IF At(c, "idle") THEN NoCapture ELSE Over]
    /\ restore' = [r \in Places |->
          IF restore[r] = NoRestore THEN NoRestore
          ELSE [NoRestore EXCEPT !.step = "partial"]]
    /\ UNCHANGED <<source, past, undone>>

Crash == Restarted /\ UNCHANGED <<home, store>>

\* What a file in the store may be after the power was lost.
AfterPowerLoss(f) ==
    CASE f = "cached" -> {"durable", "torn", "absent"}
      [] f = "flushed" -> {"durable", "absent"}
      [] OTHER -> {f}

\* The store's name is on disk: each entry that was not linked is lost or not.
EntriesLost ==
    LET there == {m \in Manifest : Published(m)}
        outcomes == [m \in there |->
            [manifest : AfterPowerLoss(store[m].files.manifest),
             bundle : AfterPowerLoss(store[m].files.bundle)]]
    IN \E lost \in SUBSET {m \in there : ~store[m].linked},
          after \in [there -> UNION {outcomes[m] : m \in there}] :
          /\ \A m \in there : after[m] \in outcomes[m]
          /\ store' = [m \in Manifest |->
                IF m \in there \ lost
                THEN [store[m] EXCEPT !.files = after[m], !.linked = TRUE]
                ELSE NoDirectory]

\* A store whose name was not on disk may be gone, whatever was synced in it.
StoreLost ==
    /\ home = "cached" /\ home' = "absent"
    /\ store' = [m \in Manifest |-> NoDirectory]

StoreStays ==
    /\ home' = IF home = "cached" THEN "durable" ELSE home
    /\ EntriesLost

PowerLoss == Restarted /\ (StoreLost \/ StoreStays)

\* A byte of a published artifact changes.
Rot(m, f) ==
    /\ Fault
    /\ Published(m) /\ store[m].files[f] # "rotten"
    /\ store' = [store EXCEPT ![m].files[f] = "rotten"]
    /\ UNCHANGED <<source, past, undone, capture, home, restore>>

-----------------------------------------------------------------------------
CaptureStep(c) ==
    \/ StartCapture(c) \/ Pack(c) \/ Compare(c) \/ ReusePublished(c) \/ SyncNames(c)
    \/ Rename(c) \/ SyncStore(c) \/ FailCapture(c)
    \/ \E p \in Parts : ReadPart(c, p) \/ RereadPart(c, p)

RestoreStep(r) ==
    \/ \E m \in Manifest : StartRestore(r, m)
    \/ FetchBundles(r) \/ FinishRestore(r) \/ FailRestore(r)
    \/ \E p \in Parts : WritePart(r, p)

Next ==
    \/ \E p \in Parts : Write(p)
    \/ \E c \in Captures : CaptureStep(c)
    \/ \E r \in Places : RestoreStep(r)
    \/ Crash \/ PowerLoss
    \/ \E m \in Manifest, f \in {"manifest", "bundle"} : Rot(m, f)

Spec == Init /\ [][Next]_vars

-----------------------------------------------------------------------------
(* Properties.                                                               *)

\* WasOneInstant.  What two equal scans saw, the source was in at one single
\* instant, however its writers ran; unless one of them brought back bytes a
\* part had held before, which is why the comment of Capture does not call a
\* snapshot atomic (snapshot.go:310-311).  End to end: so is a working copy that
\* Restore returned, whatever rotted in the store and whatever the target
\* filesystem does to names and modes.
WasOneInstant ==
    /\ \A m \in Manifest : Published(m) => m \in past \/ undone
    /\ \A r \in Places : restore[r].step = "done" => restore[r].tree \in past \/ undone

\* PublishedIsWhole.  No crash and no power loss, at any step of any capture,
\* leaves a published snapshot with a file missing or half written: "Snapshot
\* files are flushed before atomic publication", docs/code-checkout.md:33.
PublishedIsWhole ==
    \A m \in Manifest : Published(m) =>
        \A f \in {"manifest", "bundle"} : store[m].files[f] \in Good \cup {"rotten"}

\* PublishedSurvives.  In a store whose own name is on disk, a snapshot that
\* its capture published and returned survives every later crash and power
\* loss, whatever other captures do.  Less than ReturnedSurvives on purpose.
PublishedSurvives ==
    [][home = "durable" => \A m \in Manifest : store[m].kept => store'[m].kept]_vars

\* ReturnedSurvives.  "The source repository may be deleted after publication;
\* the snapshot remains restorable", docs/code-checkout.md:25-26: so says the
\* document of every snapshot that Capture returned, also of one in a store
\* that it made or one that it found published.  The code does not keep this.
ReturnedSurvives ==
    [][\A m \in Manifest : store[m].kept \/ store[m].found => Published(m)']_vars

-----------------------------------------------------------------------------
(* The inductive invariant behind the properties above.                      *)

\* While its contents only grow, the source is, when the objects are packed,
\* between what the first scan saw and what the second will see.
Between(k) ==
    /\ k.step = "scan" => \A p \in Parts : k.first[p] # Missing => k.first[p] <= source[p]
    /\ k.step = "rescan" =>
          \E m \in past : \A p \in Parts :
              k.first[p] <= m[p] /\ (k.second[p] # Missing => m[p] <= k.second[p])
    /\ k.step \in {"publish", "rename", "sync"} => k.first \in past

CaptureOK(k) ==
    /\ k.step = "scan" => k.second = NoScan
    /\ k.step = "rescan" => k.first \in Manifest
    /\ k.step = "publish" => k.files = FlushedFiles(NoFiles)
    /\ k.step = "rename" => k.files = [manifest |-> "durable", bundle |-> "durable"]
    /\ undone \/ Between(k)

\* Only durable files are published, and only what is linked has been returned.
DirectoryOK(m) ==
    /\ store[m].kept => store[m].linked
    /\ Published(m) => /\ store[m].files \in [manifest : {"durable", "rotten"},
                                              bundle : {"durable", "rotten"}]
                       /\ m \in past \/ undone

RestoreOK(k) ==
    /\ k.step \in {"fetch", "write"} => k.id \in past \/ undone
    /\ k.step = "done" => k.tree \in past \/ undone

Grows == \A m \in past, p \in Parts : m[p] <= source[p]

SnapshotInv ==
    /\ TypeOK
    /\ source \in past /\ (undone \/ Grows)
    /\ \A c \in Captures : CaptureOK(capture[c])
    /\ \A m \in Manifest : DirectoryOK(m)
    /\ \A r \in Places : RestoreOK(restore[r])
=============================================================================
