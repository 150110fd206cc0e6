--------------------------- MODULE ServerLifecycle ---------------------------
(***************************************************************************)
(* Start and end of `forged serve`: run and shutdown of cmd/forged/main.go, *)
(* New and Close of internal/forge/server.go, and the opening and closing   *)
(* of the workspace store (codex_checkout.go).                              *)
(*                                                                          *)
(* Several daemons may be started on one data directory.  A start passes    *)
(* through a dozen durable steps, an orderly end through half a dozen, and  *)
(* any of them may fail, be killed, run into the shutdown deadline or lose  *)
(* power.  HTTP handlers can outlive the listener: host.Close does not wait *)
(* for them.                                                                *)
(*                                                                          *)
(* Names appear in a directory at once and in order; they survive a loss of *)
(* power from the next fsync on, whatever file it is made for (a journalled *)
(* filesystem).  Every file but a record is written whole and synced under  *)
(* a temporary name first.  The two role tokens are made alike, and one     *)
(* stands for both.  Kata's store is the file and the project in it.        *)
(***************************************************************************)
EXTENDS Naturals, FiniteSets

CONSTANTS Processes,    \* runs of the daemon; one that has ended may run again
          Workspaces,
          Ids,          \* tokens, keys, project ULIDs, inodes of the lock file
          None          \* a file, or a project, that does not exist

ASSUME LifecycleAssumption == None \notin Ids

VARIABLES disk,         \* what the data directory shows
          lossy,        \* what it may show after a loss of power
          daemon,       \* process -> its step and what it holds in memory
          recs,         \* process -> the records of its workspace store
          unsaved,      \* process -> records whose last write failed
          jobs          \* process -> workspaces it is preparing

vars == <<disk, lossy, daemon, recs, unsaved, jobs>>

RecordState == {"none", "preparing", "ready", "orphaned", "failed", "archived",
                "archive_pending"}
NoRecords == [w \in Workspaces |-> "none"]

\* `db` is "empty" from the creation of kata.db to the commit of its project.
Disk == [token : Ids \cup {None}, lock : Ids \cup {None}, config : Ids \cup {None},
         db : Ids \cup {None, "empty"}, key : Ids \cup {None},
         record : [Workspaces -> RecordState]]

Starting == {"token", "link", "sync token", "reread", "open lock", "flock", "config",
             "rename config", "sync config", "create db", "project", "key", "link key",
             "sync key", "open store", "recover"}
Ending == {"cancel", "stop store", "wait jobs", "close store", "close kata", "unlock",
           "exit"}
Step == {"off", "serving", "drain"} \cup Starting \cup Ending

\* `fd` is the inode of the lock file it opened; `late`: handlers are still
\* running although the listener is closed.
Daemon == [step : Step, token : Ids \cup {None}, fd : Ids \cup {None},
           project : Ids \cup {None}, key : Ids \cup {None}, late : BOOLEAN]
NoDaemon == [step |-> "off", token |-> None, fd |-> None, project |-> None,
             key |-> None, late |-> FALSE]

\* Every variable has its declared shape, and a closed store has no jobs.
TypeOK ==
    /\ disk \in Disk
    /\ lossy \subseteq Disk /\ disk \in lossy
    /\ daemon \in [Processes -> Daemon]
    /\ recs \in [Processes -> [Workspaces -> RecordState]]
    /\ unsaved \in [Processes -> SUBSET Workspaces]
    /\ jobs \in [Processes -> SUBSET Workspaces]
    /\ \A p \in Processes :
          jobs[p] # {} => daemon[p].step \notin {"close store", "close kata", "unlock", "exit"}

EmptyDisk == [token |-> None, lock |-> None, config |-> None, db |-> None, key |-> None,
              record |-> NoRecords]

Init ==
    /\ disk = EmptyDisk
    /\ lossy = {EmptyDisk}
    /\ daemon = [p \in Processes |-> NoDaemon]
    /\ recs = [p \in Processes |-> NoRecords]
    /\ unsaved = [p \in Processes |-> {}]
    /\ jobs = [p \in Processes |-> {}]

-----------------------------------------------------------------------------
(* The data directory.                                                        *)

\* A name appears or is replaced; and after a sync it stays.
Shows(d) == disk' = d /\ lossy' = lossy \cup {d}
Keeps(d) == disk' = d /\ lossy' = {d}

\* Mutant: the generated secret is renamed into place.
PublishByRename(d, name, id) == [d EXCEPT ![name] = id]

\* os.Link does not replace what another starter published.
Publish(d, name, id) == IF d[name] = None THEN [d EXCEPT ![name] = id] ELSE d

\* Ids that neither the file nor any process has.
Fresh(name, field) ==
    {i \in Ids : /\ \A d \in lossy : d[name] # i
                 /\ \A p \in Processes : daemon[p][field] # i}

-----------------------------------------------------------------------------
(* The state of a daemon.                                                     *)

At(p, step) == daemon[p].step = step
Goes(p, step) == daemon' = [daemon EXCEPT ![p].step = step]

HasLock(p) == daemon[p].step \in
    {"config", "rename config", "sync config", "create db", "project", "key", "link key",
     "sync key", "open store", "recover", "serving", "drain"} \cup (Ending \ {"exit"})
KataOpen(p) == daemon[p].step \in
    {"project", "key", "link key", "sync key", "open store", "recover", "serving", "drain",
     "cancel", "stop store", "wait jobs", "close store", "close kata"}
StoreOpen(p) == daemon[p].step \in
    {"recover", "serving", "drain", "cancel", "stop store", "wait jobs", "close store"}
Stopped(p) == daemon[p].step \in {"wait jobs", "close store", "close kata", "unlock", "exit"}

-----------------------------------------------------------------------------
(* Start: loadRoleToken, then New.                                            *)

Start(p) ==
    /\ At(p, "off")
    /\ Goes(p, "token")
    /\ UNCHANGED <<disk, lossy, recs, unsaved, jobs>>

\* loadRoleToken takes no lock.
ReadToken(p) ==
    /\ At(p, "token")
    /\ IF disk.token # None
       THEN daemon' = [daemon EXCEPT ![p].token = disk.token, ![p].step = "open lock"]
       ELSE \E i \in Fresh("token", "token") :
                daemon' = [daemon EXCEPT ![p].token = i, ![p].step = "link"]
    /\ UNCHANGED <<disk, lossy, recs, unsaved, jobs>>

LinkToken(p) ==
    /\ At(p, "link")
    /\ Shows(Publish(disk, "token", daemon[p].token))
    /\ Goes(p, "sync token")
    /\ UNCHANGED <<recs, unsaved, jobs>>

SyncToken(p) ==
    /\ At(p, "sync token")
    /\ Keeps(disk)
    /\ Goes(p, "reread")
    /\ UNCHANGED <<recs, unsaved, jobs>>

RereadToken(p) ==
    /\ At(p, "reread")
    /\ daemon' = [daemon EXCEPT ![p].token = disk.token, ![p].step = "open lock"]
    /\ UNCHANGED <<disk, lossy, recs, unsaved, jobs>>

\* The lock is on the inode, whatever the name shows later.
OpenLock(p) ==
    /\ At(p, "open lock")
    /\ \E i \in IF disk.lock = None THEN Fresh("lock", "fd") ELSE {disk.lock} :
          /\ IF disk.lock = None THEN Shows([disk EXCEPT !.lock = i]) ELSE UNCHANGED <<disk, lossy>>
          /\ daemon' = [daemon EXCEPT ![p].fd = i, ![p].step = "flock"]
    /\ UNCHANGED <<recs, unsaved, jobs>>

\* ErrDataDirLocked ends the process.
Flock(p) ==
    /\ At(p, "flock")
    /\ daemon' = [daemon EXCEPT ![p] =
                     IF \E q \in Processes : HasLock(q) /\ daemon[q].fd = daemon[p].fd
                     THEN NoDaemon ELSE [@ EXCEPT !.step = "config"]]
    /\ UNCHANGED <<disk, lossy, recs, unsaved, jobs>>

\* Mutant: the identity is chosen in memory, and left to be saved some day.
ChosenUnsaved(d) == [d EXCEPT !.step = "create db"]

Chosen(d) == [d EXCEPT !.step = "rename config"]

\* loadProjectConfig: a new identity is refused beside existing storage.
LoadConfig(p) ==
    /\ At(p, "config")
    /\ IF disk.config # None
       THEN daemon' = [daemon EXCEPT ![p].project = disk.config, ![p].step = "create db"]
       ELSE IF disk.db # None THEN Goes(p, "unlock")
       ELSE \E i \in Fresh("config", "project") :
                daemon' = [daemon EXCEPT ![p] = Chosen([@ EXCEPT !.project = i])]
    /\ UNCHANGED <<disk, lossy, recs, unsaved, jobs>>

RenameConfig(p) ==
    /\ At(p, "rename config")
    /\ Shows([disk EXCEPT !.config = daemon[p].project])
    /\ Goes(p, "sync config")
    /\ UNCHANGED <<recs, unsaved, jobs>>

SyncConfig(p) ==
    /\ At(p, "sync config")
    /\ Keeps(disk)
    /\ Goes(p, "create db")
    /\ UNCHANGED <<recs, unsaved, jobs>>

CreateDb(p) ==
    /\ At(p, "create db")
    /\ IF disk.db = None THEN Shows([disk EXCEPT !.db = "empty"]) ELSE UNCHANGED <<disk, lossy>>
    /\ Goes(p, "project")
    /\ UNCHANGED <<recs, unsaved, jobs>>

\* EnsureProject: Kata commits the project, or refuses one under another ULID.
EnsureProject(p) ==
    /\ At(p, "project")
    /\ IF disk.db = "empty" THEN Shows([disk EXCEPT !.db = daemon[p].project])
                            ELSE UNCHANGED <<disk, lossy>>
    /\ Goes(p, IF disk.db \in {"empty", daemon[p].project} THEN "key" ELSE "close kata")
    /\ UNCHANGED <<recs, unsaved, jobs>>

\* loadExecutionSigner, which reads again what it has published.
LoadKey(p) ==
    /\ At(p, "key")
    /\ IF disk.key # None
       THEN daemon' = [daemon EXCEPT ![p].key = disk.key, ![p].step = "open store"]
       ELSE \E i \in Fresh("key", "key") :
                daemon' = [daemon EXCEPT ![p].key = i, ![p].step = "link key"]
    /\ UNCHANGED <<disk, lossy, recs, unsaved, jobs>>

LinkKey(p) ==
    /\ At(p, "link key")
    /\ Shows(Publish(disk, "key", daemon[p].key))
    /\ Goes(p, "sync key")
    /\ UNCHANGED <<recs, unsaved, jobs>>

SyncKey(p) ==
    /\ At(p, "sync key")
    /\ Keeps(disk)
    /\ Goes(p, "key")
    /\ UNCHANGED <<recs, unsaved, jobs>>

\* newWorkspaceStore: its lock, and what the records say.
OpenStore(p) ==
    /\ At(p, "open store")
    /\ IF \E q \in Processes : StoreOpen(q)
       THEN Goes(p, "close kata") /\ UNCHANGED recs
       ELSE Goes(p, "recover") /\ recs' = [recs EXCEPT ![p] = disk.record]
    /\ UNCHANGED <<disk, lossy, unsaved, jobs>>

\* ("paused" is "ready" for the store.)
Carried == {"preparing", "ready"}

\* Records of an earlier process are written one by one; then it serves.
Recover(p) ==
    /\ At(p, "recover")
    /\ \/ \E w \in Workspaces :
              /\ recs[p][w] \in Carried
              /\ recs' = [recs EXCEPT ![p][w] = "orphaned"]
              /\ Keeps([disk EXCEPT !.record[w] = "orphaned"])
              /\ UNCHANGED daemon
       \/ /\ \A w \in Workspaces : recs[p][w] \notin Carried
          /\ Goes(p, "serving")
          /\ UNCHANGED <<disk, lossy, recs>>
    /\ UNCHANGED <<unsaved, jobs>>

\* A step of New fails: the deferred calls close Kata and unlock.  The store,
\* opened last, only fails by what it reads or writes, and unlocks itself.
StartFails(p) ==
    /\ daemon[p].step \in Starting
    /\ IF KataOpen(p) THEN Goes(p, "close kata")
       ELSE IF HasLock(p) THEN Goes(p, "unlock")
       ELSE daemon' = [daemon EXCEPT ![p] = NoDaemon]
    /\ recs' = [recs EXCEPT ![p] = NoRecords]
    /\ UNCHANGED <<disk, lossy, unsaved, jobs>>

-----------------------------------------------------------------------------
(* The workspace store at work.                                               *)

\* A handler, or the tick of the runtime, is running.
Works(p) == At(p, "serving") \/ At(p, "drain") \/ At(p, "cancel") \/ daemon[p].late

\* Mutant: put writes whatever Close has done.
PutAlways(p) == TRUE

\* put refuses once the store is closed.
MayPut(p) == StoreOpen(p)

\* put: the record is saved; or the write fails, before or after the file has
\* its name, and the memory of the process says `unwritten`.
Put(p, w, written, unwritten) ==
    IF MayPut(p)
    THEN \/ /\ Keeps([disk EXCEPT !.record[w] = written])
            /\ recs' = [recs EXCEPT ![p][w] = written]
            /\ unsaved' = [unsaved EXCEPT ![p] = @ \ {w}]
         \/ /\ UNCHANGED <<disk, lossy>> \/ Shows([disk EXCEPT !.record[w] = written])
            /\ recs' = [recs EXCEPT ![p][w] = unwritten]
            /\ unsaved' = [unsaved EXCEPT ![p] = @ \cup {w}]
    ELSE UNCHANGED <<disk, lossy, recs, unsaved>>

\* Mutant: a checkout does not ask whether the store is stopping.
MayStartAlways(p) == TRUE

MayStart(p) == ~Stopped(p)

\* A checkout of a new workspace; without a record there is no job.
StartJob(p, w) ==
    /\ Works(p) /\ MayStart(p)
    /\ recs[p][w] = "none"
    /\ Put(p, w, "preparing", "failed")
    /\ jobs' = [jobs EXCEPT ![p] = IF recs'[p][w] = "preparing" THEN @ \cup {w} ELSE @]
    /\ UNCHANGED daemon

\* prepareWorkspace ends, at any time, and at last when its context does.
EndJob(p, w) ==
    /\ w \in jobs[p]
    /\ \E s \in {"ready", "orphaned", "failed"} :
           Put(p, w, s, IF s = "ready" THEN "failed" ELSE s)
    /\ jobs' = [jobs EXCEPT ![p] = @ \ {w}]
    /\ UNCHANGED daemon

\* markWorkspaces: the tenure of a ready workspace has ended.
Mark(p, w) ==
    /\ Works(p)
    /\ recs[p][w] = "ready"
    /\ Put(p, w, "orphaned", "orphaned")
    /\ UNCHANGED <<daemon, jobs>>

\* archiveWorkspaces and checkout_archive.
Archive(p, w) ==
    /\ Works(p)
    /\ recs[p][w] \notin {"none", "preparing", "archived"}
    /\ Put(p, w, "archived", "archive_pending")
    /\ UNCHANGED <<daemon, jobs>>

-----------------------------------------------------------------------------
(* End: shutdown of main.go, then Close.                                      *)

\* A signal, or the listener or Kata's background service has failed.
BeginShutdown(p) ==
    /\ At(p, "serving")
    /\ Goes(p, "drain")
    /\ UNCHANGED <<disk, lossy, recs, unsaved, jobs>>

\* The handlers have returned; or five seconds are over.
Drained(p) ==
    /\ At(p, "drain")
    /\ \E l \in BOOLEAN : daemon' = [daemon EXCEPT ![p].step = "cancel", ![p].late = l]
    /\ UNCHANGED <<disk, lossy, recs, unsaved, jobs>>

HandlersReturn(p) ==
    /\ daemon[p].late
    /\ daemon' = [daemon EXCEPT ![p].late = FALSE]
    /\ UNCHANGED <<disk, lossy, recs, unsaved, jobs>>

\* The tick and Kata's service have ended.
Waited(p) ==
    /\ At(p, "cancel")
    /\ Goes(p, "stop store")
    /\ UNCHANGED <<disk, lossy, recs, unsaved, jobs>>

StopStore(p) ==
    /\ At(p, "stop store")
    /\ Goes(p, "wait jobs")
    /\ UNCHANGED <<disk, lossy, recs, unsaved, jobs>>

JobsDone(p) == jobs[p] = {}

WaitJobs(p) ==
    /\ At(p, "wait jobs") /\ JobsDone(p)
    /\ Goes(p, "close store")
    /\ UNCHANGED <<disk, lossy, recs, unsaved, jobs>>

CloseStore(p) ==
    /\ At(p, "close store")
    /\ Goes(p, "close kata")
    /\ UNCHANGED <<disk, lossy, recs, unsaved, jobs>>

CloseKata(p) ==
    /\ At(p, "close kata")
    /\ Goes(p, "unlock")
    /\ UNCHANGED <<disk, lossy, recs, unsaved, jobs>>

\* Mutant: the lock file is removed when it is unlocked.
Removed(d) == [d EXCEPT !.lock = None]

\* "Never unlink the lock file: another process may already have opened it".
Unlocked(d) == d

Unlock(p) ==
    /\ At(p, "unlock")
    /\ Shows(Unlocked(disk))
    /\ Goes(p, "exit")
    /\ UNCHANGED <<recs, unsaved, jobs>>

\* What a process held ends with it.
Ended(p) ==
    /\ daemon' = [daemon EXCEPT ![p] = NoDaemon]
    /\ recs' = [recs EXCEPT ![p] = NoRecords]
    /\ unsaved' = [unsaved EXCEPT ![p] = {}]
    /\ jobs' = [jobs EXCEPT ![p] = {}]

\* It returns from main, is killed, or its shutdown takes longer than ten
\* seconds.
Exit(p) ==
    /\ ~At(p, "off")
    /\ Ended(p)
    /\ UNCHANGED <<disk, lossy>>

LosePower ==
    /\ \E d \in lossy : Keeps(d)
    /\ daemon' = [p \in Processes |-> NoDaemon]
    /\ recs' = [p \in Processes |-> NoRecords]
    /\ unsaved' = [p \in Processes |-> {}]
    /\ jobs' = [p \in Processes |-> {}]

-----------------------------------------------------------------------------
StartStep(p) ==
    \/ Start(p) \/ ReadToken(p) \/ LinkToken(p) \/ SyncToken(p) \/ RereadToken(p)
    \/ OpenLock(p) \/ Flock(p)
    \/ LoadConfig(p) \/ RenameConfig(p) \/ SyncConfig(p) \/ CreateDb(p) \/ EnsureProject(p)
    \/ LoadKey(p) \/ LinkKey(p) \/ SyncKey(p)
    \/ OpenStore(p) \/ Recover(p) \/ StartFails(p)

StoreStep(p) ==
    \E w \in Workspaces : StartJob(p, w) \/ EndJob(p, w) \/ Mark(p, w) \/ Archive(p, w)

EndStep(p) ==
    \/ BeginShutdown(p) \/ Drained(p) \/ HandlersReturn(p) \/ Waited(p)
    \/ StopStore(p) \/ WaitJobs(p) \/ CloseStore(p) \/ CloseKata(p) \/ Unlock(p) \/ Exit(p)

Next ==
    \/ \E p \in Processes : StartStep(p) \/ StoreStep(p) \/ EndStep(p)
    \/ LosePower

Spec == Init /\ [][Next]_vars

-----------------------------------------------------------------------------
(* Properties.                                                               *)

\* OneWriter.  One process at most has Kata's store or the workspace store
\* open, although the lock file is created by whoever comes first, opened and
\* locked in two steps, and released by processes that die anywhere (server.go
\* New, Close): "Forge holds exclusive local authority for the lifetime of Run".
OneWriter ==
    \A p, q \in Processes :
        (KataOpen(p) /\ (KataOpen(q) \/ StoreOpen(q))) => p = q

\* OneIdentity.  Whatever the directory shows or may show after a loss of
\* power, storage never exists without the identity it was or will be made
\* under; so no start is refused for want of it, and none mints a second one:
\* "a crash during Kata bootstrap must retry the same ULID, never generate a
\* conflicting one", server.go:387-388.
OneIdentity ==
    \A d \in lossy : d.db # None => d.config # None /\ d.db \in {"empty", d.config}

\* SecretsAgree.  A daemon that goes for the lock or serves has the token that
\* clients find in the directory, even if two starters generated one at the
\* same time; and it signs with the key a successor will find (main.go
\* loadRoleToken, execution_key.go).
SecretsAgree ==
    \A p \in Processes :
        /\ daemon[p].step \in Step \ {"off", "token", "link", "sync token", "reread"}
              => daemon[p].token = disk.token
        /\ StoreOpen(p) => daemon[p].key = disk.key

\* MemoryIsDisk.  While a daemon has the workspace store open, its records are
\* what a successor would read, except those whose write failed: no handler of
\* a process that closed its store writes under the one that opened it next.
MemoryIsDisk ==
    \A p \in Processes, w \in Workspaces :
        (StoreOpen(p) /\ w \notin unsaved[p]) => disk.record[w] = recs[p][w]

\* PreparingIsOwn.  What a serving daemon shows as preparing, it prepares
\* itself, although an earlier process was killed in the middle of it or its
\* recovery failed half way; and a store that was closed in order leaves none
\* preparing, although late handlers still ask for more.
PreparingIsOwn ==
    \A p \in Processes, w \in Workspaces :
        /\ (StoreOpen(p) /\ ~At(p, "recover")) => (recs[p][w] = "preparing" <=> w \in jobs[p])
        /\ daemon[p].step \in {"close store", "close kata", "unlock"} => recs[p][w] # "preparing"

-----------------------------------------------------------------------------
(* The inductive invariant behind the properties above.                      *)

BeforeLock == {"off", "token", "link", "sync token", "reread", "open lock"}
BeforeStore == {"off"} \cup (Starting \ {"recover"})

\* Whoever got as far as the lock has opened the file the name shows.
LockOK(p) ==
    daemon[p].step \notin BeforeLock => disk.lock # None /\ daemon[p].fd = disk.lock

TokenOK(p) ==
    /\ At(p, "link") => daemon[p].token # None
    /\ daemon[p].step \in {"sync token", "reread"} => disk.token # None
    /\ daemon[p].step \notin {"off", "token", "link", "sync token", "reread"}
          => disk.token # None /\ daemon[p].token = disk.token

KeyOK(p) ==
    /\ At(p, "link key") => daemon[p].key # None
    /\ At(p, "open store") \/ StoreOpen(p) => disk.key # None /\ daemon[p].key = disk.key

\* An identity is new only where there is no storage yet, and is there before it.
IdentityOK(p) ==
    /\ At(p, "rename config")
          => disk.config = None /\ disk.db = None /\ daemon[p].project # None
    /\ daemon[p].step \in {"sync config", "create db", "project"}
          => disk.config # None /\ daemon[p].project = disk.config

RecordsOK(p) ==
    /\ daemon[p].step \in BeforeStore => recs[p] = NoRecords
    /\ daemon[p].late => daemon[p].step \in Ending
    /\ jobs[p] # {} => daemon[p].step \in {"serving", "drain", "cancel", "stop store", "wait jobs"}
    /\ \A w \in Workspaces :
          /\ StoreOpen(p) /\ w \notin unsaved[p] => disk.record[w] = recs[p][w]
          /\ StoreOpen(p) /\ ~At(p, "recover") => (recs[p][w] = "preparing" <=> w \in jobs[p])
          /\ daemon[p].step \in {"close store", "close kata", "unlock"} => recs[p][w] # "preparing"

ProcessOK(p) == LockOK(p) /\ TokenOK(p) /\ KeyOK(p) /\ IdentityOK(p) /\ RecordsOK(p)

OneHolder == \A p, q \in Processes : HasLock(p) /\ HasLock(q) => p = q

LifecycleInv ==
    TypeOK /\ OneIdentity /\ OneHolder /\ \A p \in Processes : ProcessOK(p)
=============================================================================
