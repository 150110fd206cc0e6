------------------------ MODULE ServerLifecycleProofs ------------------------
(***************************************************************************)
(* Theorems about the start and end of `forged serve`, for any processes,   *)
(* workspaces and ids.                                                       *)
(***************************************************************************)
EXTENDS ServerLifecycle, TLAPS

-----------------------------------------------------------------------------
(* What a step of one process leaves of the others.                          *)

\* The daemons of the other processes stay as they are.
OnlyDaemon(p) ==
    /\ daemon' \in [Processes -> Daemon]
    /\ \A q \in Processes \ {p} : daemon'[q] = daemon[q]

\* So do their stores.
OnlyStore(p) ==
    /\ recs' \in [Processes -> [Workspaces -> RecordState]]
    /\ unsaved' \in [Processes -> SUBSET Workspaces]
    /\ jobs' \in [Processes -> SUBSET Workspaces]
    /\ \A q \in Processes \ {p} :
          recs'[q] = recs[q] /\ unsaved'[q] = unsaved[q] /\ jobs'[q] = jobs[q]

\* What is on disk stays, unless p holds the lock; a token, a key and a lock
\* file that are there stay in any case.
DiskKept(p) ==
    /\ disk' \in Disk /\ lossy' \subseteq Disk /\ disk' \in lossy'
    /\ disk.lock # None => disk'.lock = disk.lock
    /\ disk.token # None => disk'.token = disk.token
    /\ disk.key # None => disk'.key = disk.key
    /\ \/ disk'.config = disk.config /\ disk'.db = disk.db /\ disk'.record = disk.record
       \/ HasLock(p)

\* The step of p takes the lock only when it is free.
LockKept(p) == HasLock(p)' => HasLock(p) \/ \A q \in Processes : ~HasLock(q)

\* What is open is open under the lock.
LEMMA OpenUnderLock ==
    \A p \in Processes : /\ StoreOpen(p) => KataOpen(p)
                         /\ KataOpen(p) => HasLock(p)
  BY DEF StoreOpen, KataOpen, HasLock, Ending

\* Another process is not disturbed.
LEMMA OthersOK ==
    ASSUME LifecycleInv, NEW p \in Processes, NEW q \in Processes \ {p},
           OnlyDaemon(p), OnlyStore(p), DiskKept(p)
    PROVE  ProcessOK(q)'
  <1>1. /\ daemon'[q] = daemon[q] /\ recs'[q] = recs[q] /\ unsaved'[q] = unsaved[q]
        /\ jobs'[q] = jobs[q] /\ ProcessOK(q)
    BY DEF OnlyDaemon, OnlyStore, LifecycleInv
  <1>2. LockOK(q)' /\ TokenOK(q)'
    BY <1>1 DEF ProcessOK, LockOK, TokenOK, DiskKept, At
  <1>3. KeyOK(q)'
    BY <1>1 DEF ProcessOK, KeyOK, DiskKept, At, StoreOpen
  <1>4. HasLock(q) => disk'.config = disk.config /\ disk'.db = disk.db /\ disk'.record = disk.record
    BY DEF DiskKept, LifecycleInv, OneHolder
  <1>5. IdentityOK(q)'
    BY <1>1, <1>4 DEF ProcessOK, IdentityOK, At, HasLock
  <1>6. RecordsOK(q)'
    BY <1>1, <1>4, OpenUnderLock DEF ProcessOK, RecordsOK, At, StoreOpen
  <1> QED BY <1>2, <1>3, <1>5, <1>6 DEF ProcessOK

\* A step of p keeps the invariant if it does for p and for the identity.
LEMMA StepOK ==
    ASSUME LifecycleInv, NEW p \in Processes,
           OnlyDaemon(p), OnlyStore(p), DiskKept(p), LockKept(p),
           OneIdentity', ProcessOK(p)'
    PROVE  LifecycleInv'
  <1>1. \A q \in Processes : ProcessOK(q)'
    BY OthersOK
  <1>2. TypeOK'
    <2>1. \A q \in Processes :
            jobs'[q] # {} => daemon'[q].step \notin {"close store", "close kata", "unlock", "exit"}
      BY <1>1 DEF ProcessOK, RecordsOK
    <2> QED BY <2>1 DEF TypeOK, OnlyDaemon, OnlyStore, DiskKept
  <1>3. OneHolder'
    <2>1. \A q \in Processes \ {p} : HasLock(q)' <=> HasLock(q)
      BY DEF OnlyDaemon, HasLock
    <2> QED BY <2>1 DEF LifecycleInv, OneHolder, LockKept
  <1> QED BY <1>1, <1>2, <1>3 DEF LifecycleInv

\* The types of one process.
LEMMA ProcessTypes ==
    ASSUME LifecycleInv, NEW p \in Processes
    PROVE  /\ daemon[p] \in Daemon /\ ProcessOK(p)
           /\ disk \in Disk /\ lossy \subseteq Disk /\ disk \in lossy
           /\ recs[p] \in [Workspaces -> RecordState] /\ unsaved[p] \subseteq Workspaces
           /\ jobs[p] \subseteq Workspaces
  BY DEF LifecycleInv, TypeOK

\* p goes to the next step.
LEMMA GoesOK ==
    ASSUME LifecycleInv, NEW p \in Processes, NEW s \in Step, Goes(p, s)
    PROVE  /\ OnlyDaemon(p)
           /\ daemon'[p].step = s /\ daemon'[p].token = daemon[p].token
           /\ daemon'[p].fd = daemon[p].fd /\ daemon'[p].project = daemon[p].project
           /\ daemon'[p].key = daemon[p].key /\ daemon'[p].late = daemon[p].late
  <1>1. daemon \in [Processes -> Daemon]
    BY DEF LifecycleInv, TypeOK
  <1>2. daemon' = [daemon EXCEPT ![p] = [daemon[p] EXCEPT !.step = s]]
    BY <1>1 DEF Goes
  <1>3. [daemon[p] EXCEPT !.step = s] \in Daemon
    BY <1>1 DEF Daemon
  <1>4. daemon'[p] = [daemon[p] EXCEPT !.step = s]
    BY <1>1, <1>2
  <1> QED BY <1>1, <1>2, <1>3, <1>4 DEF OnlyDaemon, Daemon

\* p's daemon becomes d.
LEMMA BecomesOK ==
    ASSUME LifecycleInv, NEW p \in Processes, NEW d \in Daemon,
           daemon' = [daemon EXCEPT ![p] = d]
    PROVE  OnlyDaemon(p) /\ daemon'[p] = d
  BY DEF LifecycleInv, TypeOK, OnlyDaemon

\* A step that leaves the disk and the stores alone.
LEMMA QuietOK ==
    ASSUME LifecycleInv, NEW p \in Processes, OnlyDaemon(p), LockKept(p), ProcessOK(p)',
           UNCHANGED <<disk, lossy, recs, unsaved, jobs>>
    PROVE  LifecycleInv'
  <1>1. OnlyStore(p) /\ DiskKept(p)
    BY DEF OnlyStore, DiskKept, LifecycleInv, TypeOK
  <1>2. OneIdentity'
    BY DEF OneIdentity, LifecycleInv
  <1> QED BY <1>1, <1>2, StepOK

\* A name appears on the disk.
LEMMA ShowsOK ==
    ASSUME LifecycleInv, NEW d \in Disk, Shows(d) \/ Keeps(d)
    PROVE  disk' = d /\ disk' \in Disk /\ lossy' \subseteq Disk /\ disk' \in lossy'
           /\ lossy' \subseteq lossy \cup {d}
  BY DEF LifecycleInv, TypeOK, Shows, Keeps

\* A step that leaves the stores alone.
LEMMA DiskStepOK ==
    ASSUME LifecycleInv, NEW p \in Processes, NEW d \in Disk, Shows(d) \/ Keeps(d),
           d.lock = disk.lock \/ disk.lock = None,
           d.token = disk.token \/ disk.token = None,
           d.key = disk.key \/ disk.key = None,
           (d.config = disk.config /\ d.db = disk.db) \/ HasLock(p),
           d.record = disk.record,
           d.db # None => d.config # None /\ d.db \in {"empty", d.config},
           OnlyDaemon(p), LockKept(p), ProcessOK(p)', UNCHANGED <<recs, unsaved, jobs>>
    PROVE  LifecycleInv'
  <1>1. disk' = d /\ disk' \in Disk /\ lossy' \subseteq Disk /\ disk' \in lossy'
        /\ lossy' \subseteq lossy \cup {d}
    BY ShowsOK
  <1>2. OnlyStore(p)
    BY DEF OnlyStore, LifecycleInv, TypeOK
  <1>3. DiskKept(p)
    BY <1>1 DEF DiskKept
  <1>4. OneIdentity'
    BY <1>1 DEF OneIdentity, LifecycleInv
  <1> QED BY <1>2, <1>3, <1>4, StepOK

-----------------------------------------------------------------------------
(* The start.                                                                *)

\* The steps before the lock: the token is made, published and read.
LEMMA TokenSteps ==
    ASSUME LifecycleInv, NEW p \in Processes,
           Start(p) \/ ReadToken(p) \/ LinkToken(p) \/ SyncToken(p) \/ RereadToken(p)
    PROVE  LifecycleInv'
  <1>0. /\ daemon[p] \in Daemon /\ ProcessOK(p)
        /\ disk \in Disk /\ lossy \subseteq Disk /\ disk \in lossy
    BY ProcessTypes
  <1>oi. disk.db # None => disk.config # None /\ disk.db \in {"empty", disk.config}
    BY <1>0 DEF LifecycleInv, OneIdentity
  <1>1. CASE Start(p)
    <2>1. At(p, "off") /\ Goes(p, "token") /\ UNCHANGED <<disk, lossy, recs, unsaved, jobs>>
      BY <1>1 DEF Start
    <2>2. /\ OnlyDaemon(p) /\ daemon'[p].step = "token" /\ daemon'[p].late = daemon[p].late
      BY <2>1, GoesOK DEF Step, Starting
    <2>3. ProcessOK(p)'
      BY <1>0, <2>1, <2>2
      DEF ProcessOK, LockOK, TokenOK, KeyOK, IdentityOK, RecordsOK, At, StoreOpen, BeforeLock,
          BeforeStore, Starting, Ending
    <2>4. LockKept(p)
      BY <2>2 DEF LockKept, HasLock, Ending
    <2> QED BY <2>1, <2>2, <2>3, <2>4, QuietOK
  <1>2. CASE ReadToken(p)
    <2>1. At(p, "token") /\ UNCHANGED <<disk, lossy, recs, unsaved, jobs>>
      BY <1>2 DEF ReadToken
    <2>2. PICK i \in Ids, s \in {"open lock", "link"} :
             /\ daemon' = [daemon EXCEPT ![p] = [daemon[p] EXCEPT !.token = i, !.step = s]]
             /\ s = "open lock" => i = disk.token
      <3>1. CASE disk.token # None
        <4>1. daemon' = [daemon EXCEPT ![p] = [daemon[p] EXCEPT !.token = disk.token, !.step = "open lock"]]
          BY <1>0, <1>2, <3>1 DEF ReadToken, LifecycleInv, TypeOK
        <4>2. disk.token \in Ids
          BY <1>0, <3>1 DEF Disk
        <4> QED BY <4>1, <4>2
      <3>2. CASE disk.token = None
        BY <1>0, <1>2, <3>2 DEF ReadToken, LifecycleInv, TypeOK, Fresh
      <3> QED BY <3>1, <3>2
    <2> DEFINE d == [daemon[p] EXCEPT !.token = i, !.step = s]
    <2>3. d \in Daemon /\ d.token = i /\ d.step = s /\ d.late = daemon[p].late
      BY <1>0 DEF Daemon, Step, Starting
    <2>4. OnlyDaemon(p) /\ daemon'[p] = d
      BY <2>2, <2>3, BecomesOK
    <2> HIDE DEF d
    <2>5. ProcessOK(p)'
      BY <1>0, <2>1, <2>2, <2>3, <2>4, LifecycleAssumption
      DEF ProcessOK, LockOK, TokenOK, KeyOK, IdentityOK, RecordsOK, At, StoreOpen, BeforeLock,
          BeforeStore, Starting, Ending
    <2>6. LockKept(p)
      BY <2>3, <2>4 DEF LockKept, HasLock, Ending
    <2> QED BY <2>1, <2>4, <2>5, <2>6, QuietOK
  <1>3. CASE LinkToken(p)
    <2> DEFINE d == Publish(disk, "token", daemon[p].token)
    <2>1. /\ At(p, "link") /\ Shows(d) /\ Goes(p, "sync token")
          /\ UNCHANGED <<recs, unsaved, jobs>>
      BY <1>3 DEF LinkToken
    <2>2. /\ d \in Disk /\ d.lock = disk.lock /\ d.config = disk.config /\ d.db = disk.db
          /\ d.key = disk.key /\ d.record = disk.record
          /\ d.token = IF disk.token = None THEN daemon[p].token ELSE disk.token
      BY <1>0 DEF Publish, Disk, Daemon
    <2> HIDE DEF d
    <2>3. /\ OnlyDaemon(p) /\ daemon'[p].step = "sync token" /\ daemon'[p].late = daemon[p].late
      BY <2>1, GoesOK DEF Step, Starting
    <2>4. ProcessOK(p)'
      BY <1>0, <2>1, <2>2, <2>3
      DEF Shows, ProcessOK, LockOK, TokenOK, KeyOK, IdentityOK, RecordsOK, At, StoreOpen,
          BeforeLock, BeforeStore, Starting, Ending
    <2>5. LockKept(p)
      BY <2>3 DEF LockKept, HasLock, Ending
    <2> QED BY <1>oi, <2>1, <2>2, <2>3, <2>4, <2>5, DiskStepOK
  <1>4. CASE SyncToken(p)
    <2>1. /\ At(p, "sync token") /\ Keeps(disk) /\ Goes(p, "reread")
          /\ UNCHANGED <<recs, unsaved, jobs>>
      BY <1>4 DEF SyncToken
    <2>2. /\ OnlyDaemon(p) /\ daemon'[p].step = "reread" /\ daemon'[p].late = daemon[p].late
      BY <2>1, GoesOK DEF Step, Starting
    <2>3. ProcessOK(p)'
      BY <1>0, <2>1, <2>2
      DEF Keeps, ProcessOK, LockOK, TokenOK, KeyOK, IdentityOK, RecordsOK, At, StoreOpen,
          BeforeLock, BeforeStore, Starting, Ending
    <2>4. LockKept(p)
      BY <2>2 DEF LockKept, HasLock, Ending
    <2> QED BY <1>0, <1>oi, <2>1, <2>2, <2>3, <2>4, DiskStepOK
  <1>5. CASE RereadToken(p)
    <2> DEFINE d == [daemon[p] EXCEPT !.token = disk.token, !.step = "open lock"]
    <2>1. /\ At(p, "reread") /\ UNCHANGED <<disk, lossy, recs, unsaved, jobs>>
          /\ daemon' = [daemon EXCEPT ![p] = d]
      BY <1>5 DEF RereadToken, LifecycleInv, TypeOK
    <2>2. d \in Daemon /\ d.token = disk.token /\ d.step = "open lock" /\ d.late = daemon[p].late
      BY <1>0 DEF Daemon, Disk, Step, Starting
    <2>3. OnlyDaemon(p) /\ daemon'[p] = d
      BY <2>1, <2>2, BecomesOK
    <2> HIDE DEF d
    <2>4. ProcessOK(p)'
      BY <1>0, <2>1, <2>2, <2>3
      DEF ProcessOK, LockOK, TokenOK, KeyOK, IdentityOK, RecordsOK, At, StoreOpen, BeforeLock,
          BeforeStore, Starting, Ending
    <2>5. LockKept(p)
      BY <2>2, <2>3 DEF LockKept, HasLock, Ending
    <2> QED BY <2>1, <2>3, <2>4, <2>5, QuietOK
  <1> QED BY <1>1, <1>2, <1>3, <1>4, <1>5

\* The lock file is created by whoever comes first and locked by one process.
LEMMA LockSteps ==
    ASSUME LifecycleInv, NEW p \in Processes, OpenLock(p) \/ Flock(p)
    PROVE  LifecycleInv'
  <1>0. /\ daemon[p] \in Daemon /\ ProcessOK(p)
        /\ disk \in Disk /\ lossy \subseteq Disk /\ disk \in lossy
        /\ daemon \in [Processes -> Daemon]
    BY ProcessTypes DEF LifecycleInv, TypeOK
  <1>oi. disk.db # None => disk.config # None /\ disk.db \in {"empty", disk.config}
    BY <1>0 DEF LifecycleInv, OneIdentity
  <1>1. CASE OpenLock(p)
    <2>1. PICK i \in Ids :
            /\ disk.lock # None => i = disk.lock
            /\ IF disk.lock = None THEN Shows([disk EXCEPT !.lock = i]) ELSE UNCHANGED <<disk, lossy>>
            /\ daemon' = [daemon EXCEPT ![p] = [daemon[p] EXCEPT !.fd = i, !.step = "flock"]]
      <3>1. PICK i \in IF disk.lock = None THEN Fresh("lock", "fd") ELSE {disk.lock} :
              /\ IF disk.lock = None THEN Shows([disk EXCEPT !.lock = i]) ELSE UNCHANGED <<disk, lossy>>
              /\ daemon' = [daemon EXCEPT ![p].fd = i, ![p].step = "flock"]
        BY <1>1 DEF OpenLock
      <3>2. i \in Ids /\ (disk.lock # None => i = disk.lock)
        BY <1>0, <3>1 DEF Fresh, Disk
      <3> QED BY <1>0, <3>1, <3>2
    <2> DEFINE d == [daemon[p] EXCEPT !.fd = i, !.step = "flock"]
               k == [disk EXCEPT !.lock = i]
    <2>2. At(p, "open lock") /\ UNCHANGED <<recs, unsaved, jobs>>
      BY <1>1 DEF OpenLock
    <2>3. /\ d \in Daemon /\ d.fd = i /\ d.step = "flock" /\ d.late = daemon[p].late
          /\ d.token = daemon[p].token
      BY <1>0 DEF Daemon, Step, Starting
    <2>4. OnlyDaemon(p) /\ daemon'[p] = d
      BY <2>1, <2>3, BecomesOK
    <2>5. /\ k \in Disk /\ k.lock = i /\ k.config = disk.config /\ k.db = disk.db
          /\ k.key = disk.key /\ k.record = disk.record /\ k.token = disk.token
      BY <1>0 DEF Disk
    <2>6. LockKept(p)
      BY <2>3, <2>4 DEF LockKept, HasLock, Ending
    <2> HIDE DEF d, k
    <2>7. CASE disk.lock = None
      <3>1. Shows(k)
        BY <2>1, <2>7 DEF k
      <3>2. ProcessOK(p)'
        BY <1>0, <2>2, <2>3, <2>4, <2>5, <3>1, LifecycleAssumption
        DEF Shows, ProcessOK, LockOK, TokenOK, KeyOK, IdentityOK, RecordsOK, At, StoreOpen,
          BeforeLock, BeforeStore, Starting, Ending
      <3> QED BY <1>oi, <2>2, <2>4, <2>5, <2>6, <2>7, <3>1, <3>2, DiskStepOK
    <2>8. CASE disk.lock # None
      <3>1. UNCHANGED <<disk, lossy>> /\ i = disk.lock
        BY <2>1, <2>8
      <3>2. ProcessOK(p)'
        BY <1>0, <2>2, <2>3, <2>4, <2>8, <3>1
        DEF ProcessOK, LockOK, TokenOK, KeyOK, IdentityOK, RecordsOK, At, StoreOpen,
          BeforeLock, BeforeStore, Starting, Ending
      <3> QED BY <2>2, <2>4, <2>6, <3>1, <3>2, QuietOK
    <2> QED BY <2>7, <2>8
  <1>2. CASE Flock(p)
    <2> DEFINE taken == \E q \in Processes : HasLock(q) /\ daemon[q].fd = daemon[p].fd
               d == IF taken THEN NoDaemon ELSE [daemon[p] EXCEPT !.step = "config"]
    <2>1. /\ At(p, "flock") /\ UNCHANGED <<disk, lossy, recs, unsaved, jobs>>
          /\ daemon' = [daemon EXCEPT ![p] = d]
      BY <1>0, <1>2 DEF Flock
    <2>2. /\ d \in Daemon /\ d.step \in {"off", "config"}
          /\ d.step = "config" => ~taken /\ d.fd = daemon[p].fd /\ d.token = daemon[p].token
          /\ d.late => daemon[p].late
      BY <1>0 DEF Daemon, NoDaemon, Step, Starting
    <2>3. OnlyDaemon(p) /\ daemon'[p] = d
      BY <2>1, <2>2, BecomesOK
    <2>4. d.step = "config" => \A q \in Processes : ~HasLock(q)
      <3>1. daemon[p].fd = disk.lock
        BY <1>0, <2>1 DEF ProcessOK, LockOK, At, BeforeLock
      <3>2. \A q \in Processes : HasLock(q) => daemon[q].fd = disk.lock
        BY DEF LifecycleInv, ProcessOK, LockOK, HasLock, BeforeLock, Ending
      <3> QED BY <2>2, <3>1, <3>2
    <2> HIDE DEF d
    <2>5. ProcessOK(p)'
      BY <1>0, <2>1, <2>2, <2>3
      DEF ProcessOK, LockOK, TokenOK, KeyOK, IdentityOK, RecordsOK, At, StoreOpen,
          BeforeLock, BeforeStore, Starting, Ending
    <2>6. LockKept(p)
      BY <2>2, <2>3, <2>4 DEF LockKept, HasLock, Ending
    <2> QED BY <2>1, <2>3, <2>5, <2>6, QuietOK
  <1> QED BY <1>1, <1>2

\* The identity and the storage that is made under it.
LEMMA IdentitySteps ==
    ASSUME LifecycleInv, NEW p \in Processes,
           LoadConfig(p) \/ RenameConfig(p) \/ SyncConfig(p) \/ CreateDb(p) \/ EnsureProject(p)
    PROVE  LifecycleInv'
  <1>0. /\ daemon[p] \in Daemon /\ ProcessOK(p)
        /\ disk \in Disk /\ lossy \subseteq Disk /\ disk \in lossy
        /\ daemon \in [Processes -> Daemon]
    BY ProcessTypes DEF LifecycleInv, TypeOK
  <1>oi. disk.db # None => disk.config # None /\ disk.db \in {"empty", disk.config}
    BY <1>0 DEF LifecycleInv, OneIdentity
  <1>1. CASE LoadConfig(p)
    <2>1. At(p, "config") /\ UNCHANGED <<disk, lossy, recs, unsaved, jobs>>
      BY <1>1 DEF LoadConfig
    <2>2. PICK d \in Daemon :
            /\ daemon' = [daemon EXCEPT ![p] = d]
            /\ d.token = daemon[p].token /\ d.fd = daemon[p].fd /\ d.late = daemon[p].late
            /\ \/ d.step = "create db" /\ d.project = disk.config /\ disk.config # None
               \/ d.step = "unlock"
               \/ /\ d.step = "rename config" /\ d.project # None
                  /\ disk.config = None /\ disk.db = None
      <3>1. CASE disk.config # None
        <4> DEFINE d == [daemon[p] EXCEPT !.project = disk.config, !.step = "create db"]
        <4>1. d \in Daemon
          BY <1>0 DEF Daemon, Disk, Step, Starting
        <4>2. daemon' = [daemon EXCEPT ![p] = d]
          BY <1>0, <1>1, <3>1 DEF LoadConfig
        <4>3. d.step = "create db" /\ d.project = disk.config /\ d.token = daemon[p].token
              /\ d.fd = daemon[p].fd /\ d.late = daemon[p].late
          BY <1>0 DEF Daemon
        <4> HIDE DEF d
        <4> QED BY <3>1, <4>1, <4>2, <4>3
      <3>2. CASE disk.config = None /\ disk.db # None
        <4> DEFINE d == [daemon[p] EXCEPT !.step = "unlock"]
        <4>1. d \in Daemon
          BY <1>0 DEF Daemon, Step, Ending
        <4>2. daemon' = [daemon EXCEPT ![p] = d]
          BY <1>0, <1>1, <3>2 DEF LoadConfig, Goes
        <4>3. d.step = "unlock" /\ d.token = daemon[p].token
              /\ d.fd = daemon[p].fd /\ d.late = daemon[p].late
          BY <1>0 DEF Daemon
        <4> HIDE DEF d
        <4> QED BY <4>1, <4>2, <4>3
      <3>3. CASE disk.config = None /\ disk.db = None
        <4>1. PICK i \in Fresh("config", "project") :
                daemon' = [daemon EXCEPT ![p] = Chosen([daemon[p] EXCEPT !.project = i])]
          BY <1>0, <1>1, <3>3 DEF LoadConfig
        <4>2. i \in Ids /\ i # None
          BY <4>1, LifecycleAssumption DEF Fresh
        <4> DEFINE d == Chosen([daemon[p] EXCEPT !.project = i])
        <4>3. d \in Daemon
          BY <1>0, <4>2 DEF Daemon, Step, Starting, Chosen
        <4>4. d.step = "rename config" /\ d.project = i /\ d.token = daemon[p].token
              /\ d.fd = daemon[p].fd /\ d.late = daemon[p].late
          BY <1>0 DEF Daemon, Chosen
        <4> HIDE DEF d
        <4> QED BY <3>3, <4>1, <4>2, <4>3, <4>4 DEF d
      <3> QED BY <3>1, <3>2, <3>3
    <2>3. OnlyDaemon(p) /\ daemon'[p] = d
      BY <2>2, BecomesOK
    <2>4. ProcessOK(p)'
      <3>1. \A w \in Workspaces : recs[p][w] # "preparing"
        BY <1>0, <2>1 DEF ProcessOK, RecordsOK, BeforeStore, Starting, At, NoRecords
      <3> QED BY <1>0, <2>1, <2>2, <2>3, <3>1
          DEF ProcessOK, LockOK, TokenOK, KeyOK, IdentityOK, RecordsOK, At, StoreOpen,
          BeforeLock, BeforeStore, Starting, Ending
    <2>5. LockKept(p)
      BY <2>1, <2>2, <2>3 DEF LockKept, HasLock, Ending, At
    <2> QED BY <2>1, <2>3, <2>4, <2>5, QuietOK
  <1>2. CASE RenameConfig(p)
    <2> DEFINE d == [disk EXCEPT !.config = daemon[p].project]
    <2>1. /\ At(p, "rename config") /\ Shows(d) /\ Goes(p, "sync config")
          /\ UNCHANGED <<recs, unsaved, jobs>>
      BY <1>2 DEF RenameConfig
    <2>2. /\ d \in Disk /\ d.lock = disk.lock /\ d.token = disk.token /\ d.key = disk.key
          /\ d.db = disk.db /\ d.record = disk.record /\ d.config = daemon[p].project
      BY <1>0 DEF Disk, Daemon
    <2> HIDE DEF d
    <2>3. /\ OnlyDaemon(p) /\ daemon'[p].step = "sync config" /\ daemon'[p].late = daemon[p].late
          /\ daemon'[p].token = daemon[p].token /\ daemon'[p].fd = daemon[p].fd
          /\ daemon'[p].project = daemon[p].project
      BY <2>1, GoesOK DEF Step, Starting
    <2>4. HasLock(p) /\ disk.db = None
      BY <1>0, <2>1 DEF HasLock, At, ProcessOK, IdentityOK
    <2>5. ProcessOK(p)'
      BY <1>0, <2>1, <2>2, <2>3
      DEF Shows, ProcessOK, LockOK, TokenOK, KeyOK, IdentityOK, RecordsOK, At, StoreOpen,
          BeforeLock, BeforeStore, Starting, Ending
    <2>6. LockKept(p)
      BY <2>4 DEF LockKept
    <2> QED BY <2>1, <2>2, <2>3, <2>4, <2>5, <2>6, DiskStepOK
  <1>3. CASE SyncConfig(p)
    <2>1. /\ At(p, "sync config") /\ Keeps(disk) /\ Goes(p, "create db")
          /\ UNCHANGED <<recs, unsaved, jobs>>
      BY <1>3 DEF SyncConfig
    <2>2. /\ OnlyDaemon(p) /\ daemon'[p].step = "create db" /\ daemon'[p].late = daemon[p].late
          /\ daemon'[p].token = daemon[p].token /\ daemon'[p].fd = daemon[p].fd
          /\ daemon'[p].project = daemon[p].project
      BY <2>1, GoesOK DEF Step, Starting
    <2>3. ProcessOK(p)'
      BY <1>0, <2>1, <2>2
      DEF Keeps, ProcessOK, LockOK, TokenOK, KeyOK, IdentityOK, RecordsOK, At, StoreOpen,
          BeforeLock, BeforeStore, Starting, Ending
    <2>4. LockKept(p)
      BY <2>1 DEF LockKept, HasLock, At
    <2> QED BY <1>0, <1>oi, <2>1, <2>2, <2>3, <2>4, DiskStepOK
  <1>4. CASE CreateDb(p)
    <2> DEFINE d == [disk EXCEPT !.db = "empty"]
    <2>1. /\ At(p, "create db") /\ Goes(p, "project") /\ UNCHANGED <<recs, unsaved, jobs>>
          /\ (disk.db = None /\ Shows(d)) \/ UNCHANGED <<disk, lossy>>
      BY <1>4 DEF CreateDb
    <2>2. /\ d \in Disk /\ d.lock = disk.lock /\ d.token = disk.token /\ d.key = disk.key
          /\ d.db = "empty" /\ d.record = disk.record /\ d.config = disk.config
      BY <1>0 DEF Disk
    <2> HIDE DEF d
    <2>3. /\ OnlyDaemon(p) /\ daemon'[p].step = "project" /\ daemon'[p].late = daemon[p].late
          /\ daemon'[p].token = daemon[p].token /\ daemon'[p].fd = daemon[p].fd
          /\ daemon'[p].project = daemon[p].project
      BY <2>1, GoesOK DEF Step, Starting
    <2>4. HasLock(p) /\ disk.config # None
      BY <1>0, <2>1 DEF HasLock, At, ProcessOK, IdentityOK
    <2>5. ProcessOK(p)'
      <3>1. disk' = d \/ disk' = disk
        BY <2>1 DEF Shows
      <3>2. /\ disk'.lock = disk.lock /\ disk'.token = disk.token /\ disk'.key = disk.key
            /\ disk'.record = disk.record /\ disk'.config = disk.config
        BY <2>2, <3>1
      <3> QED BY <1>0, <2>1, <2>3, <3>2
          DEF ProcessOK, LockOK, TokenOK, KeyOK, IdentityOK, RecordsOK, At, StoreOpen,
          BeforeLock, BeforeStore, Starting, Ending
    <2>6. LockKept(p)
      BY <2>4 DEF LockKept
    <2>7. CASE UNCHANGED <<disk, lossy>>
      BY <2>1, <2>3, <2>5, <2>6, <2>7, QuietOK
    <2>8. CASE Shows(d)
      BY <2>1, <2>2, <2>3, <2>4, <2>5, <2>6, <2>8, DiskStepOK
    <2> QED BY <2>1, <2>7, <2>8
  <1>5. CASE EnsureProject(p)
    <2> DEFINE d == [disk EXCEPT !.db = daemon[p].project]
    <2>1. /\ At(p, "project") /\ UNCHANGED <<recs, unsaved, jobs>>
          /\ (disk.db = "empty" /\ Shows(d)) \/ UNCHANGED <<disk, lossy>>
      BY <1>5 DEF EnsureProject
    <2>0. PICK s \in {"key", "close kata"} : Goes(p, s)
      BY <1>5 DEF EnsureProject
    <2>2. /\ d \in Disk /\ d.lock = disk.lock /\ d.token = disk.token /\ d.key = disk.key
          /\ d.db = daemon[p].project /\ d.record = disk.record /\ d.config = disk.config
      BY <1>0 DEF Disk, Daemon
    <2> HIDE DEF d
    <2>3. /\ OnlyDaemon(p) /\ daemon'[p].step = s /\ daemon'[p].late = daemon[p].late
          /\ daemon'[p].token = daemon[p].token /\ daemon'[p].fd = daemon[p].fd
      BY <2>0, GoesOK DEF Step, Starting, Ending
    <2>4. HasLock(p) /\ disk.config # None /\ daemon[p].project = disk.config
      BY <1>0, <2>1 DEF HasLock, At, ProcessOK, IdentityOK
    <2>5. ProcessOK(p)'
      <3>1. disk' = d \/ disk' = disk
        BY <2>1 DEF Shows
      <3>2. /\ disk'.lock = disk.lock /\ disk'.token = disk.token /\ disk'.key = disk.key
            /\ disk'.record = disk.record /\ disk'.config = disk.config
        BY <2>2, <3>1
      <3>3. \A w \in Workspaces : recs[p][w] # "preparing"
        BY <1>0, <2>1 DEF ProcessOK, RecordsOK, BeforeStore, Starting, At, NoRecords
      <3> QED BY <1>0, <2>1, <2>3, <3>2, <3>3
          DEF ProcessOK, LockOK, TokenOK, KeyOK, IdentityOK, RecordsOK, At, StoreOpen,
          BeforeLock, BeforeStore, Starting, Ending
    <2>6. LockKept(p)
      BY <2>4 DEF LockKept
    <2>7. CASE UNCHANGED <<disk, lossy>>
      BY <2>1, <2>3, <2>5, <2>6, <2>7, QuietOK
    <2>8. CASE Shows(d)
      BY <2>1, <2>2, <2>3, <2>4, <2>5, <2>6, <2>8, DiskStepOK
    <2> QED BY <2>1, <2>7, <2>8
  <1> QED BY <1>1, <1>2, <1>3, <1>4, <1>5

\* The signing key is published like the token, and read again.
LEMMA KeySteps ==
    ASSUME LifecycleInv, NEW p \in Processes, LoadKey(p) \/ LinkKey(p) \/ SyncKey(p)
    PROVE  LifecycleInv'
  <1>0. /\ daemon[p] \in Daemon /\ ProcessOK(p)
        /\ disk \in Disk /\ lossy \subseteq Disk /\ disk \in lossy
        /\ daemon \in [Processes -> Daemon]
    BY ProcessTypes DEF LifecycleInv, TypeOK
  <1>oi. disk.db # None => disk.config # None /\ disk.db \in {"empty", disk.config}
    BY <1>0 DEF LifecycleInv, OneIdentity
  <1>lk. HasLock(p) /\ LockKept(p)
    BY DEF LockKept, LoadKey, LinkKey, SyncKey, HasLock, At
  <1>1. CASE LoadKey(p)
    <2>1. At(p, "key") /\ UNCHANGED <<disk, lossy, recs, unsaved, jobs>>
      BY <1>1 DEF LoadKey
    <2>2. PICK i \in Ids, s \in {"open store", "link key"} :
             /\ daemon' = [daemon EXCEPT ![p] = [daemon[p] EXCEPT !.key = i, !.step = s]]
             /\ s = "open store" => i = disk.key
      <3>1. CASE disk.key # None
        <4>1. daemon' = [daemon EXCEPT ![p] = [daemon[p] EXCEPT !.key = disk.key, !.step = "open store"]]
          BY <1>0, <1>1, <3>1 DEF LoadKey
        <4>2. disk.key \in Ids
          BY <1>0, <3>1 DEF Disk
        <4> QED BY <4>1, <4>2
      <3>2. CASE disk.key = None
        BY <1>0, <1>1, <3>2 DEF LoadKey, Fresh
      <3> QED BY <3>1, <3>2
    <2> DEFINE d == [daemon[p] EXCEPT !.key = i, !.step = s]
    <2>3. /\ d \in Daemon /\ d.key = i /\ d.step = s /\ d.late = daemon[p].late
          /\ d.token = daemon[p].token /\ d.fd = daemon[p].fd
      BY <1>0 DEF Daemon, Step, Starting
    <2>4. OnlyDaemon(p) /\ daemon'[p] = d
      BY <2>2, <2>3, BecomesOK
    <2> HIDE DEF d
    <2>5. ProcessOK(p)'
      BY <1>0, <2>1, <2>2, <2>3, <2>4, LifecycleAssumption
      DEF ProcessOK, LockOK, TokenOK, KeyOK, IdentityOK, RecordsOK, At, StoreOpen,
          BeforeLock, BeforeStore, Starting, Ending
    <2> QED BY <1>lk, <2>1, <2>4, <2>5, QuietOK
  <1>2. CASE LinkKey(p)
    <2> DEFINE d == Publish(disk, "key", daemon[p].key)
    <2>1. /\ At(p, "link key") /\ Shows(d) /\ Goes(p, "sync key")
          /\ UNCHANGED <<recs, unsaved, jobs>>
      BY <1>2 DEF LinkKey
    <2>2. /\ d \in Disk /\ d.lock = disk.lock /\ d.config = disk.config /\ d.db = disk.db
          /\ d.token = disk.token /\ d.record = disk.record
          /\ d.key = IF disk.key = None THEN daemon[p].key ELSE disk.key
      BY <1>0 DEF Publish, Disk, Daemon
    <2> HIDE DEF d
    <2>3. /\ OnlyDaemon(p) /\ daemon'[p].step = "sync key" /\ daemon'[p].late = daemon[p].late
          /\ daemon'[p].token = daemon[p].token /\ daemon'[p].fd = daemon[p].fd
      BY <2>1, GoesOK DEF Step, Starting
    <2>4. ProcessOK(p)'
      BY <1>0, <2>1, <2>2, <2>3
      DEF Shows, ProcessOK, LockOK, TokenOK, KeyOK, IdentityOK, RecordsOK, At, StoreOpen,
          BeforeLock, BeforeStore, Starting, Ending
    <2> QED BY <1>oi, <1>lk, <2>1, <2>2, <2>3, <2>4, DiskStepOK
  <1>3. CASE SyncKey(p)
    <2>1. /\ At(p, "sync key") /\ Keeps(disk) /\ Goes(p, "key")
          /\ UNCHANGED <<recs, unsaved, jobs>>
      BY <1>3 DEF SyncKey
    <2>2. /\ OnlyDaemon(p) /\ daemon'[p].step = "key" /\ daemon'[p].late = daemon[p].late
          /\ daemon'[p].token = daemon[p].token /\ daemon'[p].fd = daemon[p].fd
      BY <2>1, GoesOK DEF Step, Starting
    <2>3. ProcessOK(p)'
      BY <1>0, <2>1, <2>2
      DEF Keeps, ProcessOK, LockOK, TokenOK, KeyOK, IdentityOK, RecordsOK, At, StoreOpen,
          BeforeLock, BeforeStore, Starting, Ending
    <2> QED BY <1>0, <1>oi, <1>lk, <2>1, <2>2, <2>3, DiskStepOK
  <1> QED BY <1>1, <1>2, <1>3

-----------------------------------------------------------------------------
(* The workspace store.                                                      *)

\* p's records become r in memory.
LEMMA RecordsBecome ==
    ASSUME LifecycleInv, NEW p \in Processes, NEW r \in [Workspaces -> RecordState],
           recs' = [recs EXCEPT ![p] = r], UNCHANGED <<unsaved, jobs>>
    PROVE  OnlyStore(p) /\ recs'[p] = r
  BY DEF LifecycleInv, TypeOK, OnlyStore

\* A step that writes records only, under the lock.
LEMMA RecordStepOK ==
    ASSUME LifecycleInv, NEW p \in Processes, NEW d \in Disk,
           Shows(d) \/ Keeps(d) \/ UNCHANGED <<disk, lossy>>,
           d.lock = disk.lock, d.token = disk.token, d.key = disk.key,
           d.config = disk.config, d.db = disk.db,
           HasLock(p), OnlyDaemon(p), OnlyStore(p), ProcessOK(p)'
    PROVE  LifecycleInv'
  <1>1. /\ disk' = d \/ disk' = disk
        /\ disk' \in Disk /\ lossy' \subseteq Disk /\ disk' \in lossy' /\ lossy' \subseteq lossy \cup {d}
    BY ShowsOK DEF LifecycleInv, TypeOK
  <1>2. DiskKept(p) /\ LockKept(p)
    BY <1>1 DEF DiskKept, LockKept
  <1>3. OneIdentity'
    <2>1. d.db # None => d.config # None /\ d.db \in {"empty", d.config}
      BY DEF LifecycleInv, TypeOK, OneIdentity
    <2> QED BY <1>1, <2>1 DEF LifecycleInv, OneIdentity
  <1> QED BY <1>2, <1>3, StepOK

\* So does one that leaves the daemon where it is.
LEMMA StoreWriteOK ==
    ASSUME LifecycleInv, NEW p \in Processes, NEW d \in Disk,
           Shows(d) \/ Keeps(d) \/ UNCHANGED <<disk, lossy>>,
           d.lock = disk.lock, d.token = disk.token, d.key = disk.key,
           d.config = disk.config, d.db = disk.db,
           HasLock(p), UNCHANGED daemon, OnlyStore(p), RecordsOK(p)'
    PROVE  LifecycleInv'
  <1>1. ProcessOK(p) /\ OnlyDaemon(p)
    BY DEF LifecycleInv, TypeOK, OnlyDaemon
  <1>2. /\ disk'.lock = disk.lock /\ disk'.token = disk.token /\ disk'.key = disk.key
        /\ disk'.config = disk.config /\ disk'.db = disk.db /\ daemon' = daemon
    BY DEF Shows, Keeps
  <1>3. LockOK(p)' /\ TokenOK(p)' /\ KeyOK(p)' /\ IdentityOK(p)'
    BY <1>1, <1>2 DEF ProcessOK, LockOK, TokenOK, KeyOK, IdentityOK, At, StoreOpen
  <1> QED BY <1>1, <1>3, RecordStepOK DEF ProcessOK

\* Opening the workspace store, recovering it, and a start that fails.
LEMMA OpenSteps ==
    ASSUME LifecycleInv, NEW p \in Processes, OpenStore(p) \/ Recover(p) \/ StartFails(p)
    PROVE  LifecycleInv'
  <1>0. /\ daemon[p] \in Daemon /\ ProcessOK(p)
        /\ disk \in Disk /\ lossy \subseteq Disk /\ disk \in lossy
        /\ daemon \in [Processes -> Daemon]
    BY ProcessTypes DEF LifecycleInv, TypeOK
  <1>oi. disk.db # None => disk.config # None /\ disk.db \in {"empty", disk.config}
    BY <1>0 DEF LifecycleInv, OneIdentity
  <1>1. CASE OpenStore(p)
    <2>0. At(p, "open store") /\ UNCHANGED <<disk, lossy, unsaved, jobs>>
      BY <1>1 DEF OpenStore
    <2>1. CASE Goes(p, "close kata") /\ UNCHANGED recs
      <3>1. /\ OnlyDaemon(p) /\ daemon'[p].step = "close kata" /\ daemon'[p].late = daemon[p].late
            /\ daemon'[p].token = daemon[p].token /\ daemon'[p].fd = daemon[p].fd
        BY <2>1, GoesOK DEF Step, Ending
      <3>2. \A w \in Workspaces : recs[p][w] # "preparing"
        BY <1>0, <2>0 DEF ProcessOK, RecordsOK, BeforeStore, Starting, At, NoRecords
      <3>3. ProcessOK(p)'
        BY <1>0, <2>0, <2>1, <3>1, <3>2 DEF ProcessOK, LockOK, TokenOK, KeyOK, IdentityOK, RecordsOK, At, StoreOpen,
          BeforeLock, BeforeStore, Starting, Ending
      <3>4. LockKept(p)
        BY <2>0 DEF LockKept, HasLock, At
      <3> QED BY <2>0, <2>1, <3>1, <3>3, <3>4, QuietOK
    <2>2. CASE Goes(p, "recover") /\ recs' = [recs EXCEPT ![p] = disk.record]
      <3>1. /\ OnlyDaemon(p) /\ daemon'[p].step = "recover" /\ daemon'[p].late = daemon[p].late
            /\ daemon'[p].token = daemon[p].token /\ daemon'[p].fd = daemon[p].fd
            /\ daemon'[p].key = daemon[p].key
        BY <2>2, GoesOK DEF Step, Starting
      <3>2. OnlyStore(p) /\ recs'[p] = disk.record
        BY <1>0, <2>0, <2>2, RecordsBecome DEF Disk
      <3>3. ProcessOK(p)'
        BY <1>0, <2>0, <3>1, <3>2 DEF ProcessOK, LockOK, TokenOK, KeyOK, IdentityOK, RecordsOK, At, StoreOpen,
          BeforeLock, BeforeStore, Starting, Ending
      <3>4. HasLock(p)
        BY <2>0 DEF HasLock, At
      <3> QED BY <1>0, <2>0, <3>1, <3>2, <3>3, <3>4, RecordStepOK
    <2> QED BY <1>1, <2>1, <2>2 DEF OpenStore
  <1>2. CASE Recover(p)
    <2>0. At(p, "recover") /\ UNCHANGED <<unsaved, jobs>> /\ HasLock(p)
      BY <1>2 DEF Recover, HasLock, At
    <2>1. ASSUME NEW w \in Workspaces, recs' = [recs EXCEPT ![p][w] = "orphaned"],
                 Keeps([disk EXCEPT !.record[w] = "orphaned"]), UNCHANGED daemon
          PROVE  LifecycleInv'
      <3> DEFINE d == [disk EXCEPT !.record[w] = "orphaned"]
                 r == [recs[p] EXCEPT ![w] = "orphaned"]
      <3>1. /\ d \in Disk /\ d.lock = disk.lock /\ d.token = disk.token /\ d.key = disk.key
            /\ d.db = disk.db /\ d.config = disk.config
            /\ \A v \in Workspaces : d.record[v] = IF v = w THEN "orphaned" ELSE disk.record[v]
        BY <1>0 DEF Disk, RecordState
      <3>2. recs' = [recs EXCEPT ![p] = r] /\ r \in [Workspaces -> RecordState]
            /\ \A v \in Workspaces : r[v] = IF v = w THEN "orphaned" ELSE recs[p][v]
        BY <2>1 DEF LifecycleInv, TypeOK, RecordState
      <3> HIDE DEF d, r
      <3>3. OnlyStore(p) /\ recs'[p] = r
        BY <2>0, <3>2, RecordsBecome
      <3>4. OnlyDaemon(p)
        BY <1>0, <2>1 DEF OnlyDaemon
      <3>5. Keeps(d)
        BY <2>1 DEF d
      <3>6. disk' = d /\ UNCHANGED <<daemon, unsaved, jobs>>
        BY <2>0, <2>1, <3>5 DEF Keeps
      <3>7. RecordsOK(p)'
        <4>1. RecordsOK(p) /\ daemon[p].step = "recover" /\ ~daemon[p].late /\ jobs[p] = {}
          BY <1>0, <2>0 DEF ProcessOK, RecordsOK, At, Ending
        <4>2. daemon' = daemon /\ unsaved' = unsaved /\ jobs' = jobs /\ disk' = d /\ recs'[p] = r
          BY <3>3, <3>6
        <4>3. \A v \in Workspaces : v \notin unsaved[p] => d.record[v] = r[v]
          BY <3>1, <3>2, <4>1 DEF RecordsOK, StoreOpen
        <4> QED BY <4>1, <4>2, <4>3 DEF RecordsOK, At, StoreOpen, BeforeStore, Starting
      <3> QED BY <2>0, <3>1, <3>3, <3>5, <3>6, <3>7, StoreWriteOK
    <2>2. CASE /\ \A w \in Workspaces : recs[p][w] \notin Carried
               /\ Goes(p, "serving") /\ UNCHANGED <<disk, lossy, recs>>
      <3>1. /\ OnlyDaemon(p) /\ daemon'[p].step = "serving" /\ daemon'[p].late = daemon[p].late
            /\ daemon'[p].token = daemon[p].token /\ daemon'[p].fd = daemon[p].fd
            /\ daemon'[p].key = daemon[p].key
        BY <2>2, GoesOK DEF Step
      <3>2. jobs[p] = {}
        BY <1>0, <2>0 DEF ProcessOK, RecordsOK, At
      <3>3. ProcessOK(p)'
        BY <1>0, <2>0, <2>2, <3>1, <3>2 DEF Carried, ProcessOK, LockOK, TokenOK, KeyOK, IdentityOK, RecordsOK, At, StoreOpen,
          BeforeLock, BeforeStore, Starting, Ending
      <3>4. LockKept(p)
        BY <2>0 DEF LockKept
      <3> QED BY <2>0, <2>2, <3>1, <3>3, <3>4, QuietOK
    <2> QED BY <1>2, <2>1, <2>2 DEF Recover
  <1>3. CASE StartFails(p)
    <2>0. /\ daemon[p].step \in Starting /\ UNCHANGED <<disk, lossy, unsaved, jobs>>
          /\ recs' = [recs EXCEPT ![p] = NoRecords]
      BY <1>3 DEF StartFails
    <2>1. OnlyStore(p) /\ recs'[p] = NoRecords /\ NoRecords \in [Workspaces -> RecordState]
      BY <2>0, RecordsBecome DEF NoRecords, RecordState
    <2>2. jobs[p] = {} /\ ~daemon[p].late
      BY <1>0, <2>0 DEF ProcessOK, RecordsOK, Starting, Ending
    <2>3. /\ OnlyDaemon(p)
          /\ \/ daemon'[p].step = "off" /\ ~daemon'[p].late
             \/ /\ daemon'[p].step \in {"close kata", "unlock"} /\ HasLock(p)
                /\ daemon'[p].late = daemon[p].late /\ daemon'[p].token = daemon[p].token
                /\ daemon'[p].fd = daemon[p].fd
      <3>1. CASE Goes(p, "close kata") /\ KataOpen(p)
        BY <3>1, GoesOK, OpenUnderLock DEF Step, Ending
      <3>2. CASE Goes(p, "unlock") /\ HasLock(p)
        BY <3>2, GoesOK DEF Step, Ending
      <3>3. CASE daemon' = [daemon EXCEPT ![p] = NoDaemon]
        <4>1. NoDaemon \in Daemon /\ NoDaemon.step = "off" /\ ~NoDaemon.late
          BY DEF NoDaemon, Daemon, Step
        <4> QED BY <3>3, <4>1, BecomesOK
      <3> QED BY <1>3, <3>1, <3>2, <3>3 DEF StartFails
    <2>4. ProcessOK(p)'
      <3>1. \A w \in Workspaces : recs'[p][w] # "preparing"
        BY <2>1 DEF NoRecords
      <3>2. HasLock(p) => daemon[p].step \notin BeforeLock
        BY DEF HasLock, BeforeLock, Ending
      <3>3. disk' = disk /\ jobs'[p] = {}
        BY <2>0, <2>2
      <3> QED BY <1>0, <2>1, <2>2, <2>3, <3>1, <3>2, <3>3 DEF ProcessOK, LockOK, TokenOK, KeyOK, IdentityOK, RecordsOK, At, StoreOpen,
          BeforeLock, BeforeStore, Starting, Ending
    <2>5. LockKept(p)
      BY <2>3 DEF LockKept, HasLock, Ending
    <2>6. DiskKept(p) /\ OneIdentity'
      BY <1>0, <2>0 DEF DiskKept, OneIdentity, LifecycleInv
    <2> QED BY <2>1, <2>3, <2>4, <2>5, <2>6, StepOK
  <1> QED BY <1>1, <1>2, <1>3

\* put, while the store is open: what it leaves in memory belongs to a job
\* exactly when it says so.
LEMMA PutOK ==
    ASSUME LifecycleInv, NEW p \in Processes, NEW w \in Workspaces,
           NEW a \in RecordState, NEW b \in RecordState, NEW J \in SUBSET Workspaces,
           StoreOpen(p), ~At(p, "recover"), Put(p, w, a, b), UNCHANGED daemon,
           jobs' = [jobs EXCEPT ![p] = J],
           J \ {w} = jobs[p] \ {w},
           recs'[p][w] = "preparing" <=> w \in J,
           w \in J => daemon[p].step \in {"serving", "drain", "cancel", "stop store", "wait jobs"}
    PROVE  LifecycleInv'
  <1>0. /\ daemon[p] \in Daemon /\ RecordsOK(p) /\ HasLock(p)
        /\ disk \in Disk /\ lossy \subseteq Disk /\ disk \in lossy
        /\ recs \in [Processes -> [Workspaces -> RecordState]]
        /\ unsaved \in [Processes -> SUBSET Workspaces]
        /\ jobs \in [Processes -> SUBSET Workspaces]
    BY ProcessTypes, OpenUnderLock DEF LifecycleInv, TypeOK, ProcessOK
  <1> DEFINE d == [disk EXCEPT !.record[w] = a]
  <1>1. /\ d \in Disk /\ d.lock = disk.lock /\ d.token = disk.token /\ d.key = disk.key
        /\ d.db = disk.db /\ d.config = disk.config
        /\ \A v \in Workspaces : d.record[v] = IF v = w THEN a ELSE disk.record[v]
    BY <1>0 DEF Disk
  <1>2. PICK c \in {a, b}, U \in {unsaved[p] \ {w}, unsaved[p] \cup {w}} :
          /\ recs' = [recs EXCEPT ![p] = [recs[p] EXCEPT ![w] = c]]
          /\ unsaved' = [unsaved EXCEPT ![p] = U]
          /\ Shows(d) \/ Keeps(d) \/ UNCHANGED <<disk, lossy>>
          /\ w \notin U => disk' = d /\ c = a
    <2>1. CASE Keeps(d) /\ recs' = [recs EXCEPT ![p][w] = a]
               /\ unsaved' = [unsaved EXCEPT ![p] = @ \ {w}]
      BY <1>0, <2>1 DEF Keeps
    <2>2. CASE /\ UNCHANGED <<disk, lossy>> \/ Shows(d)
               /\ recs' = [recs EXCEPT ![p][w] = b]
               /\ unsaved' = [unsaved EXCEPT ![p] = @ \cup {w}]
      BY <1>0, <2>2
    <2> QED BY <2>1, <2>2 DEF Put, MayPut
  <1> HIDE DEF d
  <1> DEFINE r == [recs[p] EXCEPT ![w] = c]
  <1>3. /\ r \in [Workspaces -> RecordState] /\ r[w] = c
        /\ \A v \in Workspaces \ {w} : r[v] = recs[p][v]
        /\ recs' = [recs EXCEPT ![p] = r]
    BY <1>0, <1>2
  <1> HIDE DEF r
  <1>4. OnlyStore(p) /\ recs'[p] = r /\ unsaved'[p] = U /\ jobs'[p] = J
    <2>1. U \in SUBSET Workspaces /\ J \in SUBSET Workspaces
      BY <1>0, <1>2
    <2>2. recs' \in [Processes -> [Workspaces -> RecordState]] /\ recs'[p] = r
      BY <1>0, <1>3
    <2>3. unsaved' \in [Processes -> SUBSET Workspaces] /\ unsaved'[p] = U
      BY <1>0, <1>2, <2>1
    <2>4. jobs' \in [Processes -> SUBSET Workspaces] /\ jobs'[p] = J
      BY <1>0, <2>1
    <2>5. \A q \in Processes \ {p} :
             recs'[q] = recs[q] /\ unsaved'[q] = unsaved[q] /\ jobs'[q] = jobs[q]
      BY <1>0, <1>2, <1>3
    <2> QED BY <2>2, <2>3, <2>4, <2>5 DEF OnlyStore
  <1>5. \A v \in Workspaces \ {w} :
          /\ disk'.record[v] = disk.record[v] /\ (v \in U <=> v \in unsaved[p])
          /\ (v \in J <=> v \in jobs[p]) /\ recs'[p][v] = recs[p][v]
    BY <1>1, <1>2, <1>3, <1>4 DEF Shows, Keeps
  <1>6. w \notin unsaved'[p] => disk'.record[w] = recs'[p][w]
    BY <1>1, <1>2, <1>3, <1>4
  <1>7. RecordsOK(p)'
    <2>1. daemon[p].step \notin BeforeStore /\ daemon' = daemon
      BY DEF StoreOpen, At, BeforeStore, Starting, Ending
    <2>2. jobs'[p] # {}
             => daemon'[p].step \in {"serving", "drain", "cancel", "stop store", "wait jobs"}
      BY <1>0, <1>4, <1>5, <2>1 DEF RecordsOK
    <2>3. ASSUME NEW v \in Workspaces
          PROVE  /\ v \notin unsaved'[p] => disk'.record[v] = recs'[p][v]
                 /\ recs'[p][v] = "preparing" <=> v \in jobs'[p]
      <3>1. CASE v = w
        BY <1>4, <1>6, <3>1
      <3>2. CASE v # w
        BY <1>0, <1>4, <1>5, <3>2 DEF RecordsOK
      <3> QED BY <3>1, <3>2
    <2>4. \A v \in Workspaces : daemon'[p].step \in {"close store", "close kata", "unlock"}
             => recs'[p][v] # "preparing"
      BY <2>1, <2>2, <2>3
    <2> QED BY <1>0, <2>1, <2>2, <2>3, <2>4 DEF RecordsOK, At, StoreOpen
  <1> QED BY <1>0, <1>1, <1>2, <1>4, <1>7, StoreWriteOK

\* A put after the store is closed changes nothing.
LEMMA PutRefused ==
    ASSUME NEW p \in Processes, NEW w \in Workspaces, NEW a, NEW b,
           ~StoreOpen(p), Put(p, w, a, b)
    PROVE  UNCHANGED <<disk, lossy, recs, unsaved>>
  BY DEF Put, MayPut

\* Nothing changes.
LEMMA StutterOK ==
    ASSUME LifecycleInv, UNCHANGED vars
    PROVE  LifecycleInv'
  <1>1. disk' = disk /\ lossy' = lossy /\ daemon' = daemon /\ recs' = recs
        /\ unsaved' = unsaved /\ jobs' = jobs
    BY DEF vars
  <1>2. TypeOK' /\ OneIdentity' /\ OneHolder'
    BY <1>1 DEF LifecycleInv, TypeOK, OneIdentity, OneHolder, HasLock
  <1>3. ASSUME NEW p \in Processes PROVE ProcessOK(p)'
    <2>1. LockOK(p)' /\ TokenOK(p)'
      BY <1>1 DEF LifecycleInv, ProcessOK, LockOK, TokenOK, At
    <2>2. KeyOK(p)' /\ IdentityOK(p)'
      BY <1>1 DEF LifecycleInv, ProcessOK, KeyOK, IdentityOK, At, StoreOpen
    <2>3. RecordsOK(p)'
      BY <1>1 DEF LifecycleInv, ProcessOK, RecordsOK, At, StoreOpen
    <2> QED BY <2>1, <2>2, <2>3 DEF ProcessOK
  <1> QED BY <1>2, <1>3 DEF LifecycleInv

\* What the store does at work, at the hands of handlers, ticks and jobs.
LEMMA StoreSteps ==
    ASSUME LifecycleInv, NEW p \in Processes, StoreStep(p)
    PROVE  LifecycleInv'
  <1>0. /\ daemon[p] \in Daemon /\ RecordsOK(p) /\ jobs[p] \subseteq Workspaces
        /\ recs \in [Processes -> [Workspaces -> RecordState]]
        /\ jobs \in [Processes -> SUBSET Workspaces]
    BY ProcessTypes DEF LifecycleInv, TypeOK, ProcessOK
  <1>w. PICK w \in Workspaces : StartJob(p, w) \/ EndJob(p, w) \/ Mark(p, w) \/ Archive(p, w)
    BY DEF StoreStep
  <1>s. {"preparing", "failed", "ready", "orphaned", "archived", "archive_pending"}
           \subseteq RecordState
    BY DEF RecordState
  <1>1. CASE StartJob(p, w)
    <2> DEFINE J == IF recs'[p][w] = "preparing" THEN jobs[p] \cup {w} ELSE jobs[p]
    <2>1. /\ Works(p) /\ ~Stopped(p) /\ recs[p][w] = "none" /\ Put(p, w, "preparing", "failed")
          /\ jobs' = [jobs EXCEPT ![p] = J] /\ UNCHANGED daemon
      BY <1>1, <1>0 DEF StartJob, MayStart
    <2>2. J \in SUBSET Workspaces /\ J \ {w} = jobs[p] \ {w}
      BY <1>0
    <2>3. CASE StoreOpen(p)
      <3>1. daemon[p].step \in {"serving", "drain", "cancel", "stop store"}
        BY <1>0, <2>1, <2>3 DEF Works, Stopped, RecordsOK, StoreOpen, At, Ending
      <3>2. w \notin jobs[p]
        BY <1>0, <2>1, <2>3, <3>1 DEF RecordsOK, At
      <3>3. recs'[p][w] = "preparing" <=> w \in J
        BY <3>2
      <3> HIDE DEF J
      <3> QED BY <1>s, <2>1, <2>2, <2>3, <3>1, <3>3, PutOK DEF At
    <2>4. CASE ~StoreOpen(p)
      <3>1. UNCHANGED <<disk, lossy, recs, unsaved>>
        BY <2>1, <2>4, PutRefused
      <3>2. jobs' = jobs
        BY <1>0, <2>1, <3>1
      <3> QED BY <2>1, <3>1, <3>2, StutterOK DEF vars
    <2> QED BY <2>3, <2>4
  <1>2. CASE EndJob(p, w)
    <2> DEFINE J == jobs[p] \ {w}
    <2>1. PICK s \in {"ready", "orphaned", "failed"} :
             /\ Put(p, w, s, IF s = "ready" THEN "failed" ELSE s) /\ w \in jobs[p]
             /\ jobs' = [jobs EXCEPT ![p] = J] /\ UNCHANGED daemon
      BY <1>2 DEF EndJob
    <2>2. daemon[p].step \in {"serving", "drain", "cancel", "stop store", "wait jobs"}
      BY <1>0, <2>1 DEF RecordsOK
    <2>3. StoreOpen(p) /\ ~At(p, "recover")
      BY <2>2 DEF StoreOpen, At
    <2> DEFINE b == IF s = "ready" THEN "failed" ELSE s
    <2>4. recs'[p][w] \in {s, b}
      BY <1>0, <2>1, <2>3 DEF Put, MayPut
    <2>5. recs'[p][w] # "preparing" /\ s \in RecordState /\ b \in RecordState
      BY <1>s, <2>1, <2>4
    <2>6. w \notin J /\ J \in SUBSET Workspaces /\ J \ {w} = jobs[p] \ {w}
      BY <1>0
    <2> HIDE DEF J
    <2> QED BY <2>1, <2>3, <2>5, <2>6, PutOK
  <1>3. CASE Mark(p, w) \/ Archive(p, w)
    <2>1. PICK a \in {"orphaned", "archived"}, b \in {"orphaned", "archive_pending"} :
             /\ Works(p) /\ recs[p][w] # "preparing" /\ Put(p, w, a, b)
             /\ UNCHANGED <<daemon, jobs>>
      BY <1>3 DEF Mark, Archive
    <2>2. CASE StoreOpen(p)
      <3>1. ~At(p, "recover")
        BY <1>0, <2>1 DEF Works, RecordsOK, At, Ending
      <3>2. w \notin jobs[p]
        BY <1>0, <2>1, <2>2, <3>1 DEF RecordsOK
      <3>3. recs'[p][w] \in {a, b}
        BY <1>0, <2>1, <2>2 DEF Put, MayPut
      <3>4. jobs' = [jobs EXCEPT ![p] = jobs[p]]
        BY <1>0, <2>1
      <3>5. a \in RecordState /\ b \in RecordState /\ recs'[p][w] # "preparing"
        BY <1>s, <2>1, <3>3
      <3> QED BY <1>0, <2>1, <2>2, <3>1, <3>2, <3>4, <3>5, PutOK
    <2>3. CASE ~StoreOpen(p)
      <3>1. UNCHANGED <<disk, lossy, recs, unsaved>>
        BY <2>1, <2>3, PutRefused
      <3> QED BY <2>1, <3>1, StutterOK DEF vars
    <2> QED BY <2>2, <2>3
  <1> QED BY <1>w, <1>1, <1>2, <1>3

-----------------------------------------------------------------------------
(* The end.                                                                  *)

\* p goes on with its end, and nothing else happens.
LEMMA EndGoesOK ==
    ASSUME LifecycleInv, NEW p \in Processes, NEW s \in Ending \cup {"drain"}, Goes(p, s),
           HasLock(p), UNCHANGED <<disk, lossy, recs, unsaved, jobs>>,
           s \in {"drain", "cancel", "stop store", "wait jobs"}
              => StoreOpen(p) /\ ~At(p, "recover"),
           s = "drain" => At(p, "serving"),
           s = "close store" => At(p, "wait jobs") /\ jobs[p] = {},
           s \in {"close kata", "unlock"} => At(p, "close store") \/ At(p, "close kata"),
           s = "exit" => At(p, "unlock")
    PROVE  LifecycleInv'
  <1>0. daemon[p] \in Daemon /\ ProcessOK(p)
    BY ProcessTypes
  <1>1. /\ OnlyDaemon(p) /\ daemon'[p].step = s /\ daemon'[p].late = daemon[p].late
        /\ daemon'[p].token = daemon[p].token /\ daemon'[p].fd = daemon[p].fd
        /\ daemon'[p].key = daemon[p].key
    BY GoesOK DEF Step
  <1>2. LockOK(p)' /\ TokenOK(p)' /\ IdentityOK(p)'
    BY <1>0, <1>1
    DEF ProcessOK, LockOK, TokenOK, IdentityOK, At, HasLock, BeforeLock, Ending
  <1>3. KeyOK(p)'
    BY <1>0, <1>1 DEF ProcessOK, KeyOK, At, StoreOpen, Ending
  <1>4. RecordsOK(p)'
    BY <1>0, <1>1 DEF ProcessOK, RecordsOK, At, StoreOpen, BeforeStore, Starting, Ending
  <1>5. LockKept(p)
    BY DEF LockKept
  <1> QED BY <1>1, <1>2, <1>3, <1>4, <1>5, QuietOK DEF ProcessOK

\* The handlers are, or are no longer, late.
LEMMA LateOK ==
    ASSUME LifecycleInv, NEW p \in Processes, NEW s \in Ending, NEW l \in BOOLEAN,
           daemon' = [daemon EXCEPT ![p] = [daemon[p] EXCEPT !.step = s, !.late = l]],
           UNCHANGED <<disk, lossy, recs, unsaved, jobs>>,
           At(p, s) \/ (At(p, "drain") /\ s = "cancel")
    PROVE  LifecycleInv'
  <1>0. daemon[p] \in Daemon /\ ProcessOK(p)
    BY ProcessTypes
  <1> DEFINE d == [daemon[p] EXCEPT !.step = s, !.late = l]
  <1>1. /\ d \in Daemon /\ d.step = s /\ d.late = l /\ d.token = daemon[p].token
        /\ d.fd = daemon[p].fd /\ d.key = daemon[p].key
    BY <1>0 DEF Daemon, Step
  <1> HIDE DEF d
  <1>2. daemon' = [daemon EXCEPT ![p] = d]
    BY DEF d
  <1>3. OnlyDaemon(p) /\ daemon'[p] = d
    BY <1>1, <1>2, BecomesOK
  <1>4. LockOK(p)' /\ TokenOK(p)' /\ IdentityOK(p)' /\ KeyOK(p)'
    BY <1>0, <1>1, <1>3
    DEF ProcessOK, LockOK, TokenOK, IdentityOK, KeyOK, At, StoreOpen, BeforeLock, Ending
  <1>5. RecordsOK(p)'
    BY <1>0, <1>1, <1>3 DEF ProcessOK, RecordsOK, At, StoreOpen, BeforeStore, Starting, Ending
  <1>6. LockKept(p)
    BY <1>1, <1>3 DEF LockKept, HasLock, At, Ending
  <1> QED BY <1>3, <1>4, <1>5, <1>6, QuietOK DEF ProcessOK

\* What a process that ended is like.
LEMMA OffOK ==
    ASSUME NEW p \in Processes, daemon'[p] = NoDaemon, recs'[p] = NoRecords, jobs'[p] = {}
    PROVE  ProcessOK(p)' /\ ~HasLock(p)'
  <1>1. daemon'[p].step = "off" /\ ~daemon'[p].late
    BY DEF NoDaemon
  <1> QED BY <1>1
      DEF ProcessOK, LockOK, TokenOK, IdentityOK, KeyOK, RecordsOK, At, StoreOpen, BeforeLock,
          BeforeStore, Starting, Ending, HasLock

\* The end of a process, in order or not.
LEMMA EndSteps ==
    ASSUME LifecycleInv, NEW p \in Processes, EndStep(p)
    PROVE  LifecycleInv'
  <1>0. /\ daemon[p] \in Daemon /\ ProcessOK(p) /\ disk \in Disk /\ disk \in lossy
        /\ daemon \in [Processes -> Daemon]
    BY ProcessTypes DEF LifecycleInv, TypeOK
  <1>1. CASE \/ BeginShutdown(p) \/ Waited(p) \/ StopStore(p) \/ WaitJobs(p)
             \/ CloseStore(p) \/ CloseKata(p)
    <2>1. CASE BeginShutdown(p)
      BY <2>1, EndGoesOK DEF BeginShutdown, At, HasLock, StoreOpen
    <2>2. CASE Waited(p)
      BY <2>2, EndGoesOK DEF Waited, At, HasLock, StoreOpen, Ending
    <2>3. CASE StopStore(p)
      BY <2>3, EndGoesOK DEF StopStore, At, HasLock, StoreOpen, Ending
    <2>4. CASE WaitJobs(p)
      BY <2>4, EndGoesOK DEF WaitJobs, JobsDone, At, HasLock, StoreOpen, Ending
    <2>5. CASE CloseStore(p)
      BY <2>5, EndGoesOK DEF CloseStore, At, HasLock, Ending
    <2>6. CASE CloseKata(p)
      BY <2>6, EndGoesOK DEF CloseKata, At, HasLock, Ending
    <2> QED BY <1>1, <2>1, <2>2, <2>3, <2>4, <2>5, <2>6
  <1>2. CASE Drained(p)
    <2>1. PICK l \in BOOLEAN :
             /\ At(p, "drain") /\ UNCHANGED <<disk, lossy, recs, unsaved, jobs>>
             /\ daemon' = [daemon EXCEPT ![p] = [daemon[p] EXCEPT !.step = "cancel", !.late = l]]
      BY <1>0, <1>2 DEF Drained
    <2> QED BY <2>1, LateOK DEF Ending
  <1>3. CASE HandlersReturn(p)
    <2>1. /\ daemon[p].late /\ UNCHANGED <<disk, lossy, recs, unsaved, jobs>>
          /\ daemon' = [daemon EXCEPT ![p].late = FALSE]
      BY <1>3 DEF HandlersReturn
    <2>2. daemon[p].step \in Ending
      BY <1>0, <2>1 DEF ProcessOK, RecordsOK
    <2>3. daemon' = [daemon EXCEPT ![p] = [daemon[p] EXCEPT !.step = daemon[p].step, !.late = FALSE]]
      BY <1>0, <2>1 DEF Daemon
    <2> QED BY <2>1, <2>2, <2>3, LateOK DEF At
  <1>4. CASE Unlock(p)
    <2>1. /\ At(p, "unlock") /\ Shows(disk) /\ Goes(p, "exit") /\ UNCHANGED <<recs, unsaved, jobs>>
      BY <1>4 DEF Unlock, Unlocked
    <2>2. UNCHANGED <<disk, lossy>>
      BY <1>0, <2>1 DEF Shows
    <2> QED BY <2>1, <2>2, EndGoesOK DEF At, HasLock, Ending
  <1>5. CASE Exit(p)
    <2>1. /\ daemon' = [daemon EXCEPT ![p] = NoDaemon] /\ recs' = [recs EXCEPT ![p] = NoRecords]
          /\ unsaved' = [unsaved EXCEPT ![p] = {}] /\ jobs' = [jobs EXCEPT ![p] = {}]
          /\ UNCHANGED <<disk, lossy>>
      BY <1>5 DEF Exit, Ended
    <2>2. NoDaemon \in Daemon /\ NoRecords \in [Workspaces -> RecordState]
      BY DEF NoDaemon, Daemon, Step, NoRecords, RecordState
    <2>3. OnlyDaemon(p) /\ daemon'[p] = NoDaemon
      BY <2>1, <2>2, BecomesOK
    <2>4. OnlyStore(p) /\ recs'[p] = NoRecords /\ jobs'[p] = {}
      BY <2>1, <2>2 DEF OnlyStore, LifecycleInv, TypeOK
    <2>5. ProcessOK(p)' /\ LockKept(p)
      BY <2>3, <2>4, OffOK DEF LockKept
    <2>6. DiskKept(p) /\ OneIdentity'
      BY <2>1 DEF DiskKept, OneIdentity, LifecycleInv, TypeOK
    <2> QED BY <2>3, <2>4, <2>5, <2>6, StepOK
  <1> QED BY <1>1, <1>2, <1>3, <1>4, <1>5 DEF EndStep

\* A loss of power ends every process, and shows what was synced.
LEMMA PowerOK ==
    ASSUME LifecycleInv, LosePower
    PROVE  LifecycleInv'
  <1>1. PICK d \in lossy : Keeps(d)
    BY DEF LosePower
  <1>2. /\ NoDaemon \in Daemon /\ NoRecords \in [Workspaces -> RecordState]
        /\ NoDaemon.step = "off"
    BY DEF NoDaemon, Daemon, Step, NoRecords, RecordState
  <1>3. \A p \in Processes : daemon'[p] = NoDaemon /\ recs'[p] = NoRecords /\ jobs'[p] = {}
    BY DEF LosePower
  <1>4. \A p \in Processes : ProcessOK(p)' /\ ~HasLock(p)'
    BY <1>3, OffOK
  <1>5. TypeOK'
    <2>1. disk' \in Disk /\ lossy' \subseteq Disk /\ disk' \in lossy'
      BY <1>1 DEF Keeps, LifecycleInv, TypeOK
    <2>2. /\ daemon' \in [Processes -> Daemon]
          /\ recs' \in [Processes -> [Workspaces -> RecordState]]
          /\ unsaved' \in [Processes -> SUBSET Workspaces]
          /\ jobs' \in [Processes -> SUBSET Workspaces]
      BY <1>2 DEF LosePower
    <2> QED BY <1>3, <2>1, <2>2 DEF TypeOK
  <1>6. OneIdentity'
    BY <1>1 DEF Keeps, LifecycleInv, OneIdentity
  <1> QED BY <1>4, <1>5, <1>6 DEF LifecycleInv, OneHolder

-----------------------------------------------------------------------------
(* The theorems.                                                             *)

\* No daemon has run on an empty directory.
LEMMA LifecycleInit == Init => LifecycleInv
  <1> SUFFICES ASSUME Init PROVE LifecycleInv
    OBVIOUS
  <1>1. /\ EmptyDisk \in Disk /\ EmptyDisk.db = None
        /\ NoDaemon \in Daemon /\ NoDaemon.step = "off" /\ ~NoDaemon.late
        /\ NoRecords \in [Workspaces -> RecordState]
    BY DEF EmptyDisk, Disk, NoDaemon, Daemon, Step, NoRecords, RecordState
  <1>2. \A p \in Processes : daemon[p] = NoDaemon /\ recs[p] = NoRecords /\ jobs[p] = {}
    BY DEF Init
  <1>3. TypeOK
    BY <1>1, <1>2 DEF Init, TypeOK
  <1>4. OneIdentity
    BY <1>1 DEF Init, OneIdentity
  <1>5. OneHolder
    BY <1>1, <1>2 DEF OneHolder, HasLock, Ending
  <1>6. \A p \in Processes : ProcessOK(p)
    BY <1>1, <1>2
    DEF ProcessOK, LockOK, TokenOK, IdentityOK, KeyOK, RecordsOK, At, StoreOpen, BeforeLock,
        BeforeStore, Starting, Ending
  <1> QED BY <1>3, <1>4, <1>5, <1>6 DEF LifecycleInv

\* Every step of a start, of the store, of an end, and every loss of power
\* keeps the invariant.
LEMMA LifecycleNext ==
    ASSUME LifecycleInv, [Next]_vars
    PROVE  LifecycleInv'
  <1>1. CASE UNCHANGED vars
    BY <1>1, StutterOK
  <1>2. CASE LosePower
    BY <1>2, PowerOK
  <1>3. ASSUME NEW p \in Processes, StartStep(p)
        PROVE  LifecycleInv'
    BY <1>3, TokenSteps, LockSteps, IdentitySteps, KeySteps, OpenSteps DEF StartStep
  <1>4. ASSUME NEW p \in Processes, StoreStep(p) \/ EndStep(p)
        PROVE  LifecycleInv'
    BY <1>4, StoreSteps, EndSteps
  <1> QED BY <1>1, <1>2, <1>3, <1>4 DEF Next

\* LifecycleInvariance.  However starts, handlers, jobs, orderly ends, kills
\* and losses of power of any number of daemons interleave on one directory,
\* every state satisfies the inductive invariant.
THEOREM LifecycleInvariance == Spec => []LifecycleInv
  <1>1. Init => LifecycleInv
    BY LifecycleInit
  <1>2. LifecycleInv /\ [Next]_vars => LifecycleInv'
    BY LifecycleNext
  <1> QED BY <1>1, <1>2, PTL DEF Spec

\* LifecycleTypes.  Every variable has its declared shape, and no job outlives
\* the store it writes to.
THEOREM LifecycleTypes == Spec => []TypeOK
  <1>1. LifecycleInv => TypeOK
    BY DEF LifecycleInv
  <1> QED BY <1>1, LifecycleInvariance, PTL

\* OneWriterHolds.  "Forge holds exclusive local authority for the lifetime of
\* Run" (server.go): at most one process has Kata's store or the workspace
\* store open, because both are opened under the lock and the lock file, once
\* there, is never another one.
THEOREM OneWriterHolds == Spec => []OneWriter
  <1>1. LifecycleInv => OneWriter
    BY OpenUnderLock DEF LifecycleInv, OneHolder, OneWriter
  <1> QED BY <1>1, LifecycleInvariance, PTL

\* OneIdentityHolds.  Storage never exists without the identity it is under,
\* on the disk as it is and as a loss of power may leave it (server.go:387-388).
THEOREM OneIdentityHolds == Spec => []OneIdentity
  <1>1. LifecycleInv => OneIdentity
    BY DEF LifecycleInv
  <1> QED BY <1>1, LifecycleInvariance, PTL

\* SecretsAgreeHolds.  A daemon that goes for the lock has the token the
\* directory shows, and one with its store open signs with the key a successor
\* will find (main.go loadRoleToken, execution_key.go).
THEOREM SecretsAgreeHolds == Spec => []SecretsAgree
  <1>1. LifecycleInv => SecretsAgree
    BY DEF LifecycleInv, ProcessOK, TokenOK, KeyOK, SecretsAgree
  <1> QED BY <1>1, LifecycleInvariance, PTL

\* MemoryIsDiskHolds.  While its store is open, a daemon's records are what a
\* successor would read, except those whose last write failed (codex_checkout.go
\* put, Close).
THEOREM MemoryIsDiskHolds == Spec => []MemoryIsDisk
  <1>1. LifecycleInv => MemoryIsDisk
    BY DEF LifecycleInv, ProcessOK, RecordsOK, MemoryIsDisk
  <1> QED BY <1>1, LifecycleInvariance, PTL

\* PreparingIsOwnHolds.  What a serving daemon shows as preparing it prepares
\* itself, and a store closed in order leaves none (codex_checkout.go
\* newWorkspaceStore, stop, Close).
THEOREM PreparingIsOwnHolds == Spec => []PreparingIsOwn
  <1>1. LifecycleInv => PreparingIsOwn
    BY DEF LifecycleInv, ProcessOK, RecordsOK, PreparingIsOwn
  <1> QED BY <1>1, LifecycleInvariance, PTL
=============================================================================
