------------------------ MODULE SnapshotStoreProofs ------------------------
(***************************************************************************)
(* Theorems about captures, restores and the store of snapshots, for any    *)
(* parts, contents, captures, places and number of faults.                   *)
(***************************************************************************)
EXTENDS SnapshotStore, TLAPS

-----------------------------------------------------------------------------
(* What is left alone stays in order.                                        *)

\* NoDirectory and NoFiles are what they are.
LEMMA Nothing ==
    /\ NoFiles \in Files /\ NoFiles.manifest = "absent" /\ NoFiles.bundle = "absent"
    /\ NoDirectory \in Directory /\ NoDirectory.files = NoFiles
    /\ ~NoDirectory.linked /\ ~NoDirectory.kept /\ ~NoDirectory.found
    /\ NoScan \in Scan /\ (\A p \in Parts : NoScan[p] = Missing)
    /\ NoCapture \in Capture /\ NoCapture.step = "idle" /\ NoCapture.first = NoScan
    /\ NoCapture.second = NoScan /\ NoCapture.files = NoFiles
    /\ Over \in Capture /\ Over.step = "over"
    /\ NoRestore \in Restore /\ NoRestore.step = "none"
  BY DEF NoFiles, Files, FileState, NoDirectory, Directory, NoScan, Scan, NoCapture, Capture,
         Over, NoRestore, Restore

\* The shapes of the variables, by name.
LEMMA Types ==
    ASSUME SnapshotInv
    PROVE  /\ source \in Manifest /\ past \subseteq Manifest /\ undone \in BOOLEAN
           /\ capture \in [Captures -> Capture] /\ store \in [Manifest -> Directory]
           /\ home \in NameState /\ restore \in [Places -> Restore] /\ faults \in 0 .. MaxFaults
  BY DEF SnapshotInv, TypeOK

\* What a capture in a step holds.
LEMMA CaptureTypes ==
    ASSUME SnapshotInv, NEW c \in Captures
    PROVE  /\ capture[c] \in Capture /\ CaptureOK(capture[c])
           /\ capture[c].step \in {"publish", "rename", "sync"} => capture[c].first \in Manifest
  BY DEF SnapshotInv, TypeOK

\* A capture takes a step, and the store is in order.
LEMMA PublishStepOK ==
    ASSUME SnapshotInv, NEW c \in Captures, NEW k \in Capture,
           SetCapture(c, k), CaptureOK(k),
           k.step \in {"publish", "rename", "sync"} => k.first \in Manifest,
           home' \in NameState, store' \in [Manifest -> Directory], \A m \in Manifest : DirectoryOK(m)'
    PROVE  SnapshotInv'
  <1>1. /\ capture' = [capture EXCEPT ![c] = k]
        /\ source' = source /\ past' = past /\ undone' = undone /\ restore' = restore
        /\ faults' = faults
    BY DEF SetCapture
  <1>2. \A x \in Captures : capture'[x] = IF x = c THEN k ELSE capture[x]
    BY <1>1, Types
  <1>3. TypeOK'
    BY <1>1, <1>2 DEF SnapshotInv, TypeOK
  <1>4. \A x \in Captures : CaptureOK(capture[x])'
    BY <1>1, <1>2 DEF SnapshotInv, CaptureOK, Between
  <1>5. \A r \in Places : RestoreOK(restore[r])'
    BY <1>1 DEF SnapshotInv, RestoreOK
  <1> QED BY <1>1, <1>3, <1>4, <1>5 DEF SnapshotInv, Grows

\* A capture takes a step and the store stays.
LEMMA CaptureStepOK ==
    ASSUME SnapshotInv, NEW c \in Captures, NEW k \in Capture,
           SetCapture(c, k), home' \in NameState, UNCHANGED store, CaptureOK(k),
           k.step \in {"publish", "rename", "sync"} => k.first \in Manifest
    PROVE  SnapshotInv'
  <1>1. store' = store /\ past' = past /\ undone' = undone
    BY DEF SetCapture
  <1>2. store' \in [Manifest -> Directory] /\ \A m \in Manifest : DirectoryOK(m)'
    BY <1>1, Types DEF SnapshotInv, DirectoryOK, Published
  <1> QED BY <1>2, PublishStepOK

\* So does a restore.
LEMMA RestoreStepOK ==
    ASSUME SnapshotInv, NEW r \in Places, NEW k \in Restore, SetRestore(r, k), RestoreOK(k)
    PROVE  SnapshotInv'
  <1>1. /\ restore' = [restore EXCEPT ![r] = k]
        /\ source' = source /\ past' = past /\ undone' = undone /\ capture' = capture
        /\ faults' = faults /\ home' = home /\ store' = store
    BY DEF SetRestore
  <1>2. \A x \in Places : restore'[x] = IF x = r THEN k ELSE restore[x]
    BY <1>1, Types
  <1>3. TypeOK'
    BY <1>1, <1>2 DEF SnapshotInv, TypeOK
  <1>4. \A x \in Places : RestoreOK(restore[x])'
    BY <1>1, <1>2 DEF SnapshotInv, RestoreOK
  <1>5. /\ \A m \in Manifest : DirectoryOK(m)'
        /\ \A c \in Captures : CaptureOK(capture[c])'
    BY <1>1 DEF SnapshotInv, DirectoryOK, Published, CaptureOK, Between
  <1> QED BY <1>1, <1>3, <1>4, <1>5 DEF SnapshotInv, Grows

-----------------------------------------------------------------------------
(* The source's writers.                                                     *)

\* New content is above what was there; else nothing more is claimed.
LEMMA WriteOK ==
    ASSUME SnapshotInv, NEW p \in Parts, Write(p)
    PROVE  SnapshotInv'
  <1>1. PICK v \in Contents \ {source[p]} :
          /\ source' = [source EXCEPT ![p] = v] /\ undone' = (undone \/ v < source[p])
    BY DEF Write
  <1>2. /\ ~undone /\ past' = past \cup {source'}
        /\ capture' = capture /\ home' = home /\ store' = store
        /\ restore' = restore /\ faults' = faults
    BY DEF Write
  <1>3. /\ source \in Manifest /\ past \subseteq Manifest /\ source' \in Manifest
        /\ \A q \in Parts : source'[q] = IF q = p THEN v ELSE source[q]
        /\ \A q \in Parts : source[q] \in Nat /\ v \in Nat
    BY <1>1, Types, SnapshotAssumption DEF Manifest
  <1>4. TypeOK'
    BY <1>1, <1>2, <1>3 DEF SnapshotInv, TypeOK
  <1>5. undone' \/ \A q \in Parts : source[q] <= source'[q]
    <2>1. \A q \in Parts : source[q] \in Nat /\ source[q] <= source[q]
      BY <1>3
    <2>2. v \in Nat /\ source[p] \in Nat
      BY <1>3
    <2>3. v < source[p] \/ source[p] <= v
      BY <2>2
    <2>4. v < source[p] => undone'
      BY <1>1
    <2> QED BY <1>3, <2>1, <2>3, <2>4
  <1>6. undone' \/ Grows'
    <2> SUFFICES ASSUME ~undone', NEW m \in past', NEW q \in Parts
                 PROVE  m[q] <= source'[q]
      BY DEF Grows
    <2>1. CASE m = source'
      BY <1>3, <2>1
    <2>2. CASE m \in past
      <3>1. m[q] \in Nat /\ m[q] <= source[q]
        BY <1>2, <1>3, <2>2, SnapshotAssumption DEF SnapshotInv, Grows, Manifest
      <3> QED BY <1>3, <1>5, <3>1
    <2> QED BY <1>2, <2>1, <2>2
  <1>7. ASSUME NEW c \in Captures
        PROVE  CaptureOK(capture[c])'
    <2> DEFINE k == capture[c]
    <2>1. CaptureOK(k) /\ k' = k /\ k \in Capture
      BY <1>2, CaptureTypes
    <2> HIDE DEF k
    <2>2. ASSUME ~undone', k.step = "scan", NEW q \in Parts, k.first[q] # Missing
          PROVE  k.first[q] <= source'[q]
      <3>1. k.first[q] \in Nat /\ k.first[q] <= source[q]
        BY <1>2, <2>1, <2>2, SnapshotAssumption DEF CaptureOK, Between, Capture, Scan
      <3> QED BY <1>3, <1>5, <2>2, <3>1
    <2>3. undone' \/ Between(k)'
      BY <1>2, <2>1, <2>2 DEF CaptureOK, Between
    <2>4. CaptureOK(k)'
      BY <2>1, <2>3 DEF CaptureOK
    <2> QED BY <2>4 DEF k
  <1>8. /\ \A m \in Manifest : DirectoryOK(m)'
        /\ \A r \in Places : RestoreOK(restore[r])'
    BY <1>1, <1>2 DEF SnapshotInv, DirectoryOK, Published, RestoreOK
  <1> QED BY <1>2, <1>4, <1>6, <1>7, <1>8 DEF SnapshotInv

-----------------------------------------------------------------------------
(* Captures.                                                                 *)

\* The two scans.
LEMMA ScanSteps ==
    ASSUME SnapshotInv, NEW c \in Captures,
           \/ StartCapture(c) \/ FailCapture(c)
           \/ \E p \in Parts : ReadPart(c, p) \/ RereadPart(c, p)
    PROVE  SnapshotInv'
  <1>0. /\ capture[c] \in Capture /\ CaptureOK(capture[c])
        /\ source \in Manifest /\ source \in past /\ (undone \/ Grows)
        /\ past \subseteq Manifest /\ home \in NameState
    BY CaptureTypes, Types DEF SnapshotInv
  <1>1. CASE StartCapture(c)
    <2> DEFINE k == [NoCapture EXCEPT !.step = "scan"]
    <2>1. k \in Capture /\ k.step = "scan" /\ k.second = NoScan
          /\ \A p \in Parts : k.first[p] = Missing
      BY Nothing DEF Capture
    <2>2. SetCapture(c, k) /\ home' \in NameState /\ UNCHANGED store
      BY <1>0, <1>1 DEF StartCapture, NameState
    <2> HIDE DEF k
    <2>3. CaptureOK(k)
      BY <2>1 DEF CaptureOK, Between
    <2> QED BY <2>1, <2>2, <2>3, CaptureStepOK
  <1>2. CASE FailCapture(c)
    <2>1. SetCapture(c, Over) /\ home' \in NameState /\ UNCHANGED store
      BY <1>0, <1>2 DEF FailCapture
    <2>2. CaptureOK(Over)
      BY Nothing DEF CaptureOK, Between
    <2> QED BY Nothing, <2>1, <2>2, CaptureStepOK
  <1>3. ASSUME NEW p \in Parts, ReadPart(c, p)
        PROVE  SnapshotInv'
    <2> DEFINE k == [capture[c] EXCEPT !.first[p] = source[p]]
    <2>1. /\ capture[c].step = "scan" /\ SetCapture(c, k)
          /\ home' \in NameState /\ UNCHANGED store
      BY <1>0, <1>3 DEF ReadPart, At
    <2>2. /\ k \in Capture /\ k.step = "scan" /\ k.second = capture[c].second
          /\ \A q \in Parts : k.first[q] = IF q = p THEN source[p] ELSE capture[c].first[q]
      BY <1>0, <2>1 DEF Capture, Scan, Manifest
    <2> HIDE DEF k
    <2>3. source[p] <= source[p]
      <3>1. source[p] \in Nat
        BY <1>0, SnapshotAssumption DEF Manifest
      <3> QED BY <3>1
    <2>4. CaptureOK(k)
      BY <1>0, <2>1, <2>2, <2>3 DEF CaptureOK, Between
    <2> QED BY <2>1, <2>2, <2>4, CaptureStepOK
  <1>4. ASSUME NEW p \in Parts, RereadPart(c, p)
        PROVE  SnapshotInv'
    <2> DEFINE k == [capture[c] EXCEPT !.second[p] = source[p]]
    <2>1. /\ capture[c].step = "rescan" /\ SetCapture(c, k)
          /\ home' \in NameState /\ UNCHANGED store
      BY <1>0, <1>4 DEF RereadPart, At
    <2>2. /\ k \in Capture /\ k.step = "rescan" /\ k.first = capture[c].first
          /\ \A q \in Parts : k.second[q] = IF q = p THEN source[p] ELSE capture[c].second[q]
      BY <1>0, <2>1 DEF Capture, Scan, Manifest
    <2> HIDE DEF k
    <2>3. undone \/ Between(k)
      <3> SUFFICES ASSUME ~undone PROVE Between(k)
        OBVIOUS
      <3>1. PICK m \in past : \A q \in Parts :
              /\ capture[c].first[q] <= m[q]
              /\ capture[c].second[q] # Missing => m[q] <= capture[c].second[q]
        BY <1>0, <2>1 DEF CaptureOK, Between
      <3>2. m[p] <= source[p]
        BY <1>0 DEF Grows
      <3>3. \A q \in Parts : /\ k.first[q] <= m[q]
                             /\ k.second[q] # Missing => m[q] <= k.second[q]
        BY <2>2, <3>1, <3>2
      <3> QED BY <2>2, <3>3 DEF Between
    <2>4. CaptureOK(k)
      BY <1>0, <2>1, <2>2, <2>3 DEF CaptureOK
    <2> QED BY <2>1, <2>2, <2>4, CaptureStepOK
  <1> QED BY <1>1, <1>2, <1>3, <1>4

\* The objects are packed between the scans, at one instant.
LEMMA PackOK ==
    ASSUME SnapshotInv, NEW c \in Captures, Pack(c)
    PROVE  SnapshotInv'
  <1>0. /\ capture[c] \in Capture /\ CaptureOK(capture[c])
        /\ source \in Manifest /\ source \in past /\ home \in NameState
    BY CaptureTypes, Types DEF SnapshotInv
  <1> DEFINE k == [capture[c] EXCEPT !.step = "rescan", !.files.bundle = "cached"]
  <1>1. /\ capture[c].step = "scan" /\ SetCapture(c, k)
        /\ home' \in NameState /\ UNCHANGED store
        /\ \A p \in Parts : capture[c].first[p] # Missing
    BY <1>0 DEF Pack, At, IsWhole
  <1>2. k \in Capture /\ k.step = "rescan" /\ k.first = capture[c].first
        /\ k.second = capture[c].second
    BY <1>0 DEF Capture, Files, FileState
  <1> HIDE DEF k
  <1>3. k.first \in Manifest
    BY <1>0, <1>1, <1>2 DEF Capture, Scan, Manifest
  <1>4. undone \/ Between(k)
    <2>1. ASSUME ~undone, NEW p \in Parts
          PROVE  k.first[p] <= source[p]
      BY <1>0, <1>1, <1>2, <2>1 DEF CaptureOK, Between
    <2>2. ASSUME NEW p \in Parts PROVE k.second[p] = Missing
      BY <1>0, <1>1, <1>2, Nothing DEF CaptureOK
    <2> QED BY <1>0, <1>2, <2>1, <2>2 DEF Between
  <1>5. CaptureOK(k)
    BY <1>2, <1>3, <1>4 DEF CaptureOK
  <1> QED BY <1>1, <1>2, <1>5, CaptureStepOK

\* Equal scans have what the source was between them.
LEMMA CompareOK ==
    ASSUME SnapshotInv, NEW c \in Captures, Compare(c)
    PROVE  SnapshotInv'
  <1>0. /\ capture[c] \in Capture /\ CaptureOK(capture[c]) /\ past \subseteq Manifest
        /\ home \in NameState
    BY CaptureTypes, Types
  <1> DEFINE k == [capture[c] EXCEPT !.step = "publish", !.second = NoScan,
                                     !.files = FlushedFiles(@)]
  <1>1. /\ capture[c].step = "rescan" /\ SetCapture(c, k)
        /\ home' \in NameState /\ UNCHANGED store
        /\ \A p \in Parts : capture[c].second[p] # Missing
        /\ capture[c].second = capture[c].first
    BY <1>0 DEF Compare, At, IsWhole, ScansAgree
  <1>2. k \in Capture /\ k.step = "publish" /\ k.first = capture[c].first
        /\ k.files = FlushedFiles(NoFiles)
    BY <1>0, Nothing DEF Capture, Files, FileState, FlushedFiles
  <1> HIDE DEF k
  <1>3. undone \/ Between(k)
    <2> SUFFICES ASSUME ~undone PROVE k.first \in past
      BY <1>2 DEF Between
    <2>1. PICK m \in past : \A p \in Parts :
            k.first[p] <= m[p] /\ m[p] <= k.first[p]
      BY <1>0, <1>1, <1>2 DEF CaptureOK, Between
    <2>2. m \in Manifest /\ k.first \in Manifest
      BY <1>0, <1>1, <1>2 DEF CaptureOK
    <2>3. ASSUME NEW p \in Parts PROVE k.first[p] = m[p]
      <3>1. k.first[p] \in Nat /\ m[p] \in Nat
        BY <2>2, SnapshotAssumption DEF Manifest
      <3> QED BY <2>1, <3>1
    <2>4. k.first = m
      BY <2>2, <2>3 DEF Manifest
    <2> QED BY <2>4
  <1>4. CaptureOK(k) /\ k.first \in Manifest
    BY <1>0, <1>1, <1>2, <1>3 DEF CaptureOK
  <1> QED BY <1>1, <1>2, <1>4, CaptureStepOK

\* The names in the private directory are flushed.
LEMMA SyncNamesOK ==
    ASSUME SnapshotInv, NEW c \in Captures, SyncNames(c)
    PROVE  SnapshotInv'
  <1>0. /\ capture[c] \in Capture /\ CaptureOK(capture[c]) /\ capture[c].step = "publish"
        /\ capture[c].first \in Manifest /\ home \in NameState
    BY CaptureTypes, Types DEF SyncNames, At
  <1> DEFINE g == capture[c].files
             f == [x \in DOMAIN g |-> IF g[x] = "flushed" THEN "durable" ELSE g[x]]
             k == [capture[c] EXCEPT !.step = "rename", !.files = f]
  <1>1. SetCapture(c, k) /\ home' \in NameState /\ UNCHANGED store
    BY <1>0 DEF SyncNames, Capture
  <1>2. f = [manifest |-> "durable", bundle |-> "durable"]
    BY <1>0 DEF CaptureOK, FlushedFiles
  <1> HIDE DEF f
  <1>3. k \in Capture /\ k.step = "rename" /\ k.first = capture[c].first /\ k.files = f
    BY <1>0, <1>2 DEF Capture, Files, FileState
  <1> HIDE DEF k
  <1>4. CaptureOK(k)
    BY <1>0, <1>2, <1>3 DEF CaptureOK, Between
  <1> QED BY <1>0, <1>1, <1>3, <1>4, CaptureStepOK

\* A new directory has durable files only.
LEMMA RenameOK ==
    ASSUME SnapshotInv, NEW c \in Captures, Rename(c)
    PROVE  SnapshotInv'
  <1>0. /\ capture[c] \in Capture /\ CaptureOK(capture[c]) /\ capture[c].step = "rename"
        /\ capture[c].first \in Manifest
        /\ store \in [Manifest -> Directory] /\ capture \in [Captures -> Capture]
        /\ home \in NameState
    BY CaptureTypes, Types DEF Rename, At
  <1> DEFINE i == capture[c].first
             d == [NoDirectory EXCEPT !.files = capture[c].files]
             k == [capture[c] EXCEPT !.step = "sync", !.files = NoFiles]
  <1>1. /\ d \in Directory /\ ~d.kept /\ ~d.linked
        /\ d.files \in [manifest : {"durable", "rotten"}, bundle : {"durable", "rotten"}]
    BY <1>0, Nothing DEF CaptureOK, Directory, Files, FileState
  <1>2. k \in Capture /\ k.step = "sync" /\ k.first = i
    BY <1>0, Nothing DEF Capture
  <1>3. SetCapture(c, k) /\ home' = home /\ store' = [store EXCEPT ![i] = d]
    BY DEF Rename
  <1>4. undone \/ (Between(k) /\ i \in past)
    BY <1>0, <1>2 DEF CaptureOK, Between
  <1> HIDE DEF d, k, i
  <1>5. CaptureOK(k)
    BY <1>2, <1>4 DEF CaptureOK
  <1>6. store' \in [Manifest -> Directory]
    BY <1>0, <1>1, <1>3 DEF i
  <1>7. ASSUME NEW m \in Manifest PROVE DirectoryOK(m)'
    <2>1. past' = past /\ undone' = undone
      BY <1>3 DEF SetCapture
    <2>2. CASE m = i
      BY <1>0, <1>1, <1>3, <1>4, <2>1, <2>2 DEF DirectoryOK
    <2>3. CASE m # i
      BY <1>0, <1>3, <2>1, <2>3 DEF DirectoryOK, Published, SnapshotInv
    <2> QED BY <2>2, <2>3
  <1>8. k.first \in Manifest
    BY <1>0, <1>2 DEF i
  <1> QED BY <1>0, <1>2, <1>3, <1>5, <1>6, <1>7, <1>8, PublishStepOK

\* The entries of the store are flushed.
LEMMA SyncStoreOK ==
    ASSUME SnapshotInv, NEW c \in Captures, SyncStore(c)
    PROVE  SnapshotInv'
  <1>0. store \in [Manifest -> Directory] /\ home \in NameState
    BY Types
  <1>1. SetCapture(c, Over) /\ home' = home /\ past' = past /\ undone' = undone
    BY DEF SyncStore, SetCapture
  <1>2. CaptureOK(Over)
    BY Nothing DEF CaptureOK, Between
  <1>3. ASSUME NEW m \in Manifest
        PROVE  /\ store'[m] \in Directory /\ store'[m].files = store[m].files
               /\ IF Published(m) THEN store'[m].linked ELSE store'[m] = store[m]
    BY <1>0 DEF SyncStore, Directory
  <1>4. store' \in [Manifest -> Directory]
    BY <1>3 DEF SyncStore
  <1>5. ASSUME NEW m \in Manifest PROVE DirectoryOK(m)'
    BY <1>1, <1>3, Nothing DEF SnapshotInv, DirectoryOK, Published
  <1> QED BY Nothing, <1>0, <1>1, <1>2, <1>4, <1>5, PublishStepOK

\* What loads is published.
LEMMA LoadedIsPublished ==
    ASSUME NEW m \in Manifest, Loads(m)
    PROVE  Published(m)
  BY Nothing DEF Loads, Published, Good

\* A capture that finds its snapshot published changes no directory, only what
\* is remembered of it.
LEMMA ReusePublishedOK ==
    ASSUME SnapshotInv, NEW c \in Captures, ReusePublished(c)
    PROVE  /\ SnapshotInv'
           /\ \A m \in Manifest : store'[m].kept = store[m].kept
  <1> DEFINE i == capture[c].first
  <1>0. store \in [Manifest -> Directory] /\ home \in NameState /\ i \in Manifest
    BY CaptureTypes, Types DEF ReusePublished, At
  <1>1. /\ SetCapture(c, Over) /\ home' = home /\ past' = past /\ undone' = undone
        /\ store' = [store EXCEPT ![i].found = TRUE]
    BY DEF ReusePublished, SetCapture
  <1>2. Published(i)
    BY <1>0, LoadedIsPublished DEF ReusePublished
  <1>3. CaptureOK(Over)
    BY Nothing DEF CaptureOK, Between
  <1> HIDE DEF i
  <1>4. ASSUME NEW m \in Manifest
        PROVE  /\ store'[m] \in Directory /\ store'[m].files = store[m].files
               /\ store'[m].linked = store[m].linked /\ store'[m].kept = store[m].kept
               /\ m # i => store'[m] = store[m]
    BY <1>0, <1>1 DEF Directory
  <1>5. store' \in [Manifest -> Directory]
    BY <1>0, <1>1, <1>4
  <1>6. ASSUME NEW m \in Manifest PROVE DirectoryOK(m)'
    BY <1>1, <1>2, <1>4 DEF SnapshotInv, DirectoryOK, Published
  <1>7. SnapshotInv'
    BY Nothing, <1>0, <1>1, <1>3, <1>5, <1>6, PublishStepOK
  <1> QED BY <1>4, <1>7

-----------------------------------------------------------------------------
(* Restores.                                                                 *)

\* The tree of a restore that is returned equals what was captured.
LEMMA RestoreSteps ==
    ASSUME SnapshotInv, NEW r \in Places, RestoreStep(r)
    PROVE  SnapshotInv'
  <1>0. restore[r] \in Restore /\ RestoreOK(restore[r])
    BY Types DEF SnapshotInv
  <1>1. ASSUME NEW m \in Manifest, StartRestore(r, m)
        PROVE  SnapshotInv'
    <2> DEFINE k == [NoRestore EXCEPT !.step = "fetch", !.id = m, !.todo = Parts]
    <2>1. SetRestore(r, k) /\ Published(m)
      BY <1>1, LoadedIsPublished DEF StartRestore
    <2>2. k \in Restore /\ k.step = "fetch" /\ k.id = m
      BY Nothing DEF Restore, Manifest, Scan
    <2> HIDE DEF k
    <2>3. RestoreOK(k)
      BY <2>1, <2>2 DEF RestoreOK, SnapshotInv, DirectoryOK
    <2> QED BY <2>1, <2>2, <2>3, RestoreStepOK
  <1>2. CASE FetchBundles(r)
    <2> DEFINE k == [restore[r] EXCEPT !.step = "write"]
    <2>1. SetRestore(r, k) /\ restore[r].step = "fetch"
      BY <1>2 DEF FetchBundles
    <2>2. k \in Restore /\ k.step = "write" /\ k.id = restore[r].id
      BY <1>0 DEF Restore
    <2> HIDE DEF k
    <2>3. RestoreOK(k)
      BY <1>0, <2>1, <2>2 DEF RestoreOK
    <2> QED BY <2>1, <2>2, <2>3, RestoreStepOK
  <1>3. CASE FinishRestore(r)
    <2> DEFINE k == [NoRestore EXCEPT !.step = "done", !.tree = restore[r].tree]
    <2>1. /\ SetRestore(r, k) /\ restore[r].step = "write"
          /\ restore[r].tree = restore[r].id
      BY <1>3 DEF FinishRestore, IsVerified
    <2>2. k \in Restore /\ k.step = "done" /\ k.tree = restore[r].tree
      BY <1>0, Nothing DEF Restore
    <2> HIDE DEF k
    <2>3. RestoreOK(k)
      BY <1>0, <2>1, <2>2 DEF RestoreOK
    <2> QED BY <2>1, <2>2, <2>3, RestoreStepOK
  <1>4. CASE FailRestore(r)
    <2> DEFINE k == [NoRestore EXCEPT !.step = "partial"]
    <2>1. SetRestore(r, k)
      BY <1>4 DEF FailRestore
    <2>2. k \in Restore /\ k.step = "partial"
      BY Nothing DEF Restore
    <2> HIDE DEF k
    <2>3. RestoreOK(k)
      BY <2>2 DEF RestoreOK
    <2> QED BY <2>1, <2>2, <2>3, RestoreStepOK
  <1>5. ASSUME NEW p \in Parts, WritePart(r, p)
        PROVE  SnapshotInv'
    <2> DEFINE k == [restore[r] EXCEPT !.todo = @ \ {p}]
    <2>1. /\ restore[r].step = "write"
          /\ \/ \E v \in {k.id[p], Altered} : SetRestore(r, [k EXCEPT !.tree[p] = v])
             \/ \E q \in Parts \ {p} : SetRestore(r, [k EXCEPT !.tree[q] = k.id[p]])
      BY <1>5 DEF WritePart
    <2>2. /\ k \in Restore /\ k.step = "write" /\ k.id = restore[r].id
          /\ k.id[p] \in Contents \cup {Missing, Altered}
      BY <1>0, <2>1 DEF Restore, Scan
    <2> HIDE DEF k
    <2>3. ASSUME NEW q \in Parts, NEW v \in Contents \cup {Missing, Altered},
                 SetRestore(r, [k EXCEPT !.tree[q] = v])
          PROVE  SnapshotInv'
      <3> DEFINE j == [k EXCEPT !.tree[q] = v]
      <3>1. j \in Restore /\ j.step = "write" /\ j.id = restore[r].id
        BY <2>2 DEF Restore
      <3>2. SetRestore(r, j)
        BY <2>3
      <3> HIDE DEF j
      <3>3. RestoreOK(j)
        BY <1>0, <2>1, <3>1 DEF RestoreOK
      <3> QED BY <3>1, <3>2, <3>3, RestoreStepOK
    <2> QED BY <2>1, <2>2, <2>3
  <1> QED BY <1>1, <1>2, <1>3, <1>4, <1>5 DEF RestoreStep

-----------------------------------------------------------------------------
(* Failures.                                                                 *)

\* Faults stay within their bound.
LEMMA FaultTypes ==
    ASSUME SnapshotInv, Fault
    PROVE  faults' \in 0 .. MaxFaults
  BY Types, SnapshotAssumption DEF Fault

\* A restart, with a store in order.
LEMMA RestartedOK ==
    ASSUME SnapshotInv, Restarted, home' \in NameState,
           store' \in [Manifest -> Directory],
           \A m \in Manifest : DirectoryOK(m)'
    PROVE  SnapshotInv'
  <1>1. source' = source /\ past' = past /\ undone' = undone /\ faults' \in 0 .. MaxFaults
    BY FaultTypes DEF Restarted
  <1>2. \A c \in Captures : capture'[c] \in {NoCapture, Over}
    BY DEF Restarted
  <1>3. \A c \in Captures : /\ capture'[c] \in Capture
                            /\ capture'[c].step \in {"idle", "over"}
    BY <1>2, Nothing
  <1>4. capture' \in [Captures -> Capture]
    BY <1>3 DEF Restarted
  <1> DEFINE k == [NoRestore EXCEPT !.step = "partial"]
  <1>5. k \in Restore /\ k.step = "partial"
    BY Nothing DEF Restore
  <1> HIDE DEF k
  <1>6. \A r \in Places : restore'[r] \in {NoRestore, k}
    BY DEF Restarted, k
  <1>7. \A r \in Places : /\ restore'[r] \in Restore
                          /\ restore'[r].step \in {"none", "partial"}
    BY <1>5, <1>6, Nothing
  <1>8. restore' \in [Places -> Restore]
    BY <1>7 DEF Restarted
  <1>9. TypeOK'
    BY <1>1, <1>3, <1>4, <1>8 DEF SnapshotInv, TypeOK
  <1>10. /\ \A c \in Captures : CaptureOK(capture[c])'
         /\ \A r \in Places : RestoreOK(restore[r])'
    BY <1>3, <1>7 DEF CaptureOK, Between, RestoreOK
  <1> QED BY <1>1, <1>9, <1>10 DEF SnapshotInv, Grows

\* A crash keeps the store as it is, and ends captures and restores.
LEMMA CrashOK ==
    ASSUME SnapshotInv, Crash
    PROVE  SnapshotInv'
  <1>1. home' \in NameState /\ store' = store /\ past' = past /\ undone' = undone
    BY Types DEF Crash, Restarted
  <1>2. store' \in [Manifest -> Directory] /\ \A m \in Manifest : DirectoryOK(m)'
    BY <1>1, Types DEF SnapshotInv, DirectoryOK, Published
  <1> QED BY <1>1, <1>2, RestartedOK DEF Crash

\* What a loss of power does to a published directory in a store that stays: it
\* is there with the files it had, or not at all, and what is linked is there.
LEMMA PowerLossStore ==
    ASSUME SnapshotInv, EntriesLost, NEW m \in Manifest
    PROVE  /\ store' \in [Manifest -> Directory]
           /\ \/ /\ Published(m) /\ store'[m].linked
                 /\ store'[m].files = store[m].files /\ store'[m].kept = store[m].kept
              \/ store'[m] = NoDirectory /\ ~store[m].kept
  <1> DEFINE there == {x \in Manifest : Published(x)}
             outcomes == [x \in there |->
               [manifest : AfterPowerLoss(store[x].files.manifest),
                bundle : AfterPowerLoss(store[x].files.bundle)]]
  <1>0. store \in [Manifest -> Directory]
    BY Types
  <1>1. PICK lost \in SUBSET {x \in there : ~store[x].linked},
             after \in [there -> UNION {outcomes[x] : x \in there}] :
          /\ \A x \in there : after[x] \in outcomes[x]
          /\ store' = [x \in Manifest |->
                IF x \in there \ lost
                THEN [store[x] EXCEPT !.files = after[x], !.linked = TRUE]
                ELSE NoDirectory]
    BY DEF EntriesLost
  <1>2. ASSUME NEW x \in there
        PROVE  after[x] = store[x].files /\ store[x].files \in Files
    <2>1. /\ store[x].files.manifest \in {"durable", "rotten"}
          /\ store[x].files.bundle \in {"durable", "rotten"}
          /\ store[x].files \in Files
      BY <1>0 DEF SnapshotInv, DirectoryOK, Directory
    <2>2. after[x] \in [manifest : AfterPowerLoss(store[x].files.manifest),
                         bundle : AfterPowerLoss(store[x].files.bundle)]
      BY <1>1
    <2>3. /\ AfterPowerLoss(store[x].files.manifest) = {store[x].files.manifest}
          /\ AfterPowerLoss(store[x].files.bundle) = {store[x].files.bundle}
      BY <2>1 DEF AfterPowerLoss
    <2>4. after[x] \in [manifest : {store[x].files.manifest}, bundle : {store[x].files.bundle}]
      BY <2>2, <2>3
    <2> QED BY <2>1, <2>4 DEF Files
  <1>3. ASSUME NEW x \in Manifest
        PROVE  /\ store'[x] \in Directory
               /\ \/ /\ Published(x) /\ store'[x].linked
                     /\ store'[x].files = store[x].files /\ store'[x].kept = store[x].kept
                  \/ store'[x] = NoDirectory /\ ~store[x].kept
    <2>1. CASE x \in there \ lost
      <3>1. store'[x] = [store[x] EXCEPT !.files = store[x].files, !.linked = TRUE]
        BY <1>1, <1>2, <2>1
      <3> QED BY <1>0, <2>1, <3>1 DEF Directory
    <2>2. CASE x \notin there \ lost
      <3>1. store'[x] = NoDirectory
        BY <1>1, <2>2
      <3>2. ~Published(x) \/ ~store[x].linked
        BY <1>1, <2>2
      <3>3. ~store[x].kept
        BY <3>2, Nothing DEF SnapshotInv, DirectoryOK, Published
      <3> QED BY <3>1, <3>3, Nothing
    <2> QED BY <2>1, <2>2
  <1>4. store' \in [Manifest -> Directory]
    BY <1>1, <1>3
  <1> QED BY <1>3, <1>4

\* A loss of power leaves whole directories only, or no store.
LEMMA PowerLossOK ==
    ASSUME SnapshotInv, PowerLoss
    PROVE  SnapshotInv'
  <1>1. Restarted /\ past' = past /\ undone' = undone
    BY DEF PowerLoss, Restarted
  <1>2. CASE StoreStays
    <2>1. home' \in NameState
      BY <1>2, Types DEF StoreStays, NameState
    <2>2. EntriesLost
      BY <1>2 DEF StoreStays
    <2>3. ASSUME NEW m \in Manifest PROVE DirectoryOK(m)'
      BY <1>1, <2>2, PowerLossStore, Nothing DEF SnapshotInv, DirectoryOK, Published
    <2>4. store' \in [Manifest -> Directory]
      <3>1. (\E m \in Manifest : TRUE) => store' \in [Manifest -> Directory]
        BY <2>2, PowerLossStore
      <3>2. [p \in Parts |-> 0] \in Manifest
        BY SnapshotAssumption DEF Manifest
      <3> QED BY <3>1, <3>2
    <2> QED BY <1>1, <2>1, <2>3, <2>4, RestartedOK
  <1>3. CASE StoreLost
    <2>1. /\ home' \in NameState
          /\ store' \in [Manifest -> Directory]
          /\ \A m \in Manifest : store'[m] = NoDirectory
      BY <1>3, Nothing DEF StoreLost, NameState
    <2>2. ASSUME NEW m \in Manifest PROVE DirectoryOK(m)'
      BY <2>1, Nothing DEF DirectoryOK, Published
    <2> QED BY <1>1, <2>1, <2>2, RestartedOK
  <1> QED BY <1>2, <1>3 DEF PowerLoss

\* A file that rots stays in place, and its directory linked.
LEMMA RotOK ==
    ASSUME SnapshotInv, NEW m \in Manifest, NEW f \in {"manifest", "bundle"}, Rot(m, f)
    PROVE  /\ SnapshotInv'
           /\ \A x \in Manifest : store'[x].kept = store[x].kept
  <1>0. store \in [Manifest -> Directory]
    BY Types
  <1>1. /\ source' = source /\ past' = past /\ undone' = undone /\ capture' = capture
        /\ home' = home /\ restore' = restore /\ Published(m)
        /\ store' = [store EXCEPT ![m].files[f] = "rotten"]
    BY DEF Rot
  <1>2. ASSUME NEW x \in Manifest
        PROVE  /\ store'[x] \in Directory
               /\ store'[x].linked = store[x].linked /\ store'[x].kept = store[x].kept
               /\ x # m => store'[x] = store[x]
               /\ x = m => /\ store'[x].files.manifest \in {store[x].files.manifest, "rotten"}
                           /\ store'[x].files.bundle \in {store[x].files.bundle, "rotten"}
    <2>1. CASE f = "manifest"
      BY <1>0, <1>1, <2>1 DEF Directory, Files, FileState
    <2>2. CASE f = "bundle"
      BY <1>0, <1>1, <2>2 DEF Directory, Files, FileState
    <2> QED BY <2>1, <2>2
  <1>3. store' \in [Manifest -> Directory]
    BY <1>0, <1>1, <1>2
  <1>4. ASSUME NEW x \in Manifest PROVE DirectoryOK(x)'
    <2>1. CASE x = m
      <3>1. /\ store'[x].files \in Files /\ DirectoryOK(x) /\ Published(x)
        BY <1>1, <1>2, <2>1 DEF Directory, SnapshotInv
      <3>2. /\ store'[x].files.manifest \in {"durable", "rotten"}
            /\ store'[x].files.bundle \in {"durable", "rotten"}
        BY <1>2, <2>1, <3>1 DEF DirectoryOK
      <3>3. store'[x].files \in [manifest : {"durable", "rotten"}, bundle : {"durable", "rotten"}]
        BY <3>1, <3>2 DEF Files
      <3> QED BY <1>1, <1>2, <3>1, <3>3 DEF DirectoryOK
    <2>2. CASE x # m
      BY <1>1, <1>2, <2>2 DEF SnapshotInv, DirectoryOK, Published
    <2> QED BY <2>1, <2>2
  <1>5. TypeOK'
    BY <1>1, <1>3, FaultTypes DEF Rot, SnapshotInv, TypeOK
  <1>6. /\ \A c \in Captures : CaptureOK(capture[c])'
        /\ \A r \in Places : RestoreOK(restore[r])'
    BY <1>1 DEF SnapshotInv, CaptureOK, Between, RestoreOK
  <1>7. SnapshotInv'
    BY <1>1, <1>4, <1>5, <1>6 DEF SnapshotInv, Grows
  <1> QED BY <1>2, <1>7

-----------------------------------------------------------------------------
(* The theorems.                                                             *)

\* The empty store satisfies the invariant.
LEMMA SnapshotInit == Init => SnapshotInv
  <1> SUFFICES ASSUME Init PROVE SnapshotInv
    OBVIOUS
  <1>1. source \in Manifest /\ \A p \in Parts : source[p] = 0
    BY SnapshotAssumption DEF Init, Manifest
  <1>2. TypeOK
    <2>1. faults \in 0 .. MaxFaults
      BY SnapshotAssumption DEF Init
    <2>2. /\ source \in Manifest /\ past \subseteq Manifest /\ undone \in BOOLEAN
      BY <1>1 DEF Init
    <2>3. /\ capture \in [Captures -> Capture]
          /\ \A c \in Captures : capture[c].step = "idle"
      BY Nothing DEF Init
    <2>4. /\ store \in [Manifest -> Directory] /\ restore \in [Places -> Restore]
          /\ home \in NameState
      BY Nothing DEF Init, NameState
    <2> QED BY <2>1, <2>2, <2>3, <2>4 DEF TypeOK
  <1>3. source \in past /\ Grows
    BY <1>1 DEF Init, Grows
  <1>4. \A c \in Captures : CaptureOK(capture[c])
    BY Nothing DEF Init, CaptureOK, Between
  <1>5. \A m \in Manifest : DirectoryOK(m)
    BY Nothing DEF Init, DirectoryOK, Published
  <1>6. \A r \in Places : RestoreOK(restore[r])
    BY Nothing DEF Init, RestoreOK
  <1> QED BY <1>2, <1>3, <1>4, <1>5, <1>6 DEF SnapshotInv

\* A stuttering step keeps the invariant.
LEMMA SnapshotStutter ==
    ASSUME SnapshotInv, UNCHANGED vars
    PROVE  SnapshotInv'
  <1>1. /\ source' = source /\ past' = past /\ undone' = undone /\ capture' = capture
        /\ home' = home /\ store' = store /\ restore' = restore /\ faults' = faults
    BY DEF vars
  <1>2. TypeOK' /\ source' \in past' /\ (undone' \/ Grows')
    BY <1>1 DEF SnapshotInv, TypeOK, Grows
  <1>3. /\ \A c \in Captures : CaptureOK(capture[c])'
        /\ \A m \in Manifest : DirectoryOK(m)'
        /\ \A r \in Places : RestoreOK(restore[r])'
    BY <1>1 DEF SnapshotInv, CaptureOK, Between, DirectoryOK, Published, RestoreOK
  <1> QED BY <1>2, <1>3 DEF SnapshotInv

\* Every step keeps the invariant.
LEMMA SnapshotNext ==
    ASSUME SnapshotInv, [Next]_vars
    PROVE  SnapshotInv'
  <1>1. CASE UNCHANGED vars
    BY <1>1, SnapshotStutter
  <1>2. ASSUME NEW p \in Parts, Write(p)
        PROVE  SnapshotInv'
    BY <1>2, WriteOK
  <1>3. ASSUME NEW c \in Captures, CaptureStep(c)
        PROVE  SnapshotInv'
    BY <1>3, ScanSteps, PackOK, CompareOK, ReusePublishedOK, SyncNamesOK, RenameOK,
       SyncStoreOK DEF CaptureStep
  <1>4. ASSUME NEW r \in Places, RestoreStep(r)
        PROVE  SnapshotInv'
    BY <1>4, RestoreSteps
  <1>5. CASE Crash \/ PowerLoss
    BY <1>5, CrashOK, PowerLossOK
  <1>6. ASSUME NEW m \in Manifest, NEW f \in {"manifest", "bundle"}, Rot(m, f)
        PROVE  SnapshotInv'
    BY <1>6, RotOK
  <1> QED BY <1>1, <1>2, <1>3, <1>4, <1>5, <1>6 DEF Next

\* SnapshotInvariance.  Every state of writers, captures, restores, crashes
\* and losses of power satisfies the inductive invariant.
THEOREM SnapshotInvariance == Spec => []SnapshotInv
  <1>1. Init => SnapshotInv
    BY SnapshotInit
  <1>2. SnapshotInv /\ [Next]_vars => SnapshotInv'
    BY SnapshotNext
  <1> QED BY <1>1, <1>2, PTL DEF Spec

\* SnapshotTypes.  Every variable has its declared shape, and what is about to
\* be published is a whole scan.
THEOREM SnapshotTypes == Spec => []TypeOK
  <1>1. SnapshotInv => TypeOK
    BY DEF SnapshotInv
  <1> QED BY <1>1, SnapshotInvariance, PTL

\* WasOneInstantHolds.  Whatever two equal scans saw, and whatever Restore
\* returned, the source was in at one instant, for any number of parts; unless
\* a writer brought back an earlier content (snapshot.go:310-311).
THEOREM WasOneInstantHolds == Spec => []WasOneInstant
  <1>1. SnapshotInv => WasOneInstant
    BY DEF SnapshotInv, DirectoryOK, RestoreOK, WasOneInstant
  <1> QED BY <1>1, SnapshotInvariance, PTL

\* PublishedIsWholeHolds.  "Snapshot files are flushed before atomic
\* publication", docs/code-checkout.md:33: no number of crashes and losses of
\* power leaves a published snapshot with a file missing or torn.
THEOREM PublishedIsWholeHolds == Spec => []PublishedIsWhole
  <1>1. SnapshotInv => PublishedIsWhole
    <2> SUFFICES ASSUME SnapshotInv, NEW m \in Manifest, Published(m)
                 PROVE  /\ store[m].files.manifest \in Good \cup {"rotten"}
                        /\ store[m].files.bundle \in Good \cup {"rotten"}
      BY DEF PublishedIsWhole
    <2> QED BY DEF SnapshotInv, DirectoryOK, Good
  <1> QED BY <1>1, SnapshotInvariance, PTL

\* PublishedSurvivesHolds.  In a store whose own name is on disk, a snapshot
\* that its capture published and returned is there after every later step,
\* losses of power and other captures included (syncDir, snapshot.go:437).  Of
\* a store just made, and of a capture that found its snapshot published, the
\* like is false: ReturnedSurvives.
THEOREM PublishedSurvivesHolds == Spec => PublishedSurvives
  <1> DEFINE Survives ==
               home = "durable" => \A m \in Manifest : store[m].kept => store'[m].kept
  <1>1. ASSUME SnapshotInv, [Next]_vars
        PROVE  Survives
    <2>0. store \in [Manifest -> Directory]
      BY <1>1, Types
    <2>1. CASE UNCHANGED store
      BY <2>1
    <2>2. ASSUME NEW c \in Captures, Rename(c)
          PROVE  Survives
      <3> DEFINE i == capture[c].first
      <3>1. ~Published(i)
        BY <2>2 DEF Rename
      <3>2. \A m \in Manifest \ {i} : store'[m] = store[m]
        BY <2>0, <2>2 DEF Rename
      <3>3. i \in Manifest => ~store[i].kept
        BY <3>1, Nothing DEF Published
      <3> QED BY <3>2, <3>3
    <2>3. ASSUME NEW c \in Captures, SyncStore(c)
          PROVE  Survives
      BY <2>0, <2>3 DEF SyncStore, Directory
    <2>4. CASE PowerLoss
      <3>1. CASE StoreStays
        BY <1>1, <3>1, PowerLossStore DEF StoreStays
      <3>2. CASE StoreLost
        BY <3>2 DEF StoreLost
      <3> QED BY <2>4, <3>1, <3>2 DEF PowerLoss
    <2>5. ASSUME NEW m \in Manifest, NEW f \in {"manifest", "bundle"}, Rot(m, f)
          PROVE  Survives
      BY <1>1, <2>5, RotOK
    <2>6. ASSUME NEW c \in Captures, CaptureStep(c)
          PROVE  UNCHANGED store \/ ReusePublished(c) \/ Rename(c) \/ SyncStore(c)
      BY <2>6 DEF CaptureStep, StartCapture, Pack, Compare, SyncNames, FailCapture,
                  ReadPart, RereadPart
    <2>7. ASSUME NEW r \in Places, RestoreStep(r)
          PROVE  UNCHANGED store
      BY <2>7 DEF RestoreStep, StartRestore, FetchBundles, FinishRestore, FailRestore,
                  WritePart, SetRestore
    <2>8. ASSUME NEW p \in Parts, Write(p)
          PROVE  UNCHANGED store
      BY <2>8 DEF Write
    <2>9. Crash \/ UNCHANGED vars => UNCHANGED store
      BY DEF Crash, vars
    <2>10. ASSUME NEW c \in Captures, ReusePublished(c)
           PROVE  Survives
      BY <1>1, <2>10, ReusePublishedOK
    <2> HIDE DEF Survives
    <2> QED BY <1>1, <2>10, <2>1, <2>2, <2>3, <2>4, <2>5, <2>6, <2>7, <2>8, <2>9 DEF Next
  <1>2. SnapshotInv /\ [Next]_vars => [Survives]_vars
    BY <1>1
  <1> QED BY <1>2, SnapshotInvariance, PTL DEF Spec, PublishedSurvives
=============================================================================
