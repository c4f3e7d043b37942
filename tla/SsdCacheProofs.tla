--------------------------- MODULE SsdCacheProofs ---------------------------
(***************************************************************************)
(* Proofs about SsdCache, for any number of files, overlapping passes,     *)
(* writes and failures: types, and that a valid copy is out of date only   *)
(* by one of the named causes.                                             *)
(***************************************************************************)
EXTENDS SsdCache, TLAPS

-----------------------------------------------------------------------------
(* The inductive invariant *)

\* A file is there for the mount and for the filer, or for neither.
SameFiles == \A p \in Paths : mount[p] = NoFile <=> filer[p] = NoFile

\* Contents that are still to be written have higher versions.
Written(v, c) == c # NoFile => c[2] <= v[c[1]]
OldContents == \A p \in Paths : Written(version, mount[p]) /\ Written(version, filer[p])

\* The data of a Write that has yet to invalidate is not at the filer.
Unflushed == \A p \in Paths : p \in writing => mount[p] # NoFile /\ mount[p] # filer[p]

\* The filer has what the mount shows, or there is no file.
Settled(p) == mount[p] = filer[p]

\* What a pass has downloaded in time is what a reader should see, up to the
\* rename of the copy ...
DownloadInTime ==
    \A s \in Passes : pass[s].pc = "rename" =>
        /\ pass[s].path \in Paths /\ pass[s].tmp # NoFile
        /\ \/ pass[s].path \in pass[s].late
           \/ mount[pass[s].path] = NoFile
           \/ Settled(pass[s].path) /\ pass[s].tmp = mount[pass[s].path]

\* The copy of p is up to date, or known to be out of date.
CopyKnown(p) == copy[p] \in {NoFile, mount[p]} \/ p \in spoiled

\* ... and after it, until the metadata is written, unless another pass has
\* replaced the copy since.
CopyInTime ==
    \A s \in Passes, p \in Paths :
        pass[s].updates[p] = "valid" =>
            \/ p \in pass[s].late
            \/ mount[p] = NoFile
            \/ Settled(p) /\ CopyKnown(p)

\* A pass that evicts has the lock, and is about to write the entries it has
\* found, its own updates and the evictions.
MetaKnown ==
    \A s \in Passes : pass[s].pc = "evict" =>
        /\ metaLock = s
        /\ \A p \in Paths : IF p \in pass[s].keep
                            THEN pass[s].meta[p] = pass[s].updates[p]
                            ELSE pass[s].meta[p] \in {entry[p], "evicted"}

\* A valid copy differs from what the filer has only by a known cause: a mount
\* that dies takes the mount back to that.
FilerStale ==
    \A p \in Paths :
        entry[p] = "valid" /\ copy[p] # NoFile /\ filer[p] # NoFile /\ copy[p] # filer[p]
            => p \in spoiled

StaleInv ==
    /\ TypeOK /\ SameFiles /\ OldContents /\ Unflushed
    /\ DownloadInTime /\ CopyInTime /\ MetaKnown /\ FilerStale /\ StaleOnlyByCause

\* What a single pass that has not failed keeps: the copies behind valid
\* entries, except for those it evicts.
OnePassInv ==
    fails = 0 =>
        /\ \A s \in Passes :
             /\ pass[s].todo \subseteq pass[s].keep
             /\ pass[s].pc = "rename" => pass[s].path \in pass[s].keep
             /\ \A p \in Paths : pass[s].updates[p] = "valid" =>
                    p \in pass[s].keep /\ copy[p] # NoFile
             /\ \A p \in pass[s].victims : p \notin pass[s].keep /\ pass[s].meta[p] = "evicted"
        /\ \A p \in Paths : entry[p] = "valid" /\ copy[p] = NoFile =>
             \E s \in Passes : pass[s].pc = "evict" /\ pass[s].meta[p] = "evicted"

-----------------------------------------------------------------------------
(* Types *)

LEMMA IdleType == IdlePass \in Pass /\ NoRead \in [pc : {"idle", "open"}, ok : SUBSET Content]
  BY DEF IdlePass, Pass, NoRead, EntryState

\* What a change of p does to the passes: those that have downloaded p are late.
LEMMA LateStep ==
    ASSUME TypeOK, NEW p \in Paths,
           pass' = [s \in Passes |->
                      IF Downloaded(s, p) THEN [pass[s] EXCEPT !.late = @ \cup {p}] ELSE pass[s]]
    PROVE  \A s \in Passes :
             /\ pass'[s] \in Pass
             /\ pass'[s] = [pass[s] EXCEPT !.late = pass'[s].late]
             /\ pass'[s].late = IF Downloaded(s, p) THEN pass[s].late \cup {p} ELSE pass[s].late
  <1> SUFFICES ASSUME NEW s \in Passes
               PROVE  /\ pass'[s] \in Pass
                      /\ pass'[s] = [pass[s] EXCEPT !.late = pass'[s].late]
                      /\ pass'[s].late = IF Downloaded(s, p) THEN pass[s].late \cup {p}
                                                             ELSE pass[s].late
    OBVIOUS
  <1>1. pass[s] \in Pass
    BY DEF TypeOK
  <1>2. CASE Downloaded(s, p)
    <2>1. pass'[s] = [pass[s] EXCEPT !.late = pass[s].late \cup {p}]
      BY <1>2
    <2> QED BY <1>1, <1>2, <2>1 DEF Pass
  <1>3. CASE ~Downloaded(s, p)
    <2>1. pass'[s] = pass[s]
      BY <1>3
    <2> QED BY <1>1, <1>3, <2>1 DEF Pass
  <1> QED BY <1>2, <1>3

LEMMA ChangeType ==
    ASSUME TypeOK, NEW p \in Paths, NEW c \in Content, Change(p, c)
    PROVE  /\ mount' \in [Paths -> Content \cup {NoFile}]
           /\ pass' \in [Passes -> Pass]
           /\ version' \in [Paths -> 0 .. MaxWrites]
           /\ mount' = [mount EXCEPT ![p] = c]
           /\ New(p) \in Content
           /\ version[p] \in Nat /\ version' = [version EXCEPT ![p] = version[p] + 1]
  <1>1. version[p] \in 0 .. MaxWrites /\ version[p] < MaxWrites /\ MaxWrites \in Nat
    BY CacheAssumption DEF TypeOK, Change
  <1>2. version' \in [Paths -> 0 .. MaxWrites] /\ New(p) \in Content
    BY <1>1 DEF TypeOK, Change, New, Content
  <1>3. pass' \in [Passes -> Pass]
    <2>1. \A s \in Passes : pass'[s] \in Pass
      BY LateStep DEF Change
    <2> QED BY <2>1 DEF Change
  <1> QED
    BY <1>1, <1>2, <1>3 DEF TypeOK, Change

LEMMA EndPassType ==
    ASSUME TypeOK, NEW s \in Passes, EndPass(s)
    PROVE  metaLock' \in Passes \cup {NoPass} /\ pass' \in [Passes -> Pass]
  BY IdleType DEF TypeOK, EndPass

LEMMA PassStepType ==
    ASSUME TypeOK, NEW s \in Passes, PassStep(s) \/ PassDies(s)
    PROVE  TypeOK'
  <1>0. pass[s] \in Pass /\ MaxFails \in Nat
    BY CacheAssumption DEF TypeOK
  <1>1. ASSUME NEW hot \in SUBSET Paths, NEW evict \in EvictFlags, StartPass(s, hot, evict)
        PROVE  TypeOK'
    <2>1. evict \in BOOLEAN
      BY CacheAssumption
    <2>2. [IdlePass EXCEPT !.pc = "copy", !.keep = hot, !.todo = hot, !.evict = evict] \in Pass
      BY <2>1, IdleType DEF Pass
    <2> QED
      BY <1>1, <2>2 DEF TypeOK, StartPass
  <1>2. ASSUME NEW p \in Paths, Download(s, p)
        PROVE  TypeOK'
    <2> DEFINE late == IF filer[p] # mount[p] THEN pass[s].late \cup {p} ELSE pass[s].late
               x == [pass[s] EXCEPT !.pc = "rename", !.path = p, !.tmp = filer[p],
                                    !.todo = pass[s].todo \ {p}, !.late = late]
    <2>1. late \in SUBSET Paths /\ filer[p] \in Content \cup {NoFile}
      BY <1>0 DEF TypeOK, Pass
    <2>2. pass' = [pass EXCEPT ![s] = x]
      BY <1>2 DEF TypeOK, Download
    <2> HIDE DEF late
    <2>3. x \in Pass
      BY <1>0, <2>1 DEF Pass
    <2> HIDE DEF x
    <2>4. pass' \in [Passes -> Pass]
      BY <2>2, <2>3 DEF TypeOK
    <2> QED
      BY <1>2, <2>4 DEF TypeOK, Download
  <1>3. ASSUME NEW p \in Paths, DownloadFails(s, p)
        PROVE  TypeOK'
    <2>1. pass' \in [Passes -> Pass]
      BY <1>0, <1>3, ZenonT(30) DEF TypeOK, DownloadFails, Pass, EntryState
    <2> QED
      BY <1>0, <1>3, <2>1 DEF TypeOK, DownloadFails
  <1>4. ASSUME NEW p \in Paths, RemoveCopy(s, p)
        PROVE  TypeOK'
    <2>1. pass' \in [Passes -> Pass]
      BY <1>0, <1>4 DEF TypeOK, RemoveCopy, Pass
    <2> QED
      BY <1>4, <2>1 DEF TypeOK, RemoveCopy
  <1>5. ASSUME NEW p \in Paths, RemoveFails(s, p)
        PROVE  TypeOK'
    <2>1. pass' \in [Passes -> Pass]
      BY <1>0, <1>5 DEF TypeOK, RemoveFails, Pass
    <2> QED
      BY <1>0, <1>5, <2>1 DEF TypeOK, RemoveFails
  <1>6. CASE RenameCopy(s)
    <2>1. pass' \in [Passes -> Pass]
      BY <1>0, <1>6, ZenonT(30) DEF TypeOK, RenameCopy, Pass, EntryState
    <2>2. copy' \in [Paths -> Content \cup {NoFile}]
      BY <1>0, <1>6 DEF TypeOK, RenameCopy, Pass
    <2>3. spoiled' \in SUBSET Paths
      BY <1>0, <1>6 DEF TypeOK, RenameCopy, Pass
    <2> QED
      BY <1>6, <2>1, <2>2, <2>3 DEF TypeOK, RenameCopy
  <1>7. CASE ApplyUpdates(s)
    <2>1. Victims(s) \in SUBSET Paths /\ Merged(s) \in [Paths -> EntryState]
      BY <1>0 DEF TypeOK, Pass, Victims, Merged
    <2>2. [p \in Paths |-> IF p \in Victims(s) THEN "evicted" ELSE Merged(s)[p]]
             \in [Paths -> EntryState]
      BY <2>1 DEF EntryState
    <2>3. pass' \in [Passes -> Pass]
      BY <1>0, <1>7, <2>1, <2>2 DEF TypeOK, ApplyUpdates, Pass
    <2> QED
      BY <1>7, <2>3 DEF TypeOK, ApplyUpdates
  <1>8. CASE WriteMetadata(s)
    <2>1. entry' \in [Paths -> EntryState] /\ spoiled' \in SUBSET Paths
      BY <1>0, <1>8 DEF TypeOK, WriteMetadata, Pass
    <2> QED
      BY <1>8, <2>1, EndPassType DEF TypeOK, WriteMetadata
  <1>9. CASE PassDies(s)
    BY <1>0, <1>9, EndPassType DEF TypeOK, PassDies
  <1> QED
    BY <1>1, <1>2, <1>3, <1>4, <1>5, <1>6, <1>7, <1>8, <1>9 DEF PassStep

\* A Read that is under way is told of contents only.
LEMMA SeenType ==
    ASSUME TypeOK, NEW p \in Paths, NEW c \in Content
    PROVE  SeenBy(p, c) \in [Paths -> [pc : {"idle", "open"}, ok : SUBSET Content]]
  BY DEF TypeOK, SeenBy

LEMMA MountStepType ==
    ASSUME TypeOK, NEW p \in Paths, MountStep(p)
    PROVE  TypeOK'
  <1>0. MaxFails \in Nat
    BY CacheAssumption
  <1>a. version[p] < MaxWrites => New(p) \in Content
    BY CacheAssumption DEF TypeOK, New, Content
  <1>1. CASE AddPage(p)
    <2>1. New(p) \in Content
      BY <1>1, <1>a DEF AddPage, Change
    <2> QED
      BY <1>1, <2>1, ChangeType DEF TypeOK, AddPage
  <1>2. CASE invalidateSSDCache(p)
    <2>1. entry' \in [Paths -> EntryState]
      BY <1>2 DEF TypeOK, invalidateSSDCache, EntryState
    <2> QED
      BY <1>2, <2>1 DEF TypeOK, invalidateSSDCache
  <1>3. CASE InvalidationFails(p)
    BY <1>0, <1>3 DEF TypeOK, InvalidationFails
  <1>4. CASE Flush(p)
    BY <1>4 DEF TypeOK, Flush
  <1>5. CASE LookupValid(p)
    <2>1. mount[p] \in Content
      BY <1>5 DEF TypeOK, LookupValid
    <2> QED
      BY <1>5, <2>1 DEF TypeOK, LookupValid
  <1>6. CASE ReadCopy(p)
    BY <1>6, IdleType DEF TypeOK, ReadCopy
  <1>7. CASE Truncate(p)
    <2>1. New(p) \in Content
      BY <1>7, <1>a DEF Truncate, Change
    <2>2. filer' \in [Paths -> Content \cup {NoFile}]
      BY <1>7, <2>1 DEF TypeOK, Truncate
    <2>3. reading' \in [Paths -> [pc : {"idle", "open"}, ok : SUBSET Content]]
      BY <1>7, <2>1, SeenType DEF Truncate
    <2> QED
      BY <1>7, <2>1, <2>2, <2>3, ChangeType DEF TypeOK, Truncate
  <1>8. CASE CopyFileRange(p)
    <2>1. New(p) \in Content
      BY <1>8, <1>a DEF CopyFileRange, Change
    <2> QED
      BY <1>8, <2>1, ChangeType DEF TypeOK, CopyFileRange
  <1>9. CASE RemoteWrite(p)
    <2>1. New(p) \in Content
      BY <1>9, <1>a DEF RemoteWrite, Change
    <2> QED
      BY <1>9, <2>1, ChangeType DEF TypeOK, RemoteWrite
  <1>10. CASE Unlink(p)
    BY <1>10 DEF TypeOK, Unlink
  <1>11. CASE Mknod(p)
    <2>1. New(p) \in Content
      BY <1>11, <1>a DEF Mknod, Change
    <2>2. reading' \in [Paths -> [pc : {"idle", "open"}, ok : SUBSET Content]]
      BY <1>11, <2>1, SeenType DEF Mknod
    <2> QED
      BY <1>11, <2>1, <2>2, ChangeType DEF TypeOK, Mknod
  <1>12. ASSUME NEW q \in Paths, Rename(p, q)
         PROVE  TypeOK'
    <2>1. mount[p] \in Content
      BY <1>12 DEF TypeOK, Rename
    <2>2. reading' \in [Paths -> [pc : {"idle", "open"}, ok : SUBSET Content]]
      BY <1>12, <2>1, SeenType DEF Rename
    <2>3. version' \in [Paths -> 0 .. MaxWrites]
      BY <1>12, CacheAssumption DEF TypeOK, Rename
    <2>4. pass' \in [Passes -> Pass]
      <3>1. \A s \in Passes : pass'[s] \in Pass
        BY <1>12, LateStep DEF Rename
      <3> QED BY <1>12, <3>1 DEF Rename
    <2>5. writing' \in SUBSET Paths /\ spoiled' \in SUBSET Paths
      BY <1>12 DEF TypeOK, Rename
    <2> QED
      BY <1>12, <2>2, <2>3, <2>4, <2>5 DEF TypeOK, Rename
  <1> QED
    BY <1>1, <1>2, <1>3, <1>4, <1>5, <1>6, <1>7, <1>8, <1>9, <1>10, <1>11, <1>12 DEF MountStep

LEMMA TypeStep ==
    ASSUME TypeOK, [Next]_vars
    PROVE  TypeOK'
  <1>1. CASE UNCHANGED vars
    BY <1>1 DEF TypeOK, vars
  <1>2. CASE MountDies
    BY <1>2, IdleType, CacheAssumption DEF TypeOK, MountDies
  <1> QED
    BY <1>1, <1>2, PassStepType, MountStepType DEF Next

LEMMA TypeInit == Init => TypeOK
  <1> SUFFICES ASSUME Init PROVE TypeOK
    OBVIOUS
  <1>1. mount \in [Paths -> Content]
    BY CacheAssumption DEF Init, Content
  <1> QED
    BY <1>1, IdleType, CacheAssumption DEF Init, TypeOK, EntryState

\* The mount, the SSD, its metadata and the passes keep their types.
THEOREM TypeCorrect == Spec => []TypeOK
  <1>1. TypeOK /\ [Next]_vars => TypeOK'
    BY TypeStep
  <1> QED
    BY TypeInit, <1>1, PTL DEF Spec

-----------------------------------------------------------------------------
(* Files: what the mount and the filer have *)

FileInv == SameFiles /\ OldContents /\ Unflushed

\* A change of p gives it a content that is new.
LEMMA NewIsNew ==
    ASSUME TypeOK, OldContents, NEW p \in Paths, version[p] < MaxWrites,
           version' = [version EXCEPT ![p] = @ + 1]
    PROVE  /\ New(p) # NoFile
           /\ \A q \in Paths : mount[q] # New(p) /\ filer[q] # New(p)
           /\ Written(version', New(p))
           /\ \A q \in Paths : Written(version', mount[q]) /\ Written(version', filer[q])
  <1>1. version[p] \in Nat /\ version[p] + 1 \in 0 .. MaxWrites /\ version \in [Paths -> 0 .. MaxWrites]
    BY CacheAssumption DEF TypeOK
  <1>2. New(p) \in Content /\ New(p)[1] = p /\ New(p)[2] = version[p] + 1
    BY <1>1 DEF New, Content
  <1>3. New(p) # NoFile
    BY <1>2, CacheAssumption DEF Content
  <1>4. version'[p] = version[p] + 1 /\ \A r \in Paths : version[r] <= version'[r]
    BY <1>1
  <1>5. ASSUME NEW c \in Content \cup {NoFile}, Written(version, c)
        PROVE  c # New(p) /\ Written(version', c)
    <2>1. CASE c = NoFile
      BY <1>3, <2>1 DEF Written
    <2>2. CASE c # NoFile
      <3>1. c \in Content /\ c[1] \in Paths /\ c[2] \in 0 .. MaxWrites /\ c[2] <= version[c[1]]
        BY <1>5, <2>2 DEF Written, Content
      <3>2. c[2] <= version'[c[1]]
        BY <1>1, <1>4, <3>1, CacheAssumption
      <3>3. c # New(p)
        BY <1>1, <1>2, <3>1
      <3> QED BY <3>2, <3>3 DEF Written
    <2> QED BY <2>1, <2>2
  <1>6. Written(version', New(p))
    BY <1>1, <1>2, <1>4 DEF Written
  <1>7. \A q \in Paths : /\ mount[q] \in Content \cup {NoFile} /\ Written(version, mount[q])
                         /\ filer[q] \in Content \cup {NoFile} /\ Written(version, filer[q])
    BY DEF TypeOK, OldContents
  <1> QED
    BY <1>3, <1>5, <1>6, <1>7
\* The content of one file changes, at the mount and perhaps at the filer.
LEMMA FileChange ==
    ASSUME TypeOK, FileInv, NEW p \in Paths, Change(p, New(p)),
           filer' = filer \/ filer' = [filer EXCEPT ![p] = New(p)],
           filer[p] # NoFile \/ filer' # filer,
           writing' = writing \/ writing' = writing \cup {p},
           p \in writing' => filer' = filer
    PROVE  FileInv'
  <1>1. /\ New(p) # NoFile
        /\ \A q \in Paths : mount[q] # New(p) /\ filer[q] # New(p)
        /\ Written(version', New(p))
        /\ \A q \in Paths : Written(version', mount[q]) /\ Written(version', filer[q])
    BY NewIsNew DEF Change, FileInv
  <1>2. /\ mount'[p] = New(p) /\ (filer'[p] = filer[p] \/ filer'[p] = New(p))
        /\ \A q \in Paths \ {p} : mount'[q] = mount[q] /\ filer'[q] = filer[q]
    BY DEF TypeOK, Change
  <1>3. SameFiles'
    <2>1. filer'[p] # NoFile
      BY <1>1, <1>2 DEF TypeOK
    <2> QED BY <1>1, <1>2, <2>1 DEF FileInv, SameFiles
  <1>4. OldContents'
    BY <1>1, <1>2 DEF OldContents
  <1>5. Unflushed'
    BY <1>1, <1>2 DEF FileInv, Unflushed
  <1> QED
    BY <1>3, <1>4, <1>5 DEF FileInv

LEMMA FileStep ==
    ASSUME TypeOK, FileInv, [Next]_vars
    PROVE  FileInv'
  <1>1. CASE UNCHANGED <<mount, filer, writing, version>>
    BY <1>1 DEF FileInv, SameFiles, OldContents, Unflushed
  <1>2. ASSUME NEW p \in Paths, AddPage(p)
        PROVE  FileInv'
    BY <1>2, FileChange DEF AddPage, FileInv, SameFiles
  <1>3. ASSUME NEW p \in Paths, invalidateSSDCache(p) \/ InvalidationFails(p)
        PROVE  FileInv'
    BY <1>3 DEF invalidateSSDCache, InvalidationFails, FileInv, SameFiles, OldContents, Unflushed
  <1>4. ASSUME NEW p \in Paths, Flush(p)
        PROVE  FileInv'
    BY <1>4 DEF TypeOK, Flush, FileInv, SameFiles, OldContents, Unflushed
  <1>5. ASSUME NEW p \in Paths, Truncate(p)
        PROVE  FileInv'
    BY <1>5, FileChange DEF Truncate, Unlocked, FileInv, SameFiles
  <1>6. ASSUME NEW p \in Paths, CopyFileRange(p)
        PROVE  FileInv'
    BY <1>6, FileChange DEF CopyFileRange, Unlocked, FileInv, SameFiles
  <1>7. ASSUME NEW p \in Paths, RemoteWrite(p)
        PROVE  FileInv'
    BY <1>7, FileChange DEF RemoteWrite, Unlocked
  <1>8. ASSUME NEW p \in Paths, Unlink(p)
        PROVE  FileInv'
    BY <1>8 DEF TypeOK, Unlink, FileInv, SameFiles, OldContents, Unflushed, Written
  <1>9. ASSUME NEW p \in Paths, Mknod(p)
        PROVE  FileInv'
    <2>1. New(p) # NoFile /\ filer[p] = NoFile /\ p \notin writing
      BY <1>9, NewIsNew DEF Mknod, Change, FileInv, SameFiles, Unflushed
    <2>2. filer' # filer
      BY <1>9, <2>1 DEF Mknod, TypeOK
    <2> QED
      BY <1>9, <2>1, <2>2, FileChange DEF Mknod
  <1>10. ASSUME NEW p \in Paths, NEW q \in Paths, Rename(p, q)
         PROVE  FileInv'
    <2>1. \A r \in Paths : Written(version', mount[r]) /\ Written(version', filer[r])
      BY <1>10, NewIsNew DEF Rename, FileInv
    <2>2. /\ mount'[q] = mount[p] /\ filer'[q] = filer[p]
          /\ mount'[p] = NoFile /\ filer'[p] = NoFile
          /\ \A r \in Paths \ {p, q} : mount'[r] = mount[r] /\ filer'[r] = filer[r]
      BY <1>10 DEF TypeOK, Rename
    <2>3. SameFiles'
      BY <2>2 DEF FileInv, SameFiles
    <2>4. OldContents'
      BY <2>1, <2>2 DEF OldContents, Written
    <2>5. Unflushed'
      <3>1. /\ p \notin writing'
            /\ q \in writing' => p \in writing
            /\ \A r \in Paths \ {p, q} : r \in writing' => r \in writing
        BY <1>10 DEF Rename
      <3> QED
        BY <2>2, <3>1 DEF FileInv, Unflushed
    <2> QED
      BY <2>3, <2>4, <2>5 DEF FileInv
  <1>11. CASE MountDies
    BY <1>11 DEF MountDies, FileInv, SameFiles, OldContents, Unflushed
  <1>12. ASSUME NEW s \in Passes, PassStep(s) \/ PassDies(s)
         PROVE  UNCHANGED <<mount, filer, writing, version>>
    BY <1>12 DEF PassStep, PassDies, StartPass, Download, DownloadFails, RemoveCopy,
       RemoveFails, RenameCopy, ApplyUpdates, WriteMetadata
  <1> QED
    BY <1>1, <1>2, <1>3, <1>4, <1>5, <1>6, <1>7, <1>8, <1>9, <1>10, <1>11, <1>12
    DEF Next, MountStep, LookupValid, ReadCopy, vars

-----------------------------------------------------------------------------
(* Copies: what the passes and the metadata know of them *)

CopyInv == DownloadInTime /\ CopyInTime /\ MetaKnown /\ FilerStale /\ StaleOnlyByCause

\* q changes, and perhaps another file goes.
LEMMA CopyChange ==
    ASSUME TypeOK, CopyInv, NEW q \in Paths,
           pass' = [s \in Passes |->
                      IF Downloaded(s, q) THEN [pass[s] EXCEPT !.late = @ \cup {q}] ELSE pass[s]],
           \A p \in Paths \ {q} :
               \/ mount'[p] = mount[p] /\ filer'[p] = filer[p] /\ (p \in writing' <=> p \in writing)
               \/ mount'[p] = NoFile /\ filer'[p] = NoFile,
           UNCHANGED <<copy, entry, metaLock>>, spoiled \subseteq spoiled',
           q \in spoiled' \/ (q \in writing' /\ filer'[q] = filer[q])
    PROVE  CopyInv'
  <1>1. ASSUME NEW s \in Passes
        PROVE  /\ pass'[s].pc = pass[s].pc /\ pass'[s].path = pass[s].path
               /\ pass'[s].tmp = pass[s].tmp /\ pass'[s].updates = pass[s].updates
               /\ pass'[s].keep = pass[s].keep /\ pass'[s].meta = pass[s].meta
               /\ pass[s].late \subseteq pass'[s].late
               /\ Downloaded(s, q) => q \in pass'[s].late
    <2>1. /\ pass'[s] = [pass[s] EXCEPT !.late = pass'[s].late] /\ pass[s] \in Pass
          /\ pass'[s].late = IF Downloaded(s, q) THEN pass[s].late \cup {q} ELSE pass[s].late
      BY LateStep DEF TypeOK
    <2> QED
      BY <2>1 DEF Pass
  <1>2. DownloadInTime'
    <2> SUFFICES ASSUME NEW s \in Passes, pass'[s].pc = "rename"
                 PROVE  /\ pass'[s].path \in Paths /\ pass'[s].tmp # NoFile
                        /\ \/ pass'[s].path \in pass'[s].late
                           \/ mount'[pass'[s].path] = NoFile
                           \/ /\ mount'[pass'[s].path] = filer'[pass'[s].path]
                              /\ pass'[s].tmp = mount'[pass'[s].path]
      BY DEF DownloadInTime, Settled
    <2>1. CASE pass[s].path = q
      BY <1>1, <2>1 DEF Downloaded, CopyInv, DownloadInTime
    <2>2. CASE pass[s].path # q
      BY <1>1, <2>2 DEF CopyInv, DownloadInTime, Settled
    <2> QED BY <2>1, <2>2
  <1>3. CopyInTime'
    <2> SUFFICES ASSUME NEW s \in Passes, NEW p \in Paths, pass[s].updates[p] = "valid"
                 PROVE  \/ p \in pass'[s].late
                        \/ mount'[p] = NoFile
                        \/ mount'[p] = filer'[p] /\ (copy[p] \in {NoFile, mount'[p]} \/ p \in spoiled')
      BY <1>1 DEF CopyInTime, Settled, CopyKnown
    <2>1. CASE p = q
      BY <1>1, <2>1 DEF Downloaded
    <2>2. CASE p # q
      BY <1>1, <2>2 DEF CopyInv, CopyInTime, Settled, CopyKnown
    <2> QED BY <2>1, <2>2
  <1>4. MetaKnown'
    BY <1>1 DEF CopyInv, MetaKnown
  <1>5. FilerStale'
    BY DEF CopyInv, FilerStale
  <1>6. StaleOnlyByCause'
    BY DEF CopyInv, StaleOnlyByCause, Stale
  <1> QED
    BY <1>2, <1>3, <1>4, <1>5, <1>6 DEF CopyInv

\* Steps that leave the passes alone.
LEMMA CopyMount ==
    ASSUME TypeOK, FileInv, CopyInv, NEW p \in Paths, MountStep(p)
    PROVE  CopyInv'
  <1>1. CASE AddPage(p)
    BY <1>1, CopyChange DEF TypeOK, AddPage, Change
  <1>2. CASE invalidateSSDCache(p)
    <2>1. /\ mount[p] # NoFile /\ ~Settled(p)
          /\ entry'[p] # "valid" /\ \A q \in Paths \ {p} : entry'[q] = entry[q]
          /\ \A q \in Paths \ {p} : q \in spoiled' <=> q \in spoiled
          /\ \A s \in Passes : pass[s].pc # "evict"
      BY <1>2, CacheAssumption DEF TypeOK, invalidateSSDCache, FileInv, Unflushed, Settled,
         CopyInv, MetaKnown
    <2>2. DownloadInTime'
      BY <1>2 DEF invalidateSSDCache, CopyInv, DownloadInTime, Settled
    <2>3. CopyInTime'
      BY <1>2, <2>1 DEF invalidateSSDCache, CopyInv, CopyInTime, Settled, CopyKnown
    <2>4. MetaKnown'
      BY <1>2, <2>1 DEF invalidateSSDCache, MetaKnown
    <2>5. FilerStale'
      BY <1>2, <2>1 DEF invalidateSSDCache, CopyInv, FilerStale
    <2>6. StaleOnlyByCause'
      BY <1>2, <2>1 DEF invalidateSSDCache, CopyInv, StaleOnlyByCause, Stale
    <2> QED
      BY <2>2, <2>3, <2>4, <2>5, <2>6 DEF CopyInv
  <1>3. CASE InvalidationFails(p)
    BY <1>3 DEF InvalidationFails, CopyInv, DownloadInTime, CopyInTime, MetaKnown, FilerStale,
       StaleOnlyByCause, Stale, Settled, CopyKnown
  <1>4. CASE Flush(p)
    <2>1. /\ mount[p] # NoFile /\ ~Settled(p) /\ p \notin writing /\ mount' = mount
          /\ filer'[p] = mount[p] /\ \A q \in Paths \ {p} : filer'[q] = filer[q]
      BY <1>4 DEF TypeOK, Flush, Settled
    <2>2. DownloadInTime'
      BY <1>4, <2>1 DEF Flush, CopyInv, DownloadInTime, Settled
    <2>3. CopyInTime'
      BY <1>4, <2>1 DEF Flush, CopyInv, CopyInTime, Settled, CopyKnown
    <2>4. MetaKnown' /\ StaleOnlyByCause'
      BY <1>4 DEF Flush, CopyInv, MetaKnown, StaleOnlyByCause, Stale
    <2>5. FilerStale'
      BY <1>4, <2>1 DEF Flush, CopyInv, FilerStale, StaleOnlyByCause, Stale
    <2> QED
      BY <2>2, <2>3, <2>4, <2>5 DEF CopyInv
  <1>5. CASE LookupValid(p) \/ ReadCopy(p)
    BY <1>5 DEF LookupValid, ReadCopy, CopyInv, DownloadInTime, CopyInTime, MetaKnown,
       FilerStale, StaleOnlyByCause, Stale, Settled, CopyKnown
  <1>6. CASE Truncate(p)
    BY <1>6, CopyChange DEF TypeOK, Truncate, Change
  <1>7. CASE CopyFileRange(p)
    BY <1>7, CopyChange DEF TypeOK, CopyFileRange, Change
  <1>8. CASE RemoteWrite(p)
    BY <1>8, CopyChange DEF TypeOK, RemoteWrite, Change
  <1>9. CASE Unlink(p)
    <2>1. /\ mount'[p] = NoFile /\ filer'[p] = NoFile
          /\ \A q \in Paths \ {p} : /\ mount'[q] = mount[q] /\ filer'[q] = filer[q]
                                    /\ q \in writing' <=> q \in writing
      BY <1>9 DEF TypeOK, Unlink
    <2>2. DownloadInTime'
      BY <1>9, <2>1 DEF Unlink, CopyInv, DownloadInTime, Settled
    <2>3. CopyInTime'
      BY <1>9, <2>1 DEF Unlink, CopyInv, CopyInTime, Settled, CopyKnown
    <2>4. MetaKnown'
      BY <1>9 DEF Unlink, CopyInv, MetaKnown
    <2>5. FilerStale' /\ StaleOnlyByCause'
      BY <1>9, <2>1 DEF Unlink, CopyInv, FilerStale, StaleOnlyByCause, Stale
    <2> QED
      BY <2>2, <2>3, <2>4, <2>5 DEF CopyInv
  <1>10. CASE Mknod(p)
    BY <1>10, CopyChange DEF TypeOK, Mknod, Change
  <1>11. ASSUME NEW q \in Paths, Rename(p, q)
         PROVE  CopyInv'
    <2>1. /\ mount'[p] = NoFile /\ filer'[p] = NoFile
          /\ \A r \in Paths \ {p, q} : /\ mount'[r] = mount[r] /\ filer'[r] = filer[r]
                                       /\ r \in writing' <=> r \in writing
      BY <1>11 DEF TypeOK, Rename
    <2>2. /\ UNCHANGED <<copy, entry, metaLock>> /\ spoiled' = spoiled \cup {q}
          /\ pass' = [s \in Passes |->
                        IF Downloaded(s, q) THEN [pass[s] EXCEPT !.late = @ \cup {q}] ELSE pass[s]]
      BY <1>11 DEF Rename
    <2> QED
      BY <2>1, <2>2, CopyChange
  <1> QED
    BY <1>1, <1>2, <1>3, <1>4, <1>5, <1>6, <1>7, <1>8, <1>9, <1>10, <1>11 DEF MountStep

\* A step of pass s leaves the other passes alone.
LEMMA PassKept ==
    ASSUME TypeOK, NEW s \in Passes, NEW x, pass' = [pass EXCEPT ![s] = x]
    PROVE  pass'[s] = x /\ \A t \in Passes \ {s} : pass'[t] = pass[t]
  BY DEF TypeOK

\* What the new state x of pass s has to satisfy.
RenameOK(x) ==
    x.pc = "rename" =>
        /\ x.path \in Paths /\ x.tmp # NoFile
        /\ \/ x.path \in x.late
           \/ mount[x.path] = NoFile
           \/ Settled(x.path) /\ x.tmp = mount[x.path]

UpdatesOK(s, x) ==
    \A p \in Paths : x.updates[p] = "valid" =>
        pass[s].updates[p] = "valid" /\ (p \in pass[s].late => p \in x.late)

MetaOK(s, x, holder) ==
    x.pc = "evict" =>
        /\ holder = s
        /\ \A p \in Paths : IF p \in x.keep THEN x.meta[p] = x.updates[p]
                            ELSE x.meta[p] \in {entry[p], "evicted"}

\* Files and metadata stay, copies stay or go, and the new state of s is right.
LEMMA CopyPass ==
    ASSUME TypeOK, CopyInv, NEW s \in Passes, NEW x, pass' = [pass EXCEPT ![s] = x],
           UNCHANGED <<mount, filer, writing, entry>>,
           metaLock' = metaLock \/ metaLock \in {NoPass, s},
           \A p \in Paths : copy'[p] = copy[p] \/ copy'[p] = NoFile,
           spoiled \subseteq spoiled',
           RenameOK(x), UpdatesOK(s, x), MetaOK(s, x, metaLock')
    PROVE  CopyInv'
  <1>1. pass'[s] = x /\ \A t \in Passes \ {s} : pass'[t] = pass[t]
    BY PassKept
  <1>2. DownloadInTime'
    BY <1>1 DEF CopyInv, DownloadInTime, Settled, RenameOK
  <1>3. CopyInTime'
    <2> SUFFICES ASSUME NEW t \in Passes, NEW p \in Paths, pass'[t].updates[p] = "valid"
                 PROVE  \/ p \in pass'[t].late
                        \/ mount[p] = NoFile
                        \/ mount[p] = filer[p] /\ (copy'[p] \in {NoFile, mount[p]} \/ p \in spoiled')
      BY DEF CopyInTime, Settled, CopyKnown
    <2>1. pass[t].updates[p] = "valid" /\ (p \in pass[t].late => p \in pass'[t].late)
      BY <1>1 DEF UpdatesOK
    <2> QED
      BY <2>1 DEF CopyInv, CopyInTime, Settled, CopyKnown
  <1>4. MetaKnown'
    <2> SUFFICES ASSUME NEW t \in Passes, pass'[t].pc = "evict"
                 PROVE  /\ metaLock' = t
                        /\ \A p \in Paths : IF p \in pass'[t].keep
                                            THEN pass'[t].meta[p] = pass'[t].updates[p]
                                            ELSE pass'[t].meta[p] \in {entry[p], "evicted"}
      BY DEF MetaKnown
    <2>1. CASE t = s
      BY <1>1, <2>1 DEF MetaOK
    <2>2. CASE t # s
      BY <1>1, <2>2, CacheAssumption DEF CopyInv, MetaKnown
    <2> QED BY <2>1, <2>2
  <1>5. FilerStale'
    BY DEF CopyInv, FilerStale
  <1>6. StaleOnlyByCause'
    BY DEF CopyInv, StaleOnlyByCause, Stale
  <1> QED
    BY <1>2, <1>3, <1>4, <1>5, <1>6 DEF CopyInv

\* The rename of a copy: what was downloaded in time is up to date.
LEMMA CopyRename ==
    ASSUME TypeOK, FileInv, CopyInv, NEW s \in Passes, RenameCopy(s)
    PROVE  CopyInv'
  <1> DEFINE q == pass[s].path
  <1>0. pass[s] \in Pass /\ q \in Paths
    BY DEF TypeOK, RenameCopy, CopyInv, DownloadInTime
  <1>1. /\ \A t \in Passes \ {s} : pass'[t] = pass[t]
        /\ pass'[s].pc = "copy" /\ pass'[s].late = pass[s].late
        /\ pass'[s].updates = [pass[s].updates EXCEPT ![q] = "valid"]
    BY <1>0 DEF TypeOK, RenameCopy, Pass
  <1>2. copy'[q] = pass[s].tmp /\ \A p \in Paths \ {q} : copy'[p] = copy[p]
    BY <1>0 DEF TypeOK, RenameCopy
  <1>3. /\ q \in pass[s].late => q \in spoiled'
        /\ \A p \in Paths \ {q} : p \in spoiled' <=> p \in spoiled
    BY <1>0 DEF RenameCopy
  <1>4. UNCHANGED <<mount, filer, writing, entry, metaLock>>
    BY DEF RenameCopy
  <1>5. \/ q \in pass[s].late /\ q \in spoiled'
        \/ mount[q] = NoFile
        \/ mount[q] = filer[q] /\ copy'[q] = mount[q]
    BY <1>2, <1>3 DEF RenameCopy, CopyInv, DownloadInTime, Settled
  <1>6. DownloadInTime'
    BY <1>1, <1>4 DEF CopyInv, DownloadInTime, Settled
  <1>7. CopyInTime'
    <2> SUFFICES ASSUME NEW t \in Passes, NEW p \in Paths, pass'[t].updates[p] = "valid"
                 PROVE  \/ p \in pass'[t].late
                        \/ mount[p] = NoFile
                        \/ mount[p] = filer[p] /\ (copy'[p] \in {NoFile, mount[p]} \/ p \in spoiled')
      BY <1>4 DEF CopyInTime, Settled, CopyKnown
    <2>1. CASE p # q
      <3>1. pass[t].updates[p] = "valid" /\ pass'[t].late = pass[t].late
        BY <1>0, <1>1, <2>1, SMTT(30) DEF TypeOK, Pass
      <3> QED
        BY <1>2, <1>3, <2>1, <3>1 DEF CopyInv, CopyInTime, Settled, CopyKnown
    <2>2. CASE p = q /\ t = s
      BY <1>1, <1>5, <2>2
    <2>3. CASE p = q /\ t # s
      <3>1. pass'[t] = pass[t]
        BY <1>1, <2>3
      <3>2. p \in pass[t].late \/ mount[p] = NoFile \/ mount[p] = filer[p]
        BY <3>1 DEF CopyInv, CopyInTime, Settled
      <3> QED
        BY <1>5, <2>3, <3>1, <3>2
    <2> QED
      BY <2>1, <2>2, <2>3
  <1>8. MetaKnown'
    BY <1>1, <1>4 DEF CopyInv, MetaKnown
  <1>9. FilerStale'
    <2> SUFFICES ASSUME NEW p \in Paths, entry[p] = "valid", copy'[p] # NoFile,
                        filer[p] # NoFile, copy'[p] # filer[p]
                 PROVE  p \in spoiled'
      BY <1>4 DEF FilerStale
    <2>1. CASE p = q
      BY <1>5, <2>1 DEF FileInv, SameFiles
    <2>2. CASE p # q
      BY <1>2, <1>3, <2>2 DEF CopyInv, FilerStale
    <2> QED BY <2>1, <2>2
  <1>10. StaleOnlyByCause'
    <2> SUFFICES ASSUME NEW p \in Paths, entry[p] = "valid", copy'[p] # NoFile,
                        mount[p] # NoFile, p \notin writing, copy'[p] # mount[p]
                 PROVE  p \in spoiled'
      BY <1>4 DEF StaleOnlyByCause, Stale
    <2>1. CASE p = q
      BY <1>5, <2>1
    <2>2. CASE p # q
      BY <1>2, <1>3, <2>2 DEF CopyInv, StaleOnlyByCause, Stale
    <2> QED BY <2>1, <2>2
  <1> QED
    BY <1>6, <1>7, <1>8, <1>9, <1>10 DEF CopyInv

\* The metadata makes the copies of the pass valid.
LEMMA CopyMeta ==
    ASSUME TypeOK, FileInv, CopyInv, NEW s \in Passes, WriteMetadata(s)
    PROVE  CopyInv'
  <1>0. pass[s] \in Pass /\ metaLock = s
    BY DEF TypeOK, WriteMetadata, CopyInv, MetaKnown
  <1>1. /\ pass'[s] = IdlePass /\ \A t \in Passes \ {s} : pass'[t] = pass[t]
        /\ metaLock' = NoPass
    BY <1>0, PassKept DEF WriteMetadata, EndPass
  <1>2. UNCHANGED <<mount, filer, writing, copy>> /\ spoiled \subseteq spoiled'
    BY DEF WriteMetadata
  <1>3. ASSUME NEW p \in Paths, entry'[p] = "valid"
        PROVE  \/ entry[p] = "valid"
               \/ p \in spoiled'
               \/ mount[p] = NoFile
               \/ mount[p] = filer[p] /\ copy[p] \in {NoFile, mount[p]}
    <2>1. entry'[p] = pass[s].meta[p] /\ pass[s].pc = "evict"
      BY DEF WriteMetadata
    <2>2. CASE p \notin pass[s].keep
      BY <1>3, <2>1, <2>2 DEF CopyInv, MetaKnown
    <2>3. CASE p \in pass[s].keep
      <3>1. pass[s].updates[p] = "valid"
        BY <1>3, <2>1, <2>3 DEF CopyInv, MetaKnown
      <3>2. p \in pass[s].late => p \in spoiled'
        BY <3>1 DEF WriteMetadata
      <3> QED
        BY <1>2, <3>1, <3>2 DEF CopyInv, CopyInTime, Settled, CopyKnown
    <2> QED BY <2>2, <2>3
  <1>4. DownloadInTime'
    BY <1>1, <1>2 DEF CopyInv, DownloadInTime, Settled, IdlePass
  <1>5. CopyInTime'
    BY <1>1, <1>2 DEF CopyInv, CopyInTime, Settled, CopyKnown, IdlePass
  <1>6. MetaKnown'
    <2>1. \A t \in Passes : pass'[t].pc # "evict"
      BY <1>0, <1>1 DEF CopyInv, MetaKnown, IdlePass
    <2> QED BY <2>1 DEF MetaKnown
  <1>7. FilerStale'
    <2> SUFFICES ASSUME NEW p \in Paths, entry'[p] = "valid", copy[p] # NoFile,
                        filer[p] # NoFile, copy[p] # filer[p]
                 PROVE  p \in spoiled'
      BY <1>2 DEF FilerStale
    <2> QED
      BY <1>2, <1>3 DEF CopyInv, FilerStale, FileInv, SameFiles
  <1>8. StaleOnlyByCause'
    BY <1>2, <1>3 DEF CopyInv, StaleOnlyByCause, Stale
  <1> QED
    BY <1>4, <1>5, <1>6, <1>7, <1>8 DEF CopyInv

LEMMA CopyPassStep ==
    ASSUME TypeOK, FileInv, CopyInv, NEW s \in Passes, PassStep(s) \/ PassDies(s)
    PROVE  CopyInv'
  <1>0. pass[s] \in Pass
    BY DEF TypeOK
  <1>1. ASSUME NEW hot \in SUBSET Paths, NEW evict \in EvictFlags, StartPass(s, hot, evict)
        PROVE  CopyInv'
    <2> DEFINE x == [IdlePass EXCEPT !.pc = "copy", !.keep = hot, !.todo = hot, !.evict = evict]
    <2>1. x.pc = "copy" /\ \A p \in Paths : x.updates[p] # "valid"
      BY DEF IdlePass
    <2>2. pass' = [pass EXCEPT ![s] = x]
      BY <1>1 DEF StartPass
    <2> HIDE DEF x
    <2>3. RenameOK(x) /\ UpdatesOK(s, x) /\ MetaOK(s, x, metaLock')
      BY <2>1 DEF RenameOK, UpdatesOK, MetaOK
    <2> QED
      BY <1>1, <2>2, <2>3, CopyPass DEF StartPass
  <1>2. ASSUME NEW p \in Paths, Download(s, p)
        PROVE  CopyInv'
    <2> DEFINE late == IF filer[p] # mount[p] THEN pass[s].late \cup {p} ELSE pass[s].late
               x == [pass[s] EXCEPT !.pc = "rename", !.path = p, !.tmp = filer[p],
                                    !.todo = pass[s].todo \ {p}, !.late = late]
    <2>1. pass' = [pass EXCEPT ![s] = x]
      BY <1>2 DEF TypeOK, Download
    <2>2. pass[s].late \subseteq late /\ (mount[p] # filer[p] => p \in late)
      OBVIOUS
    <2> HIDE DEF late
    <2>3. /\ x.pc = "rename" /\ x.path = p /\ x.tmp = filer[p] /\ x.late = late
          /\ x.updates = pass[s].updates
      BY <1>0 DEF Pass
    <2> HIDE DEF x
    <2>4. filer[p] # NoFile /\ UNCHANGED <<mount, filer, writing, copy, entry, metaLock, spoiled>>
      BY <1>2 DEF Download
    <2>5. RenameOK(x) /\ UpdatesOK(s, x) /\ MetaOK(s, x, metaLock')
      BY <2>2, <2>3, <2>4 DEF RenameOK, UpdatesOK, MetaOK, Settled
    <2> QED
      BY <2>1, <2>4, <2>5, CopyPass
  <1>3. ASSUME NEW p \in Paths, DownloadFails(s, p)
        PROVE  CopyInv'
    <2> DEFINE x == [pass[s] EXCEPT !.todo = @ \ {p}, !.updates = [@ EXCEPT ![p] = "failed"]]
    <2>1. pass' = [pass EXCEPT ![s] = x]
      BY <1>3 DEF TypeOK, DownloadFails
    <2>2. /\ x.pc = "copy" /\ x.late = pass[s].late
          /\ \A r \in Paths : x.updates[r] = "valid" => pass[s].updates[r] = "valid"
      BY <1>0, <1>3 DEF Pass, DownloadFails
    <2> HIDE DEF x
    <2>3. RenameOK(x) /\ UpdatesOK(s, x) /\ MetaOK(s, x, metaLock')
      BY <2>2 DEF RenameOK, UpdatesOK, MetaOK
    <2> QED
      BY <1>3, <2>1, <2>3, CopyPass DEF DownloadFails
  <1>4. ASSUME NEW p \in Paths, RemoveCopy(s, p) \/ RemoveFails(s, p)
        PROVE  CopyInv'
    <2> DEFINE x == [pass[s] EXCEPT !.victims = @ \ {p}]
    <2>1. pass' = [pass EXCEPT ![s] = x]
      BY <1>4 DEF TypeOK, RemoveCopy, RemoveFails
    <2>2. /\ x.pc = "evict" /\ x.late = pass[s].late /\ x.updates = pass[s].updates
          /\ x.keep = pass[s].keep /\ x.meta = pass[s].meta /\ pass[s].pc = "evict"
      BY <1>0, <1>4 DEF Pass, RemoveCopy, RemoveFails
    <2> HIDE DEF x
    <2>3. /\ metaLock = s
          /\ \A r \in Paths : IF r \in x.keep THEN x.meta[r] = x.updates[r]
                              ELSE x.meta[r] \in {entry[r], "evicted"}
      BY <2>2 DEF CopyInv, MetaKnown
    <2>4. /\ UNCHANGED <<mount, filer, writing, entry, metaLock, spoiled>>
          /\ \A r \in Paths : copy'[r] = copy[r] \/ copy'[r] = NoFile
      BY <1>4 DEF TypeOK, RemoveCopy, RemoveFails
    <2>5. RenameOK(x) /\ UpdatesOK(s, x) /\ MetaOK(s, x, metaLock')
      BY <2>2, <2>3, <2>4 DEF RenameOK, UpdatesOK, MetaOK
    <2> QED
      BY <2>1, <2>4, <2>5, CopyPass
  <1>5. CASE RenameCopy(s)
    BY <1>5, CopyRename
  <1>6. CASE ApplyUpdates(s)
    <2> DEFINE meta == [p \in Paths |-> IF p \in Victims(s) THEN "evicted" ELSE Merged(s)[p]]
               x == [pass[s] EXCEPT !.pc = "evict", !.victims = Victims(s), !.meta = meta]
    <2>1. pass' = [pass EXCEPT ![s] = x]
      BY <1>6 DEF TypeOK, ApplyUpdates
    <2>2. \A p \in Paths : IF p \in pass[s].keep THEN meta[p] = pass[s].updates[p]
                           ELSE meta[p] \in {entry[p], "evicted"}
      BY DEF Victims, Merged
    <2> HIDE DEF meta
    <2>3. /\ x.pc = "evict" /\ x.late = pass[s].late /\ x.updates = pass[s].updates
          /\ x.keep = pass[s].keep /\ x.meta = meta
      BY <1>0 DEF Pass
    <2> HIDE DEF x
    <2>4. /\ metaLock = NoPass /\ metaLock' = s
          /\ UNCHANGED <<mount, filer, writing, copy, entry, spoiled>>
      BY <1>6 DEF ApplyUpdates
    <2>5. RenameOK(x) /\ UpdatesOK(s, x) /\ MetaOK(s, x, metaLock')
      BY <2>2, <2>3, <2>4 DEF RenameOK, UpdatesOK, MetaOK
    <2> QED
      BY <2>1, <2>4, <2>5, CopyPass
  <1>7. CASE WriteMetadata(s)
    BY <1>7, CopyMeta
  <1>8. CASE PassDies(s)
    <2>1. IdlePass.pc = "idle" /\ \A p \in Paths : IdlePass.updates[p] # "valid"
      BY DEF IdlePass
    <2>2. /\ pass' = [pass EXCEPT ![s] = IdlePass]
          /\ metaLock' = metaLock \/ metaLock \in {NoPass, s}
          /\ UNCHANGED <<mount, filer, writing, copy, entry, spoiled>>
      BY <1>8 DEF PassDies, EndPass
    <2>3. RenameOK(IdlePass) /\ UpdatesOK(s, IdlePass) /\ MetaOK(s, IdlePass, metaLock')
      BY <2>1 DEF RenameOK, UpdatesOK, MetaOK
    <2> QED
      BY <2>2, <2>3, CopyPass
  <1> QED
    BY <1>1, <1>2, <1>3, <1>4, <1>5, <1>6, <1>7, <1>8 DEF PassStep

\* The mount dies: reads see what the filer has.
LEMMA CopyDies ==
    ASSUME FileInv, CopyInv, MountDies
    PROVE  CopyInv'
  <1>1. /\ mount' = filer /\ writing' = {} /\ UNCHANGED <<filer, copy, entry, metaLock, pass, spoiled>>
        /\ \A p \in Paths : mount[p] = NoFile => filer[p] = NoFile
    BY DEF MountDies, FileInv, SameFiles
  <1>2. DownloadInTime'
    BY <1>1 DEF CopyInv, DownloadInTime, Settled
  <1>3. CopyInTime'
    BY <1>1 DEF CopyInv, CopyInTime, Settled, CopyKnown
  <1>4. MetaKnown' /\ FilerStale'
    BY <1>1 DEF CopyInv, MetaKnown, FilerStale
  <1>5. StaleOnlyByCause'
    BY <1>1 DEF CopyInv, FilerStale, StaleOnlyByCause, Stale
  <1> QED
    BY <1>2, <1>3, <1>4, <1>5 DEF CopyInv

LEMMA StaleInvariant == Spec => []StaleInv
  <1>1. ASSUME Init PROVE StaleInv
    <2>1. TypeOK
      BY <1>1, TypeInit
    <2>2. \A p \in Paths : mount[p] = <<p, 0>> /\ mount[p] # NoFile
      BY <1>1, CacheAssumption DEF Init
    <2>3. SameFiles /\ OldContents /\ Unflushed
      BY <1>1, <2>2 DEF Init, SameFiles, OldContents, Unflushed, Written
    <2>4. DownloadInTime /\ CopyInTime /\ MetaKnown
      BY <1>1 DEF Init, DownloadInTime, CopyInTime, MetaKnown, IdlePass
    <2>5. FilerStale /\ StaleOnlyByCause
      BY <1>1 DEF Init, FilerStale, StaleOnlyByCause, Stale
    <2> QED
      BY <2>1, <2>3, <2>4, <2>5 DEF StaleInv
  <1>2. ASSUME StaleInv, [Next]_vars PROVE StaleInv'
    <2>1. TypeOK /\ FileInv /\ CopyInv
      BY <1>2 DEF StaleInv, FileInv, CopyInv
    <2>2. TypeOK' /\ FileInv'
      BY <1>2, <2>1, TypeStep, FileStep
    <2>3. CASE UNCHANGED vars
      BY <2>1, <2>3 DEF vars, CopyInv, DownloadInTime, CopyInTime, MetaKnown, FilerStale,
         StaleOnlyByCause, Stale, Settled, CopyKnown, StaleInv, FileInv, TypeOK, SameFiles,
         OldContents, Unflushed
    <2>4. CASE Next
      <3>1. CopyInv'
        BY <2>1, <2>4, CopyMount, CopyPassStep, CopyDies DEF Next
      <3> QED
        BY <2>2, <3>1 DEF StaleInv, FileInv, CopyInv
    <2> QED
      BY <1>2, <2>3, <2>4
  <1> QED
    BY <1>1, <1>2, PTL DEF Spec

\* A valid copy is out of date only if a pass had downloaded the file before its
\* last change was flushed, an invalidation failed, or the file was changed in a
\* way that does not invalidate: whatever passes overlap, and wherever passes
\* and mounts die.
THEOREM StaleHasCause == Spec => []StaleOnlyByCause
  <1>1. StaleInv => StaleOnlyByCause
    BY DEF StaleInv
  <1> QED
    BY StaleInvariant, <1>1, PTL

-----------------------------------------------------------------------------
(* One pass at a time *)

OnePass == \A s, t \in Passes : s = t

\* Until something fails, the steps of the mount take no copy away.
LEMMA OnePassMount ==
    ASSUME TypeOK, OnePassInv, NEW p \in Paths, MountStep(p)
    PROVE  OnePassInv'
  <1>1. ASSUME NEW s \in Passes
        PROVE  /\ pass'[s].pc = pass[s].pc /\ pass'[s].path = pass[s].path
               /\ pass'[s].updates = pass[s].updates /\ pass'[s].todo = pass[s].todo
               /\ pass'[s].keep = pass[s].keep /\ pass'[s].meta = pass[s].meta
               /\ pass'[s].victims = pass[s].victims
    <2>1. CASE UNCHANGED pass
      BY <2>1
    <2>2. ASSUME NEW q \in Paths,
                 pass' = [t \in Passes |->
                   IF Downloaded(t, q) THEN [pass[t] EXCEPT !.late = @ \cup {q}] ELSE pass[t]]
          PROVE  /\ pass'[s].pc = pass[s].pc /\ pass'[s].path = pass[s].path
                 /\ pass'[s].updates = pass[s].updates /\ pass'[s].todo = pass[s].todo
                 /\ pass'[s].keep = pass[s].keep /\ pass'[s].meta = pass[s].meta
                 /\ pass'[s].victims = pass[s].victims
      <3>1. pass'[s] = [pass[s] EXCEPT !.late = pass'[s].late] /\ pass[s] \in Pass
        BY <2>2, LateStep DEF TypeOK
      <3> QED
        BY <3>1 DEF Pass
    <2> QED
      BY <2>1, <2>2 DEF MountStep, AddPage, invalidateSSDCache, InvalidationFails, Flush,
         LookupValid, ReadCopy, Truncate, CopyFileRange, RemoteWrite, Unlink, Mknod, Rename, Change
  <1>2. /\ copy' = copy /\ \A q \in Paths : entry'[q] = "valid" => entry[q] = "valid"
        /\ fails' = fails \/ (fails' = fails + 1 /\ fails \in Nat)
    BY DEF MountStep, AddPage, invalidateSSDCache, InvalidationFails, Flush, LookupValid,
       ReadCopy, Truncate, CopyFileRange, RemoteWrite, Unlink, Mknod, Rename, Change, TypeOK
  <1> QED
    BY <1>1, <1>2 DEF OnePassInv

LEMMA OnePassStep ==
    ASSUME OnePass, TypeOK, CopyInv, OnePassInv, NEW s \in Passes, PassStep(s) \/ PassDies(s)
    PROVE  OnePassInv'
  <1>0. pass[s] \in Pass /\ fails \in Nat /\ \A t \in Passes : t = s
    BY DEF OnePass, TypeOK
  <1> DEFINE Good ==
        /\ pass'[s].todo \subseteq pass'[s].keep
        /\ pass'[s].pc = "rename" => pass'[s].path \in pass'[s].keep
        /\ \A p \in Paths : pass'[s].updates[p] = "valid" =>
               p \in pass'[s].keep /\ copy'[p] # NoFile
        /\ \A p \in pass'[s].victims :
               p \notin pass'[s].keep /\ pass'[s].meta[p] = "evicted"
        /\ \A p \in Paths : entry'[p] = "valid" /\ copy'[p] = NoFile =>
               pass'[s].pc = "evict" /\ pass'[s].meta[p] = "evicted"
  <1>1. SUFFICES ASSUME fails' = 0 PROVE Good
    BY <1>0 DEF OnePassInv
  <1>2. fails = 0
    <2>1. fails' = fails \/ fails' = fails + 1
      BY DEF PassStep, PassDies, StartPass, Download, DownloadFails, RemoveCopy,
         RemoveFails, RenameCopy, ApplyUpdates, WriteMetadata
    <2> QED
      BY <1>0, <1>1, <2>1
  <1>3. /\ pass[s].todo \subseteq pass[s].keep
        /\ pass[s].pc = "rename" => pass[s].path \in pass[s].keep
        /\ \A p \in Paths : pass[s].updates[p] = "valid" => p \in pass[s].keep /\ copy[p] # NoFile
        /\ \A p \in pass[s].victims : p \notin pass[s].keep /\ pass[s].meta[p] = "evicted"
        /\ \A p \in Paths : entry[p] = "valid" /\ copy[p] = NoFile =>
               pass[s].pc = "evict" /\ pass[s].meta[p] = "evicted"
    BY <1>0, <1>2 DEF OnePassInv
  <1>4. ASSUME NEW hot \in SUBSET Paths, NEW evict \in EvictFlags, StartPass(s, hot, evict)
        PROVE  Good
    <2>1. /\ pass'[s].todo = hot /\ pass'[s].keep = hot /\ pass'[s].pc = "copy"
          /\ \A p \in Paths : pass'[s].updates[p] = "absent"
          /\ pass'[s].victims = {}
      BY <1>4 DEF TypeOK, StartPass, IdlePass
    <2>2. pass[s].pc = "idle" /\ UNCHANGED <<entry, copy>>
      BY <1>4 DEF StartPass
    <2> QED
      BY <1>0, <1>3, <2>1, <2>2
  <1>5. ASSUME NEW p \in Paths, Download(s, p)
        PROVE  Good
    <2>1. /\ pass'[s].todo \subseteq pass[s].todo /\ p \in pass[s].todo
          /\ pass'[s].keep = pass[s].keep /\ pass'[s].pc = "rename" /\ pass'[s].path = p
          /\ pass'[s].updates = pass[s].updates /\ pass'[s].victims = pass[s].victims
          /\ pass'[s].meta = pass[s].meta
      BY <1>0, <1>5 DEF TypeOK, Download, Pass
    <2>2. pass[s].pc = "copy" /\ UNCHANGED <<entry, copy>>
      BY <1>5 DEF Download
    <2> QED
      BY <1>0, <1>3, <2>1, <2>2
  <1>6. ASSUME NEW p \in Paths, DownloadFails(s, p)
        PROVE  Good
    <2>1. /\ pass'[s].todo \subseteq pass[s].todo
          /\ pass'[s].keep = pass[s].keep /\ pass'[s].pc = "copy"
          /\ pass'[s].updates = [pass[s].updates EXCEPT ![p] = "failed"]
          /\ pass'[s].victims = pass[s].victims /\ pass'[s].meta = pass[s].meta
      BY <1>0, <1>6 DEF TypeOK, DownloadFails, Pass
    <2>2. \A q \in Paths : pass'[s].updates[q] = "valid" => pass[s].updates[q] = "valid"
      BY <1>0, <2>1 DEF Pass
    <2>3. pass[s].pc = "copy" /\ UNCHANGED <<entry, copy>>
      BY <1>6 DEF DownloadFails
    <2> QED
      BY <1>0, <1>3, <2>1, <2>2, <2>3
  <1>7. ASSUME NEW p \in Paths, RemoveCopy(s, p)
        PROVE  Good
    <2>1. /\ pass'[s].todo = pass[s].todo /\ pass'[s].victims \subseteq pass[s].victims
          /\ pass'[s].keep = pass[s].keep /\ pass'[s].pc = "evict" /\ pass'[s].meta = pass[s].meta
          /\ pass'[s].updates = pass[s].updates
      BY <1>0, <1>7 DEF TypeOK, RemoveCopy, Pass
    <2>2. /\ pass[s].pc = "evict" /\ p \in pass[s].victims /\ entry' = entry
          /\ \A q \in Paths \ {p} : copy'[q] = copy[q]
      BY <1>7 DEF RemoveCopy, TypeOK
    <2> QED
      BY <1>0, <1>3, <2>1, <2>2
  <1>8. CASE RenameCopy(s)
    <2> DEFINE q == pass[s].path
    <2>0. q \in Paths /\ pass[s].tmp # NoFile /\ q \in pass[s].keep /\ pass[s].pc = "rename"
      BY <1>3, <1>8 DEF CopyInv, DownloadInTime, RenameCopy
    <2>1. /\ pass'[s].todo = pass[s].todo /\ pass'[s].victims = pass[s].victims
          /\ pass'[s].keep = pass[s].keep /\ pass'[s].pc = "copy" /\ pass'[s].meta = pass[s].meta
          /\ pass'[s].updates = [pass[s].updates EXCEPT ![q] = "valid"]
      BY <1>0, <1>8 DEF TypeOK, RenameCopy, Pass
    <2>2. /\ entry' = entry /\ copy'[q] = pass[s].tmp
          /\ \A p \in Paths \ {q} : copy'[p] = copy[p]
      BY <1>8, <2>0 DEF RenameCopy, TypeOK
    <2>3. \A p \in Paths \ {q} : pass'[s].updates[p] = pass[s].updates[p]
      BY <1>0, <2>1 DEF Pass
    <2> QED
      BY <1>0, <1>3, <2>0, <2>1, <2>2, <2>3
  <1>9. CASE ApplyUpdates(s)
    <2>1. /\ pass'[s].todo = pass[s].todo /\ pass'[s].victims = Victims(s)
          /\ pass'[s].keep = pass[s].keep /\ pass'[s].pc = "evict"
          /\ pass'[s].meta = [p \in Paths |-> IF p \in Victims(s) THEN "evicted" ELSE Merged(s)[p]]
          /\ pass'[s].updates = pass[s].updates
      BY <1>0, <1>9 DEF TypeOK, ApplyUpdates, Pass
    <2>2. pass[s].pc = "copy" /\ UNCHANGED <<entry, copy>>
      BY <1>9 DEF ApplyUpdates
    <2>3. \A p \in Victims(s) : p \in Paths /\ p \notin pass[s].keep
      BY DEF Victims
    <2> QED
      BY <1>0, <1>3, <2>1, <2>2, <2>3
  <1>10. CASE WriteMetadata(s)
    <2>1. /\ pass'[s].todo = {} /\ pass'[s].pc = "idle" /\ pass'[s].victims = {}
          /\ \A p \in Paths : pass'[s].updates[p] = "absent"
      BY <1>10 DEF TypeOK, WriteMetadata, EndPass, IdlePass
    <2>2. /\ pass[s].pc = "evict" /\ copy' = copy
          /\ \A p \in Paths : entry'[p] = pass[s].meta[p]
      BY <1>10 DEF WriteMetadata
    <2>3. \A p \in Paths : IF p \in pass[s].keep THEN pass[s].meta[p] = pass[s].updates[p]
                           ELSE pass[s].meta[p] \in {entry[p], "evicted"}
      BY <2>2 DEF CopyInv, MetaKnown
    <2>4. \A p \in Paths : entry'[p] = "valid" => copy'[p] # NoFile
      BY <1>3, <2>2, <2>3
    <2> QED
      BY <1>0, <2>1, <2>4
  <1>11. ASSUME NEW p \in Paths, RemoveFails(s, p)
         PROVE  FALSE
    BY <1>0, <1>1, <1>11 DEF RemoveFails
  <1>12. CASE PassDies(s)
    BY <1>0, <1>1, <1>12 DEF PassDies
  <1> HIDE DEF Good
  <1> QED
    BY <1>4, <1>5, <1>6, <1>7, <1>8, <1>9, <1>10, <1>11, <1>12 DEF PassStep

\* With one pass at a time, and until something fails, every valid entry has its
\* copy on the SSD whenever no pass holds the lock: the copies that a pass has
\* removed are no longer valid when it lets go of the lock.
THEOREM ValidEntriesHaveCopies ==
    ASSUME OnePass
    PROVE  Spec => []ValidHasCopy
  <1>1. Init => OnePassInv
    BY DEF Init, OnePassInv, IdlePass
  <1>2. ASSUME StaleInv, OnePassInv, [Next]_vars PROVE OnePassInv'
    <2>1. TypeOK /\ CopyInv
      BY <1>2 DEF StaleInv, CopyInv
    <2>2. CASE UNCHANGED vars
      BY <1>2, <2>2 DEF vars, OnePassInv
    <2>3. CASE MountDies
      BY <2>1, <2>3 DEF MountDies, OnePassInv, TypeOK
    <2> QED
      BY <1>2, <2>1, <2>2, <2>3, OnePassMount, OnePassStep DEF Next
  <1>3. ASSUME StaleInv, OnePassInv PROVE ValidHasCopy
    BY <1>3, CacheAssumption DEF StaleInv, OnePassInv, MetaKnown, ValidHasCopy
  <1> QED
    BY <1>1, <1>2, <1>3, StaleInvariant, PTL DEF Spec
=============================================================================
