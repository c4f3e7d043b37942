------------------------------ MODULE SsdCache ------------------------------
(***************************************************************************)
(* The SSD cache of hot files.  ssdserver (tagindex/cmd/ssdserver and      *)
(* tagindex/internal/ssd) copies the hot files from the filer to the SSD   *)
(* in passes, started by a ticker and by POST requests that may overlap,   *)
(* and records in cache.meta.json which copies are valid.  The FUSE mount  *)
(* (weed/mount/weedfs_ssd_cache.go) serves reads from valid copies, and    *)
(* marks a copy invalid after each write.  Passes and invalidations share  *)
(* the flock on cache.meta.json.lock; reads take no lock.                  *)
(*                                                                         *)
(* The content of a file is named by the path it was written through and a *)
(* version.  The filer is external: it keeps the flushed content.          *)
(***************************************************************************)
EXTENDS Integers, FiniteSets

CONSTANTS
    Paths,       \* files
    Passes,      \* passes that may run at the same time
    EvictFlags,  \* the values of evictStale that ssdserver is started with
    Quiet,       \* whether files are also changed in ways that leave the cache alone
    Readers,     \* files that are read
    MaxWrites,   \* bound on the changes of each path
    MaxFails,    \* bound on failures
    NoFile,      \* there is no file of that name
    NoPass       \* the lock is free

ASSUME CacheAssumption ==
    /\ EvictFlags \subseteq BOOLEAN
    /\ Quiet \in BOOLEAN /\ Readers \subseteq Paths
    /\ NoPass \notin Passes
    /\ MaxWrites \in Nat /\ MaxFails \in Nat
    /\ NoFile \notin Paths \X (0 .. MaxWrites)

VARIABLES
    mount,       \* mount[p]: the content a reader of the mount should see
    filer,       \* filer[p]: the content flushed to the filer
    writing,     \* paths whose Write has added its data and not yet invalidated
    copy,        \* copy[p]: the file on the SSD
    entry,       \* entry[p]: the entry in cache.meta.json
    metaLock,    \* the pass that holds the flock (an invalidation is one step)
    pass,        \* pass[s]: the local state of CopyHotFilesWithEviction
    reading,     \* reading[p]: a Read that found a valid entry, before it opens
    version,     \* version[p]: changes of p so far
    spoiled,     \* paths whose copy a pass replaced or made valid after the
                 \* content it had downloaded was out of date, whose invalidation
                 \* failed or which was changed quietly (history)
    fails        \* failures so far

vars == <<mount, filer, writing, copy, entry, metaLock, pass, reading, version,
          spoiled, fails>>

-----------------------------------------------------------------------------

Content == Paths \X (0 .. MaxWrites)

EntryState == {"absent", "valid", "failed", "written", "evicted"}

IdlePass == [pc |-> "idle", evict |-> FALSE, keep |-> {}, todo |-> {}, path |-> "none", tmp |-> NoFile,
             updates |-> [p \in Paths |-> "absent"],
             meta |-> [p \in Paths |-> "absent"], victims |-> {}, late |-> {}]

NoRead == [pc |-> "idle", ok |-> {}]

Init ==
    /\ mount = [p \in Paths |-> <<p, 0>>]
    /\ filer = mount
    /\ writing = {}
    /\ copy = [p \in Paths |-> NoFile]
    /\ entry = [p \in Paths |-> "absent"]
    /\ metaLock = NoPass
    /\ pass = [s \in Passes |-> IdlePass]
    /\ reading = [p \in Paths |-> NoRead]
    /\ version = [p \in Paths |-> 0]
    /\ spoiled = {}
    /\ fails = 0

-----------------------------------------------------------------------------
(* A pass of ssdserver *)

\* hotFiles: which files are hot is left open.  Passes that overlap are those of
\* one server, which has one flag.
StartPass(s, hot, evict) ==
    /\ pass[s].pc = "idle"
    /\ \A t \in Passes : pass[t].pc # "idle" => pass[t].evict = evict
    /\ pass' = [pass EXCEPT ![s] = [IdlePass EXCEPT !.pc = "copy", !.keep = hot,
                                                    !.todo = hot, !.evict = evict]]
    /\ UNCHANGED <<mount, filer, writing, copy, entry, metaLock, reading, version, spoiled, fails>>

\* CopyFile up to the rename: what the filer has now is in a temporary file.
Download(s, p) ==
    /\ pass[s].pc = "copy" /\ p \in pass[s].todo
    /\ filer[p] # NoFile
    /\ pass' = [pass EXCEPT ![s].pc = "rename", ![s].path = p, ![s].tmp = filer[p],
                            ![s].todo = @ \ {p},
                            ![s].late = IF filer[p] # mount[p] THEN @ \cup {p} ELSE @]
    /\ UNCHANGED <<mount, filer, writing, copy, entry, metaLock, reading, version, spoiled, fails>>

\* DownloadFails that does not look at the error, for validating
\* StaleOnlyByCause.
DownloadFailsUnnoticed(s, p) ==
    /\ pass[s].pc = "copy" /\ p \in pass[s].todo
    /\ filer[p] = NoFile \/ fails < MaxFails
    /\ fails' = IF filer[p] = NoFile THEN fails ELSE fails + 1
    /\ pass' = [pass EXCEPT ![s].todo = @ \ {p}, ![s].updates[p] = "valid"]
    /\ UNCHANGED <<mount, filer, writing, copy, entry, metaLock, reading, version, spoiled>>

\* The file is gone, or the copy fails half-way.
DownloadFails(s, p) ==
    /\ pass[s].pc = "copy" /\ p \in pass[s].todo
    /\ filer[p] = NoFile \/ fails < MaxFails
    /\ fails' = IF filer[p] = NoFile THEN fails ELSE fails + 1
    /\ pass' = [pass EXCEPT ![s].todo = @ \ {p}, ![s].updates[p] = "failed"]
    /\ UNCHANGED <<mount, filer, writing, copy, entry, metaLock, reading, version, spoiled>>

RenameCopy(s) ==
    /\ pass[s].pc = "rename"
    /\ copy' = [copy EXCEPT ![pass[s].path] = pass[s].tmp]
    /\ pass' = [pass EXCEPT ![s].pc = "copy", ![s].tmp = NoFile, ![s].path = "none",
                            ![s].updates[pass[s].path] = "valid"]
    /\ spoiled' = IF pass[s].path \in pass[s].late THEN spoiled \cup {pass[s].path}
                                                   ELSE spoiled \ {pass[s].path}
    /\ UNCHANGED <<mount, filer, writing, entry, metaLock, reading, version, fails>>

\* ApplyMetadataUpdates: lock, load, merge the updates, find what to evict.
Merged(s) ==
    [p \in Paths |-> IF p \in pass[s].keep THEN pass[s].updates[p] ELSE entry[p]]

\* Victims that spares the valid entries, for validating StaleEnds.
VictimsInvalidOnly(s) ==
    {p \in Paths \ pass[s].keep : pass[s].evict /\ entry[p] \in {"failed", "written"}}

Victims(s) ==
    IF pass[s].evict
      THEN {p \in Paths \ pass[s].keep : entry[p] \notin {"absent", "evicted"}}
      ELSE {}

\* ApplyUpdates that does not store the evicted entries, for validating
\* ValidHasCopy.
ApplyUpdatesForgetsVictims(s) ==
    /\ pass[s].pc = "copy" /\ pass[s].todo = {}
    /\ metaLock = NoPass
    /\ metaLock' = s
    /\ pass' = [pass EXCEPT ![s].pc = "evict", ![s].victims = Victims(s),
                            ![s].meta = Merged(s)]
    /\ UNCHANGED <<mount, filer, writing, copy, entry, reading, version, spoiled, fails>>

ApplyUpdates(s) ==
    /\ pass[s].pc = "copy" /\ pass[s].todo = {}
    /\ metaLock = NoPass
    /\ metaLock' = s
    /\ pass' = [pass EXCEPT ![s].pc = "evict", ![s].victims = Victims(s),
          ![s].meta = [p \in Paths |-> IF p \in Victims(s) THEN "evicted" ELSE Merged(s)[p]]]
    /\ UNCHANGED <<mount, filer, writing, copy, entry, reading, version, spoiled, fails>>

\* The copies are removed before the metadata says so.
RemoveCopy(s, p) ==
    /\ pass[s].pc = "evict" /\ p \in pass[s].victims
    /\ copy' = [copy EXCEPT ![p] = NoFile]
    /\ pass' = [pass EXCEPT ![s].victims = @ \ {p}]
    /\ UNCHANGED <<mount, filer, writing, entry, metaLock, reading, version, spoiled, fails>>

\* os.Remove fails: the copy stays, and the entry is evicted all the same.
RemoveFails(s, p) ==
    /\ pass[s].pc = "evict" /\ p \in pass[s].victims
    /\ fails < MaxFails
    /\ fails' = fails + 1
    /\ pass' = [pass EXCEPT ![s].victims = @ \ {p}]
    /\ UNCHANGED <<mount, filer, writing, copy, entry, metaLock, reading, version, spoiled>>

EndPass(s) ==
    /\ metaLock' = IF metaLock = s THEN NoPass ELSE metaLock
    /\ pass' = [pass EXCEPT ![s] = IdlePass]

WriteMetadata(s) ==
    /\ pass[s].pc = "evict" /\ pass[s].victims = {}
    /\ entry' = pass[s].meta
    /\ spoiled' = spoiled \cup {p \in pass[s].late : pass[s].updates[p] = "valid"}
    /\ EndPass(s)
    /\ UNCHANGED <<mount, filer, writing, copy, reading, version, fails>>

\* ssdserver dies, or the metadata cannot be written.
PassDies(s) ==
    /\ pass[s].pc # "idle"
    /\ fails < MaxFails
    /\ fails' = fails + 1
    /\ EndPass(s)
    /\ UNCHANGED <<mount, filer, writing, copy, entry, reading, version, spoiled>>

PassStep(s) ==
    \/ \E hot \in SUBSET Paths, evict \in EvictFlags : StartPass(s, hot, evict)
    \/ \E p \in Paths : Download(s, p) \/ DownloadFails(s, p)
                       \/ RemoveCopy(s, p) \/ RemoveFails(s, p)
    \/ RenameCopy(s) \/ ApplyUpdates(s) \/ WriteMetadata(s)

-----------------------------------------------------------------------------
(* The mount *)

\* s has a content of p that it has yet to make valid.
Downloaded(s, p) == pass[s].path = p \/ pass[s].updates[p] = "valid"

\* p has new content, and what passes have downloaded of it is out of date.
Change(p, content) ==
    /\ version[p] < MaxWrites
    /\ version' = [version EXCEPT ![p] = @ + 1]
    /\ mount' = [mount EXCEPT ![p] = content]
    /\ pass' = [s \in Passes |->
                  IF Downloaded(s, p) THEN [pass[s] EXCEPT !.late = @ \cup {p}] ELSE pass[s]]

New(p) == <<p, version[p] + 1>>

\* The file's lock is free: no Read or Write is between its two steps.
Unlocked(p) == p \notin writing /\ reading[p].pc = "idle"

\* Write holds the file's lock exclusively.
AddPage(p) ==
    /\ mount[p] # NoFile /\ Unlocked(p)
    /\ Change(p, New(p))
    /\ writing' = writing \cup {p}
    /\ UNCHANGED <<filer, copy, entry, metaLock, reading, spoiled, fails>>

\* invalidateSSDCache without the lock, for validating StaleOnlyByCause.
invalidateUnlocked(p) ==
    /\ p \in writing
    /\ entry' = IF entry[p] = "valid" THEN [entry EXCEPT ![p] = "written"] ELSE entry
    /\ writing' = writing \ {p}
    /\ spoiled' = spoiled \ {p}
    /\ UNCHANGED <<mount, filer, copy, metaLock, pass, reading, version, fails>>

\* invalidateSSDCache that leaves the entry's error empty, for validating TypeOK.
invalidateWithoutError(p) ==
    /\ p \in writing
    /\ metaLock = NoPass
    /\ entry' = IF entry[p] = "valid" THEN [entry EXCEPT ![p] = "noError"] ELSE entry
    /\ writing' = writing \ {p}
    /\ spoiled' = spoiled \ {p}
    /\ UNCHANGED <<mount, filer, copy, metaLock, pass, reading, version, fails>>

invalidateSSDCache(p) ==
    /\ p \in writing
    /\ metaLock = NoPass
    /\ entry' = IF entry[p] = "valid" THEN [entry EXCEPT ![p] = "written"] ELSE entry
    /\ writing' = writing \ {p}
    /\ spoiled' = spoiled \ {p}
    /\ UNCHANGED <<mount, filer, copy, metaLock, pass, reading, version, fails>>

\* The lock or the metadata cannot be had: a warning, and Write succeeds.
InvalidationFails(p) ==
    /\ p \in writing
    /\ fails < MaxFails
    /\ fails' = fails + 1
    /\ writing' = writing \ {p}
    /\ spoiled' = spoiled \cup {p}
    /\ UNCHANGED <<mount, filer, copy, entry, metaLock, pass, reading, version>>

\* doFlush, when the file is closed or synced.
Flush(p) ==
    /\ mount[p] # NoFile /\ mount[p] # filer[p]
    /\ p \notin writing
    /\ filer' = [filer EXCEPT ![p] = mount[p]]
    /\ UNCHANGED <<mount, writing, copy, entry, metaLock, pass, reading, version, spoiled, fails>>

\* lookupSSDCache found a valid entry; otherwise the chunks are read.
LookupValid(p) ==
    /\ p \in Readers
    /\ mount[p] # NoFile /\ Unlocked(p)
    /\ entry[p] = "valid"
    /\ reading' = [reading EXCEPT ![p] = [pc |-> "open", ok |-> {mount[p]}]]
    /\ UNCHANGED <<mount, filer, writing, copy, entry, metaLock, pass, version, spoiled, fails>>

\* Open the copy and read it; if it is not there, read the chunks.
ReadCopy(p) ==
    /\ reading[p].pc = "open"
    /\ reading' = [reading EXCEPT ![p] = NoRead]
    /\ UNCHANGED <<mount, filer, writing, copy, entry, metaLock, pass, version, spoiled, fails>>

\* A Read of p that is under way may see either content.
SeenBy(p, content) ==
    [reading EXCEPT ![p].ok = IF reading[p].pc = "open" THEN @ \cup {content} ELSE @]

\* SetAttr with a size: saved with the entry at once, or by the flush of an open file.
Truncate(p) ==
    /\ Quiet /\ mount[p] # NoFile
    /\ Change(p, New(p))
    /\ \/ UNCHANGED filer
       \/ mount[p] = filer[p] /\ Unlocked(p) /\ filer' = [filer EXCEPT ![p] = New(p)]
    /\ reading' = SeenBy(p, New(p))
    /\ spoiled' = spoiled \cup {p}
    /\ UNCHANGED <<writing, copy, entry, metaLock, fails>>

\* CopyFileRange adds pages to an open file as Write does, and does not invalidate.
CopyFileRange(p) ==
    /\ Quiet /\ mount[p] # NoFile /\ Unlocked(p)
    /\ Change(p, New(p))
    /\ spoiled' = spoiled \cup {p}
    /\ UNCHANGED <<filer, writing, copy, entry, metaLock, reading, fails>>

\* Another mount or a client of the filer writes p, and this mount is told: it
\* forgets the pages of p it has not flushed.
RemoteWrite(p) ==
    /\ Quiet /\ filer[p] # NoFile /\ Unlocked(p)
    /\ Change(p, New(p))
    /\ filer' = [filer EXCEPT ![p] = New(p)]
    /\ spoiled' = spoiled \cup {p}
    /\ UNCHANGED <<writing, copy, entry, metaLock, reading, fails>>

\* Unlink removes the file at the filer; its cached copy stays.
Unlink(p) ==
    /\ Quiet /\ mount[p] # NoFile
    /\ mount' = [mount EXCEPT ![p] = NoFile] /\ filer' = [filer EXCEPT ![p] = NoFile]
    /\ writing' = writing \ {p}
    /\ UNCHANGED <<copy, entry, metaLock, pass, reading, version, spoiled, fails>>

\* Mknod: a new, empty file, for which an entry of the cache may be there.
Mknod(p) ==
    /\ Quiet /\ mount[p] = NoFile
    /\ Change(p, New(p))
    /\ filer' = [filer EXCEPT ![p] = New(p)]
    /\ reading' = SeenBy(p, New(p))
    /\ spoiled' = spoiled \cup {p}
    /\ UNCHANGED <<writing, copy, entry, metaLock, fails>>

\* Rename changes what a path names at the filer and in the mount, and leaves
\* the cache alone.  The Write of a renamed file invalidates the path the file has
\* by then.
Rename(p, q) ==
    /\ Quiet
    /\ p # q /\ mount[p] # NoFile
    /\ version[q] < MaxWrites
    /\ version' = [version EXCEPT ![q] = @ + 1]
    /\ mount' = [mount EXCEPT ![q] = mount[p], ![p] = NoFile]
    /\ filer' = [filer EXCEPT ![q] = filer[p], ![p] = NoFile]
    /\ writing' = IF p \in writing THEN (writing \ {p}) \cup {q} ELSE writing \ {q}
    /\ reading' = SeenBy(q, mount[p])
    /\ pass' = [s \in Passes |->
                  IF Downloaded(s, q) THEN [pass[s] EXCEPT !.late = @ \cup {q}] ELSE pass[s]]
    /\ spoiled' = spoiled \cup {q}
    /\ UNCHANGED <<copy, entry, metaLock, fails>>

\* The mount dies, and with it the data that was not flushed.
MountDies ==
    /\ fails < MaxFails
    /\ fails' = fails + 1
    /\ mount' = filer
    /\ writing' = {}
    /\ reading' = [p \in Paths |-> NoRead]
    /\ UNCHANGED <<filer, copy, entry, metaLock, pass, version, spoiled>>

MountStep(p) ==
    \/ AddPage(p) \/ invalidateSSDCache(p) \/ InvalidationFails(p) \/ Flush(p)
    \/ LookupValid(p) \/ ReadCopy(p)
    \/ Truncate(p) \/ CopyFileRange(p) \/ RemoteWrite(p) \/ Unlink(p) \/ Mknod(p)
    \/ \E q \in Paths : Rename(p, q)

-----------------------------------------------------------------------------

Next ==
    \/ \E s \in Passes : PassStep(s) \/ PassDies(s)
    \/ \E p \in Paths : MountStep(p)
    \/ MountDies

Spec == Init /\ [][Next]_vars

\* Passes go on at every tick and get the lock in their turn; a Write that
\* waits for the lock gets it; users close the files they wrote.
FairSpec ==
    /\ Spec
    /\ \A s \in Passes : WF_vars(PassStep(s)) /\ SF_vars(ApplyUpdates(s))
    /\ \A p \in Paths : SF_vars(invalidateSSDCache(p)) /\ WF_vars(Flush(p))

-----------------------------------------------------------------------------
(* Properties *)

Pass == [pc : {"idle", "copy", "rename", "evict"}, evict : BOOLEAN,
         keep : SUBSET Paths, todo : SUBSET Paths, path : Paths \cup {"none"},
         tmp : Content \cup {NoFile}, updates : [Paths -> EntryState],
         meta : [Paths -> EntryState], victims : SUBSET Paths, late : SUBSET Paths]

\* Type correctness of the mount, the SSD, the metadata and the passes.
TypeOK ==
    /\ mount \in [Paths -> Content \cup {NoFile}]
    /\ filer \in [Paths -> Content \cup {NoFile}]
    /\ writing \in SUBSET Paths
    /\ copy \in [Paths -> Content \cup {NoFile}]
    /\ entry \in [Paths -> EntryState]
    /\ metaLock \in Passes \cup {NoPass}
    /\ pass \in [Passes -> Pass]
    /\ reading \in [Paths -> [pc : {"idle", "open"}, ok : SUBSET Content]]
    /\ version \in [Paths -> 0 .. MaxWrites]
    /\ spoiled \in SUBSET Paths
    /\ fails \in 0 .. MaxFails

\* Reads of p are served from an out-of-date copy.
Stale(p) ==
    /\ entry[p] = "valid" /\ copy[p] # NoFile
    /\ mount[p] # NoFile /\ p \notin writing
    /\ copy[p] # mount[p]

\* A valid copy is out of date only if a pass had downloaded the file before its
\* last change was flushed, an invalidation failed, or the file was changed in a way
\* that does not invalidate, and no later write or pass has put it right:
\* overlapping passes, evictions, failed copies, and passes and mounts that die
\* never cause it.
StaleOnlyByCause == \A p \in Paths : Stale(p) => p \in spoiled

\* With one pass at a time, and until one fails, an entry is valid only while its
\* copy is on the SSD; only a pass that is evicting, with the lock, is ahead.
ValidHasCopy ==
    fails = 0 /\ metaLock = NoPass => \A p \in Paths : entry[p] = "valid" => copy[p] # NoFile

\* When writes stop and passes go on, reads are no longer served from copies
\* that are out of date: every pass refreshes or evicts each of them.
StaleEnds == <>[](\A p \in Paths : ~Stale(p))

\* "read valid hot-file cache copies": a read that found a valid entry returns
\* what was last written to the file through this mount.
ReadFresh ==
    \A p \in Paths :
        reading[p].pc = "open" /\ copy[p] # NoFile => copy[p] \in reading[p].ok
=============================================================================
