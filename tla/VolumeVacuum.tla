---------------------------- MODULE VolumeVacuum ----------------------------
(***************************************************************************)
(* One replica of a volume of the volume server (weed/storage/volume*.go): *)
(* the .dat file of needles, the .idx file of index entries, the needle    *)
(* map in memory, and vacuum, which copies the live needles to .cpd and    *)
(* .cpx while writes go on, brings the copies up to date under the lock    *)
(* (makeupDiff), renames them over .dat and .idx, and loads the volume     *)
(* again.  The calls come from the master (topology_vacuum.go) or from a   *)
(* vacuum worker (vacuum_task.go); the server may be killed and restarted. *)
(*                                                                         *)
(* An offset is the position of a needle in its file: needles are taken to *)
(* be of one length, so that an offset into one file may fall on a needle  *)
(* of another.  The cookie of a needle stands with its key.  A killed      *)
(* server loses nothing that it has written.  Needle maps are in memory,   *)
(* the default kind.                                                       *)
(***************************************************************************)
EXTENDS Integers, Sequences, FiniteSets

CONSTANTS
    Keys,       \* needle ids, ordered: AscendingVisit goes through them in order
    Data,       \* contents that are not empty
    Masters,    \* drivers that vacuum as topology_vacuum.go does
    Workers,    \* drivers that vacuum as vacuum_task.go does
    MaxOps,     \* bound on the needles written by clients
    MaxFails,   \* bound on failures
    MaxRuns,    \* bound on the vacuums that drivers start
    Empty,      \* the content of an empty file, and of the needle of a deletion
    NoFile,     \* there is no file of that name
    NoMap,      \* v.nm or v.tmpNm is nil
    NoDriver    \* no call waits for the end of the compaction

ASSUME VacuumAssumption ==
    /\ Keys \subseteq Nat /\ IsFiniteSet(Keys)
    /\ Empty \notin Data
    /\ MaxOps \in Nat /\ MaxFails \in Nat /\ MaxRuns \in Nat
    /\ Masters \cap Workers = {} /\ NoDriver \notin Masters \cup Workers

\* The contents "missing" and "broken" of a read that gives none, and the absence
\* of a file or of a map, are told apart from contents, files and maps.
ASSUME AbsenceAssumption ==
    /\ {"missing", "broken"} \cap (Data \cup {Empty}) = {}
    /\ NoFile \notin [rev : Nat, recs : Seq([k : Keys, v : Data \cup {Empty}])]
    /\ NoFile \notin Seq([k : Keys, off : Nat, size : {"data", "zero", "tombstone"}])
    /\ NoMap \notin [Keys -> [off : Nat, size : {"data", "zero", "tombstone"}]]

VARIABLES
    dat,        \* the .dat file: its compaction revision and its needles
    idx,        \* the .idx file
    cpd, cpx,   \* the .cpd and .cpx files
    state,      \* "up", "down", "closed", or where CommitCompact is
    readonly,   \* v.noWriteOrDelete
    nm, tmpNm,  \* v.nm, v.tmpNm
    lastCompact,\* v.lastCompactIndexOffset, v.lastCompactRevision
    compaction, \* the compaction in progress: its step, and the call it answers
    committer,  \* the driver whose call CommitCompact answers
    driver,     \* driver[d]: which call driver d makes next
    acked,      \* acked[k]: what the last acknowledged request on k left (history)
    faults,     \* what has happened that vacuum does not survive (history)
    ops, fails, \* needles written and failures so far
    runs        \* vacuums started so far

files == <<dat, idx, cpd, cpx>>
memory == <<nm, tmpNm, lastCompact>>
counts == <<ops, fails, runs>>
vars == <<files, state, readonly, memory, compaction, committer, driver, acked, faults, counts>>

-----------------------------------------------------------------------------
(* Files and maps *)

Drivers == Masters \cup Workers

Content == Data \cup {Empty}

\* The content a read gives of a key that is not there, and a read that fails.
Missing == "missing"
Broken == "broken"

Needle == [k : Keys, v : Content]

\* The size in an index entry: that of a content, zero, or TombstoneFileSize.
Sizes == {"data", "zero", "tombstone"}

SizeOf(v) == IF v = Empty THEN "zero" ELSE "data"

IndexEntry == [k : Keys, off : Nat, size : Sizes]

\* An entry of a needle map.  Deleting a key keeps its offset.
NoEntry == [off |-> 0, size |-> "tombstone"]

\* The last of a set of positions, 0 when there is none.
Latest(S) == IF S = {} THEN 0 ELSE CHOOSE i \in S : \A j \in S : j <= i

\* The needle map that loading an index file gives.
doLoading(ix) ==
    [k \in Keys |->
        LET put == Latest({i \in DOMAIN ix : /\ ix[i].k = k
                                             /\ ix[i].off # 0 /\ ix[i].size # "tombstone"})
            del == Latest({i \in DOMAIN ix : /\ ix[i].k = k
                                             /\ (ix[i].off = 0 \/ ix[i].size = "tombstone")})
        IN  IF put = 0 THEN NoEntry
            ELSE [off |-> ix[put].off, size |-> IF put < del THEN "tombstone" ELSE ix[put].size]]

\* n.ReadData at an offset: the needle there, when it has the size expected.
Readable(recs, e) == e.off \in DOMAIN recs /\ SizeOf(recs[e.off].v) = e.size

\* What a reader of key k gets through a needle map: readNeedle, and the check of
\* the cookie by its caller.
readNeedle(recs, map, k) ==
    CASE map[k].off = 0 \/ map[k].size = "tombstone" -> Missing
      [] map[k].size = "zero" -> Empty
      [] OTHER -> IF Readable(recs, map[k]) /\ recs[map[k].off].k = k
                  THEN recs[map[k].off].v ELSE Broken

\* CheckVolumeDataIntegrity that lets an entry past the end of .dat pass, for
\* validating TornIsReadOnly.
CheckNotPastEnd(recs, ix) ==
    \/ ix = <<>>
    \/ LET e == ix[Len(ix)] IN
        \/ e.off = 0 \/ e.off > Len(recs)
        \/ e.size = "tombstone" /\ recs # <<>> /\ recs[Len(recs)] = [k |-> e.k, v |-> Empty]
        \/ e.size # "tombstone" /\ e.off = Len(recs) /\ Readable(recs, e)

\* CheckVolumeDataIntegrity: the last index entry decides.  The key of a needle
\* that ends the file is not compared.
CheckVolumeDataIntegrity(recs, ix) ==
    \/ ix = <<>>
    \/ LET e == ix[Len(ix)] IN
        \/ e.off = 0
        \/ e.size = "tombstone" /\ recs # <<>> /\ recs[Len(recs)] = [k |-> e.k, v |-> Empty]
        \/ e.size # "tombstone" /\ e.off = Len(recs) /\ Readable(recs, e)

Init ==
    /\ dat = [rev |-> 0, recs |-> <<>>]
    /\ idx = <<>>
    /\ cpd = NoFile /\ cpx = NoFile
    /\ state = "up" /\ readonly = FALSE
    /\ nm = [k \in Keys |-> NoEntry] /\ tmpNm = NoMap
    /\ lastCompact = [off |-> 0, rev |-> 0]
    /\ compaction = [pc |-> "idle", by |-> NoDriver]
    /\ committer = NoDriver
    /\ driver = [d \in Drivers |-> "idle"]
    /\ acked = [k \in Keys |-> Missing]
    /\ faults = {}
    /\ ops = 0 /\ fails = 0 /\ runs = 0

-----------------------------------------------------------------------------
(* Clients *)

Served == state = "up" /\ nm # NoMap

Append1(recs, k, v) == Append(recs, [k |-> k, v |-> v])

\* isFileUnchanged: a needle with the same content is there already.
isFileUnchanged(k, v) ==
    /\ nm[k].size = "data" /\ Readable(dat.recs, nm[k])
    /\ dat.recs[nm[k].off] = [k |-> k, v |-> v]

\* The needle that the map names for k can be read and has its cookie.
CookieMatches(k) ==
    nm[k].off # 0 => nm[k].off \in DOMAIN dat.recs /\ dat.recs[nm[k].off].k = k

\* nm.Put: the map and the index file get the needle at the end of .dat.
Put(k, v) ==
    LET off == Len(dat.recs) + 1
        e == [off |-> off, size |-> SizeOf(v)]
    IN  IF nm[k].off < off
        THEN /\ nm' = [nm EXCEPT ![k] = e]
             /\ idx' = Append(idx, [k |-> k, off |-> off, size |-> e.size])
        ELSE UNCHANGED <<nm, idx>>

\* doWriteRequest goes on to append: a write of the content that is there already
\* changes nothing, and one with the wrong cookie is refused.
CanAppend(k, v) ==
    /\ Served /\ ~readonly /\ ops < MaxOps
    /\ ~isFileUnchanged(k, v) /\ CookieMatches(k)

doWriteRequest(k, v) ==
    /\ CanAppend(k, v)
    /\ ops' = ops + 1
    /\ Put(k, v)

\* A write of the content that the map says is there already is acknowledged and
\* changes no file.  Through a map that is not the one of the files it may name a
\* needle that is no longer the last of its key.
WriteUnchanged(k, v) ==
    /\ Served /\ ~readonly /\ isFileUnchanged(k, v)
    /\ acked' = [acked EXCEPT ![k] = v]
    /\ faults' = IF nm = doLoading(idx) THEN faults ELSE faults \cup {"unwritten"}
    /\ UNCHANGED <<files, state, readonly, memory, compaction, committer, driver, counts>>

\* A write without fsync, acknowledged under the lock.
syncWrite(k, v) ==
    /\ doWriteRequest(k, v)
    /\ dat' = [dat EXCEPT !.recs = Append1(@, k, v)]
    /\ acked' = [acked EXCEPT ![k] = v]
    /\ UNCHANGED <<cpd, cpx, state, readonly, tmpNm, lastCompact, compaction, committer, driver, faults, fails, runs>>

\* A write with fsync whose sync fails: the request is failed and .dat truncated
\* to where it was, but the map and the index file keep the entry.
SyncFails(k, v) ==
    /\ fails < MaxFails
    /\ doWriteRequest(k, v)
    /\ fails' = fails + 1
    /\ faults' = faults \cup {"unsynced"}
    /\ UNCHANGED <<dat, cpd, cpx, state, readonly, tmpNm, lastCompact, compaction, committer, driver, acked, runs>>

\* DeleteHandler reads the needle first: what cannot be read is not deleted.
syncDelete(k) ==
    /\ Served /\ ~readonly /\ ops < MaxOps
    /\ nm[k].size # "tombstone" /\ readNeedle(dat.recs, nm, k) \in Content
    /\ ops' = ops + 1
    /\ dat' = [dat EXCEPT !.recs = Append1(@, k, Empty)]
    /\ nm' = [nm EXCEPT ![k].size = "tombstone"]
    /\ idx' = Append(idx, [k |-> k, off |-> Len(dat.recs) + 1, size |-> "tombstone"])
    /\ acked' = [acked EXCEPT ![k] = Missing]
    /\ UNCHANGED <<cpd, cpx, state, readonly, tmpNm, lastCompact, compaction, committer, driver, faults, fails, runs>>

-----------------------------------------------------------------------------
(* The server is killed and restarted *)

\* What a driver does next when its Compact call fails: the master cleans up, the
\* worker gives up.
AfterFailure(d) == IF d \in Masters THEN "cleanup" ELSE "idle"

\* Calls in progress fail.
Killed ==
    /\ state' = "down"
    /\ nm' = NoMap /\ tmpNm' = NoMap
    /\ compaction' = [pc |-> "idle", by |-> NoDriver]
    /\ committer' = NoDriver
    /\ driver' = [d \in Drivers |->
                    CASE driver[d] = "compacting" -> AfterFailure(d)
                      [] driver[d] = "committing" -> "idle"
                      [] OTHER -> driver[d]]

\* makeupDiff finds nothing to do.
DiffIsEmpty == Len(idx) <= lastCompact.off

\* The volume is left with the .dat of the compaction and the .idx from before it.
\* Nothing is checked on loading when .idx ends in a deletion makeupDiff wrote.
Torn == IF DiffIsEmpty /\ idx[Len(idx)].off # 0 THEN "torn" ELSE "torn, unseen"

\* Between the two renames the volume has the new .dat and the old .idx.
Crash ==
    /\ state # "down" /\ fails < MaxFails
    /\ fails' = fails + 1
    /\ Killed
    /\ faults' = IF state = "half" THEN faults \cup {Torn} ELSE faults
    /\ UNCHANGED <<files, readonly, lastCompact, acked, ops, runs>>

\* Killed with a needle in .dat that is not yet in .idx.
CrashInWrite(k, v) ==
    /\ CanAppend(k, v) /\ fails < MaxFails
    /\ fails' = fails + 1 /\ ops' = ops + 1
    /\ dat' = [dat EXCEPT !.recs = Append1(@, k, v)]
    /\ Killed
    /\ UNCHANGED <<idx, cpd, cpx, readonly, lastCompact, acked, faults, runs>>

\* Volume.load on a new Volume.
Restart ==
    /\ state = "down"
    /\ state' = "up"
    /\ readonly' = ~CheckVolumeDataIntegrity(dat.recs, idx)
    /\ nm' = doLoading(idx)
    /\ lastCompact' = [off |-> 0, rev |-> 0]
    /\ UNCHANGED <<files, tmpNm, compaction, committer, driver, acked, faults, counts>>

-----------------------------------------------------------------------------
(* Compact *)

Compacting == compaction.pc # "idle"

\* Some entry of .idx is no longer alive: garbageLevel is above the threshold.
garbageLevel == Cardinality({k \in Keys : nm[k].size # "tombstone"}) < Len(idx)

\* VacuumVolumeCheck, then VacuumVolumeCompact.  A call that finds a compaction in
\* progress succeeds at once.
CompactVolume(d) ==
    /\ driver[d] = "idle" /\ Served /\ ~readonly /\ garbageLevel /\ runs < MaxRuns
    /\ runs' = runs + 1
    /\ IF Compacting
       THEN /\ driver' = [driver EXCEPT ![d] = "commit"]
            /\ UNCHANGED <<cpd, lastCompact, compaction>>
       ELSE /\ driver' = [driver EXCEPT ![d] = "compacting"]
            /\ compaction' = [pc |-> "copy", by |-> d]
            /\ lastCompact' = [off |-> Len(idx), rev |-> dat.rev]
            /\ cpd' = [rev |-> dat.rev + 1, recs |-> <<>>]
    /\ UNCHANGED <<dat, idx, cpx, state, readonly, nm, tmpNm, committer, acked, faults, ops, fails>>

\* The keys of S in ascending order.
Ascending(S) ==
    [i \in 1 .. Cardinality(S) |-> CHOOSE k \in S : Cardinality({j \in S : j <= k}) = i]

\* The keys that .idx says are alive, the needles it names for them, and the
\* index of the copies, which goes by the key in each needle.
LiveKeys(map) == {k \in Keys : map[k].off # 0 /\ map[k].size # "tombstone"}

CopiedNeedles(map) ==
    LET keys == Ascending(LiveKeys(map))
    IN  [i \in DOMAIN keys |-> dat.recs[map[keys[i]].off]]

CopiedIndex(recs) ==
    LET keys == Ascending({recs[i].k : i \in DOMAIN recs})
        at(k) == Latest({i \in DOMAIN recs : recs[i].k = k})
    IN  [i \in DOMAIN keys |->
            [k |-> keys[i], off |-> at(keys[i]), size |-> SizeOf(recs[at(keys[i])].v)]]

\* copyDataBasedOnIndexFile: .cpd may have been removed meanwhile, and then the
\* needles go to a file without a name.
CopyNeedles ==
    /\ compaction.pc = "copy" /\ state # "down"
    /\ LET map == doLoading(idx) IN
        /\ \A k \in LiveKeys(map) : Readable(dat.recs, map[k])
        /\ compaction' = [pc |-> "index", by |-> compaction.by, ix |-> CopiedIndex(CopiedNeedles(map))]
        /\ cpd' = IF cpd = NoFile THEN NoFile ELSE [cpd EXCEPT !.recs = CopiedNeedles(map)]
    /\ UNCHANGED <<dat, idx, cpx, state, readonly, memory, committer, driver, acked, faults, counts>>

\* The compaction ends, and the call that waits for it returns.
CompactionEnds(next) ==
    /\ compaction' = [pc |-> "idle", by |-> NoDriver]
    /\ driver' = IF compaction.by = NoDriver THEN driver
                 ELSE [driver EXCEPT ![compaction.by] = next]

SaveToIdx ==
    /\ compaction.pc = "index"
    /\ cpx' = compaction.ix
    /\ tmpNm' = doLoading(compaction.ix)
    /\ CompactionEnds("commit")
    /\ UNCHANGED <<dat, idx, cpd, state, readonly, nm, lastCompact, committer, acked, faults, counts>>

\* A needle cannot be read, or the disk is full, or the caller has gone.  A driver
\* that has yet to commit an earlier compaction now finds the .cpd of this one.
CompactFails ==
    /\ Compacting
    /\ \/ /\ compaction.pc = "copy"
          /\ \E k \in LiveKeys(doLoading(idx)) : ~Readable(dat.recs, doLoading(idx)[k])
          /\ UNCHANGED fails
       \/ fails < MaxFails /\ fails' = fails + 1
    /\ CompactionEnds(AfterFailure(compaction.by))
    /\ faults' = IF \E d \in Drivers : driver[d] = "commit" THEN faults \cup {"clobbered"} ELSE faults
    /\ UNCHANGED <<files, state, readonly, memory, committer, acked, ops, runs>>

\* The driver stops waiting while the compaction goes on: its timer runs out or
\* the connection is lost.
CompactTimesOut(d) ==
    /\ driver[d] = "compacting" /\ fails < MaxFails
    /\ fails' = fails + 1
    /\ driver' = [driver EXCEPT ![d] = AfterFailure(d)]
    /\ compaction' = [compaction EXCEPT !.by = NoDriver]
    /\ UNCHANGED <<files, state, readonly, memory, committer, acked, faults, ops, runs>>

\* cleanupCompact takes no lock and looks at no flag.
cleanupCompact(d) ==
    /\ driver[d] = "cleanup" /\ state # "down"
    /\ cpd' = NoFile /\ cpx' = NoFile
    /\ driver' = [driver EXCEPT ![d] = "idle"]
    /\ UNCHANGED <<dat, idx, state, readonly, memory, compaction, committer, acked, faults, counts>>

\* A call to a server that is down.
CallFails(d) ==
    /\ state = "down" /\ driver[d] \in {"commit", "cleanup"}
    /\ driver' = [driver EXCEPT ![d] = "idle"]
    /\ UNCHANGED <<files, state, readonly, memory, compaction, committer, acked, faults, counts>>

-----------------------------------------------------------------------------
(* CommitCompact *)

\* What a driver does next when its commit has succeeded.
AfterCommit(d) == IF d \in Workers THEN "cleanup" ELSE "idle"

CommitReturns(d, next) ==
    /\ driver' = [driver EXCEPT ![d] = next]
    /\ committer' = NoDriver

\* A commit that finds a compaction in progress succeeds without doing anything.
CommitSkipped(d) ==
    /\ driver[d] = "commit" /\ state # "down"
    /\ Compacting \/ state \in {"diffed", "half"}
    /\ driver' = [driver EXCEPT ![d] = AfterCommit(d)]
    /\ UNCHANGED <<files, state, readonly, memory, compaction, committer, acked, faults, counts>>

\* Changed that misses the first entry, for validating ReadsLastAcked.
ChangedButFirst == {idx[i].k : i \in {j \in DOMAIN idx : lastCompact.off + 1 < j}}

\* The keys that .idx got entries for since the compaction began, and the last
\* entry of each.
Changed == {idx[i].k : i \in {j \in DOMAIN idx : lastCompact.off < j}}

\* LastEntry that takes the oldest change of a key, for validating FilesKeepAcked.
OldestEntry(k) ==
    idx[CHOOSE i \in DOMAIN idx : /\ idx[i].k = k /\ lastCompact.off < i
                                  /\ \A j \in DOMAIN idx : idx[j].k = k /\ lastCompact.off < j => i <= j]

LastEntry(k) == idx[Latest({i \in DOMAIN idx : idx[i].k = k})]

IsUpdate(k) == LastEntry(k).off # 0 /\ LastEntry(k).size = "data"

Orders == {s \in [1 .. Cardinality(Changed) -> Changed] : \A i, j \in DOMAIN s : s[i] = s[j] => i = j}

\* makeupDiff gives up.
DiffRefuses ==
    /\ ~DiffIsEmpty
    /\ \/ dat.rev # lastCompact.rev
       \/ cpd = NoFile \/ cpx = NoFile
       \/ cpd # NoFile /\ cpd.rev # dat.rev + 1
       \/ \E k \in Changed : IsUpdate(k) /\ LastEntry(k).off \notin DOMAIN dat.recs

CanCommit(d) == driver[d] = "commit" /\ state \in {"up", "closed"} /\ ~Compacting

CommitEmptyDiff(d) ==
    /\ CanCommit(d) /\ DiffIsEmpty
    /\ state' = "diffed" /\ nm' = NoMap
    /\ driver' = [driver EXCEPT ![d] = "committing"] /\ committer' = d
    /\ UNCHANGED <<files, readonly, tmpNm, lastCompact, compaction, acked, faults, counts>>

\* The changes are appended to .cpd and .cpx and put into the temporary map, the
\* keys in any order.  An entry of size zero is taken for a deletion.
CommitDiff(d, order) ==
    /\ CanCommit(d) /\ ~DiffIsEmpty /\ ~DiffRefuses /\ tmpNm # NoMap
    /\ cpd' = [cpd EXCEPT !.recs = @ \o [i \in DOMAIN order |->
                    IF IsUpdate(order[i]) THEN dat.recs[LastEntry(order[i]).off]
                                          ELSE [k |-> order[i], v |-> Empty]]]
    /\ cpx' = cpx \o [i \in DOMAIN order |->
                    [k |-> order[i], size |-> LastEntry(order[i]).size,
                     off |-> IF IsUpdate(order[i]) THEN Len(cpd.recs) + i ELSE 0]]
    /\ tmpNm' = [k \in Keys |->
                    IF k \notin Changed THEN tmpNm[k]
                    ELSE IF IsUpdate(k)
                         THEN [off |-> Len(cpd.recs) + CHOOSE i \in DOMAIN order : order[i] = k,
                               size |-> "data"]
                         ELSE [tmpNm[k] EXCEPT !.size = "tombstone"]]
    /\ state' = "diffed" /\ nm' = NoMap
    /\ driver' = [driver EXCEPT ![d] = "committing"] /\ committer' = d
    /\ faults' = IF \E k \in Changed : LastEntry(k).size = "zero" THEN faults \cup {"empty"} ELSE faults
    /\ UNCHANGED <<dat, idx, readonly, lastCompact, compaction, acked, counts>>

\* After a restart there is no temporary map, and makeupDiff calls a method of it.
CommitPanics(d) ==
    /\ CanCommit(d) /\ ~DiffIsEmpty /\ ~DiffRefuses /\ tmpNm = NoMap
    /\ Killed
    /\ UNCHANGED <<files, readonly, lastCompact, acked, faults, counts>>

\* Volume.load at the end of CommitCompact: the temporary map, when there is one,
\* becomes the needle map, unless the volume is read-only.
Load(recs, ix) ==
    LET ro == readonly \/ ~CheckVolumeDataIntegrity(recs, ix) IN
    /\ state' = "up"
    /\ readonly' = ro
    /\ nm' = IF ro \/ tmpNm = NoMap THEN doLoading(ix) ELSE tmpNm
    /\ tmpNm' = IF ro THEN tmpNm ELSE NoMap

\* makeupDiff fails, and the copies are removed.  When one of them is missing the
\* volume stays closed, otherwise the old files are loaded, with the temporary map.
CommitAbandoned(d) ==
    /\ CanCommit(d)
    /\ \/ DiffRefuses /\ UNCHANGED fails
       \/ ~DiffIsEmpty /\ ~DiffRefuses /\ fails < MaxFails /\ fails' = fails + 1
    /\ cpd' = NoFile
    /\ cpx' = IF cpd = NoFile THEN cpx ELSE NoFile
    /\ IF cpd = NoFile \/ cpx = NoFile
       THEN /\ state' = "closed" /\ nm' = NoMap
            /\ CommitReturns(d, "idle")
            /\ UNCHANGED <<readonly, tmpNm, faults>>
       ELSE /\ Load(dat.recs, idx)
            /\ CommitReturns(d, AfterCommit(d))
            /\ faults' = IF tmpNm = NoMap THEN faults ELSE faults \cup {"wrongmap"}
    /\ UNCHANGED <<dat, idx, lastCompact, compaction, acked, ops, runs>>

\* CommitFails that leaves the volume open, for validating TypeOK.
CommitFailsOpen ==
    /\ state' = "up"
    /\ CommitReturns(committer, "idle")
    /\ UNCHANGED <<files, readonly, nm, tmpNm>>

\* A rename whose source is gone: the volume stays closed.
CommitFails ==
    /\ state' = "closed"
    /\ CommitReturns(committer, "idle")
    /\ UNCHANGED <<files, readonly, nm, tmpNm>>

RenameDat ==
    /\ state = "diffed"
    /\ IF cpd = NoFile THEN CommitFails
       ELSE /\ dat' = cpd /\ cpd' = NoFile
            /\ state' = "half"
            /\ UNCHANGED <<idx, cpx, readonly, nm, tmpNm, committer, driver>>
    /\ UNCHANGED <<lastCompact, compaction, acked, faults, counts>>

RenameIdx ==
    /\ state = "half"
    /\ IF cpx = NoFile THEN CommitFails /\ faults' = faults \cup {Torn}
       ELSE /\ idx' = cpx /\ cpx' = NoFile
            /\ Load(dat.recs, cpx)
            /\ CommitReturns(committer, AfterCommit(committer))
            /\ UNCHANGED <<dat, cpd, faults>>
    /\ UNCHANGED <<lastCompact, compaction, acked, counts>>

-----------------------------------------------------------------------------

Next ==
    \/ \E k \in Keys, v \in Content :
        \/ WriteUnchanged(k, v) \/ syncWrite(k, v) \/ SyncFails(k, v) \/ CrashInWrite(k, v)
    \/ \E k \in Keys : syncDelete(k)
    \/ Crash \/ Restart
    \/ CopyNeedles \/ SaveToIdx \/ CompactFails \/ RenameDat \/ RenameIdx
    \/ \E d \in Drivers :
        \/ CompactVolume(d) \/ CompactTimesOut(d) \/ cleanupCompact(d) \/ CallFails(d)
        \/ CommitSkipped(d) \/ CommitEmptyDiff(d) \/ CommitPanics(d) \/ CommitAbandoned(d)
        \/ \E order \in Orders : CommitDiff(d, order)

Spec == Init /\ [][Next]_vars

-----------------------------------------------------------------------------
(* Properties *)

Files == [rev : Nat, recs : Seq(Needle)] \cup {NoFile}

\* Type invariant: the files are sequences of needles and of index entries, and
\* the maps are functions of the keys whenever the volume is open.
TypeOK ==
    /\ dat \in [rev : Nat, recs : Seq(Needle)] /\ idx \in Seq(IndexEntry)
    /\ cpd \in Files /\ (cpx = NoFile \/ cpx \in Seq(IndexEntry))
    /\ state \in {"up", "down", "closed", "diffed", "half"} /\ readonly \in BOOLEAN
    /\ state = "up" <=> nm # NoMap
    /\ compaction.pc \in {"idle", "copy", "index"}
    /\ state \in {"diffed", "half"} <=> committer # NoDriver
    /\ driver \in [Drivers -> {"idle", "compacting", "commit", "committing", "cleanup"}]
    /\ acked \in [Keys -> Content \cup {Missing}]

\* Whatever vacuum does and whenever the server is killed, an open volume gives
\* for each key what the last acknowledged request left: no write is lost and no
\* deleted needle comes back through makeupDiff or a restart.  The faults are the
\* cases the code does not survive.
ReadsLastAcked ==
    state = "up" /\ faults = {} =>
        \A k \in Keys : readNeedle(dat.recs, nm, k) = acked[k]

\* A volume that was stopped between the two renames, with nothing written since
\* the compaction began, is taken for damaged when it is loaded again and gets no
\* more writes, unless .idx ends in a deletion that makeupDiff put there, which no
\* check looks at.
TornIsReadOnly ==
    state = "up" /\ faults = {"torn"} => readonly

\* A volume left closed, or open with the map of a compaction that was abandoned,
\* has lost nothing: its files give each key what was acknowledged once they are
\* loaded again.
FilesKeepAcked ==
    state \in {"up", "down", "closed", "diffed"} /\ faults \subseteq {"wrongmap"} =>
        \A k \in Keys : readNeedle(dat.recs, doLoading(idx), k) = acked[k]
=============================================================================
