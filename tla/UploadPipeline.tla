--------------------------- MODULE UploadPipeline ---------------------------
(***************************************************************************)
(* The page writer of the FUSE mount (weed/mount/page_writer) under one    *)
(* open file: writes go to chunks of the swap file, chunks are sealed when *)
(* complete, when there are too many or by a flush, and goroutines of a    *)
(* limited executor upload them while reads and flushes go on.  Write and  *)
(* the last part of doFlush hold the handle's lock alone, Read shares it;  *)
(* the upload of data and the sealing done by a flush run without it.      *)
(*                                                                         *)
(* A chunk has a few pages; a write covers pages of one chunk (a larger    *)
(* one is a sequence of them under one lock).  The content of a page is    *)
(* the number of the write it comes from, which is also its timestamp.     *)
(* Chunks in memory differ from the ones in the swap file only in where    *)
(* their buffer comes from and are left out; so are quotas, truncation,    *)
(* errors of the swap file and the release of the handle.                  *)
(***************************************************************************)
EXTENDS Integers, Sequences, FiniteSets, FiniteSetsExt

CONSTANTS
    Chunks,             \* the logic chunk indexes
    ChunkSize,          \* pages of a chunk
    ConcurrentWriters,  \* tokens of the executor, and limit of writable chunks
    Requests,           \* the writes in use, each of pages of one chunk
    Reads,              \* the chunks that are read
    Readers,            \* threads that read
    Flushers,           \* threads that flush or fsync
    Loops,              \* the task that flushes metadata from time to time
    MaxWrites,          \* writes (a bound of the model)
    MaxFaults           \* failed uploads and requests (a bound)

Pages == 1..ChunkSize

ASSUME PipelineAssumption ==
    /\ Requests \subseteq [lc : Chunks, span : {a..b : a \in Pages, b \in Pages} \ {{}}]
    /\ Reads \subseteq Chunks
    /\ ChunkSize \in Nat \ {0}
    /\ ConcurrentWriters \in Nat \ {0}
    /\ MaxWrites \in Nat
    /\ MaxFaults \in Nat

VARIABLES
    writes,         \* the writes, the last of which may not have returned (history)
    chunk,          \* the page chunks that were made, with their upload jobs
    writableChunks, \* writableChunks[c]: a position of chunk, or 0
    sealedChunks,   \* sealedChunks[c]: a position of chunk, or 0
    swap,           \* the swap file: its blocks, the free ones and their count
    uploaderCount,  \* uploads that were announced and are not over
    sleeping,       \* jobs that wait on readerCountCond, oldest first
    lastErr,        \* an upload has failed
    file,           \* the content of the file: for reads, in the entry, at the filer
    dirty,          \* dirtyMetadata
    writer,         \* the thread that writes
    reader,         \* the threads that read
    flush,          \* the threads that flush, and the loops
    faults,         \* failures so far
    mishap          \* what befell each chunk (history)

handleVars == <<writes, dirty, lastErr, faults>>
pipeVars == <<chunk, writableChunks, sealedChunks, swap, uploaderCount, sleeping>>
vars == <<handleVars, pipeVars, file, writer, reader, flush, mishap>>

Zero == [p \in Pages |-> 0]
Content == [Pages -> 0..MaxWrites]
Blank == [c \in Chunks |-> [p \in Pages |-> [ts |-> 0, val |-> 0]]]

IdleThread == [pc |-> "idle", lc |-> 0, span |-> {}, obj |-> 0]
IdleRead == [pc |-> "idle", lc |-> 0, got |-> Zero]
IdleFlush == [pc |-> "idle", todo |-> {}, obj |-> 0, entry |-> Blank, from |-> 0]

Init ==
    /\ writes = <<>> /\ dirty = FALSE /\ lastErr = FALSE /\ faults = 0
    /\ chunk = <<>>
    /\ writableChunks = [c \in Chunks |-> 0]
    /\ sealedChunks = [c \in Chunks |-> 0]
    /\ swap = [block |-> <<>>, free |-> <<>>, active |-> 0]
    /\ uploaderCount = 0 /\ sleeping = <<>>
    /\ file = [group |-> Blank, entry |-> Blank, filer |-> Blank]
    /\ writer = IdleThread
    /\ reader = [r \in Readers |-> IdleRead]
    /\ flush = [f \in Flushers \cup Loops |-> IdleFlush]
    /\ mishap = [c \in Chunks |-> {}]

\* How many writes were acknowledged.
Acked == Len(writes) - (IF writer.pc \in {"seal", "submit"} THEN 1 ELSE 0)

\* The last write of page p of chunk c among the first n, or 0.
LastWrite(c, p, n) ==
    Max({0} \cup {i \in 1..n : writes[i].lc = c /\ p \in writes[i].span})

-----------------------------------------------------------------------------
(* The swap file and the lists of written intervals *)

\* The block of the next chunk: the first free one, else the one after all
\* those in use.
NewBlock == IF swap.free # <<>> THEN Head(swap.free) ELSE swap.active + 1

\* A chunk whose block is dropped instead of being freed, for validating
\* BlocksApart.
FreeBlockForgotten(o) == [swap EXCEPT !.active = @ - 1]

FreeBlock(o) == [swap EXCEPT !.free = Append(@, chunk[o].block), !.active = @ - 1]

\* Intervals of different writes are never joined: a chunk is complete only
\* when one write has covered it.
IsComplete(written) == \A p \in Pages : written[p] # 0 /\ written[p] = written[1]

WrittenSize(o) == Cardinality({p \in Pages : chunk[o].written[p] # 0})

\* Adjacent intervals are uploaded together, with the time of the latest.
SavedTs(written, p) ==
    Max({written[q] : q \in {q \in Pages :
           \A i \in Pages : (p <= i /\ i <= q) \/ (q <= i /\ i <= p) => written[i] # 0}})

\* What a file made of chunks holds once the chunk o is added to it: for each
\* page the latest wins.
AddChunk(content, o) ==
    LET k == chunk[o] IN
    [content EXCEPT ![k.lc] = [p \in Pages |->
       IF k.written[p] # 0 /\ SavedTs(k.written, p) >= @[p].ts
       THEN [ts |-> SavedTs(k.written, p), val |-> swap.block[k.block][p]] ELSE @[p]]]

\* The bytes that chunk o lays over what was read before.
Overlay(o, got) ==
    IF o = 0 THEN got
    ELSE [p \in Pages |-> IF chunk[o].written[p] # 0
                          THEN swap.block[chunk[o].block][p] ELSE got[p]]

-----------------------------------------------------------------------------
(* Sealing and uploading *)

\* Jobs that wait for a token of the executor.
Queued == {o \in DOMAIN chunk : chunk[o].job = "token"}

\* Jobs that hold a token of the executor.
Running == {o \in DOMAIN chunk : chunk[o].job \in {"ready", "saved", "asleep"}}

\* moveToSealed, up to the wait for a token: the chunk o takes the place of the
\* sealed one, whose reference is freed although it may not be uploaded yet.
MoveToSealed(o) ==
    LET c == chunk[o].lc
        old == sealedChunks[c] IN
    /\ uploaderCount' = uploaderCount + 1
    /\ sealedChunks' = [sealedChunks EXCEPT ![c] = o]
    /\ writableChunks' = [writableChunks EXCEPT ![c] = 0]
    /\ IF old = 0
       THEN chunk' = [chunk EXCEPT ![o].job = "token"] /\ UNCHANGED <<swap, mishap>>
       ELSE /\ chunk' = [chunk EXCEPT ![o].job = "token", ![old].ref = @ - 1]
            /\ swap' = FreeBlock(old)
            /\ mishap' = [mishap EXCEPT ![c] = @ \cup {"lapped"} \cup
                            (IF chunk[old].job \in {"token", "ready"} THEN {"recycled"} ELSE {})]
    /\ UNCHANGED sleeping

\* A job that starts without a token, for validating TypeOK.
ExecuteUnlimited(o) ==
    /\ chunk[o].job = "token"
    /\ chunk' = [chunk EXCEPT ![o].job = "ready"]
    /\ UNCHANGED <<writableChunks, sealedChunks, swap, uploaderCount, sleeping, mishap>>

\* Execute gets a token for the job of o.
Execute(o) ==
    /\ chunk[o].job = "token"
    /\ Cardinality(Running) < ConcurrentWriters
    /\ chunk' = [chunk EXCEPT ![o].job = "ready"]
    /\ UNCHANGED <<writableChunks, sealedChunks, swap, uploaderCount, sleeping, mishap>>

\* The upload is over: the chunk is in the handle's entry and its chunk group,
\* and whoever waits for uploads is told.  The chunk's lock keeps its block from
\* being freed meanwhile, so that the upload is one step.
SaveContent(o) ==
    /\ chunk[o].job = "ready"
    /\ chunk' = [chunk EXCEPT ![o].job = "saved"]
    /\ file' = [file EXCEPT !.group = AddChunk(@, o), !.entry = AddChunk(@, o)]
    /\ uploaderCount' = uploaderCount - 1
    /\ mishap' = [mishap EXCEPT ![chunk[o].lc] = @ \cup
                    (IF \E f \in Flushers \cup Loops : flush[f].pc = "send" THEN {"overwritten"} ELSE {})]
    /\ UNCHANGED <<handleVars, writableChunks, sealedChunks, swap, sleeping,
                   writer, reader, flush>>

\* A failed upload that is not taken off the count, for validating NoneWaits.
SaveFailsUncounted(o) ==
    /\ chunk[o].job = "ready" /\ faults < MaxFaults
    /\ chunk' = [chunk EXCEPT ![o].job = "saved"]
    /\ lastErr' = TRUE
    /\ faults' = faults + 1
    /\ UNCHANGED <<writes, dirty, uploaderCount, writableChunks, sealedChunks, swap, sleeping,
                   file, writer, reader, flush, mishap>>

\* The upload fails: the error is kept for all flushes to come, the data is not.
SaveFails(o) ==
    /\ chunk[o].job = "ready" /\ faults < MaxFaults
    /\ chunk' = [chunk EXCEPT ![o].job = "saved"]
    /\ lastErr' = TRUE
    /\ faults' = faults + 1
    /\ uploaderCount' = uploaderCount - 1
    /\ UNCHANGED <<writes, dirty, writableChunks, sealedChunks, swap, sleeping,
                   file, writer, reader, flush, mishap>>

\* A write that has completed a chunk holds chunksLock until the chunk is sealed.
ChunksLocked == writer.pc = "seal"

IsLocked(c) == \E r \in Readers : reader[r].pc # "idle" /\ reader[r].lc = c

\* A chunk that is no longer in use.
Done == [lc |-> 0, block |-> 0, written |-> Zero, ref |-> 0, job |-> "done"]

\* A sealed chunk that is removed under its readers, for validating
\* ReadsLastWrite.
RemoveSealedAtOnce(o) ==
    /\ chunk[o].job = "saved" /\ ~ChunksLocked
    /\ sealedChunks' = [sealedChunks EXCEPT ![chunk[o].lc] = 0]
    /\ chunk' = [chunk EXCEPT ![o] = Done]
    /\ swap' = IF chunk[o].ref = 1 THEN FreeBlock(o) ELSE swap
    /\ UNCHANGED <<handleVars, writableChunks, uploaderCount, sleeping,
                   file, writer, reader, flush, mishap>>

\* Nobody reads the chunk: whatever is sealed under its index is removed, the
\* reference is freed and the token goes back.
RemoveSealed(o) ==
    /\ chunk[o].job = "saved" /\ ~ChunksLocked
    /\ ~IsLocked(chunk[o].lc)
    /\ sealedChunks' = [sealedChunks EXCEPT ![chunk[o].lc] = 0]
    /\ chunk' = [chunk EXCEPT ![o] = Done]
    /\ swap' = IF chunk[o].ref = 1 THEN FreeBlock(o) ELSE swap
    /\ UNCHANGED <<handleVars, writableChunks, uploaderCount, sleeping,
                   file, writer, reader, flush, mishap>>

\* Somebody does: the job waits for a signal.
WaitForReaders(o) ==
    /\ chunk[o].job = "saved" /\ ~ChunksLocked
    /\ IsLocked(chunk[o].lc)
    /\ chunk' = [chunk EXCEPT ![o].job = "asleep"]
    /\ sleeping' = Append(sleeping, o)
    /\ UNCHANGED <<handleVars, writableChunks, sealedChunks, swap, uploaderCount,
                   file, writer, reader, flush, mishap>>

-----------------------------------------------------------------------------
(* Write *)

\* The handle's lock: readers share it, Write and the end of a flush do not.
Exclusive == writer.pc # "idle" \/ \E f \in Flushers \cup Loops : flush[f].pc \in {"send", "sent"}
Shared == \E r \in Readers : reader[r].pc # "idle"

\* The chunk the write goes to, in a block of its own if it is a new one.
WritableChunk(c) ==
    IF writableChunks[c] # 0
    THEN [obj |-> writableChunks[c], chunk |-> chunk, swap |-> swap]
    ELSE [obj |-> Len(chunk) + 1,
          chunk |-> Append(chunk, [lc |-> c, block |-> NewBlock, written |-> Zero,
                                   ref |-> 1, job |-> "open"]),
          swap |-> [block |-> IF swap.free # <<>> THEN swap.block ELSE Append(swap.block, Zero),
                    free |-> IF swap.free # <<>> THEN Tail(swap.free) ELSE <<>>,
                    active |-> swap.active + 1]]

\* Writes pages of chunk c; a write that completes the chunk goes on to seal it.
WriteDataAt(c, span) ==
    LET w == WritableChunk(c)
        ts == Len(writes) + 1
        put(content) == [p \in Pages |-> IF p \in span THEN ts ELSE content[p]] IN
    /\ writableChunks' = [writableChunks EXCEPT ![c] = w.obj]
    /\ chunk' = [w.chunk EXCEPT ![w.obj].written = put(@)]
    /\ swap' = [w.swap EXCEPT !.block[w.chunk[w.obj].block] = put(@)]
    /\ writes' = Append(writes, [lc |-> c, span |-> span])
    /\ IF IsComplete(chunk'[w.obj].written)
       THEN /\ writer' = [pc |-> "seal", lc |-> c, span |-> {}, obj |-> w.obj]
            /\ UNCHANGED dirty
       ELSE writer' = IdleThread /\ dirty' = TRUE
    /\ UNCHANGED <<sealedChunks, uploaderCount, sleeping, lastErr, faults, file, reader, flush,
                   mishap>>

\* SaveDataAt: with more writable chunks than the limit and none for c, the one
\* with most pages is sealed first.
TooMany(c) ==
    /\ writableChunks[c] = 0
    /\ Cardinality({d \in Chunks : writableChunks[d] # 0}) > ConcurrentWriters

Fullest(d) ==
    /\ writableChunks[d] # 0
    /\ \A e \in Chunks : writableChunks[e] # 0 =>
         WrittenSize(writableChunks[e]) <= WrittenSize(writableChunks[d])

Write(c, span) ==
    /\ ~Exclusive /\ ~Shared
    /\ Len(writes) < MaxWrites
    /\ ~TooMany(c)
    /\ WriteDataAt(c, span)

WriteEvicts(c, span) ==
    /\ ~Exclusive /\ ~Shared
    /\ Len(writes) < MaxWrites
    /\ TooMany(c)
    /\ \E d \in Chunks :
         /\ Fullest(d)
         /\ MoveToSealed(writableChunks[d])
         /\ writer' = [pc |-> "evict", lc |-> c, span |-> span, obj |-> writableChunks[d]]
    /\ UNCHANGED <<handleVars, file, reader, flush>>

\* ... and goes on once the job of that one was accepted.
WriteEvicted ==
    /\ writer.pc = "evict" /\ writer.obj \notin Queued
    /\ WriteDataAt(writer.lc, writer.span)

\* maybeMoveToSealed, under the lock taken for WriteDataAt.
WriteSeals ==
    /\ writer.pc = "seal"
    /\ MoveToSealed(writer.obj)
    /\ writer' = [writer EXCEPT !.pc = "submit"]
    /\ UNCHANGED <<handleVars, file, reader, flush>>

\* The write is acknowledged; only now is there metadata to flush.
WriteReturns ==
    /\ writer.pc = "submit" /\ writer.obj \notin Queued
    /\ writer' = IdleThread
    /\ dirty' = TRUE
    /\ UNCHANGED <<writes, lastErr, faults, pipeVars, file, reader, flush, mishap>>

-----------------------------------------------------------------------------
(* Read *)

\* LockForRead, under the shared lock of the handle, keeps sealed chunks from
\* being removed; what was uploaded is read first...
ReadFromChunks(r, c) ==
    /\ reader[r].pc = "idle" /\ ~Exclusive
    /\ reader' = [reader EXCEPT ![r] =
                     [pc |-> "dirty", lc |-> c, got |-> [p \in Pages |-> file.group[c][p].val]]]
    /\ UNCHANGED <<handleVars, pipeVars, file, writer, flush, mishap>>

\* ... then the sealed chunk and the writable one, and the oldest job that waits
\* for readers is woken, while this reader still holds its lock.
MaybeReadDataAt(r) ==
    LET c == reader[r].lc IN
    /\ reader[r].pc = "dirty"
    /\ reader' = [reader EXCEPT ![r].pc = "unlock",
                     ![r].got = Overlay(writableChunks[c], Overlay(sealedChunks[c], @))]
    /\ IF sleeping = <<>> THEN UNCHANGED <<chunk, sleeping>>
       ELSE /\ sleeping' = Tail(sleeping)
            /\ chunk' = [chunk EXCEPT ![Head(sleeping)].job = "saved"]
    /\ UNCHANGED <<handleVars, writableChunks, sealedChunks, swap, uploaderCount,
                   file, writer, flush, mishap>>

\* UnlockForRead wakes nobody.
UnlockForRead(r) ==
    /\ reader[r].pc = "unlock"
    /\ reader' = [reader EXCEPT ![r] = IdleRead]
    /\ UNCHANGED <<handleVars, pipeVars, file, writer, flush, mishap>>

-----------------------------------------------------------------------------
(* Flush and Fsync *)

\* FlushData: flushChunks visits the chunks that are writable now...
FlushStarts(f) ==
    /\ flush[f].pc = "idle" /\ writes # <<>> /\ ~ChunksLocked
    /\ flush' = [flush EXCEPT ![f] = [IdleFlush EXCEPT !.pc = "seal", !.from = Acked,
                    !.todo = {o \in DOMAIN chunk : chunk[o].job = "open"}]]
    /\ UNCHANGED <<handleVars, pipeVars, file, writer, reader, mishap>>

\* ... and may also visit one that becomes writable while it waits for a token.
FlushSeals(f, c) ==
    /\ flush[f].pc = "seal" /\ ~ChunksLocked
    /\ flush[f].obj \notin Queued
    /\ flush[f].obj # 0 \/ flush[f].todo # {}
    /\ writableChunks[c] # 0
    /\ MoveToSealed(writableChunks[c])
    /\ flush' = [flush EXCEPT ![f].obj = writableChunks[c], ![f].todo = @ \ {writableChunks[c]}]
    /\ UNCHANGED <<handleVars, file, writer, reader>>

Went(f, pc) == [IdleFlush EXCEPT !.pc = pc, !.from = flush[f].from]

\* A flush that goes on while chunks are uploaded, for validating FlushStores.
FlushWaitsNot(f) ==
    /\ flush[f].pc = "seal" /\ ~ChunksLocked
    /\ flush[f].obj \notin Queued
    /\ \A o \in flush[f].todo : chunk[o].job # "open"
    /\ flush' = [flush EXCEPT ![f] = IF lastErr THEN IdleFlush
                                     ELSE Went(f, "entry")]
    /\ UNCHANGED <<handleVars, pipeVars, file, writer, reader, mishap>>

\* waitForCurrentWritersToComplete, and the error of any upload so far.
FlushWaits(f) ==
    /\ flush[f].pc = "seal" /\ ~ChunksLocked
    /\ flush[f].obj \notin Queued
    /\ \A o \in flush[f].todo : chunk[o].job # "open"
    /\ uploaderCount <= 0
    /\ flush' = [flush EXCEPT ![f] = IF lastErr THEN IdleFlush
                                     ELSE Went(f, "entry")]
    /\ UNCHANGED <<handleVars, pipeVars, file, writer, reader, mishap>>

\* The metadata was stored by another flush.
FlushReturns(f) ==
    /\ flush[f].pc = "entry" /\ ~dirty
    /\ flush' = [flush EXCEPT ![f] = IdleFlush]
    /\ UNCHANGED <<handleVars, pipeVars, file, writer, reader, mishap>>

\* CompactFileChunks: the chunks of the entry are read, under the handle's lock,
\* which uploads do not take...
CompactChunks(f) ==
    /\ flush[f].pc = "entry" /\ dirty
    /\ ~Exclusive /\ ~Shared
    /\ flush' = [flush EXCEPT ![f].pc = "send", ![f].entry = file.entry]
    /\ UNCHANGED <<handleVars, pipeVars, file, writer, reader, mishap>>

\* flushFileMetadata does the same, but leaves data where it is.
FlushMetadata(f) ==
    /\ flush[f].pc = "idle" /\ dirty
    /\ ~Exclusive /\ ~Shared
    /\ file.entry # Blank
    /\ flush' = [flush EXCEPT ![f].pc = "send", ![f].entry = file.entry]
    /\ UNCHANGED <<handleVars, pipeVars, file, writer, reader, mishap>>

\* ... the result replaces them, and the entry goes to the filer.  The loop is
\* done then.
CreateEntry(f) ==
    /\ flush[f].pc = "send"
    /\ file' = [file EXCEPT !.entry = flush[f].entry, !.filer = flush[f].entry]
    /\ flush' = [flush EXCEPT ![f] = IF f \in Loops THEN IdleFlush ELSE Went(f, "sent")]
    /\ mishap' = [c \in Chunks |-> mishap[c] \ {"unsent"}]
    /\ UNCHANGED <<handleVars, pipeVars, writer, reader>>

CreateEntryFails(f) ==
    /\ flush[f].pc = "send" /\ faults < MaxFaults
    /\ faults' = faults + 1
    /\ file' = [file EXCEPT !.entry = flush[f].entry]
    /\ flush' = [flush EXCEPT ![f] = IdleFlush]
    /\ UNCHANGED <<writes, dirty, lastErr, pipeVars, writer, reader, mishap>>

\* dirtyMetadata is cleared, whatever was written since FlushData.
FlushDone(f) ==
    /\ flush[f].pc = "sent"
    /\ dirty' = FALSE
    /\ mishap' = [c \in Chunks |-> mishap[c] \cup
                    (IF \E p \in Pages : file.filer[c][p].val < LastWrite(c, p, Len(writes))
                     THEN {"unsent"} ELSE {})]
    /\ flush' = [flush EXCEPT ![f] = IdleFlush]
    /\ UNCHANGED <<writes, lastErr, faults, pipeVars, file, writer, reader>>

-----------------------------------------------------------------------------

ExecuteJob(o) == Execute(o) /\ UNCHANGED <<handleVars, file, writer, reader, flush>>

JobStep(o) ==
    \/ ExecuteJob(o) \/ SaveContent(o) \/ SaveFails(o)
    \/ RemoveSealed(o) \/ WaitForReaders(o)

WriterStep == WriteEvicted \/ WriteSeals \/ WriteReturns

ReaderStep(r) == MaybeReadDataAt(r) \/ UnlockForRead(r)

FlushStep(f) ==
    \/ \E c \in Chunks : FlushSeals(f, c)
    \/ FlushWaits(f) \/ FlushReturns(f) \/ CompactChunks(f)
    \/ CreateEntry(f) \/ CreateEntryFails(f) \/ FlushDone(f)

LoopStep(f) == CreateEntry(f) \/ CreateEntryFails(f)

Next ==
    \/ \E q \in Requests : Write(q.lc, q.span) \/ WriteEvicts(q.lc, q.span)
    \/ WriterStep
    \/ \E r \in Readers, c \in Reads : ReadFromChunks(r, c)
    \/ \E r \in Readers : ReaderStep(r)
    \/ \E f \in Flushers : FlushStarts(f) \/ FlushStep(f)
    \/ \E f \in Loops : FlushMetadata(f) \/ LoopStep(f)
    \/ \E o \in DOMAIN chunk : JobStep(o)

Spec == Init /\ [][Next]_vars

-----------------------------------------------------------------------------
(* Properties *)

\* Type correctness: the count of uploads under way is never negative, and the
\* executor never has more jobs than tokens.
TypeOK ==
    /\ chunk \in Seq({Done} \cup
         [lc : Chunks, block : 1..MaxWrites, written : Content, ref : {0, 1},
          job : {"open", "token", "ready", "saved", "asleep"}])
    /\ writableChunks \in [Chunks -> 0..Len(chunk)]
    /\ sealedChunks \in [Chunks -> 0..Len(chunk)]
    /\ swap.block \in Seq(Content)
    /\ uploaderCount \in 0..MaxWrites
    /\ Cardinality(Running) <= ConcurrentWriters

\* A read returns what was last written to every page, whether it is still
\* writable, sealed, being uploaded or uploaded by then; except in a chunk that
\* was sealed again while its earlier seal was still there, and after an upload
\* has failed.
ReadsLastWrite ==
    \A r \in Readers :
      LET c == reader[r].lc IN
      (reader[r].pc = "unlock" /\ "lapped" \notin mishap[c] /\ ~lastErr)
        => \A p \in Pages : reader[r].got[p] = LastWrite(c, p, Len(writes))

\* When a flush or fsync returns success the filer has every write that was
\* acknowledged before it began, or a later one of the same page; except in a
\* chunk whose block was recycled before its upload, whose upload ended while a
\* flush was compacting the chunks of the entry, or that had data to send when
\* another flush cleared dirtyMetadata.
FlushStores ==
    [][\A f \in Flushers :
         (flush[f].pc \in {"entry", "sent"} /\ flush'[f].pc = "idle") =>
           \A c \in Chunks, p \in Pages :
             LET v == file.filer[c][p].val IN
             mishap[c] \cap {"recycled", "overwritten", "unsent"} = {} =>
               /\ LastWrite(c, p, flush[f].from) <= v
               /\ v # 0 => writes[v].lc = c /\ p \in writes[v].span]_vars

\* A chunk that is writable or still to be uploaded shares its block of the swap
\* file with no other such chunk, unless it was sealed over before its upload.
BlocksApart ==
    \A o1, o2 \in DOMAIN chunk :
      ( /\ o1 # o2
        /\ {chunk[o1].job, chunk[o2].job} \subseteq {"open", "token", "ready"}
        /\ "recycled" \notin mishap[chunk[o1].lc] \cup mishap[chunk[o2].lc] )
      => chunk[o1].block # chunk[o2].block

\* Nobody waits for ever: when no thread and no job can go on, all threads have
\* returned, unless all tokens of the executor are held by jobs that sleep until
\* somebody reads the file again.
NoneWaits ==
    \/ Len(sleeping) = ConcurrentWriters
    \/ writer.pc = "idle" /\ \A f \in Flushers : flush[f].pc = "idle"
    \/ ENABLED ( \/ WriterStep
                 \/ \E r \in Readers : ReaderStep(r)
                 \/ \E f \in Flushers : FlushStep(f)
                 \/ \E f \in Loops : LoopStep(f)
                 \/ \E o \in DOMAIN chunk : JobStep(o) )
=============================================================================
