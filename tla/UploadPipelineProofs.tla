------------------------ MODULE UploadPipelineProofs ------------------------
(***************************************************************************)
(* Proofs about the page writer of the FUSE mount: the blocks of the swap  *)
(* file are kept apart, reads return the last write, a flush that succeeds *)
(* has stored what was acknowledged before it, and threads and jobs never  *)
(* wait for each other in a circle that no token takes part in.            *)
(***************************************************************************)
EXTENDS UploadPipeline, FiniteSetTheorems, FunctionTheorems, SequenceTheorems,
        WellFoundedInduction, TLAPS

-----------------------------------------------------------------------------
(* The inductive invariant: types *)

Threads == Flushers \cup Loops

Sealing == {"token", "ready", "saved", "asleep"}

\* A chunk in use.
Chunk == [lc : Chunks, block : 1..MaxWrites, written : Content, ref : {0, 1},
          job : {"open"} \cup Sealing]

\* What is known of every page: the time it was stored with, and its content.
FileContent == [Chunks -> [Pages -> [ts : Nat, val : Nat]]]

WriteTypes ==
    /\ writes \in Seq([lc : Chunks, span : SUBSET Pages])
    /\ Len(chunk) <= Len(writes) /\ Len(writes) <= MaxWrites
    /\ dirty \in BOOLEAN /\ lastErr \in BOOLEAN

PipeTypes ==
    /\ chunk \in Seq({Done} \cup Chunk)
    /\ writableChunks \in [Chunks -> 0..Len(chunk)]
    /\ sealedChunks \in [Chunks -> 0..Len(chunk)]
    /\ swap \in [block : Seq(Content), free : Seq(Nat), active : Int]
    /\ mishap \in [Chunks -> SUBSET {"lapped", "recycled", "overwritten", "unsent"}]

ThreadTypes ==
    /\ file \in [group : FileContent, entry : FileContent, filer : FileContent]
    /\ writer \in [pc : {"idle", "evict", "seal", "submit"}, lc : Chunks \cup {0},
                   span : SUBSET Pages, obj : Nat]
    /\ reader \in [Readers -> [pc : {"idle", "dirty", "unlock"}, lc : Chunks \cup {0},
                               got : [Pages -> Nat]]]
    /\ flush \in [Threads -> [pc : {"idle", "seal", "entry", "send", "sent"}, todo : SUBSET Nat,
                              obj : Nat, entry : FileContent, from : Nat]]

-----------------------------------------------------------------------------
(* ... the chunks, their jobs and their blocks *)

Live(o) == o \in DOMAIN chunk /\ chunk[o].job # "done"

\* A chunk that is not uploaded yet, and the ones of them that were sealed.
Unsaved(o) == o \in DOMAIN chunk /\ chunk[o].job \in {"open", "token", "ready"}

Pending == {o \in DOMAIN chunk : chunk[o].job \in {"token", "ready"}}

\* The tables name open chunks and sealed chunks of the right index.
TableInv ==
    /\ \A c \in Chunks : writableChunks[c] # 0 =>
         chunk[writableChunks[c]].job = "open" /\ chunk[writableChunks[c]].lc = c
    /\ \A o \in DOMAIN chunk : chunk[o].job = "open" => writableChunks[chunk[o].lc] = o
    /\ \A c \in Chunks : sealedChunks[c] # 0 =>
         /\ chunk[sealedChunks[c]].job \in Sealing
         /\ chunk[sealedChunks[c]].lc = c /\ chunk[sealedChunks[c]].ref = 1

\* The chunk of a write that is about to be sealed is open.
WriterInv ==
    /\ writer.pc = "seal" => writer.obj \in DOMAIN chunk /\ chunk[writer.obj].job = "open"
    /\ writer.pc # "idle" => writer.lc \in Chunks
    /\ writer.pc = "evict" => Len(writes) < MaxWrites
    /\ writer.pc \in {"seal", "submit"} => Len(writes) # 0

SleepInv ==
    /\ sleeping \in Seq(Nat)
    /\ \A i \in DOMAIN sleeping :
         sleeping[i] \in DOMAIN chunk /\ chunk[sleeping[i]].job = "asleep"
    /\ \A i, j \in DOMAIN sleeping : sleeping[i] = sleeping[j] => i = j

CountInv ==
    /\ uploaderCount = Cardinality(Pending)
    /\ Cardinality(Running) <= ConcurrentWriters

\* The blocks of chunks that hold a reference and the free blocks are all
\* different, and no block lies past the count of both.
SwapInv ==
    /\ Len(swap.block) = swap.active + Len(swap.free)
    /\ Len(swap.block) <= Len(chunk)
    /\ \A o \in DOMAIN chunk : chunk[o].block <= Len(swap.block)
    /\ \A i \in DOMAIN swap.free : swap.free[i] \in 1..Len(swap.block)
    /\ \A i, j \in DOMAIN swap.free : swap.free[i] = swap.free[j] => i = j
    /\ \A o1, o2 \in DOMAIN chunk :
         chunk[o1].ref = 1 /\ chunk[o2].ref = 1 /\ chunk[o1].block = chunk[o2].block => o1 = o2
    /\ \A o \in DOMAIN chunk, i \in DOMAIN swap.free :
         chunk[o].ref = 1 => chunk[o].block # swap.free[i]

\* A chunk loses its reference before its upload only when it is sealed over.
RefInv == \A o \in DOMAIN chunk :
    /\ chunk[o].job = "open" => chunk[o].ref = 1
    /\ chunk[o].job \in {"token", "ready"} /\ chunk[o].ref = 0 => "recycled" \in mishap[chunk[o].lc]

\* The block of a chunk that holds a reference has the data of that chunk.
DataInv == \A o \in DOMAIN chunk, p \in Pages :
    chunk[o].ref = 1 /\ chunk[o].written[p] # 0 =>
        swap.block[chunk[o].block][p] = chunk[o].written[p]

-----------------------------------------------------------------------------
(* ... the order of writes *)

\* v is a write of page p of chunk c, or 0.
IsWrite(c, p, v) == v # 0 => v \in DOMAIN writes /\ writes[v].lc = c /\ p \in writes[v].span

WrittenInv == \A o \in DOMAIN chunk, p \in Pages :
    Live(o) => IsWrite(chunk[o].lc, p, chunk[o].written[p])

\* All writes that o1 has came before all that o2 has.
Before(o1, o2) == \A p, q \in Pages :
    chunk[o1].written[p] # 0 /\ chunk[o2].written[q] # 0 =>
        chunk[o1].written[p] < chunk[o2].written[q]

\* The chunks of one index are made one after the other.
OrderInv == \A o1, o2 \in DOMAIN chunk :
    Live(o1) /\ Live(o2) /\ chunk[o1].lc = chunk[o2].lc =>
       /\ o1 < o2 => Before(o1, o2)
       /\ chunk[o2].job = "open" => o1 <= o2

-----------------------------------------------------------------------------
(* ... what reads find *)

Last(c, p) == LastWrite(c, p, Len(writes))

Clean(c) == "lapped" \notin mishap[c] /\ ~lastErr

Covers(o, p) == o # 0 /\ chunk[o].written[p] # 0

\* What a read of page p finds that begins now.
View(c, p) == IF Covers(writableChunks[c], p) THEN chunk[writableChunks[c]].written[p]
              ELSE IF Covers(sealedChunks[c], p) THEN chunk[sealedChunks[c]].written[p]
              ELSE file.group[c][p].val

\* There is at most one sealed chunk of an index, and it came after all that was
\* uploaded.
GroupInv(c) ==
    /\ \A p \in Pages : file.group[c][p].ts <= Len(writes)
    /\ \A o \in DOMAIN chunk : chunk[o].job \in Sealing /\ chunk[o].lc = c => sealedChunks[c] = o
    /\ \A o \in DOMAIN chunk, p \in Pages :
         chunk[o].job \in {"saved", "asleep"} /\ chunk[o].lc = c /\ chunk[o].written[p] # 0 =>
            file.group[c][p].val = chunk[o].written[p]
    /\ \A o \in DOMAIN chunk, p, q \in Pages :
         Unsaved(o) /\ chunk[o].lc = c /\ chunk[o].written[q] # 0 =>
            file.group[c][p].ts < chunk[o].written[q]

ViewInv(c) == \A p \in Pages : View(c, p) = Last(c, p)

ReadInv == \A c \in Chunks : Clean(c) => GroupInv(c) /\ ViewInv(c)

\* Readers keep writes and the end of a flush out.
SharedInv == \A r \in Readers : reader[r].pc # "idle" =>
    /\ reader[r].lc \in Chunks
    /\ writer.pc = "idle" /\ \A f \in Threads : flush[f].pc \notin {"send", "sent"}

\* A reader that has read what was uploaded finds the rest in chunks.
GotInv(c, got) == \A p \in Pages :
    got[p] = Last(c, p) \/ Covers(writableChunks[c], p) \/ Covers(sealedChunks[c], p)

\* What a thread has that read the pages of the index c.
ReadRight(c, got) == Clean(c) => \A p \in Pages : got[p] = Last(c, p)

DirtyRight(c, got) == Clean(c) => GotInv(c, got)

ReadsRight == \A r \in Readers :
    /\ reader[r].pc = "dirty" => DirtyRight(reader[r].lc, reader[r].got)
    /\ reader[r].pc = "unlock" => ReadRight(reader[r].lc, reader[r].got)

-----------------------------------------------------------------------------
(* ... what is stored *)

Intact(c) == mishap[c] \cap {"recycled", "overwritten"} = {}

\* A chunk that is not uploaded yet is newer than what the entry e has of a page,
\* or older.
Newer(o, e) == \A q \in Pages : chunk[o].written[q] # 0 => e.ts < chunk[o].written[q]
Older(o, e) == \A q \in Pages : chunk[o].written[q] # 0 => chunk[o].written[q] < e.val

EntryOK(c, p, e) ==
    /\ e.val <= e.ts /\ e.ts <= Len(writes) /\ IsWrite(c, p, e.val)
    /\ \A o \in DOMAIN chunk : Unsaved(o) /\ chunk[o].lc = c =>
         Newer(o, e) \/ (chunk[o].job # "open" /\ Older(o, e))

EntryInv == \A c \in Chunks, p \in Pages : Intact(c) => EntryOK(c, p, file.entry[c][p])

\* Write v of page p, or a later one, is in the entry or in a chunk of S that will
\* be uploaded.
Kept(c, p, v, S) ==
    \/ v <= file.entry[c][p].val
    \/ \E o \in S : Unsaved(o) /\ chunk[o].lc = c /\ v <= chunk[o].written[p]

KeptInv == ~lastErr => \A c \in Chunks, p \in Pages :
    Intact(c) => Kept(c, p, Last(c, p), DOMAIN chunk)

\* The end of a flush is alone, and there is metadata to store.
AloneInv ==
    /\ \A f, g \in Threads :
         flush[f].pc \in {"send", "sent"} /\ flush[g].pc \in {"send", "sent"} => f = g
    /\ \A f \in Threads : flush[f].pc \in {"send", "sent"} => writer.pc = "idle" /\ dirty
    /\ \A f \in Threads : flush[f].from <= Acked /\ (flush[f].pc = "idle" => flush[f].from = 0)

FlushInv == \A f \in Threads, c \in Chunks, p \in Pages : Intact(c) =>
    /\ flush[f].pc = "seal" /\ ~lastErr =>
         Kept(c, p, LastWrite(c, p, flush[f].from), flush[f].todo \cup Pending)
    /\ flush[f].pc \in {"entry", "send", "sent"} =>
         LastWrite(c, p, flush[f].from) <= file.entry[c][p].val
    /\ flush[f].pc = "send" => flush[f].entry[c] = file.entry[c]
    /\ flush[f].pc = "sent" => LastWrite(c, p, flush[f].from) <= file.filer[c][p].val

FilerInv == \A c \in Chunks, p \in Pages : Intact(c) =>
    /\ IsWrite(c, p, file.filer[c][p].val)
    /\ ~dirty /\ "unsent" \notin mishap[c] => LastWrite(c, p, Acked) <= file.filer[c][p].val

-----------------------------------------------------------------------------
(* Maxima *)

\* Spans of writes are pages.
LEMMA RequestTypes ==
    ASSUME NEW q \in Requests
    PROVE  q.lc \in Chunks /\ q.span \in SUBSET Pages
<1>1. q \in [lc : Chunks, span : {a..b : a \in Pages, b \in Pages} \ {{}}]
  BY PipelineAssumption
<1>2. PICK a \in Pages, b \in Pages : q.span = a..b
  BY <1>1
<1>3. a..b \subseteq Pages
  BY PipelineAssumption DEF Pages
<1> QED BY <1>1, <1>2, <1>3

\* The largest member of a set is its Max.
LEMMA MaxIs ==
    ASSUME NEW S \in SUBSET Nat, NEW x \in S, \A y \in S : y <= x
    PROVE  Max(S) = x
<1>1. \A z \in S : (\A y \in S : z >= y) => z = x
  OBVIOUS
<1>2. \A y \in S : x >= y
  OBVIOUS
<1> QED BY <1>1, <1>2 DEF Max

\* A bounded set of numbers has a largest one.
LEMMA MaxExists ==
    ASSUME NEW S \in SUBSET Nat, S # {}, NEW n \in Nat, \A y \in S : y <= n
    PROVE  Max(S) \in S /\ \A y \in S : y <= Max(S)
<1> DEFINE T == {n - y : y \in S}
<1>1. T \subseteq Nat
  OBVIOUS
<1>7. T # {}
  <2>1. PICK y \in S : TRUE
    OBVIOUS
  <2>2. n - y \in T
    BY <2>1
  <2> QED BY <2>2
<1>2. \E x \in T : \A y \in T : ~(<<y, x>> \in OpToRel(<, Nat))
  <2> HIDE DEF T
  <2> QED BY <1>1, <1>7, NatLessThanWellFounded, WFMin
<1>3. PICK x \in T : \A y \in T : ~(<<y, x>> \in OpToRel(<, Nat))
  BY <1>2
<1>4. \A y \in T : ~(y < x)
  BY <1>1, <1>3 DEF OpToRel
<1>5. PICK m \in S : x = n - m
  OBVIOUS
<1>6. \A y \in S : y <= m
  <2> TAKE y \in S
  <2>1. n - y \in T /\ ~(n - y < n - m)
    BY <1>4, <1>5
  <2> QED BY <2>1
<1> QED BY <1>5, <1>6, MaxIs

-----------------------------------------------------------------------------
(* The last write of a page, and the time a page is stored with *)

\* LastWrite for the writes wr.
LastIn(wr, c, p, n) == Max({0} \cup {i \in 1..n : wr[i].lc = c /\ p \in wr[i].span})

\* The last write of a page is a write of that page, and none comes after it.
LEMMA LastInIs ==
    ASSUME NEW wr, NEW c, NEW p, NEW n \in Nat
    PROVE  /\ LastIn(wr, c, p, n) \in 0..n
           /\ LastIn(wr, c, p, n) # 0 => wr[LastIn(wr, c, p, n)].lc = c
                                         /\ p \in wr[LastIn(wr, c, p, n)].span
           /\ \A i \in 1..n : wr[i].lc = c /\ p \in wr[i].span => i <= LastIn(wr, c, p, n)
<1> DEFINE S == {0} \cup {i \in 1..n : wr[i].lc = c /\ p \in wr[i].span}
<1>1. S \in SUBSET Nat /\ S # {} /\ \A y \in S : y <= n
  OBVIOUS
<1>2. Max(S) \in S /\ \A y \in S : y <= Max(S)
  <2> HIDE DEF S
  <2> QED BY <1>1, MaxExists
<1>3. LastIn(wr, c, p, n) = Max(S)
  BY DEF LastIn
<1> HIDE DEF S
<1>4. PICK m : m = Max(S)
  OBVIOUS
<1>5. m \in S /\ \A y \in S : y <= m
  BY <1>2, <1>4
<1>6. m \in 0..n /\ (m # 0 => wr[m].lc = c /\ p \in wr[m].span)
  BY <1>5 DEF S
<1>7. \A i \in 1..n : wr[i].lc = c /\ p \in wr[i].span => i <= m
  BY <1>5 DEF S
<1> QED BY <1>3, <1>4, <1>6, <1>7

\* Among more writes the last one is not earlier.
LEMMA LastInGrows ==
    ASSUME NEW wr, NEW c, NEW p, NEW m \in Nat, NEW n \in Nat, m <= n
    PROVE  LastIn(wr, c, p, m) <= LastIn(wr, c, p, n)
<1>1. PICK a : a = LastIn(wr, c, p, m)
  OBVIOUS
<1>2. a \in 0..m /\ (a # 0 => wr[a].lc = c /\ p \in wr[a].span)
  BY <1>1, LastInIs
<1>3. PICK b : b = LastIn(wr, c, p, n)
  OBVIOUS
<1>4. b \in 0..n /\ \A i \in 1..n : wr[i].lc = c /\ p \in wr[i].span => i <= b
  BY <1>3, LastInIs
<1> QED BY <1>1, <1>2, <1>3, <1>4

\* Later writes do not change what the last write was.
LEMMA LastInSame ==
    ASSUME NEW wr, NEW w2, NEW c, NEW p, NEW n \in Nat, \A i \in 1..n : w2[i] = wr[i]
    PROVE  LastIn(w2, c, p, n) = LastIn(wr, c, p, n)
<1>1. {i \in 1..n : w2[i].lc = c /\ p \in w2[i].span} = {i \in 1..n : wr[i].lc = c /\ p \in wr[i].span}
  OBVIOUS
<1> QED BY <1>1 DEF LastIn

\* One more write.
LEMMA LastInNext ==
    ASSUME NEW wr, NEW c, NEW p, NEW n \in Nat
    PROVE  LastIn(wr, c, p, n + 1) =
             IF wr[n + 1].lc = c /\ p \in wr[n + 1].span THEN n + 1 ELSE LastIn(wr, c, p, n)
<1>1. CASE wr[n + 1].lc = c /\ p \in wr[n + 1].span
  <2> DEFINE S == {0} \cup {i \in 1..(n + 1) : wr[i].lc = c /\ p \in wr[i].span}
  <2>1. S \in SUBSET Nat /\ n + 1 \in S /\ \A y \in S : y <= n + 1
    BY <1>1
  <2>2. Max(S) = n + 1
    <3> HIDE DEF S
    <3> QED BY <2>1, MaxIs
  <2> QED BY <1>1, <2>2 DEF LastIn
<1>2. CASE ~(wr[n + 1].lc = c /\ p \in wr[n + 1].span)
  <2>1. {i \in 1..(n + 1) : wr[i].lc = c /\ p \in wr[i].span} = {i \in 1..n : wr[i].lc = c /\ p \in wr[i].span}
    BY <1>2
  <2> QED BY <1>2, <2>1 DEF LastIn
<1> QED BY <1>1, <1>2

LEMMA LastWriteIn ==
    ASSUME NEW c, NEW p, NEW n
    PROVE  LastWrite(c, p, n) = LastIn(writes, c, p, n)
BY DEF LastWrite, LastIn

LEMMA LastWriteInNext ==
    ASSUME NEW c, NEW p, NEW n
    PROVE  LastWrite(c, p, n)' = LastIn(writes', c, p, n)
BY DEF LastWrite, LastIn

\* The time a page is stored with is that of a write the chunk has.
LEMMA SavedTsIs ==
    ASSUME NEW written \in Content, NEW p \in Pages, written[p] # 0
    PROVE  /\ written[p] <= SavedTs(written, p) /\ SavedTs(written, p) \in Nat
           /\ \E q \in Pages : written[q] # 0 /\ SavedTs(written, p) = written[q]
<1> DEFINE Q == {q \in Pages : \A i \in Pages : (p <= i /\ i <= q) \/ (q <= i /\ i <= p) => written[i] # 0}
           S == {written[q] : q \in Q}
<1>1. Pages \subseteq Nat /\ MaxWrites \in Nat /\ \A q \in Pages : written[q] \in 0..MaxWrites
  BY PipelineAssumption DEF Pages, Content
<1>2. p \in Q
  BY <1>1
<1>3. \A q \in Q : q \in Pages /\ written[q] # 0
  BY <1>1
<1>4. S \in SUBSET Nat /\ written[p] \in S /\ \A y \in S : y <= MaxWrites
  <2> HIDE DEF Q
  <2> QED BY <1>1, <1>2, <1>3
<1>5. Max(S) \in S /\ \A y \in S : y <= Max(S)
  <2>1. S # {}
    BY <1>4
  <2> HIDE DEF S
  <2> QED BY <1>1, <1>4, <2>1, MaxExists
<1>6. SavedTs(written, p) = Max(S)
  BY DEF SavedTs
<1> HIDE DEF Q
<1>7. PICK q \in Q : Max(S) = written[q]
  BY <1>5
<1> QED BY <1>1, <1>3, <1>4, <1>5, <1>6, <1>7

-----------------------------------------------------------------------------
(* What the steps do to the chunks *)

\* What the types say of one chunk.
LEMMA ChunkTypes ==
    ASSUME PipeTypes, NEW o \in DOMAIN chunk
    PROVE  /\ DOMAIN chunk = 1..Len(chunk) /\ Len(chunk) \in Nat /\ o \in Nat /\ o # 0
           /\ chunk[o] \in {Done} \cup Chunk
           /\ chunk[o].job # "done" => chunk[o] \in Chunk
           /\ chunk[o].job \in {"done", "open"} \cup Sealing
           /\ chunk[o].ref \in {0, 1}
           /\ chunk[o].ref = 1 => chunk[o].job # "done"
           /\ chunk[o].job = "done" => chunk[o] = Done
<1>1. DOMAIN chunk = 1..Len(chunk) /\ Len(chunk) \in Nat /\ chunk[o] \in {Done} \cup Chunk
  BY DEF PipeTypes
<1>2. o \in Nat /\ o # 0
  BY <1>1
<1>3. CASE chunk[o] = Done
  BY <1>1, <1>2, <1>3 DEF Done
<1>4. CASE chunk[o] \in Chunk
  BY <1>1, <1>2, <1>4 DEF Chunk, Sealing
<1> QED BY <1>1, <1>3, <1>4

SameDomain ==
    /\ chunk' \in Seq({Done} \cup Chunk)
    /\ Len(chunk') = Len(chunk) /\ DOMAIN chunk' = DOMAIN chunk

\* The chunks keep their index, their block and their data.
SameData ==
    /\ SameDomain
    /\ \A x \in DOMAIN chunk : /\ chunk'[x].lc = chunk[x].lc
                               /\ chunk'[x].block = chunk[x].block
                               /\ chunk'[x].written = chunk[x].written

\* Only the job of o goes on.
Rejobs(o, j) ==
    /\ SameData
    /\ chunk'[o].job = j
    /\ \A x \in DOMAIN chunk : chunk'[x].ref = chunk[x].ref
    /\ \A x \in DOMAIN chunk : x # o => chunk'[x].job = chunk[x].job

\* A step that only moves the job of a chunk on.
LEMMA RejobsIs ==
    ASSUME PipeTypes, NEW o \in DOMAIN chunk, chunk[o].job # "done",
           NEW j \in {"open"} \cup Sealing, chunk' = [chunk EXCEPT ![o].job = j]
    PROVE  Rejobs(o, j)
<1>1. o \in 1..Len(chunk) /\ DOMAIN chunk = 1..Len(chunk) /\ chunk \in Seq({Done} \cup Chunk)
  BY ChunkTypes DEF PipeTypes
<1>2. chunk[o] \in Chunk
  BY ChunkTypes
<1> DEFINE e == [chunk[o] EXCEPT !.job = j]
<1>3. e \in Chunk /\ e.job = j /\ e.ref = chunk[o].ref /\ e.lc = chunk[o].lc
      /\ e.block = chunk[o].block /\ e.written = chunk[o].written
  BY <1>2 DEF Chunk
<1>4. chunk' = [chunk EXCEPT ![o] = e]
  OBVIOUS
<1> HIDE DEF e
<1>5. /\ chunk' \in Seq({Done} \cup Chunk) /\ Len(chunk') = Len(chunk)
      /\ \A x \in 1..Len(chunk) : chunk'[x] = IF x = o THEN e ELSE chunk[x]
  <2>1. e \in {Done} \cup Chunk
    BY <1>3
  <2> QED BY <1>1, <1>4, <2>1, ExceptSeq
<1>6. DOMAIN chunk' = 1..Len(chunk)
  BY <1>5
<1> QED BY <1>1, <1>3, <1>5, <1>6 DEF Rejobs, SameData, SameDomain

\* The chunk o is done with.
Removes(o) ==
    /\ SameDomain
    /\ chunk'[o] = Done
    /\ \A x \in DOMAIN chunk : x # o => chunk'[x] = chunk[x]

LEMMA RemovesIs ==
    ASSUME PipeTypes, NEW o \in DOMAIN chunk, chunk' = [chunk EXCEPT ![o] = Done]
    PROVE  Removes(o)
<1>1. o \in 1..Len(chunk) /\ DOMAIN chunk = 1..Len(chunk) /\ chunk \in Seq({Done} \cup Chunk)
  BY ChunkTypes DEF PipeTypes
<1>2. /\ chunk' \in Seq({Done} \cup Chunk) /\ Len(chunk') = Len(chunk)
      /\ \A x \in 1..Len(chunk) : chunk'[x] = IF x = o THEN Done ELSE chunk[x]
  BY <1>1, ExceptSeq
<1>3. DOMAIN chunk' = 1..Len(chunk)
  BY <1>2
<1> QED BY <1>1, <1>2, <1>3 DEF Removes, SameDomain

\* The open chunk o of index c takes the place of the sealed chunk old.
Seals(o, c, old) ==
    /\ c \in Chunks /\ c = chunk[o].lc /\ old = sealedChunks[c] /\ old \in Nat /\ old # o
    /\ o \in DOMAIN chunk /\ chunk[o].job = "open" /\ chunk[o].ref = 1 /\ writableChunks[c] = o
    /\ SameData
    /\ \A x \in DOMAIN chunk : chunk'[x].job = IF x = o THEN "token" ELSE chunk[x].job
    /\ \A x \in DOMAIN chunk : chunk'[x].ref = IF x = old THEN 0 ELSE chunk[x].ref
    /\ old # 0 => old \in DOMAIN chunk /\ chunk[old].ref = 1 /\ chunk[old].lc = c
                  /\ chunk[old].job \in Sealing
    /\ uploaderCount' = uploaderCount + 1 /\ sleeping' = sleeping
    /\ sealedChunks' = [sealedChunks EXCEPT ![c] = o]
    /\ writableChunks' = [writableChunks EXCEPT ![c] = 0]
    /\ swap' = IF old = 0 THEN swap
               ELSE [swap EXCEPT !.free = Append(@, chunk[old].block), !.active = @ - 1]
    /\ mishap' = [mishap EXCEPT ![c] = @ \cup
         (IF old = 0 THEN {}
          ELSE {"lapped"} \cup IF chunk[old].job \in {"token", "ready"} THEN {"recycled"} ELSE {})]

\* MoveToSealed on an open chunk, seen from the chunks.
LEMMA SealsIs ==
    ASSUME PipeTypes, TableInv, RefInv, NEW o \in DOMAIN chunk, chunk[o].job = "open", MoveToSealed(o)
    PROVE  Seals(o, chunk[o].lc, sealedChunks[chunk[o].lc])
<1>1. o \in 1..Len(chunk) /\ DOMAIN chunk = 1..Len(chunk) /\ chunk \in Seq({Done} \cup Chunk)
      /\ Len(chunk) \in Nat
  BY ChunkTypes DEF PipeTypes
<1>2. chunk[o] \in Chunk /\ chunk[o].ref = 1
  BY ChunkTypes DEF RefInv
<1>3. PICK c \in Chunks : c = chunk[o].lc
  BY <1>2 DEF Chunk
<1>4. PICK old \in 0..Len(chunk) : old = sealedChunks[c]
  BY DEF PipeTypes
<1>5. writableChunks[c] = o
  BY <1>3 DEF TableInv
<1>6. old # 0 => old \in DOMAIN chunk /\ chunk[old].ref = 1 /\ chunk[old].lc = c
                 /\ chunk[old].job \in Sealing
  BY <1>1, <1>4 DEF TableInv
<1>7. old # o
  BY <1>1, <1>6 DEF Sealing
<1>8. /\ uploaderCount' = uploaderCount + 1 /\ sleeping' = sleeping
      /\ sealedChunks' = [sealedChunks EXCEPT ![c] = o]
      /\ writableChunks' = [writableChunks EXCEPT ![c] = 0]
  BY <1>3 DEF MoveToSealed
<1>9. CASE old = 0
  <2>1. chunk' = [chunk EXCEPT ![o].job = "token"] /\ swap' = swap /\ mishap' = mishap
    BY <1>3, <1>4, <1>9 DEF MoveToSealed
  <2>2. Rejobs(o, "token")
    BY <2>1, RejobsIs DEF Sealing
  <2>3. mishap' = [mishap EXCEPT ![c] = @ \cup {}]
    BY <2>1 DEF PipeTypes
  <2>4. old \notin DOMAIN chunk
    BY <1>1, <1>9
  <2>5. \A x \in DOMAIN chunk : /\ chunk'[x].job = IF x = o THEN "token" ELSE chunk[x].job
                               /\ chunk'[x].ref = IF x = old THEN 0 ELSE chunk[x].ref
    BY <2>2, <2>4 DEF Rejobs
  <2>7. swap' = IF old = 0 THEN swap
                ELSE [swap EXCEPT !.free = Append(@, chunk[old].block), !.active = @ - 1]
    BY <1>9, <2>1
  <2>8. mishap' = [mishap EXCEPT ![c] = @ \cup
           (IF old = 0 THEN {}
            ELSE {"lapped"} \cup IF chunk[old].job \in {"token", "ready"} THEN {"recycled"} ELSE {})]
    BY <1>9, <2>3
  <2>9. SameData
    BY <2>2 DEF Rejobs
  <2>6. Seals(o, c, old)
    BY <1>2, <1>3, <1>4, <1>5, <1>7, <1>8, <1>9, <2>5, <2>7, <2>8, <2>9 DEF Seals
  <2> QED BY <1>3, <1>4, <2>6
<1>10. CASE old # 0
  <2>1. /\ chunk' = [chunk EXCEPT ![o].job = "token", ![old].ref = @ - 1]
        /\ swap' = [swap EXCEPT !.free = Append(@, chunk[old].block), !.active = @ - 1]
        /\ mishap' = [mishap EXCEPT ![c] = @ \cup {"lapped"} \cup
                            (IF chunk[old].job \in {"token", "ready"} THEN {"recycled"} ELSE {})]
    BY <1>3, <1>4, <1>10 DEF MoveToSealed, FreeBlock
  <2>2. mishap' = [mishap EXCEPT ![c] = @ \cup
            ({"lapped"} \cup IF chunk[old].job \in {"token", "ready"} THEN {"recycled"} ELSE {})]
    BY <2>1
  <2> DEFINE e == [chunk[o] EXCEPT !.job = "token"]
             d == [chunk[old] EXCEPT !.ref = 0]
             s == [chunk EXCEPT ![o] = e]
  <2>3. chunk[old] \in Chunk
    BY <1>6, <1>10, ChunkTypes
  <2>4. e \in {Done} \cup Chunk /\ e.job = "token" /\ e.ref = chunk[o].ref /\ e.lc = chunk[o].lc
        /\ e.block = chunk[o].block /\ e.written = chunk[o].written
    BY <1>2 DEF Chunk, Sealing
  <2>5. d \in {Done} \cup Chunk /\ d.ref = 0 /\ d.job = chunk[old].job /\ d.lc = chunk[old].lc
        /\ d.block = chunk[old].block /\ d.written = chunk[old].written
    BY <2>3 DEF Chunk
  <2>6. s \in Seq({Done} \cup Chunk) /\ Len(s) = Len(chunk)
        /\ \A x \in 1..Len(chunk) : s[x] = IF x = o THEN e ELSE chunk[x]
    <3> HIDE DEF e
    <3> QED BY <1>1, <2>4, ExceptSeq
  <2>7. chunk' = [s EXCEPT ![old] = d]
    <3>1. chunk[old].ref - 1 = 0
      BY <1>6, <1>10
    <3>2. s[old] = chunk[old]
      <4> HIDE DEF s, e
      <4> QED BY <1>4, <1>7, <1>10, <2>6
    <3>3. chunk' = [s EXCEPT ![old].ref = @ - 1]
      BY <2>1
    <3> HIDE DEF s
    <3>4. chunk' = [s EXCEPT ![old] = [s[old] EXCEPT !.ref = s[old].ref - 1]]
      BY <3>3
    <3> QED BY <3>1, <3>2, <3>4
  <2> HIDE DEF e, d, s
  <2>8. /\ chunk' \in Seq({Done} \cup Chunk) /\ Len(chunk') = Len(chunk)
        /\ \A x \in 1..Len(chunk) : chunk'[x] = IF x = old THEN d ELSE s[x]
    BY <1>4, <1>10, <2>5, <2>6, <2>7, ExceptSeq
  <2>9. DOMAIN chunk' = 1..Len(chunk)
    BY <2>8
  <2>10. \A x \in DOMAIN chunk : chunk'[x] = IF x = old THEN d ELSE IF x = o THEN e ELSE chunk[x]
    BY <1>1, <2>6, <2>8
  <2>11. SameData
    BY <1>1, <2>4, <2>5, <2>8, <2>9, <2>10 DEF SameData, SameDomain
  <2>12. \A x \in DOMAIN chunk : /\ chunk'[x].job = IF x = o THEN "token" ELSE chunk[x].job
                                /\ chunk'[x].ref = IF x = old THEN 0 ELSE chunk[x].ref
    BY <1>7, <2>4, <2>5, <2>10
  <2>14. swap' = IF old = 0 THEN swap
                ELSE [swap EXCEPT !.free = Append(@, chunk[old].block), !.active = @ - 1]
    BY <1>10, <2>1
  <2>15. mishap' = [mishap EXCEPT ![c] = @ \cup
           (IF old = 0 THEN {}
            ELSE {"lapped"} \cup IF chunk[old].job \in {"token", "ready"} THEN {"recycled"} ELSE {})]
    BY <1>10, <2>2
  <2>13. Seals(o, c, old)
    BY <1>2, <1>3, <1>4, <1>5, <1>6, <1>7, <1>8, <1>10, <2>11, <2>12, <2>14, <2>15 DEF Seals
  <2> QED BY <1>3, <1>4, <2>13
<1> QED BY <1>9, <1>10

\* The pages of a chunk once the write ts is put over them.
Put(content, span, ts) == [p \in Pages |-> IF p \in span THEN ts ELSE content[p]]

\* What a write does besides its data: the thread goes on to seal, or returns.
WriteEnds(c, o) ==
    /\ \/ writer' = [pc |-> "seal", lc |-> c, span |-> {}, obj |-> o] /\ dirty' = dirty
       \/ writer' = IdleThread /\ dirty' = TRUE
    /\ UNCHANGED <<sealedChunks, uploaderCount, sleeping, lastErr, faults, file, reader, flush, mishap>>

\* The blocks before and after a write to the block b.
SwapWritten(b, span, ts) ==
    /\ swap' \in [block : Seq(Content), free : Seq(Nat), active : Int]
    /\ b \in DOMAIN swap'.block
    /\ \A i \in DOMAIN swap.block : i # b => swap'.block[i] = swap.block[i]
    /\ \A p \in span : swap'.block[b][p] = ts

\* The write goes to the chunk that is open.
WritesOpen(c, span, o) ==
    /\ o = writableChunks[c] /\ o \in DOMAIN chunk /\ chunk[o].job = "open" /\ chunk[o].ref = 1
    /\ chunk[o].lc = c /\ chunk'[o].block = chunk[o].block
    /\ Len(chunk') = Len(chunk) /\ DOMAIN chunk' = DOMAIN chunk
    /\ chunk'[o].written = Put(chunk[o].written, span, Len(writes) + 1)
    /\ swap'.free = swap.free /\ swap'.active = swap.active /\ Len(swap'.block) = Len(swap.block)
    /\ swap'.block[chunk[o].block] = Put(swap.block[chunk[o].block], span, Len(writes) + 1)

\* The write goes to a new chunk, in a free block or in one more.
WritesNew(c, span, o) ==
    /\ writableChunks[c] = 0 /\ o = Len(chunk) + 1 /\ o \notin DOMAIN chunk
    /\ Len(chunk') = o /\ DOMAIN chunk' = DOMAIN chunk \cup {o}
    /\ chunk'[o].written = Put(Zero, span, Len(writes) + 1)
    /\ swap'.active = swap.active + 1
    /\ \/ /\ swap.free # <<>>
          /\ chunk'[o].block = Head(swap.free) /\ swap'.free = Tail(swap.free)
          /\ Len(swap'.block) = Len(swap.block)
       \/ /\ swap.free = <<>>
          /\ chunk'[o].block = Len(swap.block) + 1 /\ swap'.free = <<>>
          /\ Len(swap'.block) = Len(swap.block) + 1

Writes(c, span, o) ==
    /\ c \in Chunks /\ span \in SUBSET Pages /\ o \in Nat /\ o # 0
    /\ Len(writes) \in Nat /\ Len(writes) < MaxWrites
    /\ writes' = Append(writes, [lc |-> c, span |-> span])
    /\ writableChunks' = [writableChunks EXCEPT ![c] = o]
    /\ chunk' \in Seq({Done} \cup Chunk) /\ o \in DOMAIN chunk'
    /\ \A x \in DOMAIN chunk : x # o => chunk'[x] = chunk[x]
    /\ chunk'[o].lc = c /\ chunk'[o].ref = 1 /\ chunk'[o].job = "open"
    /\ SwapWritten(chunk'[o].block, span, Len(writes) + 1)
    /\ WritesOpen(c, span, o) \/ WritesNew(c, span, o)
    /\ WriteEnds(c, o)

LEMMA PutType ==
    ASSUME NEW content \in Content, NEW span, NEW ts \in 0..MaxWrites
    PROVE  Put(content, span, ts) \in Content
BY DEF Put, Content

\* WriteDataAt into the chunk that is open.
LEMMA WritesOpenIs ==
    ASSUME WriteTypes, PipeTypes, TableInv, RefInv, SwapInv,
           NEW c \in Chunks, NEW span \in SUBSET Pages, Len(writes) < MaxWrites,
           writableChunks[c] # 0, WriteDataAt(c, span)
    PROVE  Writes(c, span, writableChunks[c])
<1> DEFINE ts == Len(writes) + 1
<1>1. DOMAIN chunk = 1..Len(chunk) /\ chunk \in Seq({Done} \cup Chunk) /\ Len(chunk) \in Nat
      /\ Len(writes) \in Nat /\ MaxWrites \in Nat
  BY PipelineAssumption DEF PipeTypes, WriteTypes
<1>2. PICK o \in DOMAIN chunk : o = writableChunks[c]
  BY <1>1 DEF PipeTypes
<1>3. chunk[o].job = "open" /\ chunk[o].lc = c /\ chunk[o].ref = 1 /\ chunk[o] \in Chunk
  <2>1. chunk[o].job = "open" /\ chunk[o].lc = c
    BY <1>2 DEF TableInv
  <2> QED BY <2>1, ChunkTypes DEF RefInv
<1>4. PICK b : b = chunk[o].block
  OBVIOUS
<1>5. b \in 1..Len(swap.block) /\ DOMAIN swap.block = 1..Len(swap.block) /\ swap.block \in Seq(Content)
  <2>1. swap.block \in Seq(Content)
    BY DEF PipeTypes
  <2>2. DOMAIN swap.block = 1..Len(swap.block) /\ Len(swap.block) \in Nat
    BY <2>1
  <2>3. b \in 1..MaxWrites
    BY <1>3, <1>4 DEF Chunk
  <2>4. b <= Len(swap.block)
    BY <1>3, <1>4 DEF SwapInv
  <2> QED BY <1>1, <2>1, <2>2, <2>3, <2>4
<1>6. /\ writableChunks' = [writableChunks EXCEPT ![c] = o]
      /\ chunk' = [chunk EXCEPT ![o].written = Put(@, span, ts)]
      /\ swap' = [swap EXCEPT !.block[b] = Put(@, span, ts)]
      /\ writes' = Append(writes, [lc |-> c, span |-> span])
      /\ WriteEnds(c, o)
  <2>1. WritableChunk(c) = [obj |-> o, chunk |-> chunk, swap |-> swap]
    BY <1>2 DEF WritableChunk
  <2> DEFINE w == WritableChunk(c)
  <2>2. w.obj = o /\ w.chunk = chunk /\ w.swap = swap
    BY <2>1
  <2>3. /\ writableChunks' = [writableChunks EXCEPT ![c] = w.obj]
        /\ chunk' = [w.chunk EXCEPT ![w.obj].written = Put(@, span, ts)]
        /\ swap' = [w.swap EXCEPT !.block[w.chunk[w.obj].block] = Put(@, span, ts)]
        /\ writes' = Append(writes, [lc |-> c, span |-> span])
        /\ WriteEnds(c, w.obj)
    BY DEF WriteDataAt, Put, WriteEnds
  <2> HIDE DEF w
  <2> QED BY <1>4, <2>2, <2>3
<1> DEFINE e == [chunk[o] EXCEPT !.written = Put(chunk[o].written, span, ts)]
<1>7. e \in {Done} \cup Chunk /\ e.written = Put(chunk[o].written, span, ts) /\ e.lc = c
      /\ e.ref = 1 /\ e.job = "open" /\ e.block = b
  <2>1. Put(chunk[o].written, span, ts) \in Content
    BY <1>1, <1>3, PutType DEF Chunk
  <2> QED BY <1>3, <1>4, <2>1 DEF Chunk
<1>8. chunk' = [chunk EXCEPT ![o] = e]
  BY <1>6
<1> HIDE DEF e
<1>9. /\ chunk' \in Seq({Done} \cup Chunk) /\ Len(chunk') = Len(chunk)
      /\ \A x \in 1..Len(chunk) : chunk'[x] = IF x = o THEN e ELSE chunk[x]
  BY <1>1, <1>7, <1>8, ExceptSeq
<1>10. DOMAIN chunk' = DOMAIN chunk
  BY <1>1, <1>9
<1> DEFINE d == Put(swap.block[b], span, ts)
           s == [swap.block EXCEPT ![b] = d]
<1>11. d \in Content
  BY <1>1, <1>5, PutType
<1>12. swap' = [swap EXCEPT !.block = s]
  BY <1>6
<1>13. s \in Seq(Content) /\ Len(s) = Len(swap.block)
       /\ \A x \in 1..Len(swap.block) : s[x] = IF x = b THEN d ELSE swap.block[x]
  <2> HIDE DEF d
  <2> QED BY <1>5, <1>11, ExceptSeq
<1>14. swap' \in [block : Seq(Content), free : Seq(Nat), active : Int]
       /\ swap'.block = s /\ swap'.free = swap.free /\ swap'.active = swap.active
  <2> HIDE DEF s
  <2> QED BY <1>12, <1>13 DEF PipeTypes
<1>15. \A p \in span : d[p] = ts
  BY DEF Put
<1>16. DOMAIN s = 1..Len(swap.block)
  <2> HIDE DEF s
  <2> QED BY <1>13
<1> HIDE DEF s, d
<1>17. SwapWritten(b, span, ts)
  BY <1>5, <1>13, <1>14, <1>15, <1>16 DEF SwapWritten
<1>18. chunk'[o] = e /\ \A x \in DOMAIN chunk : x # o => chunk'[x] = chunk[x]
  BY <1>1, <1>9
<1>19. WritesOpen(c, span, o)
  BY <1>2, <1>3, <1>4, <1>5, <1>7, <1>9, <1>10, <1>13, <1>14, <1>18 DEF WritesOpen, d
<1>20. o \in Nat /\ o # 0
  BY <1>1
<1> QED BY <1>1, <1>2, <1>6, <1>7, <1>9, <1>10, <1>17, <1>18, <1>19, <1>20 DEF Writes

LEMMA ZeroType == Zero \in Content
BY PipelineAssumption DEF Zero, Content

\* The block of a new chunk is in use by nobody.
LEMMA NewBlockIs ==
    ASSUME WriteTypes, PipeTypes, SwapInv, Len(writes) < MaxWrites
    PROVE  /\ swap.free # <<>> => NewBlock = Head(swap.free) /\ NewBlock \in 1..Len(swap.block)
           /\ swap.free = <<>> => NewBlock = Len(swap.block) + 1
           /\ NewBlock \in 1..MaxWrites
           /\ Len(swap.block) \in Nat /\ Len(swap.block) < MaxWrites
<1>1. swap.block \in Seq(Content) /\ swap.free \in Seq(Nat) /\ swap.active \in Int
  BY DEF PipeTypes
<1>2. Len(swap.block) \in Nat /\ Len(swap.free) \in Nat /\ DOMAIN swap.free = 1..Len(swap.free)
  BY <1>1
<1>3. Len(chunk) \in Nat /\ Len(writes) \in Nat /\ MaxWrites \in Nat
  BY PipelineAssumption DEF PipeTypes, WriteTypes
<1>4. Len(swap.block) < MaxWrites
  BY <1>2, <1>3 DEF SwapInv, WriteTypes
<1>5. CASE swap.free # <<>>
  <2>1. 1 \in DOMAIN swap.free /\ Head(swap.free) = swap.free[1]
    BY <1>1, <1>5
  <2>2. swap.free[1] \in 1..Len(swap.block)
    BY <2>1 DEF SwapInv
  <2> QED BY <1>2, <1>3, <1>4, <1>5, <2>1, <2>2 DEF NewBlock
<1>6. CASE swap.free = <<>>
  <2>1. Len(swap.free) = 0
    BY <1>6
  <2>2. swap.active = Len(swap.block)
    BY <1>1, <1>2, <2>1 DEF SwapInv
  <2> QED BY <1>2, <1>3, <1>4, <1>6, <2>2 DEF NewBlock
<1> QED BY <1>5, <1>6

\* WriteDataAt into a new chunk, in a free block or in one at the end.
LEMMA WritesNewIs ==
    ASSUME WriteTypes, PipeTypes, TableInv, RefInv, SwapInv,
           NEW c \in Chunks, NEW span \in SUBSET Pages, Len(writes) < MaxWrites,
           writableChunks[c] = 0, WriteDataAt(c, span)
    PROVE  Writes(c, span, Len(chunk) + 1)
<1> DEFINE ts == Len(writes) + 1
           o == Len(chunk) + 1
           r == [lc |-> c, block |-> NewBlock, written |-> Zero, ref |-> 1, job |-> "open"]
           ch == Append(chunk, r)
           sb == IF swap.free # <<>> THEN swap.block ELSE Append(swap.block, Zero)
           sf == IF swap.free # <<>> THEN Tail(swap.free) ELSE <<>>
           sw == [block |-> sb, free |-> sf, active |-> swap.active + 1]
<1>1. DOMAIN chunk = 1..Len(chunk) /\ chunk \in Seq({Done} \cup Chunk) /\ Len(chunk) \in Nat
      /\ Len(writes) \in Nat /\ MaxWrites \in Nat
      /\ swap.block \in Seq(Content) /\ swap.free \in Seq(Nat) /\ swap.active \in Int
  BY PipelineAssumption DEF PipeTypes, WriteTypes
<1>2. PICK b : b = NewBlock
  OBVIOUS
<1>3. b \in 1..MaxWrites /\ Len(swap.block) \in Nat
      /\ (swap.free # <<>> => b = Head(swap.free) /\ b \in 1..Len(swap.block))
      /\ (swap.free = <<>> => b = Len(swap.block) + 1)
  BY <1>2, NewBlockIs
<1>4. r \in {Done} \cup Chunk /\ r.written = Zero /\ r.block = b
  BY <1>2, <1>3, ZeroType DEF Chunk
<1>5. ch \in Seq({Done} \cup Chunk) /\ Len(ch) = o /\ ch[o] = r
      /\ \A x \in 1..Len(chunk) : ch[x] = chunk[x]
  <2> HIDE DEF r
  <2> QED BY <1>1, <1>4, AppendProperties
<1>6. /\ writableChunks' = [writableChunks EXCEPT ![c] = o]
      /\ chunk' = [ch EXCEPT ![o].written = Put(@, span, ts)]
      /\ swap' = [sw EXCEPT !.block[ch[o].block] = Put(@, span, ts)]
      /\ writes' = Append(writes, [lc |-> c, span |-> span])
      /\ WriteEnds(c, o)
  <2>1. WritableChunk(c) = [obj |-> o, chunk |-> ch, swap |-> sw]
    BY DEF WritableChunk
  <2> DEFINE w == WritableChunk(c)
  <2>2. w.obj = o /\ w.chunk = ch /\ w.swap = sw
    <3> HIDE DEF o, ch, sw
    <3> QED BY <2>1
  <2>3. /\ writableChunks' = [writableChunks EXCEPT ![c] = w.obj]
        /\ chunk' = [w.chunk EXCEPT ![w.obj].written = Put(@, span, ts)]
        /\ swap' = [w.swap EXCEPT !.block[w.chunk[w.obj].block] = Put(@, span, ts)]
        /\ writes' = Append(writes, [lc |-> c, span |-> span])
        /\ WriteEnds(c, w.obj)
    BY DEF WriteDataAt, Put, WriteEnds
  <2> HIDE DEF w, o, ch, sw
  <2> QED BY <2>2, <2>3
<1> DEFINE e == [r EXCEPT !.written = Put(Zero, span, ts)]
<1>7. e \in {Done} \cup Chunk /\ e.written = Put(Zero, span, ts) /\ e.lc = c
      /\ e.ref = 1 /\ e.job = "open" /\ e.block = b
  <2>1. Put(Zero, span, ts) \in Content
    BY <1>1, ZeroType, PutType
  <2> QED BY <1>2, <1>3, <2>1 DEF Chunk
<1> HIDE DEF r
<1>8. chunk' = [ch EXCEPT ![o] = e]
  <2> HIDE DEF ch, o
  <2> QED BY <1>4, <1>5, <1>6
<1> HIDE DEF e, ch
<1>9. /\ chunk' \in Seq({Done} \cup Chunk) /\ Len(chunk') = o
      /\ \A x \in 1..o : chunk'[x] = IF x = o THEN e ELSE ch[x]
  <2>1. o \in 1..Len(ch)
    BY <1>1, <1>5
  <2> HIDE DEF o
  <2> QED BY <1>5, <1>7, <1>8, <2>1, ExceptSeq
<1>10. /\ DOMAIN chunk' = DOMAIN chunk \cup {o} /\ chunk'[o] = e
       /\ o \notin DOMAIN chunk /\ o \in Nat /\ o # 0
       /\ \A x \in DOMAIN chunk : chunk'[x] = chunk[x]
  BY <1>1, <1>5, <1>9
<1>11. sb \in Seq(Content) /\ b \in 1..Len(sb)
       /\ (swap.free # <<>> => Len(sb) = Len(swap.block))
       /\ (swap.free = <<>> => Len(sb) = Len(swap.block) + 1)
       /\ \A i \in 1..Len(swap.block) : sb[i] = swap.block[i] /\ i \in 1..Len(sb)
  <2>1. CASE swap.free # <<>>
    BY <1>1, <1>3, <2>1
  <2>2. CASE swap.free = <<>>
    <3>1. sb = Append(swap.block, Zero)
      BY <2>2
    <3>2. sb \in Seq(Content) /\ Len(sb) = Len(swap.block) + 1
          /\ \A i \in 1..Len(swap.block) : sb[i] = swap.block[i]
      BY <1>1, <3>1, ZeroType, AppendProperties
    <3> HIDE DEF sb
    <3> QED BY <1>1, <1>3, <2>2, <3>2
  <2> QED BY <2>1, <2>2
<1>12. sf \in Seq(Nat)
  BY <1>1
<1> HIDE DEF sb, sf
<1> DEFINE d == Put(sb[b], span, ts)
           s == [sb EXCEPT ![b] = d]
<1>13. d \in Content
  BY <1>1, <1>11, PutType
<1>14. s \in Seq(Content) /\ Len(s) = Len(sb)
       /\ \A x \in 1..Len(sb) : s[x] = IF x = b THEN d ELSE sb[x]
  <2> HIDE DEF d
  <2> QED BY <1>11, <1>13, ExceptSeq
<1>15. swap' = [sw EXCEPT !.block = s]
  <2>1. ch[o].block = b
    BY <1>4, <1>5
  <2>2. swap' = [sw EXCEPT !.block[b] = Put(@, span, ts)]
    <3> HIDE DEF sw
    <3> QED BY <1>6, <2>1
  <2> QED BY <2>2
<1> HIDE DEF s
<1>16. swap' \in [block : Seq(Content), free : Seq(Nat), active : Int]
       /\ swap'.block = s /\ swap'.free = sf /\ swap'.active = swap.active + 1
  <2>1. swap' = [block |-> s, free |-> sf, active |-> swap.active + 1]
    BY <1>15
  <2>2. s \in Seq(Content) /\ swap.active + 1 \in Int
    BY <1>1, <1>14
  <2> QED BY <1>12, <2>1, <2>2
<1>17. \A p \in span : d[p] = ts
  BY DEF Put
<1> HIDE DEF d
<1>18. SwapWritten(b, span, ts)
  <2>1. DOMAIN s = 1..Len(sb) /\ DOMAIN swap.block = 1..Len(swap.block)
    BY <1>1, <1>14
  <2>2. \A i \in DOMAIN swap.block : i # b => s[i] = swap.block[i]
    BY <1>11, <1>14, <2>1
  <2> QED BY <1>11, <1>14, <1>16, <1>17, <2>1, <2>2 DEF SwapWritten
<1>19. WritesNew(c, span, o)
  <2>1. Len(s) = Len(sb) /\ chunk'[o] = e /\ e.block = b /\ e.written = Put(Zero, span, ts)
    BY <1>7, <1>10, <1>14
  <2>2. \/ swap.free # <<>> /\ b = Head(swap.free) /\ sf = Tail(swap.free)
           /\ Len(sb) = Len(swap.block)
        \/ swap.free = <<>> /\ b = Len(swap.block) + 1 /\ sf = <<>>
           /\ Len(sb) = Len(swap.block) + 1
    BY <1>3, <1>11 DEF sf
  <2> QED BY <1>9, <1>10, <1>16, <2>1, <2>2 DEF WritesNew
<1>20. /\ chunk'[o].lc = c /\ chunk'[o].ref = 1 /\ chunk'[o].job = "open" /\ chunk'[o].block = b
       /\ o \in DOMAIN chunk'
  BY <1>7, <1>10
<1> HIDE DEF o
<1> QED BY <1>1, <1>6, <1>9, <1>10, <1>18, <1>19, <1>20 DEF Writes, o

\* WriteDataAt, seen from the chunks.
LEMMA WritesIs ==
    ASSUME WriteTypes, PipeTypes, TableInv, RefInv, SwapInv,
           NEW c \in Chunks, NEW span \in SUBSET Pages, Len(writes) < MaxWrites,
           WriteDataAt(c, span)
    PROVE  \E o \in Nat : Writes(c, span, o)
<1>1. CASE writableChunks[c] # 0
  BY <1>1, WritesOpenIs DEF Writes
<1>2. CASE writableChunks[c] = 0
  BY <1>2, WritesNewIs DEF Writes
<1> QED BY <1>1, <1>2

-----------------------------------------------------------------------------
(* Steps that write nothing *)

\* Jobs go on and references are given up.
Ages ==
    /\ SameData
    /\ \A x \in DOMAIN chunk : /\ chunk'[x].ref = 1 => chunk[x].ref = 1
                               /\ chunk'[x].job = "done" <=> chunk[x].job = "done"
                               /\ chunk'[x].job = "open" => chunk[x].job = "open"
    /\ swap'.block = swap.block /\ writes' = writes

\* Chunks that keep their data keep what is known of it.
LEMMA AgesData ==
    ASSUME DataInv, WrittenInv, OrderInv, Ages
    PROVE  DataInv' /\ WrittenInv' /\ OrderInv'
<1>1. DOMAIN chunk' = DOMAIN chunk
  BY DEF Ages, SameData, SameDomain
<1>2. DataInv'
  BY <1>1 DEF Ages, SameData, DataInv
<1>3. \A x \in DOMAIN chunk : Live(x)' <=> Live(x)
  BY <1>1 DEF Ages, Live
<1>4. WrittenInv'
  <2> SUFFICES ASSUME NEW x \in DOMAIN chunk, NEW p \in Pages, Live(x)
               PROVE  IsWrite(chunk[x].lc, p, chunk[x].written[p])'
    BY <1>1, <1>3 DEF WrittenInv
  <2> QED BY DEF Ages, SameData, WrittenInv, IsWrite
<1>5. OrderInv'
  <2> SUFFICES ASSUME NEW o1 \in DOMAIN chunk, NEW o2 \in DOMAIN chunk, Live(o1), Live(o2),
                      chunk[o1].lc = chunk[o2].lc
               PROVE  /\ o1 < o2 => Before(o1, o2)'
                      /\ chunk'[o2].job = "open" => o1 <= o2
    BY <1>1, <1>3 DEF OrderInv, Ages, SameData
  <2>1. chunk'[o1].written = chunk[o1].written /\ chunk'[o2].written = chunk[o2].written
        /\ (chunk'[o2].job = "open" => chunk[o2].job = "open")
    BY DEF Ages, SameData
  <2> QED BY <2>1 DEF OrderInv, Before
<1> QED BY <1>2, <1>4, <1>5

\* A reference is lost before the upload only where "recycled" is noted.
MishapGrows == \A c \in Chunks : mishap[c] \cap {"lapped", "recycled", "overwritten"} \subseteq mishap'[c]

\* A job that moves on keeps tables, blocks and data.
LEMMA RejobStruct ==
    ASSUME PipeTypes, TableInv, SwapInv, RefInv, DataInv, WrittenInv, OrderInv,
           NEW o \in DOMAIN chunk, NEW j \in Sealing, chunk[o].job \in Sealing, Rejobs(o, j),
           j \in {"token", "ready"} => chunk[o].job \in {"token", "ready"},
           UNCHANGED <<writableChunks, sealedChunks, swap, writes>>, MishapGrows
    PROVE  TableInv' /\ SwapInv' /\ RefInv' /\ DataInv' /\ WrittenInv' /\ OrderInv'
<1>0. \A x \in DOMAIN chunk : chunk[x].job # "done" => chunk[x].lc \in Chunks
  BY ChunkTypes DEF Chunk
<1>1. DOMAIN chunk' = DOMAIN chunk /\ DOMAIN chunk = 1..Len(chunk)
  BY DEF Rejobs, SameData, SameDomain, PipeTypes
<1>2. \A x \in DOMAIN chunk : /\ chunk'[x].lc = chunk[x].lc /\ chunk'[x].block = chunk[x].block
                              /\ chunk'[x].ref = chunk[x].ref
                              /\ chunk'[x].job = IF x = o THEN j ELSE chunk[x].job
  BY DEF Rejobs, SameData
<1>3. TableInv'
  <2>1. \A c \in Chunks : writableChunks[c] # 0 =>
          writableChunks[c] \in DOMAIN chunk /\ writableChunks[c] # o
    BY <1>1 DEF PipeTypes, TableInv, Sealing
  <2>2. \A c \in Chunks : sealedChunks[c] # 0 => sealedChunks[c] \in DOMAIN chunk
    BY <1>1 DEF PipeTypes
  <2>3. j # "open"
    BY DEF Sealing
  <2> QED BY <1>1, <1>2, <2>1, <2>2, <2>3 DEF TableInv
<1>4. SwapInv'
  BY <1>1, <1>2 DEF SwapInv, Rejobs, SameData, SameDomain
<1>5. RefInv'
  <2> SUFFICES ASSUME NEW x \in DOMAIN chunk
               PROVE  /\ chunk'[x].job = "open" => chunk'[x].ref = 1
                      /\ chunk'[x].job \in {"token", "ready"} /\ chunk'[x].ref = 0
                            => "recycled" \in mishap'[chunk'[x].lc]
    BY <1>1 DEF RefInv
  <2>1. chunk'[x].job = "open" => chunk[x].job = "open"
    BY <1>2 DEF Sealing
  <2>2. chunk'[x].job \in {"token", "ready"} => chunk[x].job \in {"token", "ready"}
    BY <1>2
  <2> QED BY <1>0, <1>2, <2>1, <2>2 DEF RefInv, MishapGrows
<1>6. Ages
  BY <1>2 DEF Ages, Rejobs, Sealing
<1> QED BY <1>3, <1>4, <1>5, <1>6, AgesData

\* The block of the chunk o goes back to the free blocks.
LEMMA FreesBlock ==
    ASSUME PipeTypes, SwapInv, NEW o \in DOMAIN chunk, chunk[o].ref = 1, SameDomain,
           swap' = [swap EXCEPT !.free = Append(@, chunk[o].block), !.active = @ - 1],
           \A x \in DOMAIN chunk : chunk'[x].ref = 1 =>
               chunk[x].ref = 1 /\ x # o /\ chunk'[x].block = chunk[x].block,
           \A x \in DOMAIN chunk : chunk'[x].block \in {0, chunk[x].block}
    PROVE  /\ swap' \in [block : Seq(Content), free : Seq(Nat), active : Int]
           /\ swap'.block = swap.block
           /\ SwapInv'
<1>1. PICK b \in Nat : b = chunk[o].block /\ b # 0
  BY ChunkTypes DEF Chunk
<1>2. swap' = [swap EXCEPT !.free = Append(swap.free, b), !.active = swap.active - 1]
  BY <1>1
<1>3. swap \in [block : Seq(Content), free : Seq(Nat), active : Int]
  BY DEF PipeTypes
<1>4. Append(swap.free, b) \in Seq(Nat) /\ swap.active - 1 \in Int
  BY <1>3
<1>5. /\ swap'.free = Append(swap.free, b) /\ swap'.active = swap.active - 1
      /\ swap'.block = swap.block
  BY <1>2, <1>3
<1>6. swap' \in [block : Seq(Content), free : Seq(Nat), active : Int]
  BY <1>2, <1>3, <1>4
<1>7. /\ Len(swap'.free) = Len(swap.free) + 1 /\ Len(swap.free) \in Nat
      /\ DOMAIN swap'.free = 1..(Len(swap.free) + 1) /\ DOMAIN swap.free = 1..Len(swap.free)
      /\ swap'.free[Len(swap.free) + 1] = b
      /\ \A i \in DOMAIN swap.free : swap'.free[i] = swap.free[i]
  BY <1>3, <1>5
<1>8. b \in 1..Len(swap.block) /\ \A i \in DOMAIN swap.free : b # swap.free[i]
  BY <1>1, <1>3 DEF SwapInv
<1>9. \A x \in DOMAIN chunk : chunk'[x].ref = 1 =>
        chunk[x].ref = 1 /\ chunk'[x].block = chunk[x].block /\ chunk[x].block # b
  BY <1>1 DEF SwapInv
<1>10. DOMAIN chunk' = DOMAIN chunk /\ Len(chunk') = Len(chunk)
  BY DEF SameDomain
<1>11. Len(swap'.block) = swap'.active + Len(swap'.free) /\ Len(swap'.block) <= Len(chunk')
  BY <1>3, <1>5, <1>7, <1>10 DEF SwapInv
<1>12. \A x \in DOMAIN chunk' : chunk'[x].block <= Len(swap'.block)
  <2>1. Len(swap.block) \in Nat
    BY <1>3
  <2> QED BY <1>5, <1>10, <2>1 DEF SwapInv
<1>13. \A i \in DOMAIN swap'.free : swap'.free[i] \in 1..Len(swap'.block)
  BY <1>5, <1>7, <1>8 DEF SwapInv
<1>14. \A i, k \in DOMAIN swap'.free : swap'.free[i] = swap'.free[k] => i = k
  <2>1. \A i, k \in DOMAIN swap.free : swap.free[i] = swap.free[k] => i = k
    BY DEF SwapInv
  <2>2. \A i \in DOMAIN swap'.free : i \in DOMAIN swap.free \/ i = Len(swap.free) + 1
    BY <1>7
  <2> QED BY <1>7, <1>8, <2>1, <2>2
<1>15. \A x, y \in DOMAIN chunk' : chunk'[x].ref = 1 /\ chunk'[y].ref = 1
                                  /\ chunk'[x].block = chunk'[y].block => x = y
  BY <1>9, <1>10 DEF SwapInv
<1>16. \A x \in DOMAIN chunk', i \in DOMAIN swap'.free :
          chunk'[x].ref = 1 => chunk'[x].block # swap'.free[i]
  BY <1>7, <1>9, <1>10 DEF SwapInv
<1> QED BY <1>5, <1>6, <1>11, <1>12, <1>13, <1>14, <1>15, <1>16 DEF SwapInv

\* So does a seal: the block of the chunk it laps becomes free, and if that
\* chunk was not uploaded yet the mishap is recorded.
LEMMA SealsStruct ==
    ASSUME PipeTypes, TableInv, SwapInv, RefInv, DataInv, WrittenInv, OrderInv,
           NEW o, NEW c, NEW old, Seals(o, c, old), UNCHANGED writes
    PROVE  PipeTypes' /\ TableInv' /\ SwapInv' /\ RefInv' /\ DataInv' /\ WrittenInv' /\ OrderInv'
           /\ MishapGrows
<1> USE DEF Seals
<1>0. \A x \in DOMAIN chunk : chunk[x].job # "done" => chunk[x].lc \in Chunks
  BY ChunkTypes DEF Chunk
<1>1. DOMAIN chunk' = DOMAIN chunk /\ DOMAIN chunk = 1..Len(chunk) /\ Len(chunk') = Len(chunk)
      /\ Len(chunk) \in Nat
  BY DEF SameData, SameDomain, PipeTypes
<1>2. \A x \in DOMAIN chunk : /\ chunk'[x].lc = chunk[x].lc /\ chunk'[x].block = chunk[x].block
  BY DEF SameData
<1>3. /\ \A d \in Chunks : mishap[d] \subseteq mishap'[d]
      /\ mishap' \in [Chunks -> SUBSET {"lapped", "recycled", "overwritten", "unsent"}]
      /\ old # 0 /\ chunk[old].job \in {"token", "ready"} => "recycled" \in mishap'[c]
  BY DEF PipeTypes
<1>4. /\ writableChunks' \in [Chunks -> 0..Len(chunk)] /\ sealedChunks' \in [Chunks -> 0..Len(chunk)]
      /\ writableChunks'[c] = 0 /\ sealedChunks'[c] = o
      /\ \A d \in Chunks : d # c => writableChunks'[d] = writableChunks[d] /\ sealedChunks'[d] = sealedChunks[d]
  BY <1>1 DEF PipeTypes
<1>5. TableInv'
  <2>1. \A d \in Chunks : writableChunks'[d] # 0 =>
            chunk'[writableChunks'[d]].job = "open" /\ chunk'[writableChunks'[d]].lc = d
    <3> SUFFICES ASSUME NEW d \in Chunks, writableChunks'[d] # 0
                 PROVE  chunk'[writableChunks'[d]].job = "open" /\ chunk'[writableChunks'[d]].lc = d
      OBVIOUS
    <3>1. d # c /\ writableChunks'[d] = writableChunks[d]
      BY <1>4
    <3>2. writableChunks[d] \in DOMAIN chunk /\ writableChunks[d] # o
      BY <1>1, <3>1 DEF PipeTypes, TableInv
    <3> QED BY <1>2, <3>1, <3>2 DEF TableInv
  <2>2. \A x \in DOMAIN chunk : chunk'[x].job = "open" => writableChunks'[chunk'[x].lc] = x
    <3> SUFFICES ASSUME NEW x \in DOMAIN chunk, chunk'[x].job = "open"
                 PROVE  writableChunks'[chunk[x].lc] = x
      BY <1>2
    <3>1. x # o /\ chunk[x].job = "open" /\ chunk[x].lc \in Chunks
      BY <1>0
    <3>2. writableChunks[chunk[x].lc] = x
      BY <3>1 DEF TableInv
    <3> QED BY <1>4, <3>1, <3>2
  <2>3. \A d \in Chunks : sealedChunks'[d] # 0 =>
            /\ chunk'[sealedChunks'[d]].job \in Sealing
            /\ chunk'[sealedChunks'[d]].lc = d /\ chunk'[sealedChunks'[d]].ref = 1
    <3> SUFFICES ASSUME NEW d \in Chunks, sealedChunks'[d] # 0
                 PROVE  /\ chunk'[sealedChunks'[d]].job \in Sealing
                        /\ chunk'[sealedChunks'[d]].lc = d /\ chunk'[sealedChunks'[d]].ref = 1
      OBVIOUS
    <3>1. CASE d = c
      BY <1>2, <1>4, <3>1 DEF Sealing
    <3>2. CASE d # c
      <4>1. PICK x : x = sealedChunks[d] /\ x = sealedChunks'[d]
        BY <1>4, <3>2
      <4>2. x \in DOMAIN chunk /\ x # 0
        BY <1>1, <4>1 DEF PipeTypes
      <4>3. chunk[x].job \in Sealing /\ chunk[x].lc = d /\ chunk[x].ref = 1
        <5>1. sealedChunks[d] # 0 =>
                /\ chunk[sealedChunks[d]].job \in Sealing
                /\ chunk[sealedChunks[d]].lc = d /\ chunk[sealedChunks[d]].ref = 1
          BY DEF TableInv
        <5> QED BY <4>1, <4>2, <5>1
      <4>4. x # o /\ x # old
        BY <3>2, <4>2, <4>3
      <4> QED BY <1>2, <4>1, <4>2, <4>3, <4>4
    <3> QED BY <3>1, <3>2
  <2> QED BY <1>1, <2>1, <2>2, <2>3 DEF TableInv
<1>6. /\ swap' \in [block : Seq(Content), free : Seq(Nat), active : Int]
      /\ swap'.block = swap.block
      /\ SwapInv'
  <2>1. CASE old = 0
    <3>1. swap' = swap /\ \A x \in DOMAIN chunk : chunk'[x].ref = chunk[x].ref
      BY <1>1, <2>1
    <3>2. swap \in [block : Seq(Content), free : Seq(Nat), active : Int]
      BY DEF PipeTypes
    <3> HIDE DEF Seals
    <3>3. SwapInv'
      BY <1>1, <1>2, <3>1 DEF SwapInv
    <3> QED BY <3>1, <3>2, <3>3
  <2>2. CASE old # 0
    <3>1. /\ old \in DOMAIN chunk /\ chunk[old].ref = 1 /\ SameDomain
          /\ swap' = [swap EXCEPT !.free = Append(@, chunk[old].block), !.active = @ - 1]
      BY <2>2 DEF SameData
    <3>2. \A x \in DOMAIN chunk : chunk'[x].ref = 1 =>
             chunk[x].ref = 1 /\ x # old /\ chunk'[x].block = chunk[x].block
      BY <1>2
    <3>3. \A x \in DOMAIN chunk : chunk'[x].block \in {0, chunk[x].block}
      BY <1>2
    <3> HIDE DEF Seals
    <3> QED BY <3>1, <3>2, <3>3, FreesBlock
  <2> QED BY <2>1, <2>2
<1>7. PipeTypes'
  BY <1>1, <1>3, <1>4, <1>6 DEF PipeTypes, SameData, SameDomain
<1>9. RefInv'
  <2> SUFFICES ASSUME NEW x \in DOMAIN chunk
               PROVE  /\ chunk'[x].job = "open" => chunk'[x].ref = 1
                      /\ chunk'[x].job \in {"token", "ready"} /\ chunk'[x].ref = 0
                            => "recycled" \in mishap'[chunk'[x].lc]
    BY <1>1 DEF RefInv
  <2>1. CASE x = o
    BY <2>1
  <2>2. CASE x = old
    <3>1. x # 0
      BY <1>1
    <3> QED BY <1>2, <1>3, <2>2, <3>1 DEF Sealing
  <2>3. CASE x # o /\ x # old
    BY <1>0, <1>2, <1>3, <2>3 DEF RefInv
  <2> QED BY <2>1, <2>2, <2>3
<1>10. Ages
  BY <1>6 DEF Ages
<1>11. MishapGrows
  BY <1>3 DEF MishapGrows
<1> QED BY <1>5, <1>6, <1>7, <1>9, <1>10, <1>11, AgesData

\* The removal of a chunk that was uploaded.
LEMMA RemovesStruct ==
    ASSUME PipeTypes, TableInv, SwapInv, RefInv, DataInv, WrittenInv, OrderInv,
           NEW o \in DOMAIN chunk, chunk[o].job = "saved", Removes(o),
           sealedChunks' = [sealedChunks EXCEPT ![chunk[o].lc] = 0],
           swap' = IF chunk[o].ref = 1 THEN FreeBlock(o) ELSE swap,
           UNCHANGED <<writableChunks, writes, mishap>>
    PROVE  PipeTypes' /\ TableInv' /\ SwapInv' /\ RefInv' /\ DataInv' /\ WrittenInv' /\ OrderInv'
<1>0. \A x \in DOMAIN chunk : chunk[x].job # "done" => chunk[x].lc \in Chunks
  BY ChunkTypes DEF Chunk
<1>1. DOMAIN chunk' = DOMAIN chunk /\ DOMAIN chunk = 1..Len(chunk) /\ Len(chunk') = Len(chunk)
      /\ Len(chunk) \in Nat
  BY DEF Removes, SameDomain, PipeTypes
<1>2. /\ chunk'[o].job = "done" /\ chunk'[o].ref = 0
      /\ \A x \in DOMAIN chunk : x # o => chunk'[x] = chunk[x]
  BY DEF Removes, Done
<1>3. PICK c \in Chunks : c = chunk[o].lc
  BY <1>0
<1>4. /\ sealedChunks' \in [Chunks -> 0..Len(chunk)] /\ sealedChunks'[c] = 0
      /\ \A d \in Chunks : d # c => sealedChunks'[d] = sealedChunks[d]
  BY <1>1, <1>3 DEF PipeTypes
<1>5. TableInv'
  <2>1. \A d \in Chunks : writableChunks[d] # 0 =>
          writableChunks[d] \in DOMAIN chunk /\ writableChunks[d] # o
    BY <1>1 DEF PipeTypes, TableInv
  <2>2. \A d \in Chunks : sealedChunks'[d] # 0 =>
            /\ chunk'[sealedChunks'[d]].job \in Sealing
            /\ chunk'[sealedChunks'[d]].lc = d /\ chunk'[sealedChunks'[d]].ref = 1
    <3> SUFFICES ASSUME NEW d \in Chunks, sealedChunks'[d] # 0
                 PROVE  /\ chunk'[sealedChunks'[d]].job \in Sealing
                        /\ chunk'[sealedChunks'[d]].lc = d /\ chunk'[sealedChunks'[d]].ref = 1
      OBVIOUS
    <3>1. PICK x : x = sealedChunks[d] /\ x = sealedChunks'[d] /\ d # c
      BY <1>4
    <3>2. x \in DOMAIN chunk /\ x # 0
      BY <1>1, <3>1 DEF PipeTypes
    <3>3. chunk[x].job \in Sealing /\ chunk[x].lc = d /\ chunk[x].ref = 1
      BY <3>1, <3>2 DEF TableInv
    <3>4. x # o
      BY <1>3, <3>1, <3>3
    <3> QED BY <1>2, <3>1, <3>2, <3>3, <3>4
  <2>3. \A d \in Chunks : writableChunks'[d] # 0 =>
            chunk'[writableChunks'[d]].job = "open" /\ chunk'[writableChunks'[d]].lc = d
    BY <1>2, <2>1 DEF TableInv
  <2>4. \A x \in DOMAIN chunk' : chunk'[x].job = "open" => writableChunks'[chunk'[x].lc] = x
    BY <1>1, <1>2 DEF TableInv
  <2> QED BY <2>2, <2>3, <2>4 DEF TableInv
<1>6. /\ swap' \in [block : Seq(Content), free : Seq(Nat), active : Int]
      /\ swap'.block = swap.block
      /\ SwapInv'
  <2>1. \A x \in DOMAIN chunk : chunk'[x].ref = 1 =>
             chunk[x].ref = 1 /\ x # o /\ chunk'[x].block = chunk[x].block
    BY <1>2
  <2>4. \A x \in DOMAIN chunk : chunk'[x].block \in {0, chunk[x].block}
    BY <1>2 DEF Removes, Done
  <2>2. CASE chunk[o].ref = 1
    <3>1. swap' = [swap EXCEPT !.free = Append(@, chunk[o].block), !.active = @ - 1]
      BY <2>2 DEF FreeBlock
    <3> QED BY <2>1, <2>2, <2>4, <3>1, FreesBlock DEF Removes
  <2>3. CASE chunk[o].ref # 1
    <3>1. swap' = swap
      BY <2>3
    <3>2. swap \in [block : Seq(Content), free : Seq(Nat), active : Int]
      BY DEF PipeTypes
    <3>4. \A x \in DOMAIN chunk' : chunk'[x].block <= Len(swap'.block)
      <4>1. Len(swap.block) \in Nat
        BY <3>2
      <4> QED BY <1>1, <2>4, <3>1, <4>1 DEF SwapInv
    <3>3. SwapInv'
      BY <1>1, <2>1, <3>1, <3>4 DEF SwapInv
    <3> QED BY <3>1, <3>2, <3>3
  <2> QED BY <2>2, <2>3
<1>7. PipeTypes'
  BY <1>1, <1>4, <1>6 DEF PipeTypes, Removes, SameDomain
<1>8. RefInv'
  BY <1>1, <1>2 DEF RefInv
<1>9. DataInv'
  <2> SUFFICES ASSUME NEW x \in DOMAIN chunk', NEW p \in Pages,
                      chunk'[x].ref = 1, chunk'[x].written[p] # 0
               PROVE  swap'.block[chunk'[x].block][p] = chunk'[x].written[p]
    BY DEF DataInv
  <2>1. x \in DOMAIN chunk /\ chunk'[x] = chunk[x]
    BY <1>1, <1>2 DEF Done
  <2>2. swap.block[chunk[x].block][p] = chunk[x].written[p]
    BY <2>1 DEF DataInv
  <2> QED BY <1>6, <2>1, <2>2
<1>10. \A x \in DOMAIN chunk : Live(x)' => Live(x) /\ x # o
  BY <1>1, <1>2 DEF Live
<1>11. WrittenInv'
  <2> SUFFICES ASSUME NEW x \in DOMAIN chunk, NEW p \in Pages, Live(x), x # o
               PROVE  IsWrite(chunk[x].lc, p, chunk[x].written[p])'
    BY <1>1, <1>10 DEF WrittenInv
  <2> QED BY <1>2 DEF WrittenInv, IsWrite
<1>12. OrderInv'
  <2> SUFFICES ASSUME NEW o1 \in DOMAIN chunk, NEW o2 \in DOMAIN chunk, Live(o1), Live(o2),
                      o1 # o, o2 # o, chunk[o1].lc = chunk[o2].lc
               PROVE  /\ o1 < o2 => Before(o1, o2)'
                      /\ chunk'[o2].job = "open" => o1 <= o2
    BY <1>1, <1>2, <1>10 DEF OrderInv
  <2>1. chunk'[o1] = chunk[o1] /\ chunk'[o2] = chunk[o2]
    BY <1>2
  <2> QED BY <2>1 DEF OrderInv, Before
<1> QED BY <1>5, <1>6, <1>7, <1>8, <1>9, <1>11, <1>12

-----------------------------------------------------------------------------
(* Writes *)

\* The chunks that a write leaves alone, and what it leaves of the one it changes.
WritesChunk(c, span, o) ==
    /\ DOMAIN chunk' = DOMAIN chunk \cup {o} /\ DOMAIN chunk = 1..Len(chunk)
    /\ Len(chunk) \in Nat /\ Len(chunk') \in Len(chunk)..(Len(chunk) + 1)
    /\ \A x \in DOMAIN chunk' : x # o => x \in DOMAIN chunk /\ chunk'[x] = chunk[x]
    /\ \A p \in span : chunk'[o].written[p] = Len(writes) + 1
    /\ \A p \in Pages \ span : chunk'[o].written[p] = 0
         \/ (o \in DOMAIN chunk /\ chunk'[o].written[p] = chunk[o].written[p])
    /\ o \in DOMAIN chunk => chunk[o].job = "open" /\ chunk[o].lc = c /\ chunk[o].ref = 1
    /\ \A x \in DOMAIN chunk : chunk[x].job = "open" /\ chunk[x].lc = c => x = o
    /\ writableChunks'[c] = o
    /\ \A d \in Chunks : d # c => writableChunks'[d] = writableChunks[d]

\* A write touches one chunk.
LEMMA WritesFacts ==
    ASSUME WriteTypes, PipeTypes, TableInv, NEW c, NEW span, NEW o, Writes(c, span, o)
    PROVE  WritesChunk(c, span, o)
<1>1. DOMAIN chunk = 1..Len(chunk) /\ Len(chunk) \in Nat /\ c \in Chunks /\ span \subseteq Pages
  BY DEF PipeTypes, Writes
<1>2. writableChunks'[c] = o /\ \A d \in Chunks : d # c => writableChunks'[d] = writableChunks[d]
  BY <1>1 DEF PipeTypes, Writes
<1>3. \A x \in DOMAIN chunk : x # o => chunk'[x] = chunk[x]
  BY DEF Writes
<1>4. CASE WritesOpen(c, span, o)
  <2>1. \A p \in Pages : chunk'[o].written[p] = IF p \in span THEN Len(writes) + 1 ELSE chunk[o].written[p]
    BY <1>4 DEF WritesOpen, Put
  <2>2. \A x \in DOMAIN chunk : chunk[x].job = "open" /\ chunk[x].lc = c => x = o
    BY <1>4 DEF TableInv, WritesOpen
  <2>3. DOMAIN chunk' = DOMAIN chunk /\ Len(chunk') = Len(chunk) /\ o \in DOMAIN chunk
        /\ chunk[o].job = "open" /\ chunk[o].lc = c /\ chunk[o].ref = 1
    BY <1>4 DEF WritesOpen
  <2> QED BY <1>1, <1>2, <1>3, <2>1, <2>2, <2>3 DEF WritesChunk
<1>5. CASE WritesNew(c, span, o)
  <2>1. \A p \in Pages : chunk'[o].written[p] = IF p \in span THEN Len(writes) + 1 ELSE 0
    BY <1>5 DEF WritesNew, Put, Zero
  <2>2. \A x \in DOMAIN chunk : chunk[x].job = "open" => chunk[x].lc # c
    BY <1>1, <1>5 DEF TableInv, WritesNew
  <2>3. DOMAIN chunk' = DOMAIN chunk \cup {o} /\ Len(chunk') = Len(chunk) + 1 /\ o \notin DOMAIN chunk
    BY <1>5 DEF WritesNew
  <2> QED BY <1>1, <1>2, <1>3, <2>1, <2>2, <2>3 DEF WritesChunk
<1> QED BY <1>4, <1>5 DEF Writes

LEMMA WritesTypes ==
    ASSUME WriteTypes, PipeTypes, TableInv, NEW c, NEW span, NEW o, Writes(c, span, o)
    PROVE  /\ WriteTypes' /\ PipeTypes' /\ Len(writes') = Len(writes) + 1
           /\ \A i \in 1..Len(writes) : writes'[i] = writes[i]
           /\ writes'[Len(writes) + 1] = [lc |-> c, span |-> span]
           /\ DOMAIN writes' = 1..(Len(writes) + 1)
<1>1. DOMAIN chunk' = DOMAIN chunk \cup {o} /\ DOMAIN chunk = 1..Len(chunk)
      /\ Len(chunk) \in Nat /\ Len(chunk') \in Len(chunk)..(Len(chunk) + 1)
  <2>1. WritesChunk(c, span, o)
    BY WritesFacts
  <2> QED BY <2>1 DEF WritesChunk
<1>2. c \in Chunks /\ span \in SUBSET Pages /\ o \in Nat /\ o # 0 /\ o \in DOMAIN chunk'
      /\ Len(writes) \in Nat /\ Len(writes) < MaxWrites /\ MaxWrites \in Nat
      /\ writes' = Append(writes, [lc |-> c, span |-> span])
  BY PipelineAssumption DEF Writes
<1>3. writes \in Seq([lc : Chunks, span : SUBSET Pages])
      /\ [lc |-> c, span |-> span] \in [lc : Chunks, span : SUBSET Pages]
  BY <1>2 DEF WriteTypes
<1>4. /\ writes' \in Seq([lc : Chunks, span : SUBSET Pages]) /\ Len(writes') = Len(writes) + 1
      /\ \A i \in 1..Len(writes) : writes'[i] = writes[i]
      /\ writes'[Len(writes) + 1] = [lc |-> c, span |-> span]
  BY <1>2, <1>3, AppendProperties
<1>5. DOMAIN writes' = 1..(Len(writes) + 1)
  BY <1>4
<1>6. dirty' \in BOOLEAN /\ lastErr' \in BOOLEAN
  BY DEF Writes, WriteEnds, WriteTypes
<1>7. WriteTypes'
  BY <1>1, <1>2, <1>4, <1>6 DEF WriteTypes
<1>8. chunk' \in Seq({Done} \cup Chunk)
  BY DEF Writes
<1>9. DOMAIN chunk' = 1..Len(chunk')
  BY <1>8
<1>10. o \in 0..Len(chunk') /\ 0..Len(chunk) \subseteq 0..Len(chunk')
  BY <1>1, <1>2, <1>9
<1>11. writableChunks' \in [Chunks -> 0..Len(chunk')]
  BY <1>10 DEF Writes, PipeTypes
<1>12. sealedChunks' \in [Chunks -> 0..Len(chunk')]
  BY <1>10 DEF Writes, WriteEnds, PipeTypes
<1>13. /\ swap' \in [block : Seq(Content), free : Seq(Nat), active : Int]
       /\ mishap' = mishap
  BY DEF Writes, WriteEnds, SwapWritten
<1>14. PipeTypes'
  BY <1>8, <1>11, <1>12, <1>13 DEF PipeTypes
<1> QED BY <1>4, <1>5, <1>7, <1>14

\* The tables still name open and sealed chunks after a write.
LEMMA WritesTable ==
    ASSUME WriteTypes, PipeTypes, TableInv, NEW c, NEW span, NEW o, Writes(c, span, o)
    PROVE  TableInv'
<1>0. \A x \in DOMAIN chunk : chunk[x].job # "done" => chunk[x].lc \in Chunks
  BY ChunkTypes DEF Chunk
<1>1. /\ DOMAIN chunk' = DOMAIN chunk \cup {o} /\ DOMAIN chunk = 1..Len(chunk)
      /\ Len(chunk) \in Nat
      /\ \A x \in DOMAIN chunk' : x # o => x \in DOMAIN chunk /\ chunk'[x] = chunk[x]
      /\ o \in DOMAIN chunk => chunk[o].job = "open" /\ chunk[o].lc = c /\ chunk[o].ref = 1
      /\ \A x \in DOMAIN chunk : chunk[x].job = "open" /\ chunk[x].lc = c => x = o
      /\ writableChunks'[c] = o
      /\ \A d \in Chunks : d # c => writableChunks'[d] = writableChunks[d]
  <2>1. WritesChunk(c, span, o)
    BY WritesFacts
  <2> QED BY <2>1 DEF WritesChunk
<1>2. c \in Chunks /\ chunk'[o].lc = c /\ chunk'[o].ref = 1 /\ chunk'[o].job = "open"
      /\ sealedChunks' = sealedChunks
  BY DEF Writes, WriteEnds
<1>3. \A d \in Chunks : writableChunks'[d] # 0 =>
          chunk'[writableChunks'[d]].job = "open" /\ chunk'[writableChunks'[d]].lc = d
  <2> SUFFICES ASSUME NEW d \in Chunks, d # c, writableChunks[d] # 0
               PROVE  chunk'[writableChunks[d]].job = "open" /\ chunk'[writableChunks[d]].lc = d
    BY <1>1, <1>2
  <2>1. PICK x \in DOMAIN chunk : x = writableChunks[d]
    BY <1>1 DEF PipeTypes
  <2>2. chunk[x].job = "open" /\ chunk[x].lc = d
    BY <2>1 DEF TableInv
  <2>3. x # o
    BY <1>1, <2>2
  <2> QED BY <1>1, <2>1, <2>2, <2>3
<1>4. \A x \in DOMAIN chunk' : chunk'[x].job = "open" => writableChunks'[chunk'[x].lc] = x
  <2> SUFFICES ASSUME NEW x \in DOMAIN chunk', x # o, chunk'[x].job = "open"
               PROVE  writableChunks'[chunk'[x].lc] = x
    BY <1>1, <1>2
  <2>1. x \in DOMAIN chunk /\ chunk'[x] = chunk[x] /\ chunk[x].lc \in Chunks /\ chunk[x].lc # c
    BY <1>0, <1>1
  <2> QED BY <1>1, <2>1 DEF TableInv
<1>5. \A d \in Chunks : sealedChunks'[d] # 0 =>
          /\ chunk'[sealedChunks'[d]].job \in Sealing
          /\ chunk'[sealedChunks'[d]].lc = d /\ chunk'[sealedChunks'[d]].ref = 1
  <2> SUFFICES ASSUME NEW d \in Chunks, sealedChunks[d] # 0
               PROVE  /\ chunk'[sealedChunks[d]].job \in Sealing
                      /\ chunk'[sealedChunks[d]].lc = d /\ chunk'[sealedChunks[d]].ref = 1
    BY <1>2
  <2>1. PICK x \in DOMAIN chunk : x = sealedChunks[d]
    BY <1>1 DEF PipeTypes
  <2>2. chunk[x].job \in Sealing /\ chunk[x].lc = d /\ chunk[x].ref = 1
    BY <2>1 DEF TableInv
  <2>3. x # o
    BY <1>1, <2>2 DEF Sealing
  <2> QED BY <1>1, <2>1, <2>2, <2>3
<1> QED BY <1>3, <1>4, <1>5 DEF TableInv

\* The block of the write is that of no other chunk that holds a reference.
LEMMA WritesBlock ==
    ASSUME WriteTypes, PipeTypes, TableInv, SwapInv, NEW c, NEW span, NEW o, Writes(c, span, o)
    PROVE  /\ SwapInv'
           /\ \A x \in DOMAIN chunk : x # o /\ chunk[x].ref = 1 => chunk[x].block # chunk'[o].block
<1>1. /\ DOMAIN chunk' = DOMAIN chunk \cup {o} /\ DOMAIN chunk = 1..Len(chunk)
      /\ Len(chunk) \in Nat
      /\ \A x \in DOMAIN chunk' : x # o => x \in DOMAIN chunk /\ chunk'[x] = chunk[x]
  <2>1. WritesChunk(c, span, o)
    BY WritesFacts
  <2> QED BY <2>1 DEF WritesChunk
<1>2. swap.free \in Seq(Nat) /\ swap.active \in Int /\ swap.block \in Seq(Content)
  BY DEF PipeTypes
<1>3. Len(swap.free) \in Nat /\ DOMAIN swap.free = 1..Len(swap.free) /\ Len(swap.block) \in Nat
  BY <1>2
<1>6. Len(swap.block) = swap.active + Len(swap.free) /\ Len(swap.block) <= Len(chunk)
  BY DEF SwapInv
<1>4. CASE WritesOpen(c, span, o)
  <2>1. /\ chunk[o].ref = 1 /\ chunk'[o].block = chunk[o].block /\ DOMAIN chunk' = DOMAIN chunk
        /\ Len(chunk') = Len(chunk) /\ chunk'[o].ref = 1 /\ o \in DOMAIN chunk
        /\ swap'.free = swap.free /\ swap'.active = swap.active /\ Len(swap'.block) = Len(swap.block)
    BY <1>4 DEF WritesOpen, Writes
  <2>2. \A x \in DOMAIN chunk : chunk'[x].ref = chunk[x].ref /\ chunk'[x].block = chunk[x].block
    BY <1>1, <2>1
  <2>3. SwapInv'
    BY <2>1, <2>2 DEF SwapInv
  <2> QED BY <2>1, <2>3 DEF SwapInv
<1>5. CASE WritesNew(c, span, o)
  <2>1. PICK b : b = chunk'[o].block
    OBVIOUS
  <2>2. /\ Len(chunk') = Len(chunk) + 1 /\ o \notin DOMAIN chunk /\ swap'.active = swap.active + 1
    BY <1>5 DEF WritesNew
  <2>3. \A x \in DOMAIN chunk' : chunk'[x].ref = 1 =>
           (x = o /\ chunk'[x].block = b) \/
           (x \in DOMAIN chunk /\ chunk[x].ref = 1 /\ chunk'[x].block = chunk[x].block)
    BY <1>1, <2>1
  <2>4. CASE swap.free # <<>>
    <3>1. b = Head(swap.free) /\ swap'.free = Tail(swap.free) /\ Len(swap'.block) = Len(swap.block)
      BY <1>5, <2>1, <2>4 DEF WritesNew
    <3>2. b = swap.free[1] /\ 1 \in DOMAIN swap.free
      BY <1>2, <2>4, <3>1
    <3>3. /\ Len(swap'.free) = Len(swap.free) - 1 /\ DOMAIN swap'.free = 1..(Len(swap.free) - 1)
          /\ \A i \in DOMAIN swap'.free : i + 1 \in DOMAIN swap.free /\ swap'.free[i] = swap.free[i + 1]
      BY <1>2, <2>4, <3>1
    <3>4. b \in 1..Len(swap.block) /\ \A i \in DOMAIN swap'.free : swap'.free[i] # b
      <4>1. \A i \in DOMAIN swap'.free : i + 1 # 1
        BY <1>3, <3>3
      <4> QED BY <3>2, <3>3, <4>1 DEF SwapInv
    <3>5. \A x \in DOMAIN chunk : chunk[x].ref = 1 => chunk[x].block # b
      BY <3>2 DEF SwapInv
    <3>6. Len(swap'.block) = swap'.active + Len(swap'.free) /\ Len(swap'.block) <= Len(chunk')
      <4>1. Len(swap'.block) = Len(swap.block) /\ Len(swap'.free) = Len(swap.free) - 1
        BY <3>1, <3>3
      <4>2. Len(chunk) \in Nat
        BY <1>1
      <4> QED BY <1>2, <1>3, <1>6, <2>2, <4>1, <4>2
    <3>7. \A x \in DOMAIN chunk' : chunk'[x].block <= Len(swap'.block)
      <4> SUFFICES ASSUME NEW x \in DOMAIN chunk'
                   PROVE  chunk'[x].block <= Len(swap.block)
        BY <3>1
      <4>1. CASE x = o
        BY <1>3, <2>1, <3>4, <4>1
      <4>2. CASE x # o
        BY <1>1, <4>2 DEF SwapInv
      <4> QED BY <4>1, <4>2
    <3>8. \A i \in DOMAIN swap'.free : swap'.free[i] \in 1..Len(swap'.block)
      BY <3>1, <3>3 DEF SwapInv
    <3>9. \A i, k \in DOMAIN swap'.free : swap'.free[i] = swap'.free[k] => i = k
      <4> SUFFICES ASSUME NEW i \in DOMAIN swap'.free, NEW k \in DOMAIN swap'.free,
                          swap'.free[i] = swap'.free[k]
                   PROVE  i = k
        OBVIOUS
      <4>1. swap.free[i + 1] = swap.free[k + 1] /\ i + 1 \in DOMAIN swap.free /\ k + 1 \in DOMAIN swap.free
        BY <3>3
      <4>2. i + 1 = k + 1
        BY <4>1 DEF SwapInv
      <4> QED BY <1>3, <3>3, <4>2
    <3>10. \A x, y \in DOMAIN chunk' : chunk'[x].ref = 1 /\ chunk'[y].ref = 1
                                       /\ chunk'[x].block = chunk'[y].block => x = y
      BY <2>3, <3>5 DEF SwapInv
    <3>11. \A x \in DOMAIN chunk', i \in DOMAIN swap'.free :
              chunk'[x].ref = 1 => chunk'[x].block # swap'.free[i]
      BY <2>3, <3>3, <3>4 DEF SwapInv
    <3>12. SwapInv'
      BY <3>6, <3>7, <3>8, <3>9, <3>10, <3>11 DEF SwapInv
    <3> QED BY <2>1, <3>5, <3>12
  <2>5. CASE swap.free = <<>>
    <3>1. b = Len(swap.block) + 1 /\ swap'.free = <<>> /\ Len(swap'.block) = Len(swap.block) + 1
      BY <1>5, <2>1, <2>5 DEF WritesNew
    <3>2. Len(swap.free) = 0 /\ Len(swap'.free) = 0 /\ DOMAIN swap'.free = {}
      BY <2>5, <3>1
    <3>3. \A x \in DOMAIN chunk : chunk[x].ref = 1 => chunk[x].block \in Nat
      BY ChunkTypes DEF Chunk
    <3>5. \A x \in DOMAIN chunk : chunk[x].ref = 1 => chunk[x].block # b /\ chunk[x].block <= b
      BY <1>3, <3>1, <3>3 DEF SwapInv
    <3>6. Len(swap'.block) = swap'.active + Len(swap'.free) /\ Len(swap'.block) <= Len(chunk')
      BY <1>1, <1>2, <1>3, <1>6, <2>2, <3>1, <3>2
    <3>7. \A x \in DOMAIN chunk' : chunk'[x].block <= Len(swap'.block)
      <4> SUFFICES ASSUME NEW x \in DOMAIN chunk'
                   PROVE  chunk'[x].block <= Len(swap.block) + 1
        BY <3>1
      <4>1. CASE x = o
        <5>1. chunk'[x].block = Len(swap.block) + 1
          BY <2>1, <3>1, <4>1
        <5> QED BY <1>3, <5>1
      <4>2. CASE x # o
        <5>1. chunk'[x].block = chunk[x].block /\ chunk[x].block <= Len(swap.block)
          BY <1>1, <4>2 DEF SwapInv
        <5>2. chunk[x].block \in Nat
          BY <1>1, <4>2, ChunkTypes DEF Chunk, Done
        <5> QED BY <1>3, <5>1, <5>2
      <4> QED BY <4>1, <4>2
    <3>10. \A x, y \in DOMAIN chunk' : chunk'[x].ref = 1 /\ chunk'[y].ref = 1
                                       /\ chunk'[x].block = chunk'[y].block => x = y
      BY <2>3, <3>5 DEF SwapInv
    <3>12. SwapInv'
      BY <3>2, <3>6, <3>7, <3>10 DEF SwapInv
    <3> QED BY <2>1, <3>5, <3>12
  <2> QED BY <2>4, <2>5
<1> QED BY <1>4, <1>5 DEF Writes

\* A write leaves the data of other chunks alone, their blocks being others.
LEMMA WritesData ==
    ASSUME WriteTypes, PipeTypes, TableInv, SwapInv, RefInv, DataInv,
           NEW c, NEW span, NEW o, Writes(c, span, o)
    PROVE  RefInv' /\ DataInv'
<1>1. WritesChunk(c, span, o)
  BY WritesFacts
<1>2. /\ \A x \in DOMAIN chunk' : x # o => x \in DOMAIN chunk /\ chunk'[x] = chunk[x]
      /\ \A p \in span : chunk'[o].written[p] = Len(writes) + 1
      /\ span \subseteq Pages
  BY <1>1 DEF WritesChunk, Writes
<1>3. chunk'[o].ref = 1 /\ chunk'[o].job = "open" /\ mishap' = mishap
  BY DEF Writes, WriteEnds
<1>4. RefInv'
  BY <1>2, <1>3 DEF RefInv
<1>5. PICK b : b = chunk'[o].block
  OBVIOUS
<1>6. /\ \A i \in DOMAIN swap.block : i # b => swap'.block[i] = swap.block[i]
      /\ \A p \in span : swap'.block[b][p] = Len(writes) + 1
  BY <1>5 DEF Writes, SwapWritten
<1>7. DataInv'
  <2> SUFFICES ASSUME NEW x \in DOMAIN chunk', NEW p \in Pages,
                      chunk'[x].ref = 1, chunk'[x].written[p] # 0
               PROVE  swap'.block[chunk'[x].block][p] = chunk'[x].written[p]
    BY DEF DataInv
  <2>1. CASE x # o
    <3>1. x \in DOMAIN chunk /\ chunk'[x] = chunk[x] /\ chunk[x].ref = 1
      BY <1>2, <2>1
    <3>2. chunk[x].block # b
      BY <1>5, <2>1, <3>1, WritesBlock
    <3>3. chunk[x].block \in DOMAIN swap.block
      <4>1. chunk[x].block \in 1..MaxWrites /\ chunk[x].block <= Len(swap.block)
        BY <3>1, ChunkTypes DEF Chunk, SwapInv
      <4>2. swap.block \in Seq(Content)
        BY DEF PipeTypes
      <4>3. DOMAIN swap.block = 1..Len(swap.block) /\ Len(swap.block) \in Nat
        BY <4>2
      <4> QED BY <4>1, <4>3, PipelineAssumption
    <3>4. swap.block[chunk[x].block][p] = chunk[x].written[p]
      BY <3>1 DEF DataInv
    <3> QED BY <1>6, <3>1, <3>2, <3>3, <3>4
  <2>2. CASE x = o /\ p \in span
    BY <1>2, <1>5, <1>6, <2>2
  <2>3. CASE x = o /\ p \notin span
    <3>1. CASE WritesOpen(c, span, o)
      <4>1. chunk'[o].written[p] = chunk[o].written[p]
        BY <2>3, <3>1 DEF WritesOpen, Put
      <4>2. swap'.block[b][p] = swap.block[b][p] /\ b = chunk[o].block /\ o \in DOMAIN chunk
            /\ chunk[o].ref = 1
        BY <1>5, <2>3, <3>1 DEF WritesOpen, Put
      <4> QED BY <1>5, <2>3, <4>1, <4>2 DEF DataInv
    <3>2. CASE WritesNew(c, span, o)
      BY <2>3, <3>2 DEF WritesNew, Put, Zero
    <3> QED BY <3>1, <3>2 DEF Writes
  <2> QED BY <2>1, <2>2, <2>3
<1> QED BY <1>4, <1>7

\* The new write is later than all others.
LEMMA WritesOrder ==
    ASSUME WriteTypes, PipeTypes, TableInv, WrittenInv, OrderInv,
           NEW c, NEW span, NEW o, Writes(c, span, o)
    PROVE  WrittenInv' /\ OrderInv'
<1>0. PICK n : n = Len(writes)
  OBVIOUS
<1>1. WritesChunk(c, span, o)
  BY WritesFacts
<1>2. /\ \A x \in DOMAIN chunk' : x # o => x \in DOMAIN chunk /\ chunk'[x] = chunk[x]
      /\ \A p \in span : chunk'[o].written[p] = n + 1
      /\ span \subseteq Pages
      /\ DOMAIN chunk' = DOMAIN chunk \cup {o} /\ DOMAIN chunk = 1..Len(chunk) /\ Len(chunk) \in Nat
      /\ \A p \in Pages \ span : chunk'[o].written[p] = 0
           \/ (o \in DOMAIN chunk /\ chunk'[o].written[p] = chunk[o].written[p])
      /\ o \in DOMAIN chunk => chunk[o].job = "open" /\ chunk[o].lc = c
  BY <1>0, <1>1 DEF WritesChunk, Writes
<1>3. chunk'[o].lc = c /\ chunk'[o].job = "open"
  BY DEF Writes
<1>4. /\ DOMAIN writes' = 1..(n + 1) /\ DOMAIN writes = 1..n /\ n \in Nat
      /\ \A i \in 1..n : writes'[i] = writes[i]
      /\ writes'[n + 1].lc = c /\ writes'[n + 1].span = span
  <2>1. writes'[n + 1] = [lc |-> c, span |-> span] /\ DOMAIN writes' = 1..(n + 1)
        /\ \A i \in 1..n : writes'[i] = writes[i]
    BY <1>0, WritesTypes
  <2>2. DOMAIN writes = 1..n /\ n \in Nat
    BY <1>0 DEF WriteTypes
  <2> QED BY <2>1, <2>2
<1>5. \A d, p, v : IsWrite(d, p, v) => IsWrite(d, p, v)'
  BY <1>4 DEF IsWrite
<1>6. \A x \in DOMAIN chunk : chunk[x].job # "done" =>
         \A p \in Pages : chunk[x].written[p] # 0 => chunk[x].written[p] \in 1..n
  BY <1>4 DEF WrittenInv, Live, IsWrite
<1>7. \A p \in span : IsWrite(c, p, n + 1)'
  BY <1>4 DEF IsWrite
<1>8. WrittenInv'
  <2> SUFFICES ASSUME NEW x \in DOMAIN chunk', NEW p \in Pages, chunk'[x].job # "done"
               PROVE  IsWrite(chunk[x].lc, p, chunk[x].written[p])'
    BY DEF WrittenInv, Live
  <2>1. PICK d, v : d = chunk'[x].lc /\ v = chunk'[x].written[p]
    OBVIOUS
  <2>2. CASE x # o
    <3>1. x \in DOMAIN chunk /\ chunk'[x] = chunk[x]
      BY <1>2, <2>2
    <3>2. IsWrite(d, p, v)
      BY <2>1, <3>1 DEF WrittenInv, Live
    <3> QED BY <1>5, <2>1, <3>2 DEF IsWrite
  <2>3. CASE x = o /\ p \in span
    BY <1>2, <1>3, <1>7, <2>3 DEF IsWrite
  <2>4. CASE x = o /\ p \notin span
    <3>1. CASE v = 0
      BY <2>1, <3>1 DEF IsWrite
    <3>2. CASE o \in DOMAIN chunk /\ v = chunk[o].written[p]
      <4>1. IsWrite(d, p, v)
        BY <1>2, <1>3, <2>1, <2>4, <3>2 DEF WrittenInv, Live
      <4> QED BY <1>5, <2>1, <4>1 DEF IsWrite
    <3> QED BY <1>2, <2>1, <2>4, <3>1, <3>2
  <2> QED BY <2>2, <2>3, <2>4
<1>9. OrderInv'
  <2> SUFFICES ASSUME NEW o1 \in DOMAIN chunk', NEW o2 \in DOMAIN chunk',
                      chunk'[o1].job # "done", chunk'[o2].job # "done", chunk'[o1].lc = chunk'[o2].lc
               PROVE  /\ o1 < o2 => Before(o1, o2)'
                      /\ chunk'[o2].job = "open" => o1 <= o2
    BY DEF OrderInv, Live
  <2>1. CASE o1 # o /\ o2 # o
    <3>1. o1 \in DOMAIN chunk /\ o2 \in DOMAIN chunk /\ chunk'[o1] = chunk[o1] /\ chunk'[o2] = chunk[o2]
      BY <1>2, <2>1
    <3> QED BY <3>1 DEF OrderInv, Live, Before
  <2>2. CASE o1 # o /\ o2 = o
    <3>1. o1 \in DOMAIN chunk /\ chunk'[o1] = chunk[o1] /\ chunk[o1].job # "done" /\ chunk[o1].lc = c
      BY <1>2, <1>3, <2>2
    <3>2. o1 <= o
      <4>1. CASE o \in DOMAIN chunk
        BY <1>2, <3>1, <4>1 DEF OrderInv, Live
      <4>2. CASE o \notin DOMAIN chunk
        <5>1. WritesNew(c, span, o)
          BY <4>2 DEF Writes, WritesOpen
        <5> QED BY <1>2, <3>1, <5>1 DEF WritesNew
      <4> QED BY <4>1, <4>2
    <3>3. Before(o1, o)'
      <4> SUFFICES ASSUME NEW p \in Pages, NEW q \in Pages, chunk'[o1].written[p] # 0,
                          chunk'[o].written[q] # 0
                   PROVE  chunk'[o1].written[p] < chunk'[o].written[q]
        BY DEF Before
      <4>1. chunk[o1].written[p] \in 1..n /\ chunk'[o1].written[p] = chunk[o1].written[p]
        BY <1>6, <3>1
      <4>2. CASE q \in span
        BY <1>2, <1>4, <4>1, <4>2
      <4>3. CASE q \notin span
        <5>1. o \in DOMAIN chunk /\ chunk'[o].written[q] = chunk[o].written[q]
          BY <1>2, <4>3
        <5>2. o1 < o
          BY <1>2, <2>2, <3>1, <3>2, <5>1
        <5>3. Before(o1, o)
          BY <1>2, <3>1, <5>1, <5>2 DEF OrderInv, Live
        <5> QED BY <4>1, <5>1, <5>3 DEF Before
      <4> QED BY <4>2, <4>3
    <3> QED BY <2>2, <3>2, <3>3
  <2>3. CASE o1 = o /\ o2 # o
    <3>1. o2 \in DOMAIN chunk /\ chunk'[o2] = chunk[o2] /\ chunk[o2].job # "done" /\ chunk[o2].lc = c
      BY <1>2, <1>3, <2>3
    <3>2. o2 < o
      <4>1. CASE o \in DOMAIN chunk
        <5>1. o2 <= o
          BY <1>2, <3>1, <4>1 DEF OrderInv, Live
        <5> QED BY <1>2, <2>3, <3>1, <4>1, <5>1
      <4>2. CASE o \notin DOMAIN chunk
        <5>1. WritesNew(c, span, o)
          BY <4>2 DEF Writes, WritesOpen
        <5> QED BY <1>2, <3>1, <5>1 DEF WritesNew
      <4> QED BY <4>1, <4>2
    <3>3. o \in Nat /\ o2 \in Nat
      BY <1>2, <3>1 DEF Writes
    <3>4. chunk[o2].job # "open"
      <4>1. \A x \in DOMAIN chunk : chunk[x].job = "open" /\ chunk[x].lc = c => x = o
        BY <1>1 DEF WritesChunk
      <4> QED BY <2>3, <3>1, <4>1
    <3> QED BY <2>3, <3>1, <3>2, <3>3, <3>4
  <2>4. CASE o1 = o /\ o2 = o
    BY <2>4 DEF Writes
  <2> QED BY <2>1, <2>2, <2>3, <2>4
<1> QED BY <1>8, <1>9

-----------------------------------------------------------------------------
(* Jobs that sleep, and the counts *)

\* The jobs that sleep are the same.
LEMMA SleepSame ==
    ASSUME SleepInv, sleeping' = sleeping,
           \A x \in DOMAIN chunk : chunk[x].job = "asleep" => x \in DOMAIN chunk' /\ chunk'[x].job = "asleep"
    PROVE  SleepInv'
BY DEF SleepInv

\* One job more goes to sleep; it did not sleep before.
LEMMA SleepLonger ==
    ASSUME PipeTypes, SleepInv, NEW o \in DOMAIN chunk, chunk[o].job = "saved", Rejobs(o, "asleep"),
           sleeping' = Append(sleeping, o)
    PROVE  SleepInv'
<1>1. sleeping \in Seq(Nat) /\ o \in Nat
  BY ChunkTypes DEF SleepInv
<1>2. /\ sleeping' \in Seq(Nat) /\ DOMAIN sleeping' = 1..(Len(sleeping) + 1)
      /\ DOMAIN sleeping = 1..Len(sleeping) /\ Len(sleeping) \in Nat
      /\ sleeping'[Len(sleeping) + 1] = o
      /\ \A i \in DOMAIN sleeping : sleeping'[i] = sleeping[i]
  BY <1>1
<1>3. \A i \in DOMAIN sleeping' : i \in DOMAIN sleeping \/ i = Len(sleeping) + 1
  BY <1>2
<1>4. \A i \in DOMAIN sleeping : sleeping[i] # o /\ sleeping[i] \in DOMAIN chunk
                                 /\ chunk[sleeping[i]].job = "asleep"
  BY DEF SleepInv
<1>5. DOMAIN chunk' = DOMAIN chunk /\ chunk'[o].job = "asleep"
      /\ \A x \in DOMAIN chunk : x # o => chunk'[x].job = chunk[x].job
  BY DEF Rejobs, SameData, SameDomain
<1>6. \A i \in DOMAIN sleeping' : sleeping'[i] \in DOMAIN chunk' /\ chunk'[sleeping'[i]].job = "asleep"
  <2> TAKE i \in DOMAIN sleeping'
  <2>1. CASE i \in DOMAIN sleeping
    <3>1. PICK x : x = sleeping[i] /\ x = sleeping'[i]
      BY <1>2, <2>1
    <3>2. x # o /\ x \in DOMAIN chunk /\ chunk[x].job = "asleep"
      BY <1>4, <2>1, <3>1
    <3> QED BY <1>5, <3>1, <3>2
  <2>2. CASE i = Len(sleeping) + 1
    BY <1>2, <1>5, <2>2
  <2> QED BY <1>3, <2>1, <2>2
<1>7. \A i, j \in DOMAIN sleeping' : sleeping'[i] = sleeping'[j] => i = j
  <2>1. \A i, j \in DOMAIN sleeping : sleeping[i] = sleeping[j] => i = j
    BY DEF SleepInv
  <2> QED BY <1>2, <1>3, <1>4, <2>1
<1> QED BY <1>2, <1>6, <1>7 DEF SleepInv

\* The oldest job that sleeps is woken.
LEMMA SleepShorter ==
    ASSUME PipeTypes, SleepInv, sleeping # <<>>, Rejobs(Head(sleeping), "saved"),
           sleeping' = Tail(sleeping)
    PROVE  SleepInv'
<1>1. sleeping \in Seq(Nat)
  BY DEF SleepInv
<1>2. PICK o : o = Head(sleeping)
  OBVIOUS
<1>3. /\ o = sleeping[1] /\ 1 \in DOMAIN sleeping /\ sleeping' \in Seq(Nat)
      /\ DOMAIN sleeping' = 1..(Len(sleeping) - 1) /\ DOMAIN sleeping = 1..Len(sleeping)
      /\ Len(sleeping) \in Nat
      /\ \A i \in DOMAIN sleeping' : i + 1 \in DOMAIN sleeping /\ sleeping'[i] = sleeping[i + 1]
  BY <1>1, <1>2
<1>4. \A i \in DOMAIN sleeping' : i + 1 # 1
  BY <1>3
<1>5. /\ \A i, j \in DOMAIN sleeping : sleeping[i] = sleeping[j] => i = j
      /\ \A i \in DOMAIN sleeping : sleeping[i] \in DOMAIN chunk /\ chunk[sleeping[i]].job = "asleep"
  BY DEF SleepInv
<1>6. DOMAIN chunk' = DOMAIN chunk /\ \A x \in DOMAIN chunk : x # o => chunk'[x].job = chunk[x].job
  BY <1>2 DEF Rejobs, SameData, SameDomain
<1>7. \A i \in DOMAIN sleeping' : sleeping'[i] \in DOMAIN chunk' /\ chunk'[sleeping'[i]].job = "asleep"
  BY <1>3, <1>4, <1>5, <1>6
<1>8. \A i, j \in DOMAIN sleeping' : sleeping'[i] = sleeping'[j] => i = j
  <2> SUFFICES ASSUME NEW i \in DOMAIN sleeping', NEW j \in DOMAIN sleeping', sleeping'[i] = sleeping'[j]
               PROVE  i = j
    OBVIOUS
  <2>1. i + 1 = j + 1
    BY <1>3, <1>5
  <2> QED BY <1>3, <2>1
<1> QED BY <1>3, <1>7, <1>8 DEF SleepInv

\* Jobs are finitely many, one for a chunk at most.
LEMMA CountTypes ==
    ASSUME PipeTypes
    PROVE  /\ IsFiniteSet(Pending) /\ IsFiniteSet(Running)
           /\ Cardinality(Pending) \in 0..Len(chunk) /\ Cardinality(Running) \in Nat
<1>1. DOMAIN chunk = 1..Len(chunk) /\ Len(chunk) \in Nat
  BY DEF PipeTypes
<1>2. IsFiniteSet(1..Len(chunk)) /\ Cardinality(1..Len(chunk)) = Len(chunk)
  <2>1. PICK n \in Nat : n = Len(chunk)
    BY <1>1
  <2>2. IsFiniteSet(1..n) /\ Cardinality(1..n) = IF 1 > n THEN 0 ELSE n - 1 + 1
    BY FS_Interval
  <2> QED BY <2>1, <2>2
<1>3. Pending \in SUBSET (1..Len(chunk)) /\ Running \in SUBSET (1..Len(chunk))
  BY <1>1 DEF Pending, Running
<1>4. IsFiniteSet(Pending) /\ Cardinality(Pending) <= Len(chunk) /\ IsFiniteSet(Running)
  BY <1>2, <1>3, FS_Subset
<1>5. Cardinality(Pending) \in Nat /\ Cardinality(Running) \in Nat
  BY <1>4, FS_CardinalityType
<1> QED BY <1>1, <1>4, <1>5

LEMMA CountSame ==
    ASSUME CountInv, Pending' = Pending, Running' = Running, uploaderCount' = uploaderCount
    PROVE  CountInv'
BY DEF CountInv

\* A seal announces one upload...
LEMMA CountSeals ==
    ASSUME PipeTypes, CountInv, NEW o, NEW c, NEW old, Seals(o, c, old)
    PROVE  CountInv'
<1>1. DOMAIN chunk' = DOMAIN chunk /\ o \in DOMAIN chunk /\ chunk[o].job = "open"
      /\ \A x \in DOMAIN chunk : chunk'[x].job = IF x = o THEN "token" ELSE chunk[x].job
  BY DEF Seals, SameData, SameDomain
<1>2. Pending' = Pending \cup {o} /\ o \notin Pending
  BY <1>1 DEF Pending
<1>3. Running' = Running
  BY <1>1 DEF Running
<1>4. Cardinality(Pending') = Cardinality(Pending) + 1
  BY <1>2, CountTypes, FS_AddElement
<1>5. uploaderCount' = uploaderCount + 1
  BY DEF Seals
<1> QED BY <1>3, <1>4, <1>5 DEF CountInv

\* ... a token starts it...
LEMMA CountExecute ==
    ASSUME PipeTypes, CountInv, NEW o \in DOMAIN chunk, chunk[o].job = "token", Rejobs(o, "ready"),
           Cardinality(Running) < ConcurrentWriters, uploaderCount' = uploaderCount
    PROVE  CountInv'
<1>1. DOMAIN chunk' = DOMAIN chunk
      /\ \A x \in DOMAIN chunk : chunk'[x].job = IF x = o THEN "ready" ELSE chunk[x].job
  BY DEF Rejobs, SameData, SameDomain
<1>2. Pending' = Pending
  BY <1>1 DEF Pending
<1>3. Running' = Running \cup {o} /\ o \notin Running
  BY <1>1 DEF Running
<1>4. Cardinality(Running') = Cardinality(Running) + 1 /\ Cardinality(Running) \in Nat
  BY <1>3, CountTypes, FS_AddElement
<1>5. Cardinality(Running') <= ConcurrentWriters
  BY <1>4, PipelineAssumption
<1> QED BY <1>2, <1>5 DEF CountInv

\* ... it ends once, well or not...
LEMMA CountSaved ==
    ASSUME PipeTypes, CountInv, NEW o \in DOMAIN chunk, chunk[o].job = "ready", Rejobs(o, "saved"),
           uploaderCount' = uploaderCount - 1
    PROVE  CountInv'
<1>1. DOMAIN chunk' = DOMAIN chunk
      /\ \A x \in DOMAIN chunk : chunk'[x].job = IF x = o THEN "saved" ELSE chunk[x].job
  BY DEF Rejobs, SameData, SameDomain
<1>2. Running' = Running
  BY <1>1 DEF Running
<1>3. Pending' = Pending \ {o} /\ o \in Pending
  BY <1>1 DEF Pending
<1>4. Cardinality(Pending') = Cardinality(Pending) - 1
  BY <1>3, CountTypes, FS_RemoveElement
<1> QED BY <1>2, <1>4 DEF CountInv

\* ... and the token goes back.
LEMMA CountRemoved ==
    ASSUME PipeTypes, CountInv, NEW o \in DOMAIN chunk, chunk[o].job = "saved", Removes(o),
           uploaderCount' = uploaderCount
    PROVE  CountInv'
<1>1. DOMAIN chunk' = DOMAIN chunk
      /\ \A x \in DOMAIN chunk : chunk'[x].job = IF x = o THEN "done" ELSE chunk[x].job
  BY DEF Removes, SameDomain, Done
<1>2. Pending' = Pending
  BY <1>1 DEF Pending
<1>3. Running' = Running \ {o} /\ o \in Running
  BY <1>1 DEF Running
<1>4. Cardinality(Running') = Cardinality(Running) - 1 /\ Cardinality(Running) \in Nat
  BY <1>3, CountTypes, FS_RemoveElement
<1>5. Cardinality(Running') <= ConcurrentWriters
  BY <1>4, PipelineAssumption DEF CountInv
<1> QED BY <1>2, <1>5 DEF CountInv

\* A write announces none.
LEMMA CountWrites ==
    ASSUME WriteTypes, PipeTypes, TableInv, CountInv, SleepInv,
           NEW c, NEW span, NEW o, Writes(c, span, o)
    PROVE  CountInv' /\ SleepInv'
<1>1. WritesChunk(c, span, o)
  BY WritesFacts
<1>2. /\ \A x \in DOMAIN chunk' : x # o => x \in DOMAIN chunk /\ chunk'[x] = chunk[x]
      /\ DOMAIN chunk' = DOMAIN chunk \cup {o}
      /\ o \in DOMAIN chunk => chunk[o].job = "open"
  BY <1>1 DEF WritesChunk
<1>3. chunk'[o].job = "open" /\ uploaderCount' = uploaderCount /\ sleeping' = sleeping
  BY DEF Writes, WriteEnds
<1>4. Pending' = Pending
  BY <1>2, <1>3 DEF Pending
<1>5. Running' = Running
  BY <1>2, <1>3 DEF Running
<1>6. SleepInv'
  BY <1>2, <1>3, SleepSame
<1> QED BY <1>3, <1>4, <1>5, <1>6, CountSame

-----------------------------------------------------------------------------
(* What an upload adds to a file *)

\* What an upload makes of the pages of a file.
LEMMA AddChunkIs ==
    ASSUME PipeTypes, SwapInv, NEW o \in DOMAIN chunk, chunk[o].job # "done",
           NEW content \in FileContent
    PROVE  /\ AddChunk(content, o) \in FileContent
           /\ \A d \in Chunks : d # chunk[o].lc => AddChunk(content, o)[d] = content[d]
           /\ \A p \in Pages : AddChunk(content, o)[chunk[o].lc][p] =
                IF chunk[o].written[p] # 0 /\ SavedTs(chunk[o].written, p) >= content[chunk[o].lc][p].ts
                THEN [ts |-> SavedTs(chunk[o].written, p), val |-> swap.block[chunk[o].block][p]]
                ELSE content[chunk[o].lc][p]
<1>1. chunk[o] \in Chunk
  BY ChunkTypes
<1>2. PICK c \in Chunks, w \in Content, b \in 1..MaxWrites :
        c = chunk[o].lc /\ w = chunk[o].written /\ b = chunk[o].block
  BY <1>1 DEF Chunk
<1>3. swap.block[b] \in Content
  <2>1. swap.block \in Seq(Content)
    BY DEF PipeTypes
  <2>2. b \in 1..Len(swap.block)
    BY <1>2, <2>1 DEF SwapInv
  <2> QED BY <2>1, <2>2
<1>4. \A p \in Pages : swap.block[b][p] \in Nat
  BY <1>3, PipelineAssumption DEF Content
<1>5. \A p \in Pages : w[p] # 0 => SavedTs(w, p) \in Nat
  BY SavedTsIs
<1> DEFINE page(p) == IF w[p] # 0 /\ SavedTs(w, p) >= content[c][p].ts
                      THEN [ts |-> SavedTs(w, p), val |-> swap.block[b][p]] ELSE content[c][p]
           new == [p \in Pages |-> page(p)]
<1>6. AddChunk(content, o) = [content EXCEPT ![c] = new]
  BY <1>2 DEF AddChunk
<1>7. \A p \in Pages : page(p) \in [ts : Nat, val : Nat]
  BY <1>4, <1>5 DEF FileContent
<1>8. new \in [Pages -> [ts : Nat, val : Nat]] /\ \A p \in Pages : new[p] = page(p)
  <2> HIDE DEF page
  <2> QED BY <1>7
<1> HIDE DEF new
<1>9. /\ AddChunk(content, o) \in FileContent /\ AddChunk(content, o)[c] = new
      /\ \A d \in Chunks : d # c => AddChunk(content, o)[d] = content[d]
  BY <1>6, <1>8 DEF FileContent
<1> QED BY <1>2, <1>8, <1>9

-----------------------------------------------------------------------------
(* The chunks through every kind of step *)

ChunkInv ==
    /\ WriteTypes /\ PipeTypes /\ TableInv /\ SleepInv /\ CountInv
    /\ SwapInv /\ RefInv /\ DataInv /\ WrittenInv /\ OrderInv

\* The chunks after a write...
LEMMA ChunkWrites ==
    ASSUME ChunkInv, NEW c, NEW span, NEW o, Writes(c, span, o)
    PROVE  ChunkInv'
BY WritesTypes, WritesTable, WritesBlock, WritesData, WritesOrder, CountWrites DEF ChunkInv

\* ... after a seal...
LEMMA ChunkSeals ==
    ASSUME ChunkInv, NEW o, NEW c, NEW old, Seals(o, c, old), UNCHANGED handleVars
    PROVE  ChunkInv' /\ MishapGrows
<1>1. WriteTypes'
  BY DEF ChunkInv, WriteTypes, handleVars, Seals, SameData, SameDomain
<1>2. SleepInv'
  <2>1. sleeping' = sleeping /\ DOMAIN chunk' = DOMAIN chunk /\ chunk[o].job = "open"
        /\ \A x \in DOMAIN chunk : chunk'[x].job = IF x = o THEN "token" ELSE chunk[x].job
    BY DEF Seals, SameData, SameDomain
  <2> QED BY <2>1, SleepSame DEF ChunkInv
<1>3. writes' = writes
  BY DEF handleVars
<1> QED BY <1>1, <1>2, <1>3, SealsStruct, CountSeals DEF ChunkInv

\* The jobs of chunks go on without that any becomes open, is uploaded or is
\* removed.
StaysPut ==
    /\ SameData
    /\ \A x \in DOMAIN chunk : /\ chunk'[x].job = "open" <=> chunk[x].job = "open"
                               /\ chunk'[x].job = "done" <=> chunk[x].job = "done"
                               /\ chunk'[x].job \in {"token", "ready"} <=> chunk[x].job \in {"token", "ready"}
    /\ UNCHANGED <<writableChunks, sealedChunks, swap, writes>>

\* ... after a job got its token...
LEMMA ChunkExecute ==
    ASSUME ChunkInv, NEW o \in DOMAIN chunk, Execute(o), UNCHANGED handleVars
    PROVE  ChunkInv' /\ StaysPut
<1>1. Rejobs(o, "ready") /\ chunk[o].job = "token"
  BY RejobsIs DEF Execute, ChunkInv, Sealing
<1>2. UNCHANGED <<writableChunks, sealedChunks, swap, uploaderCount, sleeping, mishap, writes, dirty, lastErr>>
  BY DEF Execute, handleVars
<1>3. MishapGrows
  BY <1>2 DEF MishapGrows
<1>4. TableInv' /\ SwapInv' /\ RefInv' /\ DataInv' /\ WrittenInv' /\ OrderInv'
  BY <1>1, <1>2, <1>3, RejobStruct DEF ChunkInv, Sealing
<1>5. WriteTypes' /\ PipeTypes'
  BY <1>1, <1>2 DEF ChunkInv, WriteTypes, PipeTypes, Rejobs, SameData, SameDomain
<1>6. CountInv'
  BY <1>1, <1>2, CountExecute DEF ChunkInv, Execute
<1>7. SleepInv'
  BY <1>1, <1>2, SleepSame DEF ChunkInv, Rejobs, SameData, SameDomain
<1>8. StaysPut
  BY <1>1, <1>2 DEF StaysPut, Rejobs
<1> QED BY <1>4, <1>5, <1>6, <1>7, <1>8 DEF ChunkInv

\* An upload that has ended, well or not.
Saves(o) ==
    /\ o \in DOMAIN chunk /\ chunk[o].job = "ready" /\ Rejobs(o, "saved")
    /\ UNCHANGED <<writes, writableChunks, sealedChunks, swap, sleeping>>

\* ... after an upload, well or not...
LEMMA ChunkSaves ==
    ASSUME ChunkInv, NEW o, Saves(o), uploaderCount' = uploaderCount - 1, MishapGrows,
           mishap' \in [Chunks -> SUBSET {"lapped", "recycled", "overwritten", "unsent"}],
           dirty' = dirty, lastErr' \in BOOLEAN
    PROVE  ChunkInv'
<1>1. Rejobs(o, "saved") /\ chunk[o].job = "ready" /\ o \in DOMAIN chunk
  BY DEF Saves
<1>2. UNCHANGED <<writableChunks, sealedChunks, swap, sleeping, writes>>
  BY DEF Saves
<1>4. TableInv' /\ SwapInv' /\ RefInv' /\ DataInv' /\ WrittenInv' /\ OrderInv'
  BY <1>1, <1>2, RejobStruct DEF ChunkInv, Sealing
<1>5. WriteTypes' /\ PipeTypes'
  BY <1>1, <1>2 DEF ChunkInv, WriteTypes, PipeTypes, Rejobs, SameData, SameDomain
<1>6. CountInv'
  BY <1>1, CountSaved DEF ChunkInv
<1>7. SleepInv'
  BY <1>1, <1>2, SleepSame DEF ChunkInv, Rejobs, SameData, SameDomain
<1> QED BY <1>4, <1>5, <1>6, <1>7 DEF ChunkInv

\* ... after a removal...
LEMMA ChunkRemoves ==
    ASSUME ChunkInv, NEW o \in DOMAIN chunk, RemoveSealed(o)
    PROVE  ChunkInv' /\ Removes(o)
<1>1. /\ chunk[o].job = "saved" /\ chunk' = [chunk EXCEPT ![o] = Done]
      /\ sealedChunks' = [sealedChunks EXCEPT ![chunk[o].lc] = 0]
      /\ swap' = IF chunk[o].ref = 1 THEN FreeBlock(o) ELSE swap
      /\ UNCHANGED <<writes, dirty, lastErr, writableChunks, uploaderCount, sleeping, mishap>>
  BY DEF RemoveSealed, handleVars
<1>2. Removes(o)
  BY <1>1, RemovesIs DEF ChunkInv
<1>3. PipeTypes' /\ TableInv' /\ SwapInv' /\ RefInv' /\ DataInv' /\ WrittenInv' /\ OrderInv'
  BY <1>1, <1>2, RemovesStruct DEF ChunkInv
<1>4. CountInv'
  BY <1>1, <1>2, CountRemoved DEF ChunkInv
<1>5. SleepInv'
  <2>1. DOMAIN chunk' = DOMAIN chunk /\ \A x \in DOMAIN chunk : x # o => chunk'[x] = chunk[x]
    BY <1>2 DEF Removes, SameDomain
  <2> QED BY <1>1, <2>1, SleepSame DEF ChunkInv
<1>6. WriteTypes'
  BY <1>1, <1>2 DEF ChunkInv, WriteTypes, Removes, SameDomain
<1> QED BY <1>2, <1>3, <1>4, <1>5, <1>6 DEF ChunkInv

\* A job falls asleep or is woken.
LEMMA ChunkTurns ==
    ASSUME ChunkInv, NEW o \in DOMAIN chunk, NEW j, Rejobs(o, j),
           (chunk[o].job = "saved" /\ j = "asleep") \/ (chunk[o].job = "asleep" /\ j = "saved"),
           UNCHANGED <<writes, dirty, lastErr, writableChunks, sealedChunks, swap, uploaderCount, mishap>>,
           SleepInv'
    PROVE  ChunkInv' /\ StaysPut
<1>1. chunk[o].job \in Sealing /\ j \in Sealing /\ MishapGrows /\ ~(j \in {"token", "ready"})
  BY DEF Sealing, MishapGrows
<1>2. TableInv' /\ SwapInv' /\ RefInv' /\ DataInv' /\ WrittenInv' /\ OrderInv'
  BY <1>1, RejobStruct DEF ChunkInv
<1>3. WriteTypes' /\ PipeTypes'
  BY DEF ChunkInv, WriteTypes, PipeTypes, Rejobs, SameData, SameDomain
<1>4. StaysPut
  BY DEF StaysPut, Rejobs
<1>5. /\ DOMAIN chunk' = DOMAIN chunk /\ chunk'[o].job = j
      /\ \A x \in DOMAIN chunk : x # o => chunk'[x].job = chunk[x].job
  BY DEF Rejobs, SameData, SameDomain
<1>6. Pending' = Pending
  BY <1>5 DEF Pending
<1>7. Running' = Running
  BY <1>5 DEF Running
<1>8. CountInv'
  BY <1>6, <1>7, CountSame DEF ChunkInv
<1> QED BY <1>2, <1>3, <1>4, <1>8 DEF ChunkInv

\* ... after a job went to sleep...
LEMMA ChunkWaits ==
    ASSUME ChunkInv, NEW o \in DOMAIN chunk, WaitForReaders(o)
    PROVE  ChunkInv' /\ StaysPut
<1>1. /\ chunk[o].job = "saved" /\ chunk' = [chunk EXCEPT ![o].job = "asleep"]
      /\ sleeping' = Append(sleeping, o)
      /\ UNCHANGED <<writes, dirty, lastErr, writableChunks, sealedChunks, swap, uploaderCount, mishap>>
  BY DEF WaitForReaders, handleVars
<1>2. Rejobs(o, "asleep")
  BY <1>1, RejobsIs DEF ChunkInv, Sealing
<1>3. SleepInv'
  BY <1>1, <1>2, SleepLonger DEF ChunkInv
<1> QED BY <1>1, <1>2, <1>3, ChunkTurns

\* Steps that leave the chunks alone.
LEMMA ChunkSame ==
    ASSUME ChunkInv, UNCHANGED <<writes, pipeVars>>, MishapGrows,
           mishap' \in [Chunks -> SUBSET {"lapped", "recycled", "overwritten", "unsent"}],
           dirty' \in BOOLEAN, lastErr' \in BOOLEAN
    PROVE  ChunkInv' /\ StaysPut
<1>1. UNCHANGED <<writes, chunk, writableChunks, sealedChunks, swap, uploaderCount, sleeping>>
  BY DEF pipeVars
<1>2. StaysPut
  BY <1>1 DEF StaysPut, SameData, SameDomain, ChunkInv, PipeTypes
<1>3. WriteTypes' /\ PipeTypes'
  BY <1>1 DEF ChunkInv, WriteTypes, PipeTypes
<1>4. TableInv' /\ SleepInv' /\ CountInv' /\ SwapInv' /\ DataInv'
  <2>1. TableInv'
    BY <1>1 DEF ChunkInv, TableInv
  <2>2. SleepInv'
    BY <1>1 DEF ChunkInv, SleepInv
  <2>3. CountInv'
    BY <1>1 DEF ChunkInv, CountInv, Pending, Running
  <2>4. SwapInv'
    BY <1>1 DEF ChunkInv, SwapInv
  <2>5. DataInv'
    BY <1>1 DEF ChunkInv, DataInv
  <2> QED BY <2>1, <2>2, <2>3, <2>4, <2>5
<1>5. RefInv'
  <2>1. \A x \in DOMAIN chunk : chunk[x].job # "done" => chunk[x].lc \in Chunks
    BY ChunkTypes DEF ChunkInv, Chunk
  <2> QED BY <1>1, <2>1 DEF ChunkInv, RefInv, MishapGrows
<1>6. WrittenInv'
  BY <1>1 DEF ChunkInv, WrittenInv, Live, IsWrite
<1>7. OrderInv'
  BY <1>1 DEF ChunkInv, OrderInv, Live, Before
<1> QED BY <1>2, <1>3, <1>4, <1>5, <1>6, <1>7 DEF ChunkInv

\* ... and after a reader woke one.
LEMMA ChunkReads ==
    ASSUME ChunkInv, NEW r, MaybeReadDataAt(r)
    PROVE  ChunkInv' /\ StaysPut
<1>1. UNCHANGED <<writes, dirty, lastErr, writableChunks, sealedChunks, swap, uploaderCount, mishap>>
  BY DEF MaybeReadDataAt, handleVars
<1>2. CASE sleeping = <<>>
  <2>1. UNCHANGED <<chunk, sleeping>>
    BY <1>2 DEF MaybeReadDataAt
  <2>2. MishapGrows
    BY <1>1 DEF MishapGrows
  <2>3. UNCHANGED <<writes, pipeVars>>
    BY <1>1, <2>1 DEF pipeVars
  <2>4. /\ mishap' \in [Chunks -> SUBSET {"lapped", "recycled", "overwritten", "unsent"}]
        /\ dirty' \in BOOLEAN /\ lastErr' \in BOOLEAN
    BY <1>1 DEF ChunkInv, PipeTypes, WriteTypes
  <2> QED BY <2>2, <2>3, <2>4, ChunkSame
<1>3. CASE sleeping # <<>>
  <2>1. PICK o : o = Head(sleeping)
    OBVIOUS
  <2>2. sleeping' = Tail(sleeping) /\ chunk' = [chunk EXCEPT ![o].job = "saved"]
    BY <1>3, <2>1 DEF MaybeReadDataAt
  <2>3. o = sleeping[1] /\ 1 \in DOMAIN sleeping
    BY <1>3, <2>1 DEF ChunkInv, SleepInv
  <2>4. o \in DOMAIN chunk /\ chunk[o].job = "asleep"
    BY <2>3 DEF ChunkInv, SleepInv
  <2>5. Rejobs(o, "saved")
    BY <2>2, <2>4, RejobsIs DEF ChunkInv, Sealing
  <2>6. SleepInv'
    BY <1>3, <2>1, <2>2, <2>5, SleepShorter DEF ChunkInv
  <2> QED BY <1>1, <2>4, <2>5, <2>6, ChunkTurns
<1> QED BY <1>2, <1>3

-----------------------------------------------------------------------------
(* The kinds of steps *)

BaseInv == ChunkInv /\ ThreadTypes /\ WriterInv /\ SharedInv

Marked(c) == mishap[c] \cap {"lapped", "recycled", "overwritten"}

\* Nothing is written, sealed, uploaded or removed.
Quiet ==
    /\ StaysPut
    /\ lastErr' = lastErr /\ file'.group = file.group
    /\ mishap' \in [Chunks -> SUBSET {"lapped", "recycled", "overwritten", "unsent"}]
    /\ \A c \in Chunks : Marked(c)' = Marked(c)

WriteKind(c, span, o) ==
    /\ Writes(c, span, o)
    /\ writer.pc = "evict" \/ (~Exclusive /\ ~Shared)

\* The thread that seals: a write that has too many chunks or has completed one,
\* or a flush.
SealThread(o) ==
    \/ \E c \in Chunks, span \in SUBSET Pages :
         /\ ~Exclusive /\ ~Shared /\ Len(writes) < MaxWrites
         /\ writer' = [pc |-> "evict", lc |-> c, span |-> span, obj |-> o] /\ flush' = flush
    \/ writer.pc = "seal" /\ writer' = [writer EXCEPT !.pc = "submit"] /\ flush' = flush
    \/ \E f \in Flushers :
         /\ writer' = writer /\ ~ChunksLocked /\ flush[f].pc = "seal"
         /\ flush' = [flush EXCEPT ![f].obj = o, ![f].todo = @ \ {o}]

SealKind(o, c, old) ==
    /\ Seals(o, c, old)
    /\ UNCHANGED <<handleVars, file, reader>>
    /\ SealThread(o)

\* The threads leave all but their job alone.
Rests == UNCHANGED <<writes, dirty, lastErr, file, writer, reader, flush, mishap>>

FlushTurns(f) ==
    \/ FlushStarts(f) \/ FlushWaits(f) \/ FlushReturns(f) \/ CompactChunks(f) \/ FlushMetadata(f)
    \/ CreateEntry(f) \/ CreateEntryFails(f) \/ FlushDone(f)

ReaderTurns(r) == (\E c \in Reads : ReadFromChunks(r, c)) \/ MaybeReadDataAt(r) \/ UnlockForRead(r)

QuietStep ==
    \/ Rests \/ WriteReturns
    \/ \E r \in Readers : ReaderTurns(r)
    \/ \E f \in Threads : FlushTurns(f)

\* The chunks and the steps
Kinds ==
    \/ \E c \in Chunks, span \in SUBSET Pages, o \in Nat : WriteKind(c, span, o)
    \/ \E o \in DOMAIN chunk, c \in Chunks, old \in Nat : SealKind(o, c, old)
    \/ \E o \in DOMAIN chunk : SaveContent(o) /\ Saves(o)
    \/ \E o \in DOMAIN chunk : SaveFails(o) /\ Saves(o)
    \/ \E o \in DOMAIN chunk : RemoveSealed(o) /\ Removes(o)
    \/ Quiet /\ QuietStep

LEMMA WriteKinds ==
    ASSUME BaseInv, NEW c \in Chunks, NEW span \in SUBSET Pages, Len(writes) < MaxWrites,
           WriteDataAt(c, span), writer.pc = "evict" \/ (~Exclusive /\ ~Shared)
    PROVE  ChunkInv' /\ Kinds
<1>1. PICK o \in Nat : Writes(c, span, o)
  BY WritesIs DEF BaseInv, ChunkInv
<1> QED BY <1>1, ChunkWrites DEF BaseInv, Kinds, WriteKind

LEMMA SealKinds ==
    ASSUME BaseInv, NEW o \in DOMAIN chunk, chunk[o].job = "open", MoveToSealed(o),
           UNCHANGED <<handleVars, file, reader>>, SealThread(o)
    PROVE  ChunkInv' /\ Kinds
<1>1. PICK c, old : Seals(o, c, old)
  BY SealsIs DEF BaseInv, ChunkInv
<1>2. c \in Chunks /\ old \in Nat
  BY <1>1 DEF Seals
<1>3. SealKind(o, c, old)
  BY <1>1 DEF SealKind
<1> QED BY <1>1, <1>2, <1>3, ChunkSeals DEF BaseInv, Kinds

LEMMA WritableIsOpen ==
    ASSUME PipeTypes, TableInv, NEW c \in Chunks, writableChunks[c] # 0
    PROVE  writableChunks[c] \in DOMAIN chunk /\ chunk[writableChunks[c]].job = "open"
           /\ chunk[writableChunks[c]].lc = c
BY DEF PipeTypes, TableInv

\* A step that leaves the chunks and the marks but "unsent" alone is quiet.
LEMMA QuietKind ==
    ASSUME BaseInv, UNCHANGED <<writes, lastErr, pipeVars>>, dirty' \in BOOLEAN, file'.group = file.group,
           mishap' \in [Chunks -> SUBSET {"lapped", "recycled", "overwritten", "unsent"}],
           \A c \in Chunks : Marked(c)' = Marked(c)
    PROVE  ChunkInv' /\ Quiet
<1>1. MishapGrows
  BY DEF MishapGrows, Marked
<1>2. lastErr' \in BOOLEAN
  BY DEF BaseInv, ChunkInv, WriteTypes
<1>3. ChunkInv' /\ StaysPut
  BY <1>1, <1>2, ChunkSame DEF BaseInv
<1> QED BY <1>3 DEF Quiet

LEMMA MishapSame ==
    ASSUME BaseInv, mishap' = mishap
    PROVE  /\ mishap' \in [Chunks -> SUBSET {"lapped", "recycled", "overwritten", "unsent"}]
           /\ \A c \in Chunks : Marked(c)' = Marked(c)
BY DEF BaseInv, ChunkInv, PipeTypes, Marked

\* Every step is of one of the kinds and keeps the chunks: those of jobs...
LEMMA JobKinds ==
    ASSUME BaseInv, NEW o \in DOMAIN chunk, JobStep(o)
    PROVE  ChunkInv' /\ Kinds
<1>1. CASE ExecuteJob(o)
  <2>1. Execute(o) /\ UNCHANGED handleVars /\ file' = file
    BY <1>1 DEF ExecuteJob
  <2>2. ChunkInv' /\ StaysPut
    BY <2>1, ChunkExecute DEF BaseInv
  <2>3. lastErr' = lastErr /\ mishap' = mishap /\ Rests
    BY <1>1, <2>1 DEF handleVars, Execute, Rests, ExecuteJob
  <2> QED BY <2>1, <2>2, <2>3, MishapSame DEF Kinds, Quiet, QuietStep
<1>2. CASE SaveContent(o)
  <2>1. /\ chunk[o].job = "ready" /\ chunk' = [chunk EXCEPT ![o].job = "saved"]
        /\ uploaderCount' = uploaderCount - 1
        /\ UNCHANGED <<writes, writableChunks, sealedChunks, swap, sleeping, dirty, lastErr>>
    BY <1>2 DEF SaveContent, handleVars
  <2>2. Saves(o)
    BY <2>1, RejobsIs DEF Saves, BaseInv, ChunkInv, Sealing
  <2>3. chunk[o].lc \in Chunks
    BY <2>1, ChunkTypes DEF BaseInv, ChunkInv, Chunk
  <2>4. MishapGrows /\ mishap' \in [Chunks -> SUBSET {"lapped", "recycled", "overwritten", "unsent"}]
    BY <1>2, <2>3 DEF SaveContent, MishapGrows, BaseInv, ChunkInv, PipeTypes
  <2>5. lastErr' \in BOOLEAN
    BY <2>1 DEF BaseInv, ChunkInv, WriteTypes
  <2> QED BY <1>2, <2>1, <2>2, <2>4, <2>5, ChunkSaves DEF BaseInv, Kinds
<1>3. CASE SaveFails(o)
  <2>1. /\ chunk[o].job = "ready" /\ chunk' = [chunk EXCEPT ![o].job = "saved"]
        /\ uploaderCount' = uploaderCount - 1 /\ lastErr' = TRUE
        /\ UNCHANGED <<writes, writableChunks, sealedChunks, swap, sleeping, dirty, mishap>>
    BY <1>3 DEF SaveFails
  <2>2. Saves(o)
    BY <2>1, RejobsIs DEF Saves, BaseInv, ChunkInv, Sealing
  <2>4. MishapGrows /\ mishap' \in [Chunks -> SUBSET {"lapped", "recycled", "overwritten", "unsent"}]
    BY <2>1 DEF MishapGrows, BaseInv, ChunkInv, PipeTypes
  <2> QED BY <1>3, <2>1, <2>2, <2>4, ChunkSaves DEF BaseInv, Kinds
<1>4. CASE RemoveSealed(o)
  BY <1>4, ChunkRemoves DEF BaseInv, Kinds
<1>5. CASE WaitForReaders(o)
  <2>1. ChunkInv' /\ StaysPut
    BY <1>5, ChunkWaits DEF BaseInv
  <2>2. lastErr' = lastErr /\ mishap' = mishap /\ file' = file /\ Rests
    BY <1>5 DEF WaitForReaders, handleVars, Rests
  <2> QED BY <2>1, <2>2, MishapSame DEF Kinds, Quiet, QuietStep
<1> QED BY <1>1, <1>2, <1>3, <1>4, <1>5 DEF JobStep

\* ... of the writer...
LEMMA WriterKinds ==
    ASSUME BaseInv
    PROVE  /\ \A q \in Requests : Write(q.lc, q.span) => ChunkInv' /\ Kinds
           /\ \A q \in Requests : WriteEvicts(q.lc, q.span) => ChunkInv' /\ Kinds
           /\ WriteEvicted => ChunkInv' /\ Kinds
           /\ WriteSeals => ChunkInv' /\ Kinds
           /\ WriteReturns => ChunkInv' /\ Quiet
<1>1. ASSUME NEW q \in Requests, Write(q.lc, q.span)
      PROVE  ChunkInv' /\ Kinds
  <2>1. PICK c \in Chunks, span \in SUBSET Pages : c = q.lc /\ span = q.span
    BY RequestTypes
  <2>2. WriteDataAt(c, span) /\ Len(writes) < MaxWrites /\ ~Exclusive /\ ~Shared
    BY <1>1, <2>1 DEF Write
  <2> QED BY <2>2, WriteKinds
<1>2. ASSUME NEW q \in Requests, WriteEvicts(q.lc, q.span)
      PROVE  ChunkInv' /\ Kinds
  <2>1. PICK c \in Chunks, span \in SUBSET Pages : c = q.lc /\ span = q.span
    BY RequestTypes
  <2>2. PICK d \in Chunks :
          /\ Fullest(d)
          /\ MoveToSealed(writableChunks[d])
          /\ writer' = [pc |-> "evict", lc |-> c, span |-> span, obj |-> writableChunks[d]]
    BY <1>2, <2>1 DEF WriteEvicts
  <2>3. PICK o : o = writableChunks[d]
    OBVIOUS
  <2>4. o \in DOMAIN chunk /\ chunk[o].job = "open"
    BY <2>2, <2>3, WritableIsOpen DEF Fullest, BaseInv, ChunkInv
  <2>5. ~Exclusive /\ ~Shared /\ Len(writes) < MaxWrites /\ UNCHANGED <<handleVars, file, reader, flush>>
    BY <1>2 DEF WriteEvicts
  <2>6. SealThread(o)
    BY <2>2, <2>3, <2>5 DEF SealThread
  <2> QED BY <2>2, <2>3, <2>4, <2>5, <2>6, SealKinds
<1>3. ASSUME WriteEvicted
      PROVE  ChunkInv' /\ Kinds
  <2>1. writer.pc = "evict" /\ WriteDataAt(writer.lc, writer.span)
    BY <1>3 DEF WriteEvicted
  <2>2. PICK c \in Chunks, span \in SUBSET Pages : c = writer.lc /\ span = writer.span
    BY <2>1 DEF BaseInv, ThreadTypes, WriterInv
  <2>3. Len(writes) < MaxWrites
    BY <2>1 DEF BaseInv, WriterInv
  <2> QED BY <2>1, <2>2, <2>3, WriteKinds
<1>4. ASSUME WriteSeals
      PROVE  ChunkInv' /\ Kinds
  <2>1. PICK o : o = writer.obj
    OBVIOUS
  <2>2. /\ writer.pc = "seal" /\ MoveToSealed(o) /\ writer' = [writer EXCEPT !.pc = "submit"]
        /\ UNCHANGED <<handleVars, file, reader, flush>>
    BY <1>4, <2>1 DEF WriteSeals
  <2>3. o \in DOMAIN chunk /\ chunk[o].job = "open"
    BY <2>1, <2>2 DEF BaseInv, WriterInv
  <2>4. SealThread(o)
    BY <2>2 DEF SealThread
  <2> QED BY <2>2, <2>3, <2>4, SealKinds
<1>5. ASSUME WriteReturns
      PROVE  ChunkInv' /\ Quiet
  <2>1. UNCHANGED <<writes, lastErr, pipeVars, file, mishap>> /\ dirty' \in BOOLEAN
    BY <1>5 DEF WriteReturns
  <2> QED BY <2>1, MishapSame, QuietKind
<1> QED BY <1>1, <1>2, <1>3, <1>4, <1>5

\* The steps of readers and flushes that leave all that QuietKind is about alone.
LEMMA IdleKind ==
    ASSUME BaseInv, UNCHANGED <<handleVars, pipeVars, mishap>>, file'.group = file.group
    PROVE  ChunkInv' /\ Quiet
<1>1. UNCHANGED <<writes, lastErr, dirty>> /\ dirty' \in BOOLEAN
  BY DEF handleVars, BaseInv, ChunkInv, WriteTypes
<1> QED BY <1>1, MishapSame, QuietKind

\* ... of readers...
LEMMA ReaderKinds ==
    ASSUME BaseInv, NEW r
    PROVE  /\ \A c : ReadFromChunks(r, c) => ChunkInv' /\ Quiet
           /\ MaybeReadDataAt(r) => ChunkInv' /\ Quiet
           /\ UnlockForRead(r) => ChunkInv' /\ Quiet
<1>1. ASSUME NEW c, ReadFromChunks(r, c)
      PROVE  ChunkInv' /\ Quiet
  BY <1>1, IdleKind DEF ReadFromChunks
<1>2. ASSUME MaybeReadDataAt(r)
      PROVE  ChunkInv' /\ Quiet
  <2>1. ChunkInv' /\ StaysPut
    BY <1>2, ChunkReads DEF BaseInv
  <2>2. lastErr' = lastErr /\ mishap' = mishap /\ file' = file
    BY <1>2 DEF MaybeReadDataAt, handleVars
  <2> QED BY <2>1, <2>2, MishapSame DEF Quiet
<1>3. ASSUME UnlockForRead(r)
      PROVE  ChunkInv' /\ Quiet
  BY <1>3, IdleKind DEF UnlockForRead
<1> QED BY <1>1, <1>2, <1>3

\* ... of flushes and the loop...
LEMMA FlushKinds ==
    ASSUME BaseInv, NEW f
    PROVE  /\ FlushStarts(f) => ChunkInv' /\ Quiet
           /\ f \in Flushers => \A c \in Chunks : FlushSeals(f, c) => ChunkInv' /\ Kinds
           /\ FlushWaits(f) => ChunkInv' /\ Quiet
           /\ FlushReturns(f) => ChunkInv' /\ Quiet
           /\ CompactChunks(f) => ChunkInv' /\ Quiet
           /\ FlushMetadata(f) => ChunkInv' /\ Quiet
           /\ CreateEntry(f) => ChunkInv' /\ Quiet
           /\ CreateEntryFails(f) => ChunkInv' /\ Quiet
           /\ FlushDone(f) => ChunkInv' /\ Quiet
<1>1. FlushStarts(f) => ChunkInv' /\ Quiet
  BY IdleKind DEF FlushStarts
<1>2. FlushWaits(f) => ChunkInv' /\ Quiet
  BY IdleKind DEF FlushWaits
<1>3. FlushReturns(f) => ChunkInv' /\ Quiet
  BY IdleKind DEF FlushReturns
<1>4. CompactChunks(f) => ChunkInv' /\ Quiet
  BY IdleKind DEF CompactChunks
<1>5. FlushMetadata(f) => ChunkInv' /\ Quiet
  BY IdleKind DEF FlushMetadata
<1>6. ASSUME f \in Flushers, NEW c \in Chunks, FlushSeals(f, c)
      PROVE  ChunkInv' /\ Kinds
  <2>1. PICK o : o = writableChunks[c]
    OBVIOUS
  <2>2. /\ flush[f].pc = "seal" /\ ~ChunksLocked /\ o # 0 /\ MoveToSealed(o)
        /\ flush' = [flush EXCEPT ![f].obj = o, ![f].todo = @ \ {o}]
        /\ UNCHANGED <<handleVars, file, writer, reader>>
    BY <1>6, <2>1 DEF FlushSeals
  <2>3. o \in DOMAIN chunk /\ chunk[o].job = "open"
    BY <2>1, <2>2, WritableIsOpen DEF BaseInv, ChunkInv
  <2>4. SealThread(o)
    BY <1>6, <2>2 DEF SealThread
  <2> QED BY <2>2, <2>3, <2>4, SealKinds
<1>7. ASSUME CreateEntry(f)
      PROVE  ChunkInv' /\ Quiet
  <2>1. UNCHANGED <<handleVars, pipeVars>> /\ mishap' = [c \in Chunks |-> mishap[c] \ {"unsent"}]
    BY <1>7 DEF CreateEntry
  <2>2. file'.group = file.group
    BY <1>7 DEF CreateEntry, BaseInv, ThreadTypes
  <2>3. /\ mishap' \in [Chunks -> SUBSET {"lapped", "recycled", "overwritten", "unsent"}]
        /\ \A c \in Chunks : Marked(c)' = Marked(c)
    BY <2>1 DEF BaseInv, ChunkInv, PipeTypes, Marked
  <2>4. UNCHANGED <<writes, lastErr, dirty>> /\ dirty' \in BOOLEAN
    BY <2>1 DEF handleVars, BaseInv, ChunkInv, WriteTypes
  <2> QED BY <2>1, <2>2, <2>3, <2>4, QuietKind
<1>8. ASSUME CreateEntryFails(f)
      PROVE  ChunkInv' /\ Quiet
  <2>1. UNCHANGED <<writes, dirty, lastErr, pipeVars, mishap>>
    BY <1>8 DEF CreateEntryFails
  <2>2. file'.group = file.group
    BY <1>8 DEF CreateEntryFails, BaseInv, ThreadTypes
  <2>3. dirty' \in BOOLEAN
    BY <2>1 DEF BaseInv, ChunkInv, WriteTypes
  <2> QED BY <2>1, <2>2, <2>3, MishapSame, QuietKind
<1>9. ASSUME FlushDone(f)
      PROVE  ChunkInv' /\ Quiet
  <2>1. /\ UNCHANGED <<writes, lastErr, pipeVars, file>> /\ dirty' = FALSE
        /\ mishap' = [c \in Chunks |-> mishap[c] \cup
                       (IF \E p \in Pages : file.filer[c][p].val < LastWrite(c, p, Len(writes))
                        THEN {"unsent"} ELSE {})]
    BY <1>9 DEF FlushDone
  <2>2. /\ mishap' \in [Chunks -> SUBSET {"lapped", "recycled", "overwritten", "unsent"}]
        /\ \A c \in Chunks : Marked(c)' = Marked(c)
    BY <2>1 DEF BaseInv, ChunkInv, PipeTypes, Marked
  <2> QED BY <2>1, <2>2, QuietKind
<1> QED BY <1>1, <1>2, <1>3, <1>4, <1>5, <1>6, <1>7, <1>8, <1>9

\* ... and so all.
LEMMA NextKinds ==
    ASSUME BaseInv, [Next]_vars
    PROVE  ChunkInv' /\ Kinds
<1>1. CASE UNCHANGED vars
  <2>1. UNCHANGED <<handleVars, pipeVars, mishap, file>>
    BY <1>1 DEF vars
  <2>2. Rests
    BY <1>1 DEF vars, handleVars, Rests
  <2> QED BY <2>1, <2>2, IdleKind DEF Kinds, QuietStep
<1>2. ASSUME NEW q \in Requests, Write(q.lc, q.span) \/ WriteEvicts(q.lc, q.span)
      PROVE  ChunkInv' /\ Kinds
  BY <1>2, WriterKinds
<1>3. CASE WriterStep
  BY <1>3, WriterKinds DEF WriterStep, Kinds, QuietStep
<1>4. ASSUME NEW r \in Readers, NEW c \in Reads, ReadFromChunks(r, c)
      PROVE  ChunkInv' /\ Kinds
  BY <1>4, ReaderKinds DEF Kinds, QuietStep, ReaderTurns
<1>5. ASSUME NEW r \in Readers, ReaderStep(r)
      PROVE  ChunkInv' /\ Kinds
  BY <1>5, ReaderKinds DEF ReaderStep, Kinds, QuietStep, ReaderTurns
<1>6. ASSUME NEW f \in Flushers, FlushStarts(f) \/ FlushStep(f)
      PROVE  ChunkInv' /\ Kinds
  <2>1. CASE FlushStarts(f)
    BY <2>1, FlushKinds DEF Kinds, QuietStep, FlushTurns, Threads
  <2>2. ASSUME NEW c \in Chunks, FlushSeals(f, c)
        PROVE  ChunkInv' /\ Kinds
    BY <2>2, FlushKinds
  <2>3. CASE FlushWaits(f) \/ FlushReturns(f) \/ CompactChunks(f)
             \/ CreateEntry(f) \/ CreateEntryFails(f) \/ FlushDone(f)
    BY <2>3, FlushKinds DEF Kinds, QuietStep, FlushTurns, Threads
  <2> QED BY <1>6, <2>1, <2>2, <2>3 DEF FlushStep
<1>7. ASSUME NEW f \in Loops, FlushMetadata(f) \/ LoopStep(f)
      PROVE  ChunkInv' /\ Kinds
  BY <1>7, FlushKinds DEF LoopStep, Kinds, QuietStep, FlushTurns, Threads
<1>8. ASSUME NEW o \in DOMAIN chunk, JobStep(o)
      PROVE  ChunkInv' /\ Kinds
  BY <1>8, JobKinds
<1> QED BY <1>1, <1>2, <1>3, <1>4, <1>5, <1>6, <1>7, <1>8 DEF Next

-----------------------------------------------------------------------------
(* The threads through every kind of step *)

FlushType == [pc : {"idle", "seal", "entry", "send", "sent"}, todo : SUBSET Nat,
              obj : Nat, entry : FileContent, from : Nat]

LEMMA IdleTypes ==
    /\ Blank \in FileContent /\ IdleFlush \in FlushType
    /\ IdleThread \in [pc : {"idle", "evict", "seal", "submit"}, lc : Chunks \cup {0},
                       span : SUBSET Pages, obj : Nat]
    /\ IdleRead \in [pc : {"idle", "dirty", "unlock"}, lc : Chunks \cup {0}, got : [Pages -> Nat]]
<1>1. Blank \in FileContent
  BY DEF Blank, FileContent
<1>2. Zero \in [Pages -> Nat]
  BY DEF Zero
<1> QED BY <1>1, <1>2 DEF IdleFlush, IdleThread, IdleRead, FlushType

\* No more writes are acknowledged than were made.
LEMMA AckedType ==
    ASSUME ChunkInv, WriterInv
    PROVE  Acked \in Nat /\ Acked <= Len(writes) /\ Len(writes) \in Nat
<1>1. Len(writes) \in Nat
  BY DEF ChunkInv, WriteTypes
<1> QED BY <1>1 DEF Acked, WriterInv

\* A thread that flushes goes on as a record of the right type.
LEMMA FlushTypes ==
    ASSUME BaseInv, NEW f \in Threads, FlushTurns(f)
    PROVE  /\ flush' \in [Threads -> FlushType]
           /\ file' \in [group : FileContent, entry : FileContent, filer : FileContent]
           /\ writer' = writer /\ reader' = reader
<1> DEFINE R(e) == e \in FlushType
<1>1. /\ flush \in [Threads -> FlushType] /\ flush[f] \in FlushType
      /\ file \in [group : FileContent, entry : FileContent, filer : FileContent]
  BY DEF BaseInv, ThreadTypes, FlushType
<1>2. \A e : R(e) => [flush EXCEPT ![f] = e] \in [Threads -> FlushType]
  BY <1>1
<1>3. \A pc \in {"entry", "sent"} : R(Went(f, pc))
  BY <1>1, IdleTypes DEF Went, IdleFlush, FlushType
<1>4. R(IdleFlush)
  BY IdleTypes
<1>5. CASE FlushStarts(f)
  <2>1. Acked \in Nat
    BY AckedType DEF BaseInv
  <2>2. {o \in DOMAIN chunk : chunk[o].job = "open"} \in SUBSET Nat
    BY DEF BaseInv, ChunkInv, PipeTypes
  <2> DEFINE e == [IdleFlush EXCEPT !.pc = "seal", !.from = Acked,
                    !.todo = {o \in DOMAIN chunk : chunk[o].job = "open"}]
  <2>3. R(e)
    BY <2>1, <2>2, IdleTypes DEF IdleFlush, FlushType
  <2>4. flush' = [flush EXCEPT ![f] = e] /\ UNCHANGED <<file, writer, reader>>
    BY <1>5 DEF FlushStarts
  <2> HIDE DEF e, R
  <2>5. flush' \in [Threads -> FlushType]
    BY <1>2, <2>3, <2>4
  <2> QED BY <1>1, <2>4, <2>5
<1>6. CASE FlushWaits(f)
  <2>1. flush' = [flush EXCEPT ![f] = IF lastErr THEN IdleFlush ELSE Went(f, "entry")]
        /\ UNCHANGED <<file, writer, reader>>
    BY <1>6 DEF FlushWaits
  <2>2. R(IF lastErr THEN IdleFlush ELSE Went(f, "entry"))
    BY <1>3, <1>4
  <2> HIDE DEF R
  <2> QED BY <1>1, <1>2, <2>1, <2>2
<1>7. CASE FlushReturns(f) \/ FlushDone(f)
  <2>1. flush' = [flush EXCEPT ![f] = IdleFlush] /\ UNCHANGED <<file, writer, reader>>
    BY <1>7 DEF FlushReturns, FlushDone
  <2> QED BY <1>1, <1>2, <1>4, <2>1
<1>8. CASE CompactChunks(f) \/ FlushMetadata(f)
  <2>1. flush' = [flush EXCEPT ![f].pc = "send", ![f].entry = file.entry] /\ UNCHANGED <<file, writer, reader>>
    BY <1>8 DEF CompactChunks, FlushMetadata
  <2>2. file.entry \in FileContent
    BY <1>1
  <2>3. flush' = [flush EXCEPT ![f] = [flush[f] EXCEPT !.pc = "send", !.entry = file.entry]]
    BY <1>1, <2>1
  <2>4. R([flush[f] EXCEPT !.pc = "send", !.entry = file.entry])
    BY <1>1, <2>2 DEF FlushType
  <2> HIDE DEF R
  <2> QED BY <1>1, <1>2, <2>1, <2>3, <2>4
<1>9. CASE CreateEntry(f) \/ CreateEntryFails(f)
  <2>1. UNCHANGED <<writer, reader>>
    BY <1>9 DEF CreateEntry, CreateEntryFails
  <2>2. flush[f].entry \in FileContent
    BY <1>1 DEF FlushType
  <2>3. file' \in [group : FileContent, entry : FileContent, filer : FileContent]
    BY <1>1, <1>9, <2>2 DEF CreateEntry, CreateEntryFails
  <2>4. R(IF f \in Loops THEN IdleFlush ELSE Went(f, "sent"))
    BY <1>3, <1>4
  <2>5. flush' = [flush EXCEPT ![f] = IdleFlush]
        \/ flush' = [flush EXCEPT ![f] = IF f \in Loops THEN IdleFlush ELSE Went(f, "sent")]
    BY <1>9 DEF CreateEntry, CreateEntryFails
  <2> HIDE DEF R
  <2> QED BY <1>2, <1>4, <2>1, <2>3, <2>4, <2>5
<1> QED BY <1>5, <1>6, <1>7, <1>8, <1>9 DEF FlushTurns

\* What a read takes from a chunk that holds a reference is the data of the chunk.
LEMMA OverlayIs ==
    ASSUME PipeTypes, DataInv, NEW o, o # 0 => o \in DOMAIN chunk /\ chunk[o].ref = 1,
           NEW got \in [Pages -> Nat]
    PROVE  /\ Overlay(o, got) \in [Pages -> Nat]
           /\ \A p \in Pages : Overlay(o, got)[p] = IF Covers(o, p) THEN chunk[o].written[p] ELSE got[p]
<1>1. CASE o = 0
  BY <1>1 DEF Overlay, Covers
<1>2. CASE o # 0
  <2>1. chunk[o] \in Chunk
    BY <1>2, ChunkTypes
  <2>2. PICK w \in Content : w = chunk[o].written
    BY <2>1 DEF Chunk
  <2>3. \A p \in Pages : w[p] \in Nat
    BY <2>2, PipelineAssumption DEF Content
  <2>4. \A p \in Pages : w[p] # 0 => swap.block[chunk[o].block][p] = w[p]
    BY <1>2, <2>2 DEF DataInv
  <2>5. Overlay(o, got) = [p \in Pages |-> IF w[p] # 0 THEN swap.block[chunk[o].block][p] ELSE got[p]]
    BY <1>2, <2>2 DEF Overlay
  <2>6. Overlay(o, got) = [p \in Pages |-> IF w[p] # 0 THEN w[p] ELSE got[p]]
    BY <2>4, <2>5
  <2> QED BY <1>2, <2>2, <2>3, <2>6 DEF Covers
<1> QED BY <1>1, <1>2

\* The writable and the sealed chunk of an index hold references.
LEMMA TableRefs ==
    ASSUME ChunkInv, NEW c \in Chunks
    PROVE  /\ writableChunks[c] # 0 => writableChunks[c] \in DOMAIN chunk /\ chunk[writableChunks[c]].ref = 1
           /\ sealedChunks[c] # 0 => sealedChunks[c] \in DOMAIN chunk /\ chunk[sealedChunks[c]].ref = 1
<1>1. PICK w, x : w = writableChunks[c] /\ x = sealedChunks[c]
  OBVIOUS
<1>2. (w # 0 => w \in DOMAIN chunk) /\ (x # 0 => x \in DOMAIN chunk)
  BY <1>1 DEF ChunkInv, PipeTypes
<1>3. w # 0 => chunk[w].job = "open"
  BY <1>1 DEF ChunkInv, TableInv
<1>4. x # 0 => chunk[x].ref = 1
  BY <1>1 DEF ChunkInv, TableInv
<1>5. w # 0 => chunk[w].ref = 1
  BY <1>2, <1>3 DEF ChunkInv, RefInv
<1> QED BY <1>1, <1>2, <1>4, <1>5

\* A reader goes on as a record of the right type.
LEMMA ReaderTypes ==
    ASSUME BaseInv, NEW r \in Readers, ReaderTurns(r)
    PROVE  /\ reader' \in [Readers -> [pc : {"idle", "dirty", "unlock"}, lc : Chunks \cup {0},
                                       got : [Pages -> Nat]]]
           /\ UNCHANGED <<file, writer, flush, writes>>
<1> DEFINE T == [pc : {"idle", "dirty", "unlock"}, lc : Chunks \cup {0}, got : [Pages -> Nat]]
<1>1. reader \in [Readers -> T] /\ reader[r] \in T
  BY DEF BaseInv, ThreadTypes
<1>2. \A e \in T : [reader EXCEPT ![r] = e] \in [Readers -> T]
  BY <1>1
<1>3. ASSUME NEW c \in Reads, ReadFromChunks(r, c)
      PROVE  reader' \in [Readers -> T] /\ UNCHANGED <<file, writer, flush, writes>>
  <2> DEFINE got == [p \in Pages |-> file.group[c][p].val]
  <2>1. reader' = [reader EXCEPT ![r] = [pc |-> "dirty", lc |-> c, got |-> got]]
        /\ UNCHANGED <<file, writer, flush, writes>>
    BY <1>3 DEF ReadFromChunks, handleVars
  <2>2. c \in Chunks /\ file.group \in FileContent
    BY PipelineAssumption DEF BaseInv, ThreadTypes
  <2>3. got \in [Pages -> Nat]
    BY <2>2 DEF FileContent
  <2> HIDE DEF got
  <2>4. [pc |-> "dirty", lc |-> c, got |-> got] \in T
    BY <2>2, <2>3
  <2> QED BY <1>2, <2>1, <2>4
<1>4. CASE MaybeReadDataAt(r)
  <2>1. PICK c : c = reader[r].lc
    OBVIOUS
  <2> DEFINE mid == Overlay(sealedChunks[c], reader[r].got)
             got == Overlay(writableChunks[c], mid)
  <2>2. /\ reader[r].pc = "dirty" /\ UNCHANGED <<file, writer, flush, writes>>
        /\ reader' = [reader EXCEPT ![r].pc = "unlock",
                        ![r].got = Overlay(writableChunks[c], Overlay(sealedChunks[c], @))]
    BY <1>4, <2>1 DEF MaybeReadDataAt, handleVars
  <2>4. c \in Chunks /\ reader[r].got \in [Pages -> Nat]
    BY <1>1, <2>1, <2>2 DEF BaseInv, SharedInv
  <2>5. mid \in [Pages -> Nat]
    BY <2>4, TableRefs, OverlayIs DEF BaseInv, ChunkInv
  <2>6. got \in [Pages -> Nat]
    <3> HIDE DEF mid
    <3> QED BY <2>4, <2>5, TableRefs, OverlayIs DEF BaseInv, ChunkInv
  <2>9. reader' = [reader EXCEPT ![r] = [reader[r] EXCEPT !.pc = "unlock", !.got = got]]
    BY <1>1, <2>2
  <2> HIDE DEF got
  <2>7. [reader[r] EXCEPT !.pc = "unlock", !.got = got] \in T
    BY <1>1, <2>6
  <2>8. reader' \in [Readers -> T]
    <3> HIDE DEF T
    <3> QED BY <1>2, <2>7, <2>9
  <2> QED BY <2>2, <2>8
<1>5. CASE UnlockForRead(r)
  <2>1. reader' = [reader EXCEPT ![r] = IdleRead] /\ UNCHANGED <<file, writer, flush, writes>>
    BY <1>5 DEF UnlockForRead, handleVars
  <2>2. IdleRead \in T
    BY IdleTypes
  <2> QED BY <1>2, <2>1, <2>2
<1> QED BY <1>3, <1>4, <1>5 DEF ReaderTurns

\* A thread that writes, or is at the end of a flush, is alone.
LEMMA NoReaders ==
    ASSUME SharedInv, ~Shared \/ writer.pc # "idle" \/ \E f \in Threads : flush[f].pc \in {"send", "sent"}
    PROVE  \A r \in Readers : reader[r].pc = "idle"
BY DEF SharedInv, Shared

\* The thread f leaves the threads that read alone, and the end of a flush is
\* only begun when nobody reads.
LEMMA FlushShares ==
    ASSUME BaseInv, NEW f \in Threads, FlushTurns(f)
    PROVE  SharedInv'
<1>1. writer' = writer /\ reader' = reader
  BY FlushTypes
<1>2. flush \in [Threads -> FlushType]
  BY DEF BaseInv, ThreadTypes, FlushType
<1>3. CASE CompactChunks(f) \/ FlushMetadata(f) \/ CreateEntry(f) \/ CreateEntryFails(f) \/ FlushDone(f)
  <2>1. ~Shared \/ flush[f].pc \in {"send", "sent"}
    BY <1>3 DEF CompactChunks, FlushMetadata, CreateEntry, CreateEntryFails, FlushDone
  <2>2. \A r \in Readers : reader[r].pc = "idle"
    BY <2>1, NoReaders DEF BaseInv
  <2> QED BY <1>1, <2>2 DEF SharedInv
<1>4. CASE FlushStarts(f) \/ FlushWaits(f) \/ FlushReturns(f)
  <2>1. PICK e : flush' = [flush EXCEPT ![f] = e] /\ e.pc \in {"idle", "seal", "entry"}
    BY <1>4 DEF FlushStarts, FlushWaits, FlushReturns, Went, IdleFlush
  <2>2. \A g \in Threads : flush'[g] = IF g = f THEN e ELSE flush[g]
    BY <1>2, <2>1
  <2>3. \A g \in Threads : flush'[g].pc \in {"send", "sent"} => flush[g].pc \in {"send", "sent"}
    BY <2>1, <2>2
  <2> QED BY <1>1, <2>3 DEF SharedInv, BaseInv
<1> QED BY <1>3, <1>4 DEF FlushTurns

\* A reader that begins finds nobody who holds the handle's lock alone.
LEMMA ReaderShares ==
    ASSUME BaseInv, NEW r \in Readers, ReaderTurns(r)
    PROVE  SharedInv'
<1>1. UNCHANGED <<writer, flush>> /\ reader \in [Readers -> [pc : {"idle", "dirty", "unlock"},
                                                lc : Chunks \cup {0}, got : [Pages -> Nat]]]
  BY ReaderTypes DEF BaseInv, ThreadTypes
<1>2. ASSUME NEW c \in Reads, ReadFromChunks(r, c)
      PROVE  SharedInv'
  <2>1. writer.pc = "idle" /\ \A f \in Threads : flush[f].pc \notin {"send", "sent"}
    BY <1>2 DEF ReadFromChunks, Exclusive, Threads
  <2>2. \A x \in Readers : x # r => reader'[x] = reader[x]
    BY <1>1, <1>2 DEF ReadFromChunks
  <2>3. reader'[r].lc = c /\ c \in Chunks
    BY <1>1, <1>2, PipelineAssumption DEF ReadFromChunks
  <2> QED BY <1>1, <2>1, <2>2, <2>3 DEF SharedInv, BaseInv
<1>3. CASE MaybeReadDataAt(r)
  <2>2. \A x \in Readers : x # r => reader'[x] = reader[x]
    BY <1>1, <1>3 DEF MaybeReadDataAt
  <2>3. reader'[r].lc = reader[r].lc /\ reader[r].pc # "idle"
    BY <1>1, <1>3 DEF MaybeReadDataAt
  <2> QED BY <1>1, <2>2, <2>3 DEF SharedInv, BaseInv
<1>4. CASE UnlockForRead(r)
  <2>1. \A x \in Readers : reader'[x] = IF x = r THEN IdleRead ELSE reader[x]
    BY <1>1, <1>4 DEF UnlockForRead
  <2> QED BY <1>1, <2>1 DEF SharedInv, BaseInv, IdleRead
<1> QED BY <1>2, <1>3, <1>4 DEF ReaderTurns

WriterType == [pc : {"idle", "evict", "seal", "submit"}, lc : Chunks \cup {0},
               span : SUBSET Pages, obj : Nat]

ThreadsInv == ThreadTypes /\ WriterInv /\ SharedInv

\* The threads after a write...
LEMMA WriteThreads ==
    ASSUME BaseInv, NEW c \in Chunks, NEW span \in SUBSET Pages, NEW o \in Nat, WriteKind(c, span, o)
    PROVE  ThreadsInv'
<1>1. /\ UNCHANGED <<file, reader, flush>>
      /\ writer' = [pc |-> "seal", lc |-> c, span |-> {}, obj |-> o] \/ writer' = IdleThread
  BY DEF WriteKind, Writes, WriteEnds
<1>2. writer' \in WriterType
  BY <1>1, IdleTypes DEF WriterType
<1>3. ThreadTypes'
  BY <1>1, <1>2 DEF BaseInv, ThreadTypes, WriterType
<1>4. o \in DOMAIN chunk' /\ chunk'[o].job = "open"
  BY DEF WriteKind, Writes
<1>5. Len(writes') # 0
  <2>1. writes' = Append(writes, [lc |-> c, span |-> span]) /\ writes \in Seq([lc : Chunks, span : SUBSET Pages])
    BY DEF WriteKind, Writes, BaseInv, ChunkInv, WriteTypes
  <2> QED BY <2>1
<1>6. WriterInv'
  BY <1>1, <1>4, <1>5 DEF WriterInv, IdleThread
<1>7. \A r \in Readers : reader[r].pc = "idle"
  BY NoReaders DEF WriteKind, BaseInv
<1>8. SharedInv'
  BY <1>1, <1>7 DEF SharedInv
<1> QED BY <1>3, <1>6, <1>8 DEF ThreadsInv

\* ... after a seal...
LEMMA SealThreads ==
    ASSUME BaseInv, NEW o \in DOMAIN chunk, NEW c \in Chunks, NEW old \in Nat, SealKind(o, c, old)
    PROVE  ThreadsInv'
<1>1. /\ UNCHANGED <<writes, file, reader>> /\ SealThread(o) /\ DOMAIN chunk' = DOMAIN chunk
      /\ o \in Nat
  BY ChunkTypes DEF SealKind, handleVars, Seals, SameData, SameDomain, BaseInv, ChunkInv
<1>2. writer \in WriterType /\ flush \in [Threads -> FlushType] /\ Len(writes) \in Nat
  BY DEF BaseInv, ThreadTypes, WriterType, FlushType, ChunkInv, WriteTypes
<1>3. ASSUME NEW d \in Chunks, NEW span \in SUBSET Pages, ~Shared, Len(writes) < MaxWrites,
             writer' = [pc |-> "evict", lc |-> d, span |-> span, obj |-> o], flush' = flush
      PROVE  ThreadsInv'
  <2>1. writer' \in WriterType
    BY <1>1, <1>3 DEF WriterType
  <2>2. ThreadTypes'
    BY <1>1, <1>3, <2>1 DEF BaseInv, ThreadTypes, WriterType
  <2>3. WriterInv'
    BY <1>1, <1>3 DEF WriterInv
  <2>4. \A r \in Readers : reader[r].pc = "idle"
    BY <1>3, NoReaders DEF BaseInv
  <2> QED BY <1>1, <2>2, <2>3, <2>4 DEF ThreadsInv, SharedInv
<1>4. CASE writer.pc = "seal" /\ writer' = [writer EXCEPT !.pc = "submit"] /\ flush' = flush
  <2>1. writer' \in WriterType /\ writer'.pc = "submit" /\ writer'.lc = writer.lc
    BY <1>2, <1>4 DEF WriterType
  <2>2. ThreadTypes'
    BY <1>1, <1>4, <2>1 DEF BaseInv, ThreadTypes, WriterType
  <2>3. WriterInv'
    BY <1>1, <1>4, <2>1 DEF WriterInv, BaseInv
  <2>4. \A r \in Readers : reader[r].pc = "idle"
    BY <1>4, NoReaders DEF BaseInv
  <2> QED BY <1>1, <2>2, <2>3, <2>4 DEF ThreadsInv, SharedInv
<1>5. ASSUME NEW f \in Flushers, writer' = writer, ~ChunksLocked,
             flush' = [flush EXCEPT ![f].obj = o, ![f].todo = @ \ {o}]
      PROVE  ThreadsInv'
  <2>1. f \in Threads /\ flush[f] \in FlushType
    BY <1>2 DEF Threads
  <2>2. PICK e : e = [flush[f] EXCEPT !.obj = o, !.todo = @ \ {o}]
    OBVIOUS
  <2>3. e \in FlushType /\ e.pc = flush[f].pc
    BY <1>1, <2>1, <2>2 DEF FlushType
  <2>4. flush' = [flush EXCEPT ![f] = e]
    BY <1>2, <1>5, <2>1, <2>2
  <2>5. flush' \in [Threads -> FlushType] /\ \A g \in Threads : flush'[g].pc = flush[g].pc
    BY <1>2, <2>1, <2>3, <2>4
  <2>6. ThreadTypes'
    BY <1>1, <1>5, <2>5 DEF BaseInv, ThreadTypes, FlushType
  <2>7. WriterInv'
    BY <1>1, <1>5 DEF WriterInv, ChunksLocked, BaseInv
  <2>8. SharedInv'
    BY <1>1, <1>5, <2>5 DEF SharedInv, BaseInv
  <2> QED BY <2>6, <2>7, <2>8 DEF ThreadsInv
<1> QED BY <1>1, <1>3, <1>4, <1>5 DEF SealThread

\* ... after a step of a job...
LEMMA JobThreads ==
    ASSUME BaseInv, NEW o \in DOMAIN chunk,
           (SaveContent(o) /\ Saves(o)) \/ (SaveFails(o) /\ Saves(o)) \/ (RemoveSealed(o) /\ Removes(o))
    PROVE  ThreadsInv'
<1>1. UNCHANGED <<writes, writer, reader, flush>>
  BY DEF SaveContent, SaveFails, RemoveSealed, handleVars
<1>2. file' \in [group : FileContent, entry : FileContent, filer : FileContent]
  <2>1. file \in [group : FileContent, entry : FileContent, filer : FileContent]
    BY DEF BaseInv, ThreadTypes
  <2>2. CASE SaveContent(o)
    <3>1. file' = [file EXCEPT !.group = AddChunk(@, o), !.entry = AddChunk(@, o)] /\ chunk[o].job # "done"
      BY <2>2 DEF SaveContent
    <3>2. AddChunk(file.group, o) \in FileContent /\ AddChunk(file.entry, o) \in FileContent
      BY <2>1, <3>1, AddChunkIs DEF BaseInv, ChunkInv
    <3>3. file' = [file EXCEPT !.group = AddChunk(file.group, o), !.entry = AddChunk(file.entry, o)]
      BY <2>1, <3>1
    <3> QED BY <2>1, <3>2, <3>3
  <2>3. CASE SaveFails(o) \/ RemoveSealed(o)
    BY <2>1, <2>3 DEF SaveFails, RemoveSealed
  <2> QED BY <2>2, <2>3
<1>3. ThreadTypes'
  BY <1>1, <1>2 DEF BaseInv, ThreadTypes
<1>4. WriterInv'
  <2>1. chunk[o].job # "open" /\ DOMAIN chunk' = DOMAIN chunk
        /\ \A x \in DOMAIN chunk : x # o => chunk'[x].job = chunk[x].job
    BY DEF SaveContent, SaveFails, RemoveSealed, Saves, Rejobs, Removes, SameData, SameDomain
  <2> QED BY <1>1, <2>1 DEF WriterInv, BaseInv
<1>5. SharedInv'
  BY <1>1 DEF SharedInv, BaseInv
<1> QED BY <1>3, <1>4, <1>5 DEF ThreadsInv

\* ... and after the others.
LEMMA QuietThreads ==
    ASSUME BaseInv, Quiet, QuietStep
    PROVE  ThreadsInv'
<1>1. DOMAIN chunk' = DOMAIN chunk /\ writes' = writes
      /\ \A x \in DOMAIN chunk : chunk'[x].job = "open" <=> chunk[x].job = "open"
  BY DEF Quiet, StaysPut, SameData, SameDomain
<1>2. ASSUME writer' = writer
      PROVE  WriterInv'
  BY <1>1, <1>2 DEF WriterInv, BaseInv
<1>3. CASE Rests
  <2>1. UNCHANGED <<file, writer, reader, flush>>
    BY <1>3 DEF Rests
  <2>2. ThreadTypes' /\ SharedInv'
    BY <2>1 DEF BaseInv, ThreadTypes, SharedInv
  <2> QED BY <1>2, <2>1, <2>2 DEF ThreadsInv
<1>4. CASE WriteReturns
  <2>1. UNCHANGED <<file, reader, flush>> /\ writer' = IdleThread /\ writer.pc = "submit"
    BY <1>4 DEF WriteReturns
  <2>2. writer' \in WriterType
    BY <2>1, IdleTypes DEF WriterType
  <2>3. ThreadTypes'
    BY <2>1, <2>2 DEF BaseInv, ThreadTypes, WriterType
  <2>4. WriterInv' /\ SharedInv'
    BY <2>1 DEF WriterInv, SharedInv, BaseInv, IdleThread
  <2> QED BY <2>3, <2>4 DEF ThreadsInv
<1>5. ASSUME NEW r \in Readers, ReaderTurns(r)
      PROVE  ThreadsInv'
  <2>1. ThreadTypes' /\ writer' = writer
    BY <1>5, ReaderTypes DEF BaseInv, ThreadTypes
  <2> QED BY <1>2, <1>5, <2>1, ReaderShares DEF ThreadsInv
<1>6. ASSUME NEW f \in Threads, FlushTurns(f)
      PROVE  ThreadsInv'
  <2>1. ThreadTypes' /\ writer' = writer
    BY <1>6, FlushTypes DEF BaseInv, ThreadTypes, FlushType
  <2> QED BY <1>2, <1>6, <2>1, FlushShares DEF ThreadsInv
<1> QED BY <1>3, <1>4, <1>5, <1>6 DEF QuietStep

\* The part of the invariant that the three properties share is inductive.
LEMMA BaseNext ==
    ASSUME BaseInv, [Next]_vars
    PROVE  BaseInv'
<1>1. ChunkInv' /\ Kinds
  BY NextKinds
<1>2. ThreadsInv'
  BY <1>1, WriteThreads, SealThreads, JobThreads, QuietThreads DEF Kinds
<1> QED BY <1>1, <1>2 DEF BaseInv, ThreadsInv

LEMMA BaseInit ==
    ASSUME Init
    PROVE  BaseInv
<1>1. writes = <<>> /\ chunk = <<>> /\ dirty = FALSE /\ lastErr = FALSE /\ sleeping = <<>> /\ uploaderCount = 0
      /\ swap = [block |-> <<>>, free |-> <<>>, active |-> 0]
      /\ writableChunks = [c \in Chunks |-> 0] /\ sealedChunks = [c \in Chunks |-> 0]
      /\ mishap = [c \in Chunks |-> {}]
  BY DEF Init
<1>2. DOMAIN chunk = {} /\ Len(chunk) = 0 /\ Len(writes) = 0 /\ DOMAIN sleeping = {}
      /\ Len(swap.block) = 0 /\ Len(swap.free) = 0 /\ DOMAIN swap.free = {} /\ swap.active = 0
  BY <1>1
<1>3. WriteTypes
  <2>1. writes \in Seq([lc : Chunks, span : SUBSET Pages])
    BY <1>1
  <2>2. Len(chunk) <= Len(writes) /\ Len(writes) <= MaxWrites
    BY <1>2, PipelineAssumption
  <2>3. dirty \in BOOLEAN /\ lastErr \in BOOLEAN
    BY <1>1, Zenon
  <2> QED BY <2>1, <2>2, <2>3 DEF WriteTypes
<1>4. PipeTypes
  <2>1. swap \in [block : Seq(Content), free : Seq(Nat), active : Int]
    BY <1>1
  <2> QED BY <1>1, <1>2, <2>1 DEF PipeTypes
<1>5. TableInv /\ SleepInv /\ RefInv /\ DataInv /\ WrittenInv /\ OrderInv
  BY <1>1, <1>2 DEF TableInv, SleepInv, RefInv, DataInv, WrittenInv, OrderInv
<1>6. SwapInv
  BY <1>1, <1>2 DEF SwapInv
<1>7. CountInv
  <2>1. Pending = {} /\ Running = {}
    BY <1>2 DEF Pending, Running
  <2> QED BY <1>1, <2>1, FS_EmptySet, PipelineAssumption DEF CountInv
<1>8. ThreadTypes /\ WriterInv /\ SharedInv
  <2>1. /\ file = [group |-> Blank, entry |-> Blank, filer |-> Blank] /\ writer = IdleThread
        /\ reader = [r \in Readers |-> IdleRead] /\ flush = [f \in Threads |-> IdleFlush]
    BY DEF Init, Threads
  <2>2. ThreadTypes
    BY <2>1, IdleTypes DEF ThreadTypes, FlushType
  <2> QED BY <2>1, <2>2 DEF WriterInv, SharedInv, IdleThread, IdleRead
<1> QED BY <1>3, <1>4, <1>5, <1>6, <1>7, <1>8 DEF BaseInv, ChunkInv

LEMMA BaseAlways == Spec => []BaseInv
<1>1. Init => BaseInv
  BY BaseInit
<1>2. BaseInv /\ [Next]_vars => BaseInv'
  BY BaseNext
<1> QED BY <1>1, <1>2, PTL DEF Spec

-----------------------------------------------------------------------------
(* Types, and the blocks of the swap file *)

\* The state of the page writer has its type for every number of chunks, pages,
\* writes and threads: the count of uploads under way, which moveToSealed and
\* SaveContent change without a check, is never negative nor off, and the executor
\* never runs more jobs than it has tokens.
THEOREM TypeCorrect == Spec => []TypeOK
<1>1. BaseInv => TypeOK
  <2> SUFFICES ASSUME BaseInv PROVE TypeOK
    OBVIOUS
  <2>1. WriteTypes /\ PipeTypes /\ CountInv
    BY DEF BaseInv, ChunkInv
  <2>2. uploaderCount \in 0..MaxWrites
    BY <2>1, CountTypes, PipelineAssumption DEF WriteTypes, PipeTypes, CountInv
  <2>3. Chunk = [lc : Chunks, block : 1..MaxWrites, written : Content, ref : {0, 1},
                 job : {"open", "token", "ready", "saved", "asleep"}]
    <3>1. {"open"} \cup Sealing = {"open", "token", "ready", "saved", "asleep"}
      BY DEF Sealing
    <3> QED BY <3>1 DEF Chunk
  <2>4. chunk \in Seq({Done} \cup Chunk)
    BY <2>1 DEF PipeTypes
  <2>5. swap.block \in Seq(Content)
    BY <2>1 DEF PipeTypes
  <2>6. Cardinality(Running) <= ConcurrentWriters
    BY <2>1 DEF CountInv
  <2>7. writableChunks \in [Chunks -> 0..Len(chunk)] /\ sealedChunks \in [Chunks -> 0..Len(chunk)]
    BY <2>1 DEF PipeTypes
  <2> HIDE DEF Chunk
  <2> QED BY <2>2, <2>3, <2>4, <2>5, <2>6, <2>7 DEF TypeOK
<1> QED BY <1>1, BaseAlways, PTL

\* The swap file never gives the block of a chunk that is writable or still to be
\* uploaded to another such chunk, however chunks are sealed, removed and made
\* anew; the exception is the one sealing over a chunk makes.
THEOREM BlocksKeptApart == Spec => []BlocksApart
<1>1. BaseInv => BlocksApart
  <2> SUFFICES ASSUME BaseInv, NEW o1 \in DOMAIN chunk, NEW o2 \in DOMAIN chunk, o1 # o2,
                      {chunk[o1].job, chunk[o2].job} \subseteq {"open", "token", "ready"},
                      "recycled" \notin mishap[chunk[o1].lc] \cup mishap[chunk[o2].lc]
               PROVE  chunk[o1].block # chunk[o2].block
    BY DEF BlocksApart
  <2>1. chunk[o1].ref \in {0, 1} /\ chunk[o2].ref \in {0, 1}
    BY ChunkTypes DEF BaseInv, ChunkInv
  <2>2. chunk[o1].ref = 1 /\ chunk[o2].ref = 1
    BY <2>1 DEF BaseInv, ChunkInv, RefInv
  <2> QED BY <2>2 DEF BaseInv, ChunkInv, SwapInv
<1> QED BY <1>1, BaseAlways, PTL

-----------------------------------------------------------------------------
(* What reads find *)

\* Nothing changes for reads of the chunks of index c.
SameAt(c) ==
    /\ writableChunks'[c] = writableChunks[c] /\ sealedChunks'[c] = sealedChunks[c]
    /\ file'.group[c] = file.group[c] /\ Len(writes) <= Len(writes')
    /\ \A p \in Pages : Last(c, p)' = Last(c, p)
    /\ \A x \in DOMAIN chunk' : chunk'[x].job # "done" /\ chunk'[x].lc = c =>
         /\ x \in DOMAIN chunk /\ chunk[x].lc = c /\ chunk'[x].written = chunk[x].written
         /\ chunk'[x].job = "open" <=> chunk[x].job = "open"
         /\ chunk'[x].job \in {"token", "ready"} <=> chunk[x].job \in {"token", "ready"}
         /\ chunk[x].job # "done"

\* A page has the same content in the same table.
LEMMA CoversSame ==
    ASSUME BaseInv, ChunkInv', NEW c \in Chunks, SameAt(c)
    PROVE  /\ writableChunks[c] # 0 => chunk'[writableChunks[c]].written = chunk[writableChunks[c]].written
           /\ sealedChunks[c] # 0 => chunk'[sealedChunks[c]].written = chunk[sealedChunks[c]].written
           /\ \A p \in Pages : /\ Covers(writableChunks[c], p)' <=> Covers(writableChunks[c], p)
                               /\ Covers(sealedChunks[c], p)' <=> Covers(sealedChunks[c], p)
<1>1. writableChunks'[c] = writableChunks[c] /\ sealedChunks'[c] = sealedChunks[c]
  BY DEF SameAt
<1>2. writableChunks[c] # 0 => chunk'[writableChunks[c]].written = chunk[writableChunks[c]].written
  <2> SUFFICES ASSUME writableChunks[c] # 0
               PROVE  chunk'[writableChunks[c]].written = chunk[writableChunks[c]].written
    OBVIOUS
  <2>1. PICK w : w = writableChunks[c]
    OBVIOUS
  <2>2. w \in DOMAIN chunk' /\ chunk'[w].job # "done" /\ chunk'[w].lc = c
    BY <1>1, <2>1 DEF ChunkInv, PipeTypes, TableInv
  <2> QED BY <2>1, <2>2 DEF SameAt
<1>3. sealedChunks[c] # 0 => chunk'[sealedChunks[c]].written = chunk[sealedChunks[c]].written
  <2> SUFFICES ASSUME sealedChunks[c] # 0
               PROVE  chunk'[sealedChunks[c]].written = chunk[sealedChunks[c]].written
    OBVIOUS
  <2>1. PICK w : w = sealedChunks[c]
    OBVIOUS
  <2>3. w \in DOMAIN chunk'
    BY <1>1, <2>1 DEF ChunkInv, PipeTypes
  <2>4. chunk'[w].job \in Sealing /\ chunk'[w].lc = c
    BY <1>1, <2>1 DEF ChunkInv, TableInv
  <2>2. w \in DOMAIN chunk' /\ chunk'[w].job # "done" /\ chunk'[w].lc = c
    BY <2>3, <2>4 DEF Sealing
  <2> QED BY <2>1, <2>2 DEF SameAt
<1> QED BY <1>1, <1>2, <1>3 DEF Covers

\* Nothing is read differently where nothing has changed.
LEMMA SameReads ==
    ASSUME BaseInv, ChunkInv', NEW c \in Chunks, SameAt(c), GroupInv(c), ViewInv(c)
    PROVE  GroupInv(c)' /\ ViewInv(c)'
<1>0. /\ \A x \in DOMAIN chunk' : chunk'[x].job \in {"done", "open"} \cup Sealing
      /\ \A x \in DOMAIN chunk : chunk[x].job \in {"done", "open"} \cup Sealing
  <2>1. ASSUME PipeTypes PROVE \A x \in DOMAIN chunk : chunk[x].job \in {"done", "open"} \cup Sealing
    BY <2>1, ChunkTypes
  <2>2. ASSUME PipeTypes' PROVE \A x \in DOMAIN chunk' : chunk'[x].job \in {"done", "open"} \cup Sealing
    <3>1. \A x \in DOMAIN chunk' : chunk'[x] \in {Done} \cup Chunk
      BY <2>2 DEF PipeTypes
    <3> QED BY <3>1 DEF Done, Chunk
  <2> QED BY <2>1, <2>2 DEF BaseInv, ChunkInv
<1>1. file'.group[c] = file.group[c] /\ writableChunks'[c] = writableChunks[c] /\ sealedChunks'[c] = sealedChunks[c]
      /\ Len(writes) <= Len(writes')
  BY DEF SameAt
<1>2. ViewInv(c)'
  <2> SUFFICES ASSUME NEW p \in Pages
               PROVE  View(c, p)' = Last(c, p)'
    BY DEF ViewInv
  <2>1. View(c, p)' = View(c, p)
    BY <1>1, CoversSame DEF View, Covers
  <2> QED BY <2>1 DEF ViewInv, SameAt
<1>3. \A p \in Pages : file.group[c][p].ts <= Len(writes')
  <2>1. Len(writes) \in Nat /\ Len(writes') \in Nat
    BY DEF BaseInv, ChunkInv, WriteTypes
  <2>2. \A p \in Pages : file.group[c][p].ts \in Nat
    BY DEF BaseInv, ThreadTypes, FileContent
  <2> QED BY <1>1, <2>1, <2>2 DEF GroupInv
<1>4. ASSUME NEW x \in DOMAIN chunk', chunk'[x].job # "done", chunk'[x].lc = c
      PROVE  /\ chunk'[x].job \in Sealing => sealedChunks[c] = x
             /\ \A p \in Pages : chunk'[x].job \in {"saved", "asleep"} /\ chunk'[x].written[p] # 0 =>
                  file.group[c][p].val = chunk'[x].written[p]
             /\ \A p, q \in Pages : chunk'[x].job \in {"open", "token", "ready"} /\ chunk'[x].written[q] # 0 =>
                  file.group[c][p].ts < chunk'[x].written[q]
  <2>1. /\ x \in DOMAIN chunk /\ chunk[x].lc = c /\ chunk'[x].written = chunk[x].written
        /\ chunk'[x].job = "open" <=> chunk[x].job = "open"
        /\ chunk'[x].job \in {"token", "ready"} <=> chunk[x].job \in {"token", "ready"}
        /\ chunk[x].job # "done"
    BY <1>4 DEF SameAt
  <2>2. /\ chunk'[x].job \in {"saved", "asleep"} => chunk[x].job \in {"saved", "asleep"}
        /\ chunk'[x].job \in Sealing => chunk[x].job \in Sealing
        /\ chunk'[x].job \in {"open", "token", "ready"} => Unsaved(x)
    BY <1>0, <1>4, <2>1 DEF Sealing, Unsaved
  <2> QED BY <2>1, <2>2 DEF GroupInv
<1>5. GroupInv(c)'
  BY <1>1, <1>3, <1>4 DEF GroupInv, Unsaved, Sealing
<1> QED BY <1>2, <1>5

LEMMA PageTypes ==
    ASSUME BaseInv, NEW c \in Chunks, NEW p \in Pages
    PROVE  /\ file.group[c][p].ts \in Nat /\ file.group[c][p].val \in Nat
           /\ file.entry[c][p].ts \in Nat /\ file.entry[c][p].val \in Nat
           /\ file.filer[c][p].ts \in Nat /\ file.filer[c][p].val \in Nat
BY DEF BaseInv, ThreadTypes, FileContent

\* What a chunk in use has of a page is a number of a write.
LEMMA WrittenTypes ==
    ASSUME BaseInv, NEW x \in DOMAIN chunk, chunk[x].job # "done", NEW p \in Pages
    PROVE  /\ chunk[x].lc \in Chunks /\ chunk[x].written \in Content
           /\ chunk[x].written[p] \in 0..Len(writes) /\ Len(writes) \in Nat
<1>1. chunk[x] \in Chunk /\ Len(writes) \in Nat /\ DOMAIN writes = 1..Len(writes)
  BY ChunkTypes DEF BaseInv, ChunkInv, WriteTypes
<1>2. chunk[x].lc \in Chunks /\ chunk[x].written \in Content
  BY <1>1 DEF Chunk
<1>3. chunk[x].written[p] # 0 => chunk[x].written[p] \in DOMAIN writes
  BY DEF BaseInv, ChunkInv, WrittenInv, Live, IsWrite
<1>4. chunk[x].written[p] \in 0..Len(writes)
  BY <1>1, <1>3
<1> QED BY <1>1, <1>2, <1>4

\* The write before and after: it is the last one of its pages.
LastNext(c, span) ==
    /\ Len(writes') = Len(writes) + 1 /\ Len(writes) \in Nat
    /\ \A i \in 1..Len(writes) : writes'[i] = writes[i]
    /\ \A d, p : Last(d, p)' = IF d = c /\ p \in span THEN Len(writes) + 1 ELSE Last(d, p)
    /\ \A d, p : \A m \in 0..Len(writes) : LastWrite(d, p, m)' = LastWrite(d, p, m)

\* A write becomes the last of its pages and of no other.
LEMMA WritesLast ==
    ASSUME WriteTypes, PipeTypes, TableInv, NEW c, NEW span, NEW o, Writes(c, span, o)
    PROVE  LastNext(c, span)
<1>1. PICK n : n = Len(writes)
  OBVIOUS
<1>2. PICK wr : wr = writes
  OBVIOUS
<1>3. PICK w2 : w2 = writes'
  OBVIOUS
<1>4. n \in Nat /\ w2[n + 1] = [lc |-> c, span |-> span] /\ Len(w2) = n + 1
      /\ \A i \in 1..n : w2[i] = wr[i]
  <2>1. wr \in Seq([lc : Chunks, span : SUBSET Pages]) /\ w2 = Append(wr, [lc |-> c, span |-> span])
    BY <1>2, <1>3 DEF Writes, WriteTypes
  <2> QED BY <1>1, <1>2, <2>1
<1>5. \A d, p : LastIn(w2, d, p, n + 1) = IF d = c /\ p \in span THEN n + 1 ELSE LastIn(w2, d, p, n)
  <2> TAKE d, p
  <2>1. w2[n + 1].lc = d /\ p \in w2[n + 1].span <=> d = c /\ p \in span
    BY <1>4
  <2>2. n \in Nat
    BY <1>4
  <2>3. LastIn(w2, d, p, n + 1) =
          IF w2[n + 1].lc = d /\ p \in w2[n + 1].span THEN n + 1 ELSE LastIn(w2, d, p, n)
    BY <2>2, LastInNext, Zenon
  <2> QED BY <2>1, <2>3, Zenon
<1>6. \A d, p : \A m \in 0..n : LastIn(w2, d, p, m) = LastIn(wr, d, p, m)
  <2> TAKE d, p
  <2> TAKE m \in 0..n
  <2>1. m \in Nat /\ \A i \in 1..m : w2[i] = wr[i]
    BY <1>4
  <2> QED BY <2>1, LastInSame
<1>7. \A d, p, m : LastWrite(d, p, m)' = LastIn(w2, d, p, m) /\ LastWrite(d, p, m) = LastIn(wr, d, p, m)
  BY <1>2, <1>3, LastWriteIn, LastWriteInNext
<1>8. \A d, p : Last(d, p)' = LastIn(w2, d, p, n + 1) /\ Last(d, p) = LastIn(wr, d, p, n)
  <2> TAKE d, p
  <2>1. Last(d, p)' = LastIn(writes', d, p, Len(writes'))
    BY DEF Last, LastWrite, LastIn
  <2>2. Last(d, p) = LastIn(writes, d, p, Len(writes))
    BY DEF Last, LastWrite, LastIn
  <2> QED BY <1>1, <1>2, <1>3, <1>4, <2>1, <2>2
<1>9. n \in 0..n
  BY <1>4
<1>10. \A d, p : Last(d, p)' = IF d = c /\ p \in span THEN n + 1 ELSE Last(d, p)
  BY <1>5, <1>6, <1>8, <1>9
<1> QED BY <1>1, <1>2, <1>3, <1>4, <1>6, <1>7, <1>10 DEF LastNext

LEMMA LastSame ==
    ASSUME writes' = writes
    PROVE  /\ \A d, p : Last(d, p)' = Last(d, p)
           /\ \A d, p, m : LastWrite(d, p, m)' = LastWrite(d, p, m)
BY DEF Last, LastWrite

\* The chunk a write goes to, as reads see it.
WritesView(c, span, o) ==
    /\ \A p \in Pages : chunk'[o].written[p] =
         IF p \in span THEN Len(writes) + 1 ELSE IF o \in DOMAIN chunk THEN chunk[o].written[p] ELSE 0
    /\ writableChunks[c] = IF o \in DOMAIN chunk THEN o ELSE 0

\* What a read finds in the chunk after a write.
LEMMA WritesViewIs ==
    ASSUME WriteTypes, PipeTypes, TableInv, NEW c, NEW span, NEW o, Writes(c, span, o)
    PROVE  WritesView(c, span, o)
<1>1. CASE WritesOpen(c, span, o)
  BY <1>1 DEF WritesOpen, WritesView, Put
<1>2. CASE WritesNew(c, span, o)
  BY <1>2 DEF WritesNew, WritesView, Put, Zero
<1> QED BY <1>1, <1>2 DEF Writes

\* A read that begins after a write finds it.
LEMMA WriteReads ==
    ASSUME BaseInv, ChunkInv', NEW c0 \in Chunks, NEW span \in SUBSET Pages, NEW o \in Nat,
           Writes(c0, span, o), NEW c \in Chunks, GroupInv(c), ViewInv(c)
    PROVE  GroupInv(c)' /\ ViewInv(c)'
<1>1. WritesChunk(c0, span, o) /\ LastNext(c0, span) /\ WritesView(c0, span, o)
  BY WritesFacts, WritesLast, WritesViewIs DEF BaseInv, ChunkInv
<1>2. /\ sealedChunks' = sealedChunks /\ file' = file /\ o # 0
      /\ chunk'[o].lc = c0 /\ chunk'[o].job = "open"
  BY DEF Writes, WriteEnds
<1>3. \A x \in DOMAIN chunk' : x # o => x \in DOMAIN chunk /\ chunk'[x] = chunk[x]
  BY <1>1 DEF WritesChunk
<1>4. PICK n \in Nat : n = Len(writes) /\ Len(writes') = n + 1
  BY <1>1 DEF LastNext
<1>5. CASE c # c0
  <2>1. writableChunks'[c] = writableChunks[c]
    BY <1>1, <1>5 DEF WritesChunk
  <2>2. \A p \in Pages : Last(c, p)' = Last(c, p)
    BY <1>1, <1>5 DEF LastNext
  <2>3. SameAt(c)
    BY <1>2, <1>3, <1>4, <1>5, <2>1, <2>2 DEF SameAt
  <2> QED BY <2>3, SameReads
<1>6. CASE c = c0
  <2>1. \A p \in Pages : Last(c, p)' = IF p \in span THEN n + 1 ELSE Last(c, p)
    BY <1>1, <1>4, <1>6 DEF LastNext
  <2>2. \A p \in Pages : chunk'[o].written[p] =
          IF p \in span THEN n + 1 ELSE IF o \in DOMAIN chunk THEN chunk[o].written[p] ELSE 0
    BY <1>1, <1>4 DEF WritesView
  <2>3. writableChunks'[c] = o /\ writableChunks[c] = IF o \in DOMAIN chunk THEN o ELSE 0
    BY <1>1, <1>6 DEF WritesChunk, WritesView
  <2>4. sealedChunks[c] # 0 => sealedChunks[c] # o /\ chunk'[sealedChunks[c]] = chunk[sealedChunks[c]]
    <3>1. sealedChunks[c] # 0 => sealedChunks[c] \in DOMAIN chunk /\ chunk[sealedChunks[c]].job \in Sealing
      <4>1. sealedChunks[c] # 0 => sealedChunks[c] \in DOMAIN chunk
        BY TableRefs DEF BaseInv
      <4>2. sealedChunks[c] # 0 => chunk[sealedChunks[c]].job \in Sealing
        BY DEF BaseInv, ChunkInv, TableInv
      <4> QED BY <4>1, <4>2
    <3>2. o \in DOMAIN chunk => chunk[o].job = "open"
      BY <1>1 DEF WritesChunk
    <3>3. DOMAIN chunk' = DOMAIN chunk \cup {o}
      BY <1>1 DEF WritesChunk
    <3> QED BY <1>3, <3>1, <3>2, <3>3 DEF Sealing
  <2>5. ViewInv(c)'
    <3> SUFFICES ASSUME NEW p \in Pages
                 PROVE  View(c, p)' = Last(c, p)'
      BY DEF ViewInv
    <3>1. View(c, p) = Last(c, p)
      BY DEF ViewInv
    <3>2. View(c, p)' = IF chunk'[o].written[p] # 0 THEN chunk'[o].written[p]
                        ELSE IF Covers(sealedChunks[c], p) THEN chunk[sealedChunks[c]].written[p]
                        ELSE file.group[c][p].val
      BY <1>2, <2>3, <2>4 DEF View, Covers
    <3>3. CASE p \in span
      <4>1. chunk'[o].written[p] = n + 1 /\ n + 1 # 0
        BY <2>2, <3>3
      <4> QED BY <2>1, <3>2, <3>3, <4>1
    <3>4. CASE p \notin span /\ o \in DOMAIN chunk
      <4>1. chunk'[o].written[p] = chunk[o].written[p] /\ writableChunks[c] = o
        BY <2>2, <2>3, <3>4
      <4>2. View(c, p) = IF chunk[o].written[p] # 0 THEN chunk[o].written[p]
                         ELSE IF Covers(sealedChunks[c], p) THEN chunk[sealedChunks[c]].written[p]
                         ELSE file.group[c][p].val
        BY <1>2, <4>1 DEF View, Covers
      <4> QED BY <2>1, <3>1, <3>2, <3>4, <4>1, <4>2
    <3>5. CASE p \notin span /\ o \notin DOMAIN chunk
      <4>1. chunk'[o].written[p] = 0 /\ writableChunks[c] = 0
        BY <2>2, <2>3, <3>5
      <4>2. View(c, p) = IF Covers(sealedChunks[c], p) THEN chunk[sealedChunks[c]].written[p]
                         ELSE file.group[c][p].val
        BY <4>1 DEF View, Covers
      <4> QED BY <2>1, <3>1, <3>2, <3>5, <4>1, <4>2
    <3> QED BY <3>3, <3>4, <3>5
  <2>6. \A p \in Pages : file.group[c][p].ts \in Nat /\ file.group[c][p].ts <= n
    BY <1>4, PageTypes DEF GroupInv
  <2>7. \A x \in DOMAIN chunk', p, q \in Pages :
          Unsaved(x)' /\ chunk'[x].lc = c /\ chunk'[x].written[q] # 0 =>
             file.group[c][p].ts < chunk'[x].written[q]
    <3> SUFFICES ASSUME NEW x \in DOMAIN chunk', NEW p \in Pages, NEW q \in Pages,
                        Unsaved(x)', chunk'[x].lc = c, chunk'[x].written[q] # 0
                 PROVE  file.group[c][p].ts < chunk'[x].written[q]
      OBVIOUS
    <3>1. CASE x # o
      <4>1. x \in DOMAIN chunk /\ chunk'[x] = chunk[x]
        BY <1>3, <3>1
      <4>2. Unsaved(x)
        BY <4>1 DEF Unsaved
      <4> QED BY <4>1, <4>2 DEF GroupInv
    <3>2. CASE x = o /\ q \in span
      <4>1. chunk'[x].written[q] = n + 1
        BY <2>2, <3>2
      <4> QED BY <2>6, <4>1
    <3>3. CASE x = o /\ q \notin span
      <4>1. o \in DOMAIN chunk /\ chunk'[o].written[q] = chunk[o].written[q]
        BY <2>2, <3>3
      <4>2. Unsaved(o) /\ chunk[o].lc = c
        BY <1>1, <1>6, <4>1 DEF Unsaved, WritesChunk
      <4> QED BY <3>3, <4>1, <4>2 DEF GroupInv
    <3> QED BY <3>1, <3>2, <3>3
  <2>8. \A x \in DOMAIN chunk' : chunk'[x].job \in Sealing /\ chunk'[x].lc = c => sealedChunks[c] = x
    BY <1>2, <1>3 DEF GroupInv, Sealing
  <2>9. \A x \in DOMAIN chunk', p \in Pages :
         chunk'[x].job \in {"saved", "asleep"} /\ chunk'[x].lc = c /\ chunk'[x].written[p] # 0 =>
            file.group[c][p].val = chunk'[x].written[p]
    BY <1>2, <1>3 DEF GroupInv
  <2>10. \A p \in Pages : file.group[c][p].ts <= n + 1
    BY <2>6
  <2>11. GroupInv(c)'
    BY <1>2, <1>4, <2>7, <2>8, <2>9, <2>10 DEF GroupInv
  <2> QED BY <2>5, <2>11
<1> QED BY <1>5, <1>6

\* What was lapped, or had a failed upload, stays so.
LEMMA CleanBefore ==
    ASSUME BaseInv, Kinds, NEW c \in Chunks, Clean(c)'
    PROVE  Clean(c)
<1>1. ASSUME NEW d \in Chunks, NEW span \in SUBSET Pages, NEW o \in Nat, WriteKind(d, span, o)
      PROVE  Clean(c)
  BY <1>1 DEF WriteKind, Writes, WriteEnds, Clean
<1>2. ASSUME NEW o \in DOMAIN chunk, NEW d \in Chunks, NEW old \in Nat, SealKind(o, d, old)
      PROVE  Clean(c)
  <2>1. MishapGrows /\ lastErr' = lastErr
    BY <1>2, ChunkSeals DEF SealKind, handleVars, BaseInv
  <2> QED BY <2>1 DEF MishapGrows, Clean
<1>3. ASSUME NEW o \in DOMAIN chunk, SaveContent(o)
      PROVE  Clean(c)
  <2>1. mishap[c] \subseteq mishap'[c] /\ lastErr' = lastErr
    BY <1>3 DEF SaveContent, handleVars, BaseInv, ChunkInv, PipeTypes
  <2> QED BY <2>1 DEF Clean
<1>4. ASSUME NEW o \in DOMAIN chunk, SaveFails(o)
      PROVE  Clean(c)
  BY <1>4 DEF SaveFails, Clean
<1>5. ASSUME NEW o \in DOMAIN chunk, RemoveSealed(o)
      PROVE  Clean(c)
  BY <1>5 DEF RemoveSealed, Clean, handleVars
<1>6. CASE Quiet
  BY <1>6 DEF Quiet, Clean, Marked
<1> QED BY <1>1, <1>2, <1>3, <1>4, <1>5, <1>6 DEF Kinds

\* Quiet steps change nothing that reads find.
LEMMA QuietReads ==
    ASSUME BaseInv, ChunkInv', Quiet, NEW c \in Chunks
    PROVE  SameAt(c)
<1>1. UNCHANGED <<writableChunks, sealedChunks, writes>> /\ file'.group = file.group
  BY DEF Quiet, StaysPut
<1>2. Len(writes) \in Nat
  BY DEF BaseInv, ChunkInv, WriteTypes
<1>3. DOMAIN chunk' = DOMAIN chunk
  BY DEF Quiet, StaysPut, SameData, SameDomain
<1>4. \A x \in DOMAIN chunk : /\ chunk'[x].lc = chunk[x].lc /\ chunk'[x].written = chunk[x].written
                              /\ chunk'[x].job = "open" <=> chunk[x].job = "open"
                              /\ chunk'[x].job = "done" <=> chunk[x].job = "done"
                              /\ chunk'[x].job \in {"token", "ready"} <=> chunk[x].job \in {"token", "ready"}
  BY DEF Quiet, StaysPut, SameData
<1> QED BY <1>1, <1>2, <1>3, <1>4, LastSame DEF SameAt

\* The chunk that is sealed takes the place of none, unless its index is lapped.
LEMMA SealReads ==
    ASSUME BaseInv, ChunkInv', NEW o \in DOMAIN chunk, NEW c0 \in Chunks, NEW old \in Nat,
           Seals(o, c0, old), writes' = writes, file' = file, NEW c \in Chunks, "lapped" \notin mishap'[c]
    PROVE  /\ c # c0 => SameAt(c)
           /\ c = c0 => old = 0 /\ sealedChunks[c] = 0 /\ writableChunks[c] = o
                        /\ sealedChunks'[c] = o /\ writableChunks'[c] = 0
                        /\ chunk'[o].written = chunk[o].written
           /\ c = c0 /\ GroupInv(c) => GroupInv(c)'
           /\ c = c0 /\ ViewInv(c) => ViewInv(c)'
<1>1. /\ DOMAIN chunk' = DOMAIN chunk /\ Len(writes) \in Nat
      /\ \A x \in DOMAIN chunk : chunk'[x].lc = chunk[x].lc /\ chunk'[x].written = chunk[x].written
      /\ \A x \in DOMAIN chunk : chunk'[x].job = IF x = o THEN "token" ELSE chunk[x].job
      /\ chunk[o].job = "open" /\ chunk[o].lc = c0
  BY DEF Seals, SameData, SameDomain, BaseInv, ChunkInv, WriteTypes
<1>2. /\ old = sealedChunks[c0] /\ writableChunks[c0] = o
      /\ \A d \in Chunks : sealedChunks'[d] = IF d = c0 THEN o ELSE sealedChunks[d]
      /\ \A d \in Chunks : writableChunks'[d] = IF d = c0 THEN 0 ELSE writableChunks[d]
  BY DEF Seals, BaseInv, ChunkInv, PipeTypes
<1>3. c = c0 => old = 0
  BY DEF Seals, BaseInv, ChunkInv, PipeTypes
<1>4. c # c0 => SameAt(c)
  BY <1>1, <1>2, LastSame DEF SameAt
<1>5. ASSUME c = c0, GroupInv(c) PROVE GroupInv(c)'
  <2>1. o # 0 /\ \A x \in DOMAIN chunk : x # 0
    BY ChunkTypes DEF BaseInv, ChunkInv
  <2>2. \A x \in DOMAIN chunk : chunk[x].job \in Sealing => chunk[x].lc # c
    BY <1>2, <1>3, <1>5, <2>1 DEF GroupInv
  <2>3. \A x \in DOMAIN chunk : chunk'[x].job \in Sealing /\ chunk'[x].lc = c => x = o
    BY <1>1, <2>2
  <2>4. \A x \in DOMAIN chunk : chunk'[x].job \in {"saved", "asleep"} => chunk'[x].lc # c
    BY <1>1, <2>2 DEF Sealing
  <2>5. \A x \in DOMAIN chunk : Unsaved(x)' => Unsaved(x)
    BY <1>1 DEF Unsaved
  <2>6. \A x \in DOMAIN chunk, p, q \in Pages :
          Unsaved(x)' /\ chunk'[x].lc = c /\ chunk'[x].written[q] # 0 =>
            file.group[c][p].ts < chunk'[x].written[q]
    BY <1>1, <1>5, <2>5 DEF GroupInv
  <2> QED BY <1>1, <1>2, <1>5, <2>3, <2>4, <2>6 DEF GroupInv
<1>6. ASSUME c = c0, ViewInv(c) PROVE ViewInv(c)'
  <2> SUFFICES ASSUME NEW p \in Pages
               PROVE  View(c, p)' = Last(c, p)'
    BY DEF ViewInv
  <2>1. View(c, p)' = View(c, p)
    BY <1>1, <1>2, <1>3, <1>6 DEF View, Covers
  <2> QED BY <1>6, <2>1, LastSame DEF ViewInv
<1> QED BY <1>1, <1>2, <1>3, <1>4, <1>5, <1>6

\* A removal does not either: what the chunk has was uploaded.
LEMMA RemoveReads ==
    ASSUME BaseInv, ChunkInv', NEW o \in DOMAIN chunk, RemoveSealed(o), Removes(o), NEW c \in Chunks
    PROVE  /\ c # chunk[o].lc => SameAt(c)
           /\ c = chunk[o].lc /\ GroupInv(c) => GroupInv(c)'
           /\ c = chunk[o].lc /\ GroupInv(c) /\ ViewInv(c) => ViewInv(c)'
<1>1. /\ DOMAIN chunk' = DOMAIN chunk /\ chunk'[o] = Done
      /\ \A x \in DOMAIN chunk : x # o => chunk'[x] = chunk[x]
  BY DEF Removes, SameDomain
<1>2. /\ chunk[o].job = "saved" /\ UNCHANGED <<writes, writableChunks, file>> /\ Len(writes) \in Nat
      /\ \A d \in Chunks : sealedChunks'[d] = IF d = chunk[o].lc THEN 0 ELSE sealedChunks[d]
  BY DEF RemoveSealed, handleVars, BaseInv, ChunkInv, PipeTypes, WriteTypes
<1>3. Done.job = "done"
  BY DEF Done
<1>4. c # chunk[o].lc => SameAt(c)
  BY <1>1, <1>2, <1>3, LastSame DEF SameAt
<1>5. ASSUME c = chunk[o].lc, GroupInv(c)
      PROVE  sealedChunks[c] = o /\ \A x \in DOMAIN chunk : chunk'[x].job \in Sealing => chunk'[x].lc # c
  <2>1. sealedChunks[c] = o
    BY <1>2, <1>5 DEF GroupInv, Sealing
  <2> QED BY <1>1, <1>3, <1>5, <2>1 DEF GroupInv, Sealing
<1>6. ASSUME c = chunk[o].lc, GroupInv(c) PROVE GroupInv(c)'
  <2>1. \A x \in DOMAIN chunk : chunk'[x].job \in {"saved", "asleep"} => chunk'[x].lc # c
    BY <1>5, <1>6 DEF Sealing
  <2>2. \A x \in DOMAIN chunk : Unsaved(x)' => x # o /\ Unsaved(x)
    BY <1>1, <1>3 DEF Unsaved
  <2>3. \A x \in DOMAIN chunk, p, q \in Pages :
          Unsaved(x)' /\ chunk'[x].lc = c /\ chunk'[x].written[q] # 0 =>
            file.group[c][p].ts < chunk'[x].written[q]
    BY <1>1, <1>6, <2>2 DEF GroupInv
  <2> QED BY <1>1, <1>2, <1>5, <1>6, <2>1, <2>3 DEF GroupInv
<1>7. ASSUME c = chunk[o].lc, GroupInv(c), ViewInv(c) PROVE ViewInv(c)'
  <2> SUFFICES ASSUME NEW p \in Pages
               PROVE  View(c, p)' = Last(c, p)'
    BY DEF ViewInv
  <2>1. sealedChunks[c] = o /\ sealedChunks'[c] = 0
    BY <1>2, <1>5, <1>7
  <2>2. Covers(o, p) => file.group[c][p].val = chunk[o].written[p]
    BY <1>2, <1>7 DEF Covers, GroupInv
  <2>3. writableChunks[c] # 0 => writableChunks[c] \in DOMAIN chunk /\ writableChunks[c] # o
    BY <1>2, WritableIsOpen DEF BaseInv, ChunkInv
  <2>4. Covers(writableChunks[c], p)' <=> Covers(writableChunks[c], p)
    BY <1>1, <1>2, <2>3 DEF Covers
  <2>5. View(c, p)' = View(c, p)
    BY <1>1, <1>2, <2>1, <2>2, <2>3, <2>4 DEF View, Covers
  <2> QED BY <1>2, <1>7, <2>5, LastSame DEF ViewInv
<1> QED BY <1>4, <1>6, <1>7

\* What the upload of o makes of e, which a file has of the page p.
Stored(o, e, p) ==
    IF chunk[o].written[p] # 0 /\ SavedTs(chunk[o].written, p) >= e.ts
    THEN [ts |-> SavedTs(chunk[o].written, p), val |-> swap.block[chunk[o].block][p]] ELSE e

SavesFile(o) ==
    /\ \A d \in Chunks : d # chunk[o].lc => file'.group[d] = file.group[d] /\ file'.entry[d] = file.entry[d]
    /\ \A p \in Pages : /\ file'.group[chunk[o].lc][p] = Stored(o, file.group[chunk[o].lc][p], p)
                        /\ file'.entry[chunk[o].lc][p] = Stored(o, file.entry[chunk[o].lc][p], p)
    /\ file'.filer = file.filer

\* How SaveContent changes the three contents of the file.
LEMMA SavesFileIs ==
    ASSUME BaseInv, NEW o \in DOMAIN chunk, SaveContent(o)
    PROVE  SavesFile(o)
<1>1. /\ file' = [file EXCEPT !.group = AddChunk(@, o), !.entry = AddChunk(@, o)] /\ chunk[o].job # "done"
      /\ file \in [group : FileContent, entry : FileContent, filer : FileContent]
  BY DEF SaveContent, BaseInv, ThreadTypes
<1>2. /\ file'.group = AddChunk(file.group, o) /\ file'.entry = AddChunk(file.entry, o)
      /\ file'.filer = file.filer
  BY <1>1
<1>3. PICK g, e : g = file.group /\ e = file.entry /\ g \in FileContent /\ e \in FileContent
  BY <1>1
<1>4. \A content \in FileContent :
        /\ \A d \in Chunks : d # chunk[o].lc => AddChunk(content, o)[d] = content[d]
        /\ \A p \in Pages : AddChunk(content, o)[chunk[o].lc][p] = Stored(o, content[chunk[o].lc][p], p)
  BY <1>1, AddChunkIs DEF Stored, BaseInv, ChunkInv
<1> QED BY <1>2, <1>3, <1>4 DEF SavesFile

\* The upload of a chunk that has its block is that of its writes.
LEMMA StoredIs ==
    ASSUME BaseInv, NEW o \in DOMAIN chunk, chunk[o].job # "done", chunk[o].ref = 1,
           NEW p \in Pages, NEW e, e.ts \in Nat
    PROVE  \/ Stored(o, e, p) = e /\ (chunk[o].written[p] = 0 \/
                \E q \in Pages : chunk[o].written[q] # 0 /\ chunk[o].written[q] < e.ts
                                 /\ chunk[o].written[p] <= chunk[o].written[q])
           \/ /\ chunk[o].written[p] # 0 /\ Stored(o, e, p).val = chunk[o].written[p]
              /\ chunk[o].written[p] <= Stored(o, e, p).ts
              /\ \E q \in Pages : /\ chunk[o].written[q] # 0 /\ e.ts <= chunk[o].written[q]
                                  /\ Stored(o, e, p).ts = chunk[o].written[q]
<1>1. PICK w \in Content : w = chunk[o].written
  BY WrittenTypes
<1>2. \A q \in Pages : w[q] \in Nat
  BY <1>1, PipelineAssumption DEF Content
<1>3. CASE w[p] = 0
  BY <1>1, <1>3 DEF Stored
<1>4. CASE w[p] # 0
  <2>1. swap.block[chunk[o].block][p] = w[p]
    BY <1>1, <1>4 DEF BaseInv, ChunkInv, DataInv
  <2>2. PICK q \in Pages : w[q] # 0 /\ SavedTs(w, p) = w[q] /\ w[p] <= w[q]
    BY <1>4, SavedTsIs
  <2>3. Stored(o, e, p) = IF w[q] >= e.ts THEN [ts |-> w[q], val |-> w[p]] ELSE e
    BY <1>1, <1>4, <2>1, <2>2 DEF Stored
  <2>4. CASE w[q] >= e.ts
    <3>1. Stored(o, e, p).val = w[p] /\ Stored(o, e, p).ts = w[q]
      BY <2>3, <2>4
    <3> QED BY <1>1, <1>2, <1>4, <2>2, <2>4, <3>1
  <2>5. CASE ~(w[q] >= e.ts)
    <3>1. Stored(o, e, p) = e /\ w[q] < e.ts
      BY <1>2, <2>3, <2>5
    <3> QED BY <1>1, <2>2, <3>1
  <2> QED BY <2>4, <2>5
<1> QED BY <1>3, <1>4

\* An upload does not: the chunk is newer than all that was uploaded before.
LEMMA SaveReads ==
    ASSUME BaseInv, ChunkInv', NEW o \in DOMAIN chunk, SaveContent(o), Saves(o), NEW c \in Chunks
    PROVE  /\ c # chunk[o].lc => SameAt(c)
           /\ c = chunk[o].lc /\ GroupInv(c) => GroupInv(c)'
           /\ c = chunk[o].lc /\ GroupInv(c) /\ ViewInv(c) => ViewInv(c)'
<1>1. /\ DOMAIN chunk' = DOMAIN chunk /\ chunk[o].job = "ready" /\ chunk'[o].job = "saved"
      /\ \A x \in DOMAIN chunk : chunk'[x].lc = chunk[x].lc /\ chunk'[x].written = chunk[x].written
      /\ \A x \in DOMAIN chunk : x # o => chunk'[x].job = chunk[x].job
      /\ UNCHANGED <<writes, writableChunks, sealedChunks, swap>> /\ Len(writes) \in Nat
  BY DEF Saves, Rejobs, SameData, SameDomain, BaseInv, ChunkInv, WriteTypes
<1>2. SavesFile(o)
  BY SavesFileIs
<1>3. c # chunk[o].lc => SameAt(c)
  BY <1>1, <1>2, LastSame DEF SameAt, SavesFile
<1>4. ASSUME c = chunk[o].lc, GroupInv(c)
      PROVE  /\ sealedChunks[c] = o
             /\ \A x \in DOMAIN chunk : chunk[x].job \in Sealing /\ chunk[x].lc = c => x = o
             /\ \A p \in Pages :
                  IF chunk[o].written[p] = 0 THEN file'.group[c][p] = file.group[c][p]
                  ELSE /\ file'.group[c][p].val = chunk[o].written[p]
                       /\ \E q \in Pages : chunk[o].written[q] # 0 /\ file'.group[c][p].ts = chunk[o].written[q]
  <2>1. sealedChunks[c] = o
    BY <1>1, <1>4 DEF GroupInv, Sealing
  <2>2. chunk[o].ref = 1
    BY <2>1, TableRefs, ChunkTypes DEF BaseInv, ChunkInv
  <2>3. \A x \in DOMAIN chunk : chunk[x].job \in Sealing /\ chunk[x].lc = c => x = o
    BY <1>4, <2>1 DEF GroupInv
  <2>4. ASSUME NEW p \in Pages
        PROVE  IF chunk[o].written[p] = 0 THEN file'.group[c][p] = file.group[c][p]
               ELSE /\ file'.group[c][p].val = chunk[o].written[p]
                    /\ \E q \in Pages : chunk[o].written[q] # 0 /\ file'.group[c][p].ts = chunk[o].written[q]
    <3>1. PICK e : e = file.group[c][p] /\ e.ts \in Nat
      BY PageTypes
    <3>2. file'.group[c][p] = Stored(o, e, p)
      BY <1>2, <1>4, <3>1 DEF SavesFile
    <3>3. \A q \in Pages : chunk[o].written[q] # 0 => e.ts < chunk[o].written[q]
      BY <1>1, <1>4, <3>1 DEF GroupInv, Unsaved
    <3>4. \A q \in Pages : chunk[o].written[q] \in Nat
      BY <1>1, WrittenTypes
    <3>5. CASE chunk[o].written[p] = 0
      BY <3>1, <3>2, <3>5 DEF Stored
    <3>6. CASE chunk[o].written[p] # 0
      <4>1. /\ Stored(o, e, p).val = chunk[o].written[p]
            /\ \E q \in Pages : chunk[o].written[q] # 0 /\ Stored(o, e, p).ts = chunk[o].written[q]
        BY <1>1, <2>2, <3>1, <3>3, <3>4, <3>6, StoredIs
      <4> QED BY <3>2, <3>6, <4>1
    <3> QED BY <3>5, <3>6
  <2> QED BY <2>1, <2>3, <2>4
<1>5. ASSUME c = chunk[o].lc, GroupInv(c) PROVE GroupInv(c)'
  <2>1. \A p \in Pages : file'.group[c][p].ts <= Len(writes)
    <3> TAKE p \in Pages
    <3>1. CASE chunk[o].written[p] = 0
      BY <1>4, <1>5, <3>1 DEF GroupInv
    <3>2. CASE chunk[o].written[p] # 0
      <4>1. PICK q \in Pages : file'.group[c][p].ts = chunk[o].written[q]
        BY <1>4, <1>5, <3>2
      <4> QED BY <1>1, <4>1, WrittenTypes
    <3> QED BY <3>1, <3>2
  <2>2. \A x \in DOMAIN chunk : chunk'[x].job \in Sealing /\ chunk'[x].lc = c => x = o
    BY <1>1, <1>4, <1>5 DEF Sealing
  <2>3. \A x \in DOMAIN chunk, p \in Pages :
          chunk'[x].job \in {"saved", "asleep"} /\ chunk'[x].lc = c /\ chunk'[x].written[p] # 0 =>
             file'.group[c][p].val = chunk'[x].written[p]
    BY <1>1, <1>4, <1>5, <2>2 DEF Sealing
  <2>4. ASSUME NEW x \in DOMAIN chunk, NEW p \in Pages, NEW q \in Pages,
               Unsaved(x)', chunk'[x].lc = c, chunk'[x].written[q] # 0
        PROVE  file'.group[c][p].ts < chunk'[x].written[q]
    <3>1. x # o /\ Unsaved(x) /\ chunk[x].lc = c /\ chunk[x].written[q] # 0
      BY <1>1, <2>4 DEF Unsaved
    <3>2. chunk[x].job = "open"
      BY <1>4, <1>5, <3>1 DEF Unsaved, Sealing
    <3>3. o <= x /\ (o < x => Before(o, x))
      BY <1>1, <1>5, <3>1, <3>2 DEF BaseInv, ChunkInv, OrderInv, Live
    <3>4. o \in Nat /\ x \in Nat
      BY ChunkTypes DEF BaseInv, ChunkInv
    <3>5. Before(o, x)
      BY <3>1, <3>3, <3>4
    <3>6. CASE chunk[o].written[p] = 0
      BY <1>1, <1>4, <1>5, <3>1, <3>6 DEF GroupInv
    <3>7. CASE chunk[o].written[p] # 0
      <4>1. PICK s \in Pages : chunk[o].written[s] # 0 /\ file'.group[c][p].ts = chunk[o].written[s]
        BY <1>4, <1>5, <3>7
      <4> QED BY <1>1, <3>1, <3>5, <4>1 DEF Before
    <3> QED BY <3>6, <3>7
  <2>5. sealedChunks'[c] = o
    BY <1>1, <1>4, <1>5
  <2> QED BY <1>1, <2>1, <2>2, <2>3, <2>4, <2>5 DEF GroupInv
<1>6. ASSUME c = chunk[o].lc, GroupInv(c), ViewInv(c) PROVE ViewInv(c)'
  <2> SUFFICES ASSUME NEW p \in Pages
               PROVE  View(c, p)' = Last(c, p)'
    BY DEF ViewInv
  <2>1. sealedChunks[c] = o /\ o # 0
    BY <1>4, <1>6, ChunkTypes DEF BaseInv, ChunkInv
  <2>2. chunk[o].written[p] = 0 => file'.group[c][p] = file.group[c][p]
    BY <1>4, <1>6
  <2>3. writableChunks[c] # 0 => writableChunks[c] \in DOMAIN chunk
    BY WritableIsOpen DEF BaseInv, ChunkInv
  <2>4. /\ Covers(writableChunks[c], p)' <=> Covers(writableChunks[c], p)
        /\ Covers(sealedChunks[c], p)' <=> Covers(sealedChunks[c], p)
    BY <1>1, <2>1, <2>3 DEF Covers
  <2>5. View(c, p)' = View(c, p)
    BY <1>1, <2>1, <2>2, <2>3, <2>4 DEF View, Covers
  <2> QED BY <1>1, <1>6, <2>5, LastSame DEF ViewInv
<1> QED BY <1>3, <1>5, <1>6

\* What reads find is inductive.
LEMMA ReadNext ==
    ASSUME BaseInv, ChunkInv', Kinds, ReadInv
    PROVE  ReadInv'
<1> SUFFICES ASSUME NEW c \in Chunks, Clean(c)'
             PROVE  GroupInv(c)' /\ ViewInv(c)'
  BY DEF ReadInv
<1>0. GroupInv(c) /\ ViewInv(c)
  BY CleanBefore DEF ReadInv
<1>1. ASSUME NEW d \in Chunks, NEW span \in SUBSET Pages, NEW o \in Nat, WriteKind(d, span, o)
      PROVE  GroupInv(c)' /\ ViewInv(c)'
  BY <1>0, <1>1, WriteReads DEF WriteKind
<1>2. ASSUME NEW o \in DOMAIN chunk, NEW d \in Chunks, NEW old \in Nat, SealKind(o, d, old)
      PROVE  GroupInv(c)' /\ ViewInv(c)'
  <2>1. Seals(o, d, old) /\ writes' = writes /\ file' = file /\ "lapped" \notin mishap'[c]
    BY <1>2 DEF SealKind, handleVars, Clean
  <2> QED BY <1>0, <2>1, SealReads, SameReads
<1>3. ASSUME NEW o \in DOMAIN chunk, SaveContent(o), Saves(o)
      PROVE  GroupInv(c)' /\ ViewInv(c)'
  BY <1>0, <1>3, SaveReads, SameReads
<1>4. ASSUME NEW o \in DOMAIN chunk, SaveFails(o)
      PROVE  FALSE
  BY <1>4 DEF SaveFails, Clean
<1>5. ASSUME NEW o \in DOMAIN chunk, RemoveSealed(o), Removes(o)
      PROVE  GroupInv(c)' /\ ViewInv(c)'
  BY <1>0, <1>5, RemoveReads, SameReads
<1>6. CASE Quiet
  BY <1>0, <1>6, QuietReads, SameReads
<1> QED BY <1>1, <1>2, <1>3, <1>4, <1>5, <1>6 DEF Kinds

\* What a reader has stays right where nothing has changed.
LEMMA GotSame ==
    ASSUME BaseInv, ChunkInv', NEW c \in Chunks, SameAt(c), NEW got, GotInv(c, got)
    PROVE  GotInv(c, got)'
BY CoversSame DEF GotInv, SameAt

\* While a thread reads nothing is written, and what it has yet to read of the
\* chunks stays there.
LEMMA ReaderKeeps ==
    ASSUME BaseInv, ChunkInv', Kinds, NEW r \in Readers, reader[r].pc # "idle",
           NEW c, c = reader[r].lc, Clean(c)', NEW got
    PROVE  /\ c \in Chunks /\ writes' = writes
           /\ GotInv(c, got) => GotInv(c, got)'
<1>0. c \in Chunks /\ writer.pc = "idle" /\ Shared
  BY DEF BaseInv, SharedInv, Shared
<1> DEFINE Goal == writes' = writes /\ (GotInv(c, got) => GotInv(c, got)')
<1>1. ASSUME NEW d \in Chunks, NEW span \in SUBSET Pages, NEW o \in Nat, WriteKind(d, span, o)
      PROVE  Goal
  BY <1>0, <1>1 DEF WriteKind
<1>2. ASSUME NEW o \in DOMAIN chunk, NEW d \in Chunks, NEW old \in Nat, SealKind(o, d, old)
      PROVE  Goal
  <2>1. Seals(o, d, old) /\ writes' = writes /\ file' = file /\ "lapped" \notin mishap'[c]
    BY <1>2 DEF SealKind, handleVars, Clean
  <2>2. CASE c # d
    BY <1>0, <2>1, <2>2, SealReads, GotSame
  <2>3. CASE c = d
    <3>1. /\ sealedChunks[c] = 0 /\ writableChunks[c] = o /\ sealedChunks'[c] = o /\ writableChunks'[c] = 0
          /\ chunk'[o].written = chunk[o].written
      BY <1>0, <2>1, <2>3, SealReads
    <3> QED BY <2>1, <3>1, LastSame DEF GotInv, Covers
  <2> QED BY <2>2, <2>3
<1>3. ASSUME NEW o \in DOMAIN chunk, SaveContent(o), Saves(o)
      PROVE  Goal
  <2>1. /\ DOMAIN chunk' = DOMAIN chunk /\ UNCHANGED <<writes, writableChunks, sealedChunks>>
        /\ \A x \in DOMAIN chunk : chunk'[x].written = chunk[x].written
    BY <1>3 DEF Saves, Rejobs, SameData, SameDomain
  <2>2. /\ writableChunks[c] # 0 => writableChunks[c] \in DOMAIN chunk
        /\ sealedChunks[c] # 0 => sealedChunks[c] \in DOMAIN chunk
    BY <1>0, TableRefs DEF BaseInv
  <2>3. \A p \in Pages : /\ Covers(writableChunks[c], p) => Covers(writableChunks[c], p)'
                         /\ Covers(sealedChunks[c], p) => Covers(sealedChunks[c], p)'
    BY <2>1, <2>2 DEF Covers
  <2> QED BY <2>1, <2>3, LastSame DEF GotInv
<1>4. ASSUME NEW o \in DOMAIN chunk, SaveFails(o)
      PROVE  FALSE
  BY <1>4 DEF SaveFails, Clean
<1>5. ASSUME NEW o \in DOMAIN chunk, RemoveSealed(o), Removes(o)
      PROVE  Goal
  <2>1. c # chunk[o].lc /\ writes' = writes
    BY <1>5 DEF RemoveSealed, IsLocked, handleVars
  <2> QED BY <1>0, <1>5, <2>1, RemoveReads, GotSame
<1>6. CASE Quiet
  <2>1. SameAt(c) /\ writes' = writes
    BY <1>0, <1>6, QuietReads DEF Quiet, StaysPut
  <2> QED BY <1>0, <2>1, GotSame
<1> QED BY <1>0, <1>1, <1>2, <1>3, <1>4, <1>5, <1>6 DEF Kinds

\* Only threads that read change what they have read.
LEMMA ReaderSame ==
    ASSUME BaseInv, Kinds
    PROVE  reader' = reader \/ \E r \in Readers : Quiet /\ ReaderTurns(r)
<1>1. ASSUME Quiet, QuietStep
      PROVE  reader' = reader \/ \E r \in Readers : Quiet /\ ReaderTurns(r)
  BY <1>1, FlushTypes DEF QuietStep, Rests, WriteReturns
<1>2. ASSUME NEW c, NEW span, NEW o, WriteKind(c, span, o) PROVE reader' = reader
  BY <1>2 DEF WriteKind, Writes, WriteEnds
<1>3. ASSUME NEW o, NEW c, NEW old, SealKind(o, c, old) PROVE reader' = reader
  BY <1>3 DEF SealKind
<1>4. ASSUME NEW o, SaveContent(o) \/ SaveFails(o) \/ RemoveSealed(o) PROVE reader' = reader
  BY <1>4 DEF SaveContent, SaveFails, RemoveSealed
<1> QED BY <1>1, <1>2, <1>3, <1>4 DEF Kinds

\* What a reader has stays right in every step of others.
LEMMA ReaderKept ==
    ASSUME BaseInv, ChunkInv', Kinds, NEW r \in Readers, reader[r].pc # "idle", NEW c, c = reader[r].lc,
           NEW got
    PROVE  /\ DirtyRight(c, got) => DirtyRight(c, got)'
           /\ ReadRight(c, got) => ReadRight(c, got)'
<1>1. ASSUME Clean(c)'
      PROVE  Clean(c) /\ writes' = writes /\ (GotInv(c, got) => GotInv(c, got)')
  BY <1>1, ReaderKeeps, CleanBefore
<1>2. DirtyRight(c, got) => DirtyRight(c, got)'
  BY <1>1 DEF DirtyRight
<1>3. ReadRight(c, got) => ReadRight(c, got)'
  BY <1>1, LastSame DEF ReadRight
<1> QED BY <1>2, <1>3

\* Readers are right in every step.
LEMMA ReadsNext ==
    ASSUME BaseInv, BaseInv', Kinds, ReadInv, ReadsRight
    PROVE  ReadsRight'
<1> USE DEF ReadsRight
<1>0. ChunkInv'
  BY DEF BaseInv
<1>1. ASSUME NEW r \in Readers, reader'[r] = reader[r]
      PROVE  /\ reader'[r].pc = "dirty" => DirtyRight(reader[r].lc, reader[r].got)'
             /\ reader'[r].pc = "unlock" => ReadRight(reader[r].lc, reader[r].got)'
  <2>1. PICK c, got : c = reader[r].lc /\ got = reader[r].got /\ c = reader'[r].lc /\ got = reader'[r].got
    BY <1>1
  <2>2. reader[r].pc = "dirty" => DirtyRight(c, got)'
    BY <1>0, <2>1, ReaderKept
  <2>3. reader[r].pc = "unlock" => ReadRight(c, got)'
    BY <1>0, <2>1, ReaderKept
  <2>4. reader'[r].pc = reader[r].pc
    BY <1>1
  <2>5. (reader[r].lc)' = c /\ (reader[r].got)' = got
    BY <2>1
  <2> QED BY <2>2, <2>3, <2>4, <2>5
<1>2. CASE reader' = reader
  <2>1. \A r \in Readers : reader'[r] = reader[r]
    BY <1>2
  <2> QED BY <1>1, <2>1
<1>3. ASSUME NEW r \in Readers, Quiet, ReaderTurns(r)
      PROVE  ReadsRight'
  <2>1. reader \in [Readers -> [pc : {"idle", "dirty", "unlock"}, lc : Chunks \cup {0}, got : [Pages -> Nat]]]
    BY DEF BaseInv, ThreadTypes
  <2>2. \A x \in Readers : x # r => reader'[x] = reader[x]
    BY <1>3, <2>1 DEF ReaderTurns, ReadFromChunks, MaybeReadDataAt, UnlockForRead
  <2>3. ASSUME NEW c \in Reads, ReadFromChunks(r, c)
        PROVE  reader'[r].pc = "dirty" /\ DirtyRight(reader[r].lc, reader[r].got)'
    <3>1. reader'[r] = [pc |-> "dirty", lc |-> c, got |-> [p \in Pages |-> file.group[c][p].val]]
          /\ UNCHANGED <<writes, lastErr, chunk, writableChunks, sealedChunks, mishap>>
      BY <2>1, <2>3 DEF ReadFromChunks, handleVars, pipeVars
    <3>2. PICK got : got = [p \in Pages |-> file.group[c][p].val]
      OBVIOUS
    <3>3. c \in Chunks
      BY PipelineAssumption
    <3>4. Clean(c) => GotInv(c, got)
      <4> SUFFICES ASSUME Clean(c), NEW p \in Pages
                   PROVE  got[p] = Last(c, p) \/ Covers(writableChunks[c], p) \/ Covers(sealedChunks[c], p)
        BY DEF GotInv
      <4>1. View(c, p) = Last(c, p)
        BY <3>3 DEF ReadInv, ViewInv
      <4> QED BY <3>2, <4>1 DEF View
    <3>5. DirtyRight(c, got)'
      BY <3>1, <3>4, LastSame DEF DirtyRight, Clean, GotInv, Covers
    <3>6. reader'[r].lc = c /\ reader'[r].got = got /\ reader'[r].pc = "dirty"
      BY <3>1, <3>2
    <3> QED BY <3>5, <3>6
  <2>4. ASSUME MaybeReadDataAt(r)
        PROVE  reader'[r].pc = "unlock" /\ ReadRight(reader[r].lc, reader[r].got)'
    <3>1. PICK c, g0 : c = reader[r].lc /\ g0 = reader[r].got
      OBVIOUS
    <3>2. c \in Chunks /\ g0 \in [Pages -> Nat] /\ reader[r].pc = "dirty"
      BY <2>1, <2>4, <3>1 DEF MaybeReadDataAt, BaseInv, SharedInv
    <3>3. PICK mid, got : mid = Overlay(sealedChunks[c], g0) /\ got = Overlay(writableChunks[c], mid)
      OBVIOUS
    <3>4. reader'[r].pc = "unlock" /\ reader'[r].lc = c /\ reader'[r].got = got
      BY <2>1, <2>4, <3>1, <3>3 DEF MaybeReadDataAt
    <3>5. /\ mid \in [Pages -> Nat]
          /\ \A p \in Pages : mid[p] = IF Covers(sealedChunks[c], p) THEN chunk[sealedChunks[c]].written[p] ELSE g0[p]
      BY <3>2, <3>3, TableRefs, OverlayIs DEF BaseInv, ChunkInv
    <3>6. \A p \in Pages : got[p] = IF Covers(writableChunks[c], p) THEN chunk[writableChunks[c]].written[p] ELSE mid[p]
      BY <3>2, <3>3, <3>5, TableRefs, OverlayIs DEF BaseInv, ChunkInv
    <3>7. DirtyRight(c, g0)
      BY <3>1, <3>2
    <3>8. ASSUME Clean(c), NEW p \in Pages PROVE got[p] = Last(c, p)
      <4>1. View(c, p) = Last(c, p)
        BY <3>2, <3>8 DEF ReadInv, ViewInv
      <4>2. g0[p] = Last(c, p) \/ Covers(writableChunks[c], p) \/ Covers(sealedChunks[c], p)
        BY <3>7, <3>8 DEF DirtyRight, GotInv
      <4> QED BY <3>5, <3>6, <4>1, <4>2 DEF View
    <3>9. writes' = writes /\ lastErr' = lastErr /\ mishap' = mishap
      BY <2>4 DEF MaybeReadDataAt, handleVars
    <3>10. ReadRight(c, got)'
      BY <3>8, <3>9, LastSame DEF ReadRight, Clean
    <3> QED BY <3>4, <3>10
  <2>5. ASSUME UnlockForRead(r)
        PROVE  reader'[r].pc = "idle"
    BY <2>1, <2>5 DEF UnlockForRead, IdleRead
  <2>6. /\ reader'[r].pc = "dirty" => DirtyRight(reader[r].lc, reader[r].got)'
        /\ reader'[r].pc = "unlock" => ReadRight(reader[r].lc, reader[r].got)'
    BY <1>3, <2>3, <2>4, <2>5 DEF ReaderTurns
  <2> QED BY <1>1, <2>2, <2>6
<1> QED BY <1>2, <1>3, ReaderSame

ReadsInv == BaseInv /\ ReadInv /\ ReadsRight

LEMMA ReadsInit ==
    ASSUME Init
    PROVE  ReadsInv
<1>1. /\ writes = <<>> /\ chunk = <<>> /\ file = [group |-> Blank, entry |-> Blank, filer |-> Blank]
      /\ writableChunks = [c \in Chunks |-> 0] /\ sealedChunks = [c \in Chunks |-> 0]
      /\ reader = [r \in Readers |-> IdleRead]
  BY DEF Init
<1>2. DOMAIN chunk = {} /\ Len(writes) = 0
  BY <1>1
<1>3. \A c \in Chunks, p \in Pages : file.group[c][p].ts = 0 /\ file.group[c][p].val = 0
  BY <1>1 DEF Blank
<1>4. \A c, p : Last(c, p) = 0
  <2> TAKE c, p
  <2>1. Last(c, p) = LastIn(writes, c, p, 0)
    BY <1>2 DEF Last, LastWrite, LastIn
  <2>2. LastIn(writes, c, p, 0) \in 0..0
    BY LastInIs
  <2> QED BY <2>1, <2>2
<1>5. ASSUME NEW c \in Chunks PROVE GroupInv(c) /\ ViewInv(c)
  BY <1>1, <1>2, <1>3, <1>4 DEF GroupInv, ViewInv, View, Covers
<1>6. \A r \in Readers : reader[r].pc = "idle"
  BY <1>1 DEF IdleRead
<1> QED BY <1>5, <1>6, BaseInit DEF ReadsInv, ReadInv, ReadsRight

\* Whatever mixture of writes, seals, uploads, removals and flushes runs beside
\* it, a read that MaybeReadDataAt has finished has the last write of every page,
\* for every number of threads, chunks and pages, except in a chunk sealed over an
\* earlier seal and after a failed upload.
THEOREM ReadsAreRight == Spec => []ReadsLastWrite
<1>1. ReadsInv => ReadsLastWrite
  BY DEF ReadsInv, ReadsRight, ReadRight, Clean, Last, ReadsLastWrite
<1>2. Init => ReadsInv
  BY ReadsInit
<1>3. ReadsInv /\ [Next]_vars => ReadsInv'
  <2> SUFFICES ASSUME ReadsInv, [Next]_vars PROVE ReadsInv'
    OBVIOUS
  <2>1. BaseInv /\ ReadInv /\ ReadsRight
    BY DEF ReadsInv
  <2>2. ChunkInv' /\ Kinds /\ BaseInv'
    BY <2>1, NextKinds, BaseNext
  <2> QED BY <2>1, <2>2, ReadNext, ReadsNext DEF ReadsInv
<1> QED BY <1>1, <1>2, <1>3, PTL DEF Spec

-----------------------------------------------------------------------------
(* What is stored *)

\* The thread f does nothing, seals a chunk, or turns to the next part of a flush.
FlushSealed(f) == \E o \in DOMAIN chunk :
    /\ flush[f].pc = "seal" /\ flush'[f].pc = "seal" /\ flush'[f].from = flush[f].from
    /\ flush'[f].todo = flush[f].todo \ {o} /\ o \in Pending'

FlushMove(f) == flush'[f] = flush[f] \/ FlushSealed(f) \/ (Quiet /\ FlushTurns(f))

\* What a step may do to a thread that flushes.
LEMMA FlushMoves ==
    ASSUME BaseInv, Kinds, NEW f \in Threads
    PROVE  FlushMove(f)
<1>0. flush \in [Threads -> FlushType]
  BY DEF BaseInv, ThreadTypes, FlushType
<1>1. ASSUME NEW d \in Chunks, NEW span \in SUBSET Pages, NEW o \in Nat, WriteKind(d, span, o)
      PROVE  FlushMove(f)
  BY <1>1 DEF WriteKind, Writes, WriteEnds, FlushMove
<1>2. ASSUME NEW o \in DOMAIN chunk, NEW d \in Chunks, NEW old \in Nat, SealKind(o, d, old)
      PROVE  FlushMove(f)
  <2>1. o \in Pending' /\ SealThread(o)
    BY <1>2 DEF SealKind, Seals, SameData, SameDomain, Pending
  <2>2. CASE flush' = flush
    BY <2>2 DEF FlushMove
  <2>3. ASSUME NEW g \in Flushers, flush[g].pc = "seal", flush' = [flush EXCEPT ![g].obj = o, ![g].todo = @ \ {o}]
        PROVE  FlushMove(f)
    <3>1. CASE f # g
      BY <1>0, <2>3, <3>1 DEF FlushMove
    <3>2. CASE f = g
      <4>1. flush[f] \in FlushType /\ flush'[f] = [flush[f] EXCEPT !.obj = o, !.todo = @ \ {o}]
        BY <1>0, <2>3, <3>2
      <4>2. flush'[f].pc = flush[f].pc /\ flush'[f].from = flush[f].from /\ flush'[f].todo = flush[f].todo \ {o}
        BY <4>1 DEF FlushType
      <4>3. FlushSealed(f)
        BY <2>1, <2>3, <3>2, <4>2 DEF FlushSealed
      <4> QED BY <4>3 DEF FlushMove
    <3> QED BY <3>1, <3>2
  <2> QED BY <2>1, <2>2, <2>3 DEF SealThread
<1>3. ASSUME NEW o \in DOMAIN chunk, SaveContent(o) \/ SaveFails(o) \/ RemoveSealed(o)
      PROVE  FlushMove(f)
  BY <1>3 DEF SaveContent, SaveFails, RemoveSealed, FlushMove
<1>4. ASSUME Quiet, QuietStep
      PROVE  FlushMove(f)
  <2>1. CASE Rests
    BY <2>1 DEF Rests, FlushMove
  <2>2. CASE WriteReturns
    BY <2>2 DEF WriteReturns, FlushMove
  <2>3. ASSUME NEW r \in Readers, ReaderTurns(r)
        PROVE  FlushMove(f)
    BY <2>3, ReaderTypes DEF FlushMove
  <2>4. ASSUME NEW g \in Threads, FlushTurns(g)
        PROVE  FlushMove(f)
    <3>1. CASE f = g
      BY <1>4, <2>4, <3>1 DEF FlushMove
    <3>2. CASE f # g
      <4>1. flush'[f] = flush[f]
        BY <1>0, <2>4, <3>2 DEF FlushTurns, FlushStarts, FlushWaits, FlushReturns, CompactChunks,
             FlushMetadata, CreateEntry, CreateEntryFails, FlushDone
      <4> QED BY <4>1 DEF FlushMove
    <3> QED BY <3>1, <3>2
  <2> QED BY <1>4, <2>1, <2>2, <2>3, <2>4 DEF QuietStep
<1> QED BY <1>1, <1>2, <1>3, <1>4 DEF Kinds

\* What a turn makes of the thread's record.
Turned(f) ==
    /\ flush'[f].from = (IF flush'[f].pc = "idle" THEN 0 ELSE IF FlushStarts(f) THEN Acked ELSE flush[f].from)
    /\ FlushStarts(f) => /\ flush[f].pc = "idle" /\ flush'[f].pc = "seal"
                         /\ flush'[f].todo = {o \in DOMAIN chunk : chunk[o].job = "open"}
    /\ FlushWaits(f) => flush[f].pc = "seal" /\ flush'[f].pc = IF lastErr THEN "idle" ELSE "entry"
    /\ FlushReturns(f) => flush[f].pc = "entry" /\ flush'[f].pc = "idle"
    /\ CompactChunks(f) => flush[f].pc = "entry" /\ flush'[f].pc = "send" /\ flush'[f].entry = file.entry
    /\ FlushMetadata(f) => flush[f].pc = "idle" /\ flush'[f].pc = "send" /\ flush'[f].entry = file.entry
    /\ CreateEntry(f) => flush[f].pc = "send" /\ flush'[f].pc = IF f \in Loops THEN "idle" ELSE "sent"
    /\ CreateEntryFails(f) => flush[f].pc = "send" /\ flush'[f].pc = "idle"
    /\ FlushDone(f) => flush[f].pc = "sent" /\ flush'[f].pc = "idle"

LEMMA TurnedIs ==
    ASSUME BaseInv, NEW f \in Threads, FlushTurns(f)
    PROVE  Turned(f)
<1>0. flush \in [Threads -> FlushType] /\ flush[f] \in FlushType
  BY DEF BaseInv, ThreadTypes, FlushType
<1>1. \A e : flush' = [flush EXCEPT ![f] = e] => flush'[f] = e
  BY <1>0
<1>2. IdleFlush.pc = "idle" /\ IdleFlush.from = 0
  BY DEF IdleFlush
<1>3. \A pc \in {"entry", "sent"} : Went(f, pc).pc = pc /\ Went(f, pc).from = flush[f].from
  BY DEF Went, IdleFlush
<1>4. FlushStarts(f) =>
        /\ flush[f].pc = "idle" /\ flush'[f].pc = "seal" /\ flush'[f].from = Acked
        /\ flush'[f].todo = {o \in DOMAIN chunk : chunk[o].job = "open"}
  BY <1>1 DEF FlushStarts, IdleFlush
<1>5. FlushWaits(f) => /\ flush[f].pc = "seal"
                       /\ flush'[f] = IF lastErr THEN IdleFlush ELSE Went(f, "entry")
  BY <1>1 DEF FlushWaits
<1>6. FlushReturns(f) => flush[f].pc = "entry" /\ flush'[f] = IdleFlush
  BY <1>1 DEF FlushReturns
<1>7. FlushDone(f) => flush[f].pc = "sent" /\ flush'[f] = IdleFlush
  BY <1>1 DEF FlushDone
<1>8. CreateEntry(f) => flush[f].pc = "send" /\ flush'[f] = IF f \in Loops THEN IdleFlush ELSE Went(f, "sent")
  BY <1>1 DEF CreateEntry
<1>9. CreateEntryFails(f) => flush[f].pc = "send" /\ flush'[f] = IdleFlush
  BY <1>1 DEF CreateEntryFails
<1>10. CompactChunks(f) \/ FlushMetadata(f) =>
         flush'[f].pc = "send" /\ flush'[f].entry = file.entry /\ flush'[f].from = flush[f].from
  BY <1>0 DEF CompactChunks, FlushMetadata, FlushType
<1>11. (CompactChunks(f) => flush[f].pc = "entry") /\ (FlushMetadata(f) => flush[f].pc = "idle")
  BY DEF CompactChunks, FlushMetadata
<1>12. FlushWaits(f) => /\ flush'[f].pc = IF lastErr THEN "idle" ELSE "entry"
                        /\ flush'[f].from = IF lastErr THEN 0 ELSE flush[f].from
  BY <1>2, <1>3, <1>5
<1>13. CreateEntry(f) => /\ flush'[f].pc = IF f \in Loops THEN "idle" ELSE "sent"
                         /\ flush'[f].from = IF f \in Loops THEN 0 ELSE flush[f].from
  BY <1>2, <1>3, <1>8
<1>14. flush'[f].from = (IF flush'[f].pc = "idle" THEN 0 ELSE IF FlushStarts(f) THEN Acked ELSE flush[f].from)
  <2>1. CASE FlushStarts(f)
    BY <1>4, <2>1
  <2>2. CASE ~FlushStarts(f)
    BY <1>2, <1>6, <1>7, <1>9, <1>10, <1>12, <1>13, <2>2 DEF FlushTurns
  <2> QED BY <2>1, <2>2
<1> QED BY <1>2, <1>4, <1>5, <1>6, <1>7, <1>8, <1>9, <1>10, <1>11, <1>12, <1>13, <1>14 DEF Turned

\* An acknowledgement is never taken back.
LEMMA AckedGrows ==
    ASSUME BaseInv, BaseInv', Kinds
    PROVE  Acked \in Nat /\ Acked' \in Nat /\ Acked <= Acked'
<1>0. Acked \in Nat /\ Acked' \in Nat /\ Len(writes) \in Nat /\ Len(writes') \in Nat /\ Acked <= Len(writes)
  <2>1. Acked \in Nat /\ Len(writes) \in Nat /\ Acked <= Len(writes)
    BY AckedType DEF BaseInv
  <2>2. ChunkInv' /\ WriterInv'
    BY DEF BaseInv
  <2>3. Len(writes') \in Nat
    BY <2>2 DEF ChunkInv, WriteTypes
  <2>4. Acked' \in Nat
    BY <2>2, <2>3 DEF Acked, WriterInv
  <2> QED BY <2>1, <2>3, <2>4
<1>1. ASSUME NEW d \in Chunks, NEW span \in SUBSET Pages, NEW o \in Nat, WriteKind(d, span, o)
      PROVE  Acked <= Acked'
  <2>1. Len(writes') = Len(writes) + 1
    BY <1>1, WritesLast DEF WriteKind, BaseInv, ChunkInv, LastNext
  <2> QED BY <1>0, <2>1 DEF Acked
<1>2. ASSUME NEW o \in DOMAIN chunk, NEW d \in Chunks, NEW old \in Nat, SealKind(o, d, old)
      PROVE  Acked <= Acked'
  <2>1. writes' = writes /\ SealThread(o)
    BY <1>2 DEF SealKind, handleVars
  <2>3. (\E c \in Chunks, span \in SUBSET Pages :
            writer' = [pc |-> "evict", lc |-> c, span |-> span, obj |-> o])
        \/ writer.pc = "seal" \/ writer' = writer
    BY <2>1 DEF SealThread
  <2>4. writer'.pc = "evict" \/ writer.pc = "seal" \/ writer' = writer
    BY <2>3
  <2>2. writer'.pc \in {"seal", "submit"} => writer.pc \in {"seal", "submit"}
    BY <2>4
  <2> QED BY <1>0, <2>1, <2>2 DEF Acked
<1>3. ASSUME NEW o \in DOMAIN chunk, SaveContent(o) \/ SaveFails(o) \/ RemoveSealed(o)
      PROVE  Acked <= Acked'
  <2>1. UNCHANGED <<writes, writer>>
    BY <1>3 DEF SaveContent, SaveFails, RemoveSealed, handleVars
  <2> QED BY <1>0, <2>1 DEF Acked
<1>4. ASSUME Quiet, QuietStep
      PROVE  Acked <= Acked'
  <2>1. writes' = writes
    BY <1>4 DEF Quiet, StaysPut
  <2>2. writer' = writer \/ writer' = IdleThread
    BY <1>4, ReaderTypes, FlushTypes DEF QuietStep, Rests, WriteReturns
  <2> QED BY <1>0, <2>1, <2>2 DEF Acked, IdleThread
<1> QED BY <1>0, <1>1, <1>2, <1>3, <1>4 DEF Kinds

\* The end of a flush: nothing else may begin.
Ends(f) == flush[f].pc \in {"send", "sent"}

\* A turn of one thread leaves the others alone.
LEMMA TurnsAlone ==
    ASSUME BaseInv, NEW f \in Threads, FlushTurns(f), NEW g \in Threads, g # f
    PROVE  flush'[g] = flush[g]
BY DEF FlushTurns, FlushStarts, FlushWaits, FlushReturns, CompactChunks,
       FlushMetadata, CreateEntry, CreateEntryFails, FlushDone, BaseInv, ThreadTypes

\* The end of a flush begins when nobody holds the lock and there is metadata.
LEMMA EndsBegins ==
    ASSUME BaseInv, Kinds, NEW f \in Threads, Ends(f)', ~Ends(f)
    PROVE  /\ FlushTurns(f) /\ ~Exclusive /\ dirty /\ UNCHANGED <<writer, dirty>>
<1>1. FlushMove(f)
  BY FlushMoves
<1>2. FlushTurns(f)
  BY <1>1 DEF FlushMove, FlushSealed, Ends
<1>3. Turned(f)
  BY <1>2, TurnedIs
<1>4. CompactChunks(f) \/ FlushMetadata(f)
  <2>1. flush[f].pc \notin {"send", "sent"} /\ flush'[f].pc \in {"send", "sent"}
    BY DEF Ends
  <2>2. ~CreateEntry(f) /\ ~CreateEntryFails(f) /\ ~FlushDone(f) /\ ~FlushStarts(f) /\ ~FlushReturns(f)
    BY <1>3, <2>1 DEF Turned
  <2>3. ~FlushWaits(f)
    BY <1>3, <2>1 DEF Turned
  <2> QED BY <1>2, <2>2, <2>3 DEF FlushTurns
<1> QED BY <1>2, <1>4 DEF CompactChunks, FlushMetadata, handleVars

\* The end of a flush holds the lock alone.
LEMMA EndsExclusive ==
    ASSUME NEW f \in Threads, Ends(f)
    PROVE  Exclusive
BY DEF Ends, Exclusive, Threads

\* Who writes waits for the end of the flush, and only that clears dirty.
LEMMA EndsKeeps ==
    ASSUME BaseInv, AloneInv, Kinds, NEW f \in Threads, Ends(f), Ends(f)'
    PROVE  UNCHANGED <<writer, dirty>>
<1>0. writer.pc = "idle" /\ dirty /\ Exclusive
  BY EndsExclusive DEF AloneInv, Ends
<1>1. ASSUME NEW d \in Chunks, NEW span \in SUBSET Pages, NEW o \in Nat, WriteKind(d, span, o)
      PROVE  FALSE
  BY <1>0, <1>1 DEF WriteKind
<1>2. ASSUME NEW o \in DOMAIN chunk, NEW d \in Chunks, NEW old \in Nat, SealKind(o, d, old)
      PROVE  UNCHANGED <<writer, dirty>>
  BY <1>0, <1>2 DEF SealKind, handleVars, SealThread
<1>3. ASSUME NEW o \in DOMAIN chunk, SaveContent(o) \/ SaveFails(o) \/ RemoveSealed(o)
      PROVE  UNCHANGED <<writer, dirty>>
  BY <1>3 DEF SaveContent, SaveFails, RemoveSealed, handleVars
<1>4. ASSUME Quiet, QuietStep
      PROVE  UNCHANGED <<writer, dirty>>
  <2>1. CASE Rests
    BY <2>1 DEF Rests
  <2>2. ~WriteReturns
    BY <1>0 DEF WriteReturns
  <2>3. ASSUME NEW r \in Readers, ReaderTurns(r)
        PROVE  UNCHANGED <<writer, dirty>>
    BY <2>3 DEF ReaderTurns, ReadFromChunks, MaybeReadDataAt, UnlockForRead, handleVars
  <2>4. ASSUME NEW g \in Threads, FlushTurns(g)
        PROVE  UNCHANGED <<writer, dirty>>
    <3>1. ~FlushDone(g)
      <4> SUFFICES ASSUME FlushDone(g) PROVE FALSE
        OBVIOUS
      <4>1. flush[g].pc = "sent" /\ flush'[g].pc = "idle"
        BY <2>4, TurnedIs DEF Turned
      <4>2. g = f
        BY <4>1 DEF AloneInv, Ends
      <4> QED BY <4>1, <4>2 DEF Ends
    <3> QED BY <2>4, <3>1 DEF FlushTurns, FlushStarts, FlushWaits, FlushReturns, CompactChunks,
             FlushMetadata, CreateEntry, CreateEntryFails, handleVars
  <2> QED BY <1>4, <2>1, <2>2, <2>3, <2>4 DEF QuietStep
<1> QED BY <1>1, <1>2, <1>3, <1>4 DEF Kinds

\* At most one flush is at its end.
LEMMA AloneNext ==
    ASSUME BaseInv, BaseInv', Kinds, AloneInv
    PROVE  AloneInv'
<1>1. ASSUME NEW f \in Threads, NEW g \in Threads, Ends(f)', Ends(g)'
      PROVE  f = g
  <2>1. CASE Ends(f) /\ Ends(g)
    BY <2>1 DEF AloneInv, Ends
  <2>2. ASSUME NEW x \in Threads, NEW y \in Threads, Ends(x)', Ends(y)', ~Ends(x)
        PROVE  x = y
    <3>1. FlushTurns(x) /\ ~Exclusive
      BY <2>2, EndsBegins
    <3>2. ~Ends(y)
      BY <3>1, EndsExclusive
    <3> QED BY <2>2, <3>1, <3>2, TurnsAlone DEF Ends
  <2> QED BY <1>1, <2>1, <2>2
<1>2. ASSUME NEW f \in Threads, Ends(f)'
      PROVE  writer'.pc = "idle" /\ dirty'
  <2>1. CASE Ends(f)
    BY <1>2, <2>1, EndsKeeps DEF AloneInv, Ends
  <2>2. CASE ~Ends(f)
    BY <1>2, <2>2, EndsBegins DEF Exclusive
  <2> QED BY <2>1, <2>2
<1>3. ASSUME NEW f \in Threads
      PROVE  flush'[f].from <= Acked' /\ (flush'[f].pc = "idle" => flush'[f].from = 0)
  <2>1. FlushMove(f) /\ Acked \in Nat /\ Acked' \in Nat /\ Acked <= Acked'
    BY FlushMoves, AckedGrows
  <2>2. flush[f].from \in Nat /\ flush[f].from <= Acked /\ (flush[f].pc = "idle" => flush[f].from = 0)
    BY DEF AloneInv, BaseInv, ThreadTypes
  <2>3. CASE flush'[f] = flush[f]
    BY <2>1, <2>2, <2>3
  <2>4. CASE FlushSealed(f)
    BY <2>1, <2>2, <2>4 DEF FlushSealed
  <2>5. CASE FlushTurns(f)
    <3>1. flush'[f].from = (IF flush'[f].pc = "idle" THEN 0 ELSE IF FlushStarts(f) THEN Acked ELSE flush[f].from)
      BY <2>5, TurnedIs DEF Turned
    <3> QED BY <2>1, <2>2, <3>1
  <2> QED BY <2>1, <2>3, <2>4, <2>5 DEF FlushMove
<1>4. /\ \A f, g \in Threads :
         flush'[f].pc \in {"send", "sent"} /\ flush'[g].pc \in {"send", "sent"} => f = g
      /\ \A f \in Threads : flush'[f].pc \in {"send", "sent"} => writer'.pc = "idle" /\ dirty'
  BY <1>1, <1>2 DEF Ends
<1> QED BY <1>3, <1>4 DEF AloneInv

\* The mishaps of a chunk are never forgotten, but for unsent.
LEMMA IntactBefore ==
    ASSUME BaseInv, Kinds, NEW c \in Chunks, Intact(c)'
    PROVE  Intact(c)
<1>1. ASSUME NEW d \in Chunks, NEW span \in SUBSET Pages, NEW o \in Nat, WriteKind(d, span, o)
      PROVE  Intact(c)
  BY <1>1 DEF WriteKind, Writes, WriteEnds, Intact
<1>2. ASSUME NEW o \in DOMAIN chunk, NEW d \in Chunks, NEW old \in Nat, SealKind(o, d, old)
      PROVE  Intact(c)
  <2>1. MishapGrows
    BY <1>2, ChunkSeals DEF SealKind, handleVars, BaseInv
  <2> QED BY <2>1 DEF MishapGrows, Intact
<1>3. ASSUME NEW o \in DOMAIN chunk, SaveContent(o)
      PROVE  Intact(c)
  <2>1. mishap[c] \subseteq mishap'[c]
    BY <1>3 DEF SaveContent, handleVars, BaseInv, ChunkInv, PipeTypes
  <2> QED BY <2>1 DEF Intact
<1>4. ASSUME NEW o \in DOMAIN chunk, SaveFails(o) \/ RemoveSealed(o)
      PROVE  Intact(c)
  BY <1>4 DEF SaveFails, RemoveSealed, Intact
<1>5. CASE Quiet
  BY <1>5 DEF Quiet, Intact, Marked
<1> QED BY <1>1, <1>2, <1>3, <1>4, <1>5 DEF Kinds

\* How the entry and the filer change.
LEMMA CreateFile ==
    ASSUME BaseInv, NEW f \in Threads, FlushTurns(f)
    PROVE  /\ CreateEntry(f) => file'.entry = flush[f].entry /\ file'.filer = flush[f].entry
           /\ CreateEntryFails(f) => file'.entry = flush[f].entry /\ file'.filer = file.filer
           /\ ~CreateEntry(f) /\ ~CreateEntryFails(f) => file' = file
<1>1. file \in [group : FileContent, entry : FileContent, filer : FileContent]
  BY DEF BaseInv, ThreadTypes
<1>2. CreateEntry(f) => file'.entry = flush[f].entry /\ file'.filer = flush[f].entry
  BY <1>1 DEF CreateEntry
<1>3. CreateEntryFails(f) => file'.entry = flush[f].entry /\ file'.filer = file.filer
  BY <1>1 DEF CreateEntryFails
<1>4. ~CreateEntry(f) /\ ~CreateEntryFails(f) => file' = file
  BY DEF FlushTurns, FlushStarts, FlushWaits, FlushReturns, CompactChunks, FlushMetadata, FlushDone
<1> QED BY <1>2, <1>3, <1>4

Uploads(c) == \E o \in DOMAIN chunk : SaveContent(o) /\ Saves(o) /\ chunk[o].lc = c

\* Only an upload changes what the entry has of a chunk that is intact.
LEMMA EntrySame ==
    ASSUME BaseInv, FlushInv, Kinds, NEW c \in Chunks, Intact(c)'
    PROVE  file'.entry[c] = file.entry[c] \/ Uploads(c)
<1>0. Intact(c) /\ 1 \in Pages
  BY IntactBefore, PipelineAssumption DEF Pages
<1>1. ASSUME NEW d \in Chunks, NEW span \in SUBSET Pages, NEW o \in Nat, WriteKind(d, span, o)
      PROVE  file' = file
  BY <1>1 DEF WriteKind, Writes, WriteEnds
<1>2. ASSUME NEW o \in DOMAIN chunk, NEW d \in Chunks, NEW old \in Nat, SealKind(o, d, old)
      PROVE  file' = file
  BY <1>2 DEF SealKind
<1>3. ASSUME NEW o \in DOMAIN chunk, SaveContent(o), Saves(o)
      PROVE  file'.entry[c] = file.entry[c] \/ Uploads(c)
  <2>1. CASE chunk[o].lc = c
    BY <1>3, <2>1 DEF Uploads
  <2>2. CASE chunk[o].lc # c
    BY <1>3, <2>2, SavesFileIs DEF SavesFile
  <2> QED BY <2>1, <2>2
<1>4. ASSUME NEW o \in DOMAIN chunk, SaveFails(o) \/ RemoveSealed(o)
      PROVE  file' = file
  BY <1>4 DEF SaveFails, RemoveSealed
<1>5. ASSUME QuietStep
      PROVE  file'.entry[c] = file.entry[c]
  <2>1. CASE Rests \/ WriteReturns
    BY <2>1 DEF Rests, WriteReturns
  <2>2. ASSUME NEW r \in Readers, ReaderTurns(r)
        PROVE  file' = file
    BY <2>2, ReaderTypes
  <2>3. ASSUME NEW f \in Threads, FlushTurns(f)
        PROVE  file'.entry[c] = file.entry[c]
    <3>1. CASE CreateEntry(f) \/ CreateEntryFails(f)
      <4>1. flush[f].pc = "send"
        BY <3>1 DEF CreateEntry, CreateEntryFails
      <4>2. flush[f].entry[c] = file.entry[c]
        BY <1>0, <4>1 DEF FlushInv
      <4> QED BY <2>3, <3>1, <4>2, CreateFile
    <3>2. CASE ~CreateEntry(f) /\ ~CreateEntryFails(f)
      BY <2>3, <3>2, CreateFile
    <3> QED BY <3>1, <3>2
  <2> QED BY <1>5, <2>1, <2>2, <2>3 DEF QuietStep
<1> QED BY <1>1, <1>2, <1>3, <1>4, <1>5 DEF Kinds

\* How an upload changes what the entry has of a page, from e to e2.
SaveEntry(o, c, p, e, e2) ==
    /\ e.val <= e2.val /\ chunk[o].written[p] <= e2.val
    /\ e2.val <= e2.ts /\ e2.ts <= Len(writes) /\ IsWrite(c, p, e2.val)
    /\ \A x \in DOMAIN chunk : x # o /\ Unsaved(x) /\ chunk[x].lc = c =>
         Newer(x, e2) \/ (chunk[x].job # "open" /\ Older(x, e2))

\* An upload keeps the order of what the entry has and what is still to come.
LEMMA SaveEntryIs ==
    ASSUME BaseInv, NEW o \in DOMAIN chunk, chunk[o].job = "ready", NEW c \in Chunks, c = chunk[o].lc,
           Intact(c), NEW p \in Pages, NEW e \in [ts : Nat, val : Nat], EntryOK(c, p, e)
    PROVE  SaveEntry(o, c, p, e, Stored(o, e, p))
<1>1. e.ts \in Nat /\ e.val \in Nat /\ e.val <= e.ts /\ e.ts <= Len(writes) /\ IsWrite(c, p, e.val)
      /\ Len(writes) \in Nat
  BY DEF EntryOK, BaseInv, ChunkInv, WriteTypes
<1>2. \A x \in DOMAIN chunk : Unsaved(x) /\ chunk[x].lc = c =>
         Newer(x, e) \/ (chunk[x].job # "open" /\ Older(x, e))
  BY DEF EntryOK
<1>3. chunk[o].ref = 1
  BY ChunkTypes DEF BaseInv, ChunkInv, RefInv, Intact
<1>4. \A x \in DOMAIN chunk, q \in Pages : Unsaved(x) => chunk[x].written[q] \in 0..Len(writes)
  BY WrittenTypes DEF Unsaved
<1>5. Unsaved(o) /\ (Newer(o, e) \/ Older(o, e))
  BY <1>2 DEF Unsaved
<1>6. PICK e2 : e2 = Stored(o, e, p)
  OBVIOUS
<1>7. CASE e2 = e /\ (chunk[o].written[p] = 0 \/
                \E q \in Pages : chunk[o].written[q] # 0 /\ chunk[o].written[q] < e.ts
                                 /\ chunk[o].written[p] <= chunk[o].written[q])
  <2>1. chunk[o].written[p] <= e.val
    <3>1. CASE chunk[o].written[p] = 0
      BY <1>1, <3>1
    <3>2. ASSUME NEW q \in Pages, chunk[o].written[q] # 0, chunk[o].written[q] < e.ts,
                 chunk[o].written[p] <= chunk[o].written[q]
          PROVE  chunk[o].written[p] <= e.val
      <4>1. ~Newer(o, e)
        BY <1>1, <1>4, <1>5, <3>2 DEF Newer
      <4>2. chunk[o].written[q] < e.val
        BY <1>5, <3>2, <4>1 DEF Older
      <4> QED BY <1>1, <1>4, <1>5, <3>2, <4>2
    <3> QED BY <1>7, <3>1, <3>2
  <2> QED BY <1>1, <1>2, <1>6, <1>7, <2>1 DEF SaveEntry
<1>8. CASE /\ chunk[o].written[p] # 0 /\ e2.val = chunk[o].written[p]
           /\ chunk[o].written[p] <= e2.ts
           /\ \E q \in Pages : chunk[o].written[q] # 0 /\ e.ts <= chunk[o].written[q] /\ e2.ts = chunk[o].written[q]
  <2>1. PICK q \in Pages : chunk[o].written[q] # 0 /\ e.ts <= chunk[o].written[q] /\ e2.ts = chunk[o].written[q]
    BY <1>8
  <2>2. chunk[o].written[q] \in 0..Len(writes) /\ chunk[o].written[p] \in 0..Len(writes)
    BY <1>4, <1>5
  <2>3. Newer(o, e)
    <3>1. ~Older(o, e)
      BY <1>1, <2>1, <2>2 DEF Older
    <3> QED BY <1>5, <3>1
  <2>4. e.val <= e2.val
    <3>1. e.ts < chunk[o].written[p]
      BY <1>8, <2>3 DEF Newer
    <3> QED BY <1>1, <1>8, <2>2, <3>1
  <2>5. IsWrite(c, p, e2.val)
    BY <1>5, <1>8 DEF BaseInv, ChunkInv, WrittenInv, Live, Unsaved
  <2>6. ASSUME NEW x \in DOMAIN chunk, x # o, Unsaved(x), chunk[x].lc = c
        PROVE  Newer(x, e2) \/ (chunk[x].job # "open" /\ Older(x, e2))
    <3>1. o \in Nat /\ x \in Nat
      BY ChunkTypes DEF BaseInv, ChunkInv
    <3>2. Live(o) /\ Live(x)
      BY <2>6 DEF Live, Unsaved
    <3>3. CASE o < x
      <4>1. Before(o, x)
        BY <2>6, <3>2, <3>3 DEF BaseInv, ChunkInv, OrderInv
      <4>2. Newer(x, e2)
        BY <2>1, <4>1 DEF Before, Newer
      <4> QED BY <4>2
    <3>4. CASE x < o
      <4>1. Before(x, o) /\ chunk[x].job # "open"
        <5>1. (x < o => Before(x, o)) /\ (chunk[x].job = "open" => o <= x)
          BY <2>6, <3>2 DEF BaseInv, ChunkInv, OrderInv
        <5> QED BY <3>1, <3>4, <5>1
      <4>2. Older(x, e2)
        BY <1>8, <4>1 DEF Before, Older
      <4> QED BY <4>1, <4>2
    <3> QED BY <2>6, <3>1, <3>3, <3>4
  <2>7. e2.val <= e2.ts /\ e2.ts <= Len(writes) /\ chunk[o].written[p] <= e2.val
    BY <1>8, <2>1, <2>2
  <2> QED BY <1>6, <2>4, <2>5, <2>6, <2>7 DEF SaveEntry
<1>9. \/ Stored(o, e, p) = e /\ (chunk[o].written[p] = 0 \/
                \E q \in Pages : chunk[o].written[q] # 0 /\ chunk[o].written[q] < e.ts
                                 /\ chunk[o].written[p] <= chunk[o].written[q])
      \/ /\ chunk[o].written[p] # 0 /\ Stored(o, e, p).val = chunk[o].written[p]
         /\ chunk[o].written[p] <= Stored(o, e, p).ts
         /\ \E q \in Pages : /\ chunk[o].written[q] # 0 /\ e.ts <= chunk[o].written[q]
                             /\ Stored(o, e, p).ts = chunk[o].written[q]
  BY <1>1, <1>3, StoredIs
<1> QED BY <1>6, <1>7, <1>8, <1>9

\* The chunks still to be uploaded, through steps that write nothing.
Unwritten ==
    /\ writes' = writes /\ DOMAIN chunk' = DOMAIN chunk
    /\ \A x \in DOMAIN chunk : Unsaved(x)' =>
         /\ Unsaved(x) /\ chunk'[x].lc = chunk[x].lc /\ chunk'[x].written = chunk[x].written
         /\ chunk'[x].job = "open" => chunk[x].job = "open"
    /\ \A x \in DOMAIN chunk : Unsaved(x) =>
         \/ lastErr' \/ (SaveContent(x) /\ Saves(x))
         \/ Unsaved(x)' /\ chunk'[x].lc = chunk[x].lc /\ chunk'[x].written = chunk[x].written

WritesNow == \E c \in Chunks, span \in SUBSET Pages, o \in Nat : WriteKind(c, span, o)

\* How chunks that are not uploaded yet go through the steps that write nothing.
LEMMA UnwrittenIs ==
    ASSUME BaseInv, Kinds, ~WritesNow
    PROVE  Unwritten
<1>2. ASSUME NEW o \in DOMAIN chunk, NEW d \in Chunks, NEW old \in Nat, SealKind(o, d, old)
      PROVE  Unwritten
  <2>1. /\ DOMAIN chunk' = DOMAIN chunk /\ writes' = writes /\ chunk[o].job = "open"
        /\ \A x \in DOMAIN chunk : chunk'[x].lc = chunk[x].lc /\ chunk'[x].written = chunk[x].written
        /\ \A x \in DOMAIN chunk : chunk'[x].job = IF x = o THEN "token" ELSE chunk[x].job
    BY <1>2 DEF SealKind, handleVars, Seals, SameData, SameDomain
  <2>2. \A x \in DOMAIN chunk : Unsaved(x)' <=> Unsaved(x)
    BY <2>1 DEF Unsaved
  <2> QED BY <2>1, <2>2 DEF Unwritten
<1>3. ASSUME NEW o \in DOMAIN chunk, (SaveContent(o) /\ Saves(o)) \/ (SaveFails(o) /\ Saves(o))
      PROVE  Unwritten
  <2>1. /\ DOMAIN chunk' = DOMAIN chunk /\ writes' = writes /\ chunk'[o].job = "saved"
        /\ \A x \in DOMAIN chunk : chunk'[x].lc = chunk[x].lc /\ chunk'[x].written = chunk[x].written
        /\ \A x \in DOMAIN chunk : x # o => chunk'[x].job = chunk[x].job
    BY <1>3 DEF Saves, Rejobs, SameData, SameDomain
  <2>2. /\ \A x \in DOMAIN chunk : Unsaved(x)' => x # o /\ Unsaved(x)
        /\ \A x \in DOMAIN chunk : x # o => (Unsaved(x)' <=> Unsaved(x))
    BY <2>1 DEF Unsaved
  <2>3. lastErr' \/ (SaveContent(o) /\ Saves(o))
    BY <1>3 DEF SaveFails
  <2> QED BY <2>1, <2>2, <2>3 DEF Unwritten
<1>4. ASSUME NEW o \in DOMAIN chunk, RemoveSealed(o), Removes(o)
      PROVE  Unwritten
  <2>1. /\ DOMAIN chunk' = DOMAIN chunk /\ chunk'[o] = Done /\ chunk[o].job = "saved" /\ writes' = writes
        /\ \A x \in DOMAIN chunk : x # o => chunk'[x] = chunk[x]
    BY <1>4 DEF Removes, SameDomain, RemoveSealed, handleVars
  <2>2. \A x \in DOMAIN chunk : x # o => (Unsaved(x)' <=> Unsaved(x))
    BY <2>1 DEF Unsaved
  <2>3. ~Unsaved(o) /\ ~Unsaved(o)'
    BY <2>1 DEF Unsaved, Done
  <2> QED BY <2>1, <2>2, <2>3 DEF Unwritten
<1>5. CASE Quiet
  <2>1. /\ DOMAIN chunk' = DOMAIN chunk /\ writes' = writes
        /\ \A x \in DOMAIN chunk : /\ chunk'[x].lc = chunk[x].lc /\ chunk'[x].written = chunk[x].written
                                   /\ chunk'[x].job = "open" <=> chunk[x].job = "open"
                                   /\ chunk'[x].job \in {"token", "ready"} <=> chunk[x].job \in {"token", "ready"}
    BY <1>5 DEF Quiet, StaysPut, SameData, SameDomain
  <2>2. \A x \in DOMAIN chunk : Unsaved(x)' <=> Unsaved(x)
    BY <2>1 DEF Unsaved
  <2> QED BY <2>1, <2>2 DEF Unwritten
<1> QED BY <1>2, <1>3, <1>4, <1>5 DEF Kinds, WritesNow

\* ... and through writes.
WrittenMore(c, span, o) ==
    /\ o \in DOMAIN chunk' /\ chunk'[o].lc = c /\ Unsaved(o)'
    /\ \A p \in Pages : chunk'[o].written[p] =
         IF p \in span THEN Len(writes) + 1 ELSE IF o \in DOMAIN chunk THEN chunk[o].written[p] ELSE 0
    /\ o \in DOMAIN chunk => chunk[o].lc = c /\ Unsaved(o) /\ chunk[o].job = "open"
    /\ \A x \in DOMAIN chunk' : x # o => x \in DOMAIN chunk /\ chunk'[x] = chunk[x] /\ (Unsaved(x)' <=> Unsaved(x))
    /\ DOMAIN chunk' = DOMAIN chunk \cup {o}
    /\ Pending' = Pending /\ UNCHANGED <<file, flush, mishap, lastErr>>
    /\ LastNext(c, span)

LEMMA WrittenMoreIs ==
    ASSUME BaseInv, NEW c \in Chunks, NEW span \in SUBSET Pages, NEW o \in Nat, Writes(c, span, o)
    PROVE  WrittenMore(c, span, o)
<1>1. WritesChunk(c, span, o) /\ LastNext(c, span) /\ WritesView(c, span, o)
  BY WritesFacts, WritesLast, WritesViewIs DEF BaseInv, ChunkInv
<1>2. o \in DOMAIN chunk' /\ chunk'[o].lc = c /\ chunk'[o].job = "open"
      /\ UNCHANGED <<file, flush, mishap, lastErr>>
  BY DEF Writes, WriteEnds
<1>3. Unsaved(o)'
  BY <1>2 DEF Unsaved
<1>4. /\ o \in DOMAIN chunk => chunk[o].lc = c /\ chunk[o].job = "open"
      /\ DOMAIN chunk' = DOMAIN chunk \cup {o}
      /\ \A x \in DOMAIN chunk' : x # o => x \in DOMAIN chunk /\ chunk'[x] = chunk[x]
  BY <1>1 DEF WritesChunk
<1>5. /\ o \in DOMAIN chunk => Unsaved(o)
      /\ \A x \in DOMAIN chunk' : x # o => (Unsaved(x)' <=> Unsaved(x))
  BY <1>4 DEF Unsaved
<1>6. Pending' = Pending
  <2>1. \A x : x \in Pending' <=> x \in Pending
    BY <1>2, <1>4 DEF Pending
  <2> QED BY <2>1
<1> QED BY <1>1, <1>2, <1>3, <1>4, <1>5, <1>6 DEF WrittenMore, WritesView

\* The entry and the chunks still to come stay in order.
LEMMA EntryNext ==
    ASSUME BaseInv, BaseInv', Kinds, FlushInv, EntryInv
    PROVE  EntryInv'
<1> SUFFICES ASSUME NEW c \in Chunks, NEW p \in Pages, Intact(c)'
             PROVE  EntryOK(c, p, file.entry[c][p])'
  BY DEF EntryInv
<1>1. PICK e, e2 : e = file.entry[c][p] /\ e2 = file'.entry[c][p]
  OBVIOUS
<1>2. Intact(c)
  BY IntactBefore
<1>3. EntryOK(c, p, e)
  BY <1>1, <1>2 DEF EntryInv
<1>4. e \in [ts : Nat, val : Nat] /\ Len(writes) \in Nat
  BY <1>1 DEF BaseInv, ThreadTypes, FileContent, ChunkInv, WriteTypes
<1>5. SUFFICES EntryOK(c, p, e2)'
  BY <1>1
<1>6. ASSUME NEW d \in Chunks, NEW span \in SUBSET Pages, NEW o \in Nat, WriteKind(d, span, o)
      PROVE  EntryOK(c, p, e2)'
  <2>7. WrittenMore(d, span, o)
    BY <1>6, WrittenMoreIs DEF WriteKind
  <2>8. file' = file
    BY <2>7 DEF WrittenMore
  <2>1. WrittenMore(d, span, o) /\ e2 = e
    BY <1>1, <2>7, <2>8
  <2>2. PICK n \in Nat : n = Len(writes) /\ Len(writes') = n + 1
    BY <2>1 DEF WrittenMore, LastNext
  <2>3. e.val <= e.ts /\ e.ts <= n /\ IsWrite(c, p, e.val)
    BY <1>3, <2>2 DEF EntryOK
  <2>4. IsWrite(c, p, e.val)'
    <3>1. DOMAIN writes = 1..n /\ DOMAIN writes' = 1..(n + 1) /\ \A i \in 1..n : writes'[i] = writes[i]
      <4>1. \A i \in 1..n : writes'[i] = writes[i]
        BY <2>1, <2>2 DEF WrittenMore, LastNext
      <4>2. WriteTypes /\ WriteTypes'
        BY DEF BaseInv, ChunkInv
      <4> QED BY <2>2, <4>1, <4>2 DEF WriteTypes
    <3> QED BY <2>3, <3>1 DEF IsWrite
  <2>5. ASSUME NEW x \in DOMAIN chunk', Unsaved(x)', chunk'[x].lc = c
        PROVE  Newer(x, e)' \/ (chunk'[x].job # "open" /\ Older(x, e)')
    <3>1. CASE x # o
      <4>1. x \in DOMAIN chunk /\ chunk'[x] = chunk[x] /\ Unsaved(x)
        BY <2>1, <2>5, <3>1 DEF WrittenMore
      <4>2. Newer(x, e) \/ (chunk[x].job # "open" /\ Older(x, e))
        BY <1>3, <2>5, <4>1 DEF EntryOK
      <4> QED BY <4>1, <4>2 DEF Newer, Older
    <3>2. CASE x = o
      <4>1. o \in DOMAIN chunk => Newer(o, e)
        <5>1. o \in DOMAIN chunk => Unsaved(o) /\ chunk[o].lc = d /\ chunk[o].job = "open"
          BY <2>1 DEF WrittenMore
        <5>2. c = d
          BY <2>1, <2>5, <3>2 DEF WrittenMore
        <5> QED BY <1>3, <5>1, <5>2 DEF EntryOK
      <4>2. \A q \in Pages : chunk'[o].written[q] =
              IF q \in span THEN n + 1 ELSE IF o \in DOMAIN chunk THEN chunk[o].written[q] ELSE 0
        BY <2>1, <2>2 DEF WrittenMore
      <4>3. e.ts < n + 1
        BY <1>4, <2>3
      <4>4. Newer(o, e)'
        BY <4>1, <4>2, <4>3 DEF Newer
      <4> QED BY <3>2, <4>4
    <3> QED BY <3>1, <3>2
  <2>6. e.ts <= Len(writes')
    BY <1>4, <2>2, <2>3
  <2> QED BY <2>1, <2>3, <2>4, <2>5, <2>6 DEF EntryOK
<1>7. ASSUME ~WritesNow, e2 = e
      PROVE  EntryOK(c, p, e2)'
  <2>1. Unwritten
    BY <1>7, UnwrittenIs
  <2>2. ASSUME NEW x \in DOMAIN chunk, Unsaved(x)', chunk'[x].lc = c
        PROVE  Newer(x, e)' \/ (chunk'[x].job # "open" /\ Older(x, e)')
    <3>1. Unsaved(x) /\ chunk[x].lc = c /\ chunk'[x].written = chunk[x].written
          /\ (chunk'[x].job = "open" => chunk[x].job = "open")
      BY <2>1, <2>2 DEF Unwritten
    <3>2. Newer(x, e) \/ (chunk[x].job # "open" /\ Older(x, e))
      BY <1>3, <3>1 DEF EntryOK
    <3> QED BY <3>1, <3>2 DEF Newer, Older
  <2>3. writes' = writes /\ DOMAIN chunk' = DOMAIN chunk
    BY <2>1 DEF Unwritten
  <2>4. e.val <= e.ts /\ e.ts <= Len(writes) /\ IsWrite(c, p, e.val)
    BY <1>3 DEF EntryOK
  <2>5. IsWrite(c, p, e.val)'
    BY <2>3, <2>4 DEF IsWrite
  <2> QED BY <1>7, <2>2, <2>3, <2>4, <2>5 DEF EntryOK
<1>8. ASSUME Uploads(c)
      PROVE  EntryOK(c, p, e2)'
  <2>1. PICK o \in DOMAIN chunk : SaveContent(o) /\ Saves(o) /\ chunk[o].lc = c
    BY <1>8 DEF Uploads
  <2>2. e2 = Stored(o, e, p) /\ chunk[o].job = "ready"
    BY <1>1, <2>1, SavesFileIs DEF SavesFile, SaveContent
  <2>3. SaveEntry(o, c, p, e, e2)
    BY <1>2, <1>3, <1>4, <2>1, <2>2, SaveEntryIs
  <2>4. /\ DOMAIN chunk' = DOMAIN chunk /\ writes' = writes /\ chunk'[o].job = "saved"
        /\ \A x \in DOMAIN chunk : chunk'[x].lc = chunk[x].lc /\ chunk'[x].written = chunk[x].written
        /\ \A x \in DOMAIN chunk : x # o => chunk'[x].job = chunk[x].job
    BY <2>1 DEF Saves, Rejobs, SameData, SameDomain
  <2>5. ASSUME NEW x \in DOMAIN chunk, Unsaved(x)', chunk'[x].lc = c
        PROVE  Newer(x, e2)' \/ (chunk'[x].job # "open" /\ Older(x, e2)')
    <3>1. x # o /\ Unsaved(x) /\ chunk[x].lc = c
      BY <2>4, <2>5 DEF Unsaved
    <3>2. Newer(x, e2) \/ (chunk[x].job # "open" /\ Older(x, e2))
      BY <2>3, <3>1 DEF SaveEntry
    <3> QED BY <2>4, <3>1, <3>2 DEF Newer, Older
  <2>6. e2.val <= e2.ts /\ e2.ts <= Len(writes) /\ IsWrite(c, p, e2.val)
    BY <2>3 DEF SaveEntry
  <2>7. IsWrite(c, p, e2.val)'
    BY <2>4, <2>6 DEF IsWrite
  <2> QED BY <2>4, <2>5, <2>6, <2>7 DEF EntryOK
<1>9. file'.entry[c] = file.entry[c] \/ Uploads(c)
  BY EntrySame
<1> QED BY <1>1, <1>6, <1>7, <1>8, <1>9 DEF WritesNow

\* An upload puts what the chunk has into the entry, or something later is there.
LEMMA UploadKeeps ==
    ASSUME BaseInv, EntryInv, NEW c \in Chunks, NEW p \in Pages, Intact(c),
           NEW o \in DOMAIN chunk, SaveContent(o), chunk[o].lc = c
    PROVE  /\ file.entry[c][p].val <= file'.entry[c][p].val
           /\ chunk[o].written[p] <= file'.entry[c][p].val
<1>1. PICK e \in [ts : Nat, val : Nat] : e = file.entry[c][p]
  BY DEF BaseInv, ThreadTypes, FileContent
<1>5. chunk[o].job = "ready" /\ SavesFile(o)
  BY SavesFileIs DEF SaveContent
<1>2. file'.entry[c][p] = Stored(o, e, p) /\ chunk[o].job = "ready"
  BY <1>1, <1>5 DEF SavesFile
<1>3. EntryOK(c, p, e)
  BY <1>1 DEF EntryInv
<1>4. SaveEntry(o, c, p, e, Stored(o, e, p))
  BY <1>2, <1>3, SaveEntryIs
<1> QED BY <1>1, <1>2, <1>4 DEF SaveEntry

\* The entry never goes back to an earlier write.
LEMMA EntryGrows ==
    ASSUME BaseInv, BaseInv', Kinds, FlushInv, EntryInv, NEW c \in Chunks, NEW p \in Pages, Intact(c)'
    PROVE  /\ file.entry[c][p].val \in Nat /\ file'.entry[c][p].val \in Nat
           /\ file.entry[c][p].val <= file'.entry[c][p].val
<1>1. file.entry[c][p].val \in Nat /\ file'.entry[c][p].val \in Nat
  <2>1. file.entry \in FileContent /\ file'.entry \in FileContent
    BY DEF BaseInv, ThreadTypes
  <2> QED BY <2>1 DEF FileContent
<1>2. CASE Uploads(c)
  BY <1>1, <1>2, IntactBefore, UploadKeeps DEF Uploads
<1> QED BY <1>1, <1>2, EntrySame

\* What is kept stays kept.
LEMMA KeptStep ==
    ASSUME BaseInv, BaseInv', Kinds, FlushInv, EntryInv, NEW c \in Chunks, NEW p \in Pages,
           Intact(c)', ~lastErr', NEW v \in Nat, v <= Len(writes), NEW S, NEW S2,
           Kept(c, p, v, S), \A x \in S : Unsaved(x)' => x \in S2
    PROVE  Kept(c, p, v, S2)'
<1>1. CASE v <= file.entry[c][p].val
  <2>1. v <= file'.entry[c][p].val
    BY <1>1, EntryGrows
  <2> QED BY <2>1 DEF Kept
<1>2. ASSUME NEW x \in S, Unsaved(x), chunk[x].lc = c, v <= chunk[x].written[p]
      PROVE  Kept(c, p, v, S2)'
  <2>0. x \in DOMAIN chunk /\ chunk[x].written[p] \in Nat
    BY <1>2, WrittenTypes DEF Unsaved
  <2>1. ASSUME NEW d \in Chunks, NEW span \in SUBSET Pages, NEW o \in Nat, WriteKind(d, span, o)
        PROVE  Kept(c, p, v, S2)'
    <3>1. WrittenMore(d, span, o)
      BY <2>1, WrittenMoreIs DEF WriteKind
    <3>2. x \in DOMAIN chunk'
      BY <2>0, <3>1 DEF WrittenMore
    <3>3. CASE x # o
      <4>1. chunk'[x] = chunk[x] /\ Unsaved(x)'
        BY <1>2, <3>1, <3>2, <3>3 DEF WrittenMore
      <4> QED BY <1>2, <4>1 DEF Kept
    <3>4. CASE x = o
      <4>1. Unsaved(x)' /\ chunk'[x].lc = c
        BY <1>2, <2>0, <3>1, <3>4 DEF WrittenMore
      <4>2. chunk'[x].written[p] = IF p \in span THEN Len(writes) + 1 ELSE chunk[x].written[p]
        BY <2>0, <3>1, <3>4 DEF WrittenMore
      <4>3. Len(writes) \in Nat
        BY DEF BaseInv, ChunkInv, WriteTypes
      <4>4. v <= chunk'[x].written[p]
        BY <1>2, <4>2, <4>3
      <4> QED BY <1>2, <4>1, <4>4 DEF Kept
    <3> QED BY <3>3, <3>4
  <2>2. ASSUME ~WritesNow
        PROVE  Kept(c, p, v, S2)'
    <3>1. Unwritten
      BY <2>2, UnwrittenIs
    <3>2. CASE SaveContent(x)
      <4>1. chunk[x].written[p] <= file'.entry[c][p].val
        BY <1>2, <2>0, <3>2, IntactBefore, UploadKeeps
      <4>2. v <= file'.entry[c][p].val
        BY <1>2, <2>0, <4>1, EntryGrows
      <4> QED BY <4>2 DEF Kept
    <3>3. CASE Unsaved(x)' /\ chunk'[x].lc = chunk[x].lc /\ chunk'[x].written = chunk[x].written
      BY <1>2, <3>3 DEF Kept
    <3> QED BY <1>2, <2>0, <3>1, <3>2, <3>3 DEF Unwritten
  <2> QED BY <2>1, <2>2 DEF WritesNow
<1> QED BY <1>1, <1>2 DEF Kept

\* Bounds of the last write.
LEMMA LastBounds ==
    ASSUME BaseInv, NEW c, NEW p, NEW m \in Nat, m <= Len(writes)
    PROVE  /\ Last(c, p) \in Nat /\ Last(c, p) <= Len(writes)
           /\ LastWrite(c, p, m) \in Nat /\ LastWrite(c, p, m) <= Len(writes)
           /\ LastWrite(c, p, m) <= Last(c, p)
<1>1. PICK n \in Nat : n = Len(writes)
  BY DEF BaseInv, ChunkInv, WriteTypes
<1>2. Last(c, p) = LastIn(writes, c, p, n) /\ LastWrite(c, p, m) = LastIn(writes, c, p, m)
  BY <1>1, LastWriteIn DEF Last
<1>3. LastIn(writes, c, p, n) \in 0..n /\ LastIn(writes, c, p, m) \in 0..m
  BY <1>1, LastInIs
<1>4. LastIn(writes, c, p, m) <= LastIn(writes, c, p, n)
  BY <1>1, LastInGrows
<1> QED BY <1>1, <1>2, <1>3, <1>4

\* The last write among more writes is not earlier.
LEMMA LastOrder ==
    ASSUME BaseInv, NEW c, NEW p, NEW k \in Nat, NEW m \in Nat, k <= m
    PROVE  LastWrite(c, p, k) <= LastWrite(c, p, m) /\ LastWrite(c, p, k) \in Nat /\ LastWrite(c, p, m) \in Nat
<1>1. LastWrite(c, p, k) = LastIn(writes, c, p, k) /\ LastWrite(c, p, m) = LastIn(writes, c, p, m)
  BY LastWriteIn
<1>2. LastIn(writes, c, p, k) <= LastIn(writes, c, p, m)
  BY LastInGrows
<1>3. LastIn(writes, c, p, k) \in 0..k /\ LastIn(writes, c, p, m) \in 0..m
  BY LastInIs
<1> QED BY <1>1, <1>2, <1>3

\* A failed upload is never forgotten.
LEMMA ErrorStays ==
    ASSUME Kinds, lastErr
    PROVE  lastErr'
<1>1. ASSUME NEW c, NEW span, NEW o, WriteKind(c, span, o) PROVE lastErr'
  BY <1>1 DEF WriteKind, Writes, WriteEnds
<1>2. ASSUME NEW o, NEW c, NEW old, SealKind(o, c, old) PROVE lastErr'
  BY <1>2 DEF SealKind, handleVars
<1>3. ASSUME NEW o, SaveContent(o) \/ SaveFails(o) \/ RemoveSealed(o) PROVE lastErr'
  BY <1>3 DEF SaveContent, SaveFails, RemoveSealed, handleVars
<1>4. CASE Quiet
  BY <1>4 DEF Quiet
<1> QED BY <1>1, <1>2, <1>3, <1>4 DEF Kinds

\* The last write of a page is in the entry or in a chunk still to come.
LEMMA KeptNext ==
    ASSUME BaseInv, BaseInv', Kinds, FlushInv, EntryInv, KeptInv
    PROVE  KeptInv'
<1> SUFFICES ASSUME ~lastErr', NEW c \in Chunks, NEW p \in Pages, Intact(c)'
             PROVE  Kept(c, p, Last(c, p), DOMAIN chunk)'
  BY DEF KeptInv
<1>1. PICK v, v2, S, S2 : v = Last(c, p) /\ v2 = Last(c, p)' /\ S = DOMAIN chunk /\ S2 = DOMAIN chunk'
  OBVIOUS
<1>2. SUFFICES Kept(c, p, v2, S2)'
  BY <1>1
<1>3. ~lastErr
  <2>1. lastErr => lastErr'
    BY ErrorStays
  <2> QED BY <2>1
<1>4. Kept(c, p, v, S)
  BY <1>1, <1>3, IntactBefore DEF KeptInv
<1>5. v \in Nat /\ v <= Len(writes)
  <2>1. Len(writes) \in Nat /\ Len(writes) <= Len(writes)
    BY DEF BaseInv, ChunkInv, WriteTypes
  <2> QED BY <1>1, <2>1, LastBounds
<1>6. \A x \in S : Unsaved(x)' => x \in S2
  BY <1>1 DEF Unsaved
<1>7. Kept(c, p, v, S2)'
  BY <1>4, <1>5, <1>6, KeptStep
<1>8. CASE v2 = v
  BY <1>7, <1>8
<1>9. ASSUME NEW d \in Chunks, NEW span \in SUBSET Pages, NEW o \in Nat, WriteKind(d, span, o), v2 # v
      PROVE  Kept(c, p, v2, S2)'
  <2>1. WrittenMore(d, span, o)
    BY <1>9, WrittenMoreIs DEF WriteKind
  <2>2. c = d /\ p \in span /\ v2 = Len(writes) + 1 /\ Len(writes) \in Nat
    BY <1>1, <1>9, <2>1 DEF WrittenMore, LastNext
  <2>3. o \in S2 /\ Unsaved(o)' /\ chunk'[o].lc = c /\ chunk'[o].written[p] = v2
    BY <1>1, <2>1, <2>2 DEF WrittenMore
  <2>4. v2 <= chunk'[o].written[p]
    BY <2>2, <2>3
  <2> QED BY <2>3, <2>4 DEF Kept
<1>10. ASSUME ~WritesNow PROVE v2 = v
  <2>1. writes' = writes
    BY <1>10, UnwrittenIs DEF Unwritten
  <2> QED BY <1>1, <2>1, LastSame
<1> QED BY <1>8, <1>9, <1>10 DEF WritesNow

\* The chunks a flush still has to see to are among those it had to.
LEMMA TodoKept ==
    ASSUME BaseInv, Kinds, NEW f \in Threads, flush'[f] = flush[f] \/ FlushSealed(f),
           NEW x \in flush[f].todo \cup Pending, Unsaved(x)'
    PROVE  x \in flush'[f].todo \cup Pending'
<1>1. x \in flush[f].todo \ Pending => x \in flush'[f].todo \cup Pending'
  BY DEF FlushSealed
<1>2. ASSUME x \in Pending PROVE x \in Pending'
  <2>0. x \in DOMAIN chunk /\ chunk[x].job # "open"
    BY <1>2 DEF Pending
  <2>1. ASSUME NEW d \in Chunks, NEW span \in SUBSET Pages, NEW o \in Nat, WriteKind(d, span, o)
        PROVE  x \in Pending'
    <3>1. Pending' = Pending
      BY <2>1, WrittenMoreIs DEF WriteKind, WrittenMore
    <3> QED BY <1>2, <3>1
  <2>2. ASSUME ~WritesNow PROVE x \in Pending'
    <3>1. chunk'[x].job # "open"
      BY <2>0, <2>2, UnwrittenIs DEF Unwritten
    <3> QED BY <3>1 DEF Pending, Unsaved
  <2> QED BY <2>1, <2>2 DEF WritesNow
<1> QED BY <1>1, <1>2

\* The four parts of FlushInv.
SealPart(f, c, p) == flush[f].pc = "seal" /\ ~lastErr =>
    Kept(c, p, LastWrite(c, p, flush[f].from), flush[f].todo \cup Pending)
EntryPart(f, c, p) == flush[f].pc \in {"entry", "send", "sent"} =>
    LastWrite(c, p, flush[f].from) <= file.entry[c][p].val
SendPart(f, c) == flush[f].pc = "send" => flush[f].entry[c] = file.entry[c]
SentPart(f, c, p) == flush[f].pc = "sent" => LastWrite(c, p, flush[f].from) <= file.filer[c][p].val

\* What a flush promises does not change while it runs.
LEMMA FromBounds ==
    ASSUME BaseInv, BaseInv', AloneInv, Kinds, NEW f \in Threads, NEW c, NEW p
    PROVE  /\ flush[f].from \in Nat /\ flush[f].from <= Len(writes)
           /\ LastWrite(c, p, flush[f].from) \in Nat /\ LastWrite(c, p, flush[f].from) <= Len(writes)
           /\ \A k : k = flush[f].from => LastWrite(c, p, k)' = LastWrite(c, p, k)
<1>1. flush[f].from \in Nat /\ flush[f].from <= Acked
  BY DEF AloneInv, BaseInv, ThreadTypes
<1>2. Acked \in Nat /\ Acked <= Len(writes) /\ Len(writes) \in Nat
  BY AckedType DEF BaseInv
<1>3. PICK k \in Nat : k = flush[f].from /\ k <= Len(writes)
  BY <1>1, <1>2
<1>4. LastWrite(c, p, k) \in Nat /\ LastWrite(c, p, k) <= Len(writes)
  BY <1>3, LastBounds
<1>5. LastWrite(c, p, k)' = LastWrite(c, p, k)
  <2>1. ASSUME NEW d \in Chunks, NEW span \in SUBSET Pages, NEW o \in Nat, WriteKind(d, span, o)
        PROVE  LastWrite(c, p, k)' = LastWrite(c, p, k)
    <3>1. LastNext(d, span)
      BY <2>1, WrittenMoreIs DEF WriteKind, WrittenMore
    <3>2. k \in 0..Len(writes)
      BY <1>2, <1>3
    <3> QED BY <3>1, <3>2 DEF LastNext
  <2>2. ASSUME ~WritesNow PROVE LastWrite(c, p, k)' = LastWrite(c, p, k)
    <3>1. writes' = writes
      BY <2>2, UnwrittenIs DEF Unwritten
    <3> QED BY <3>1, LastSame
  <2> QED BY <2>1, <2>2 DEF WritesNow
<1> QED BY <1>3, <1>4, <1>5

\* While a flush seals, what it promises is in the entry, in a chunk it has yet to
\* seal or in one that is being uploaded...
LEMMA SealNext ==
    ASSUME BaseInv, BaseInv', Kinds, AloneInv, EntryInv, KeptInv, FlushInv,
           NEW f \in Threads, NEW c \in Chunks, NEW p \in Pages, Intact(c)'
    PROVE  SealPart(f, c, p)'
<1> SUFFICES ASSUME flush'[f].pc = "seal", ~lastErr'
             PROVE  Kept(c, p, LastWrite(c, p, flush[f].from), flush[f].todo \cup Pending)'
  BY DEF SealPart
<1>1. PICK k2, S2 : k2 = flush'[f].from /\ S2 = flush'[f].todo \cup Pending'
  OBVIOUS
<1>2. SUFFICES ASSUME NEW v2, v2 = LastWrite(c, p, k2)'
               PROVE  Kept(c, p, v2, S2)'
  BY <1>1 DEF Kept, LastWrite
<1>3. Intact(c) /\ ~lastErr
  <2>1. lastErr => lastErr'
    BY ErrorStays
  <2> QED BY <2>1, IntactBefore
<1>4. CASE flush'[f] = flush[f] \/ FlushSealed(f)
  <2>1. flush[f].pc = "seal" /\ k2 = flush[f].from
    BY <1>1, <1>4 DEF FlushSealed
  <2>2. PICK v, S : v = LastWrite(c, p, k2) /\ S = flush[f].todo \cup Pending
    OBVIOUS
  <2>3. v \in Nat /\ v <= Len(writes) /\ v2 = v
    BY <1>2, <2>1, <2>2, FromBounds
  <2>4. Kept(c, p, v, S)
    BY <1>3, <2>1, <2>2 DEF FlushInv
  <2>5. \A x \in S : Unsaved(x)' => x \in S2
    BY <1>1, <1>4, <2>2, TodoKept
  <2> QED BY <2>3, <2>4, <2>5, KeptStep
<1>5. CASE Quiet /\ FlushTurns(f)
  <2>1. Turned(f)
    BY <1>5, TurnedIs
  <2>2. FlushStarts(f)
    <3>1. ~FlushReturns(f) /\ ~CompactChunks(f) /\ ~FlushMetadata(f) /\ ~CreateEntryFails(f) /\ ~FlushDone(f)
      BY <2>1 DEF Turned
    <3>2. ~FlushWaits(f) /\ ~CreateEntry(f)
      BY <2>1 DEF Turned
    <3> QED BY <1>5, <3>1, <3>2 DEF FlushTurns
  <2>3. k2 = Acked /\ flush'[f].todo = {o \in DOMAIN chunk : chunk[o].job = "open"}
    BY <1>1, <2>1, <2>2 DEF Turned
  <2>4. UNCHANGED <<writes, chunk, file>>
    BY <2>2 DEF FlushStarts, handleVars, pipeVars
  <2>5. Acked \in Nat /\ Acked <= Len(writes)
    BY AckedType DEF BaseInv
  <2>6. v2 = LastWrite(c, p, k2)
    BY <1>2, <2>4, LastSame
  <2>7. v2 \in Nat /\ v2 <= Last(c, p) /\ Last(c, p) \in Nat
    BY <2>3, <2>5, <2>6, LastBounds
  <2>8. Kept(c, p, Last(c, p), DOMAIN chunk)
    BY <1>3 DEF KeptInv
  <2>9. CASE Last(c, p) <= file.entry[c][p].val
    <3>1. v2 <= file'.entry[c][p].val
      BY <2>4, <2>7, <2>9, PageTypes
    <3> QED BY <3>1 DEF Kept
  <2>10. ASSUME NEW x \in DOMAIN chunk, Unsaved(x), chunk[x].lc = c, Last(c, p) <= chunk[x].written[p]
         PROVE  Kept(c, p, v2, S2)'
    <3>1. x \in S2
      BY <1>1, <2>3, <2>4, <2>10 DEF Pending, Unsaved
    <3>2. Unsaved(x)' /\ chunk'[x].lc = c
      BY <2>4, <2>10 DEF Unsaved
    <3>3. v2 <= chunk'[x].written[p]
      BY <2>4, <2>7, <2>10, WrittenTypes DEF Unsaved
    <3> QED BY <3>1, <3>2, <3>3 DEF Kept
  <2> QED BY <2>8, <2>9, <2>10 DEF Kept
<1> QED BY <1>4, <1>5, FlushMoves DEF FlushMove

\* ... once it has waited it is in the entry...
LEMMA EntryPartNext ==
    ASSUME BaseInv, BaseInv', Kinds, AloneInv, EntryInv, FlushInv,
           NEW f \in Threads, NEW c \in Chunks, NEW p \in Pages, Intact(c)'
    PROVE  EntryPart(f, c, p)'
<1> SUFFICES ASSUME flush'[f].pc \in {"entry", "send", "sent"}
             PROVE  LastWrite(c, p, flush[f].from)' <= file'.entry[c][p].val
  BY DEF EntryPart
<1>0. PICK k : k = flush[f].from
  OBVIOUS
<1>1. Intact(c) /\ FlushMove(f)
  BY IntactBefore, FlushMoves
<1>2. SUFFICES flush'[f].from = k /\ LastWrite(c, p, k) <= file.entry[c][p].val
  <2>1. LastWrite(c, p, k)' = LastWrite(c, p, k) /\ LastWrite(c, p, k) \in Nat
    BY <1>0, FromBounds
  <2>2. LastWrite(c, p, flush[f].from)' = LastWrite(c, p, k)'
    BY <1>2 DEF LastWrite
  <2> QED BY <1>2, <2>1, <2>2, EntryGrows
<1>3. CASE flush'[f] = flush[f]
  BY <1>0, <1>1, <1>3 DEF FlushInv
<1>4. ~FlushSealed(f)
  BY DEF FlushSealed
<1>5. CASE FlushTurns(f)
  <2>1. Turned(f)
    BY <1>5, TurnedIs
  <2>2. ~FlushStarts(f) /\ ~FlushReturns(f) /\ ~CreateEntryFails(f) /\ ~FlushDone(f)
    BY <2>1 DEF Turned
  <2>3. flush'[f].from = k
    BY <1>0, <2>1, <2>2 DEF Turned
  <2>4. CASE FlushWaits(f)
    <3>1. flush[f].pc = "seal" /\ ~lastErr
      BY <2>1, <2>4 DEF Turned
    <3>2. Kept(c, p, LastWrite(c, p, k), flush[f].todo \cup Pending)
      BY <1>0, <1>1, <3>1 DEF FlushInv
    <3>3. Pending = {}
      <4>1. uploaderCount <= 0 /\ uploaderCount = Cardinality(Pending)
        BY <2>4 DEF FlushWaits, BaseInv, ChunkInv, CountInv
      <4>2. IsFiniteSet(Pending) /\ Cardinality(Pending) \in Nat
        BY CountTypes, FS_CardinalityType DEF BaseInv, ChunkInv
      <4>3. Cardinality(Pending) = 0
        BY <4>1, <4>2
      <4> QED BY <4>2, <4>3, FS_EmptySet
    <3>4. \A x \in flush[f].todo : ~Unsaved(x)
      <4>1. \A x \in flush[f].todo : chunk[x].job # "open"
        BY <2>4 DEF FlushWaits
      <4> QED BY <3>3, <4>1 DEF Unsaved, Pending
    <3> QED BY <2>3, <3>2, <3>3, <3>4 DEF Kept
  <2>5. CASE CompactChunks(f) \/ CreateEntry(f)
    <3>1. flush[f].pc \in {"entry", "send"}
      BY <2>1, <2>5 DEF Turned
    <3> QED BY <1>0, <1>1, <2>3, <3>1 DEF FlushInv
  <2>6. CASE FlushMetadata(f)
    <3>1. flush[f].pc = "idle"
      BY <2>1, <2>6 DEF Turned
    <3>2. k = 0
      BY <1>0, <3>1 DEF AloneInv
    <3>3. LastWrite(c, p, k) = 0
      <4>1. LastWrite(c, p, 0) = LastIn(writes, c, p, 0) /\ LastIn(writes, c, p, 0) \in 0..0
        BY LastWriteIn, LastInIs
      <4> QED BY <3>2, <4>1
    <3> QED BY <2>3, <3>3, PageTypes
  <2> QED BY <1>5, <2>2, <2>4, <2>5, <2>6 DEF FlushTurns
<1> QED BY <1>1, <1>3, <1>4, <1>5 DEF FlushMove

\* ... the entry it compacted is still the one of the handle...
LEMMA SendPartNext ==
    ASSUME BaseInv, BaseInv', Kinds, AloneInv, EntryInv, FlushInv,
           NEW f \in Threads, NEW c \in Chunks, Intact(c)'
    PROVE  SendPart(f, c)'
<1> SUFFICES ASSUME flush'[f].pc = "send"
             PROVE  flush'[f].entry[c] = file'.entry[c]
  BY DEF SendPart
<1>1. Intact(c) /\ FlushMove(f) /\ 1 \in Pages
  BY IntactBefore, FlushMoves, PipelineAssumption DEF Pages
<1>2. CASE flush'[f] = flush[f]
  <2>1. flush[f].pc = "send" /\ flush[f].entry[c] = file.entry[c]
    BY <1>1, <1>2 DEF FlushInv
  <2>2. ~Uploads(c)
    <3> SUFFICES ASSUME NEW o \in DOMAIN chunk, SaveContent(o), chunk[o].lc = c PROVE FALSE
      BY DEF Uploads
    <3>1. \E g \in Flushers \cup Loops : flush[g].pc = "send"
      BY <2>1 DEF Threads
    <3>2. mishap \in [Chunks -> SUBSET {"lapped", "recycled", "overwritten", "unsent"}]
      BY DEF BaseInv, ChunkInv, PipeTypes
    <3>3. "overwritten" \in mishap'[c]
      BY <3>1, <3>2 DEF SaveContent
    <3> QED BY <3>3 DEF Intact
  <2> QED BY <1>2, <2>1, <2>2, EntrySame
<1>3. ~FlushSealed(f)
  BY DEF FlushSealed
<1>4. CASE FlushTurns(f)
  <2>1. Turned(f)
    BY <1>4, TurnedIs
  <2>2. ~FlushStarts(f) /\ ~FlushReturns(f) /\ ~CreateEntryFails(f) /\ ~FlushDone(f)
    BY <2>1 DEF Turned
  <2>3. ~FlushWaits(f) /\ ~CreateEntry(f)
    BY <2>1 DEF Turned
  <2>4. CompactChunks(f) \/ FlushMetadata(f)
    BY <1>4, <2>2, <2>3 DEF FlushTurns
  <2>5. flush'[f].entry = file.entry
    BY <2>1, <2>4 DEF Turned
  <2>6. file' = file
    BY <2>4 DEF CompactChunks, FlushMetadata
  <2> QED BY <2>5, <2>6
<1> QED BY <1>1, <1>2, <1>3, <1>4 DEF FlushMove

\* ... only CreateEntry changes what the filer has...
LEMMA FilerStep ==
    ASSUME BaseInv, Kinds
    PROVE  file'.filer = file.filer \/ \E g \in Threads : FlushTurns(g) /\ CreateEntry(g)
<1>1. ASSUME NEW d \in Chunks, NEW span \in SUBSET Pages, NEW o \in Nat, WriteKind(d, span, o)
      PROVE  file' = file
  BY <1>1 DEF WriteKind, Writes, WriteEnds
<1>2. ASSUME NEW o \in DOMAIN chunk, NEW d \in Chunks, NEW old \in Nat, SealKind(o, d, old)
      PROVE  file' = file
  BY <1>2 DEF SealKind
<1>3. ASSUME NEW o \in DOMAIN chunk, SaveContent(o)
      PROVE  file'.filer = file.filer
  BY <1>3, SavesFileIs DEF SavesFile
<1>4. ASSUME NEW o \in DOMAIN chunk, SaveFails(o) \/ RemoveSealed(o)
      PROVE  file' = file
  BY <1>4 DEF SaveFails, RemoveSealed
<1>5. ASSUME QuietStep
      PROVE  file'.filer = file.filer \/ \E g \in Threads : FlushTurns(g) /\ CreateEntry(g)
  <2>1. CASE Rests \/ WriteReturns
    BY <2>1 DEF Rests, WriteReturns
  <2>2. ASSUME NEW r \in Readers, ReaderTurns(r)
        PROVE  file' = file
    BY <2>2, ReaderTypes
  <2>3. ASSUME NEW g \in Threads, FlushTurns(g)
        PROVE  file'.filer = file.filer \/ CreateEntry(g)
    BY <2>3, CreateFile
  <2> QED BY <1>5, <2>1, <2>2, <2>3 DEF QuietStep
<1> QED BY <1>1, <1>2, <1>3, <1>4, <1>5 DEF Kinds

\* ... and then the filer has what it promises.
LEMMA SentPartNext ==
    ASSUME BaseInv, BaseInv', Kinds, AloneInv, EntryInv, FlushInv,
           NEW f \in Threads, NEW c \in Chunks, NEW p \in Pages, Intact(c)'
    PROVE  SentPart(f, c, p)'
<1> SUFFICES ASSUME flush'[f].pc = "sent"
             PROVE  LastWrite(c, p, flush[f].from)' <= file'.filer[c][p].val
  BY DEF SentPart
<1>0. PICK k : k = flush[f].from
  OBVIOUS
<1>1. Intact(c) /\ FlushMove(f)
  BY IntactBefore, FlushMoves
<1>2. SUFFICES flush'[f].from = k /\ LastWrite(c, p, k) <= file'.filer[c][p].val
  <2>1. LastWrite(c, p, k)' = LastWrite(c, p, k)
    BY <1>0, FromBounds
  <2>2. LastWrite(c, p, flush[f].from)' = LastWrite(c, p, k)'
    BY <1>2 DEF LastWrite
  <2> QED BY <1>2, <2>1, <2>2
<1>3. CASE flush'[f] = flush[f]
  <2>1. flush[f].pc = "sent" /\ LastWrite(c, p, k) <= file.filer[c][p].val
    BY <1>0, <1>1, <1>3 DEF FlushInv
  <2>2. ASSUME NEW g \in Threads, CreateEntry(g) PROVE FALSE
    <3>1. flush[g].pc = "send"
      BY <2>2 DEF CreateEntry
    <3>2. g = f
      BY <2>1, <3>1 DEF AloneInv
    <3> QED BY <2>1, <3>1, <3>2
  <2>3. file'.filer = file.filer
    BY <2>2, FilerStep
  <2> QED BY <1>0, <1>3, <2>1, <2>3
<1>4. ~FlushSealed(f)
  BY DEF FlushSealed
<1>5. CASE FlushTurns(f)
  <2>1. Turned(f)
    BY <1>5, TurnedIs
  <2>2. ~FlushStarts(f) /\ ~FlushReturns(f) /\ ~CreateEntryFails(f) /\ ~FlushDone(f) /\ ~CompactChunks(f) /\ ~FlushMetadata(f)
    BY <2>1 DEF Turned
  <2>3. ~FlushWaits(f)
    BY <2>1 DEF Turned
  <2>4. CreateEntry(f)
    BY <1>5, <2>2, <2>3 DEF FlushTurns
  <2>5. flush[f].pc = "send" /\ flush'[f].from = k
    BY <1>0, <2>1, <2>2, <2>4 DEF Turned
  <2>6. flush[f].entry[c] = file.entry[c] /\ LastWrite(c, p, k) <= file.entry[c][p].val
    BY <1>0, <1>1, <2>5 DEF FlushInv
  <2>7. file'.filer = flush[f].entry
    BY <1>5, <2>4, CreateFile
  <2> QED BY <2>5, <2>6, <2>7
<1> QED BY <1>1, <1>3, <1>4, <1>5 DEF FlushMove

\* What flushes know is inductive.
LEMMA FlushNext ==
    ASSUME BaseInv, BaseInv', Kinds, AloneInv, EntryInv, KeptInv, FlushInv
    PROVE  FlushInv'
<1>1. ASSUME NEW f \in Threads, NEW c \in Chunks, NEW p \in Pages, Intact(c)'
      PROVE  SealPart(f, c, p)' /\ EntryPart(f, c, p)' /\ SendPart(f, c)' /\ SentPart(f, c, p)'
  BY <1>1, SealNext, EntryPartNext, SendPartNext, SentPartNext
<1>2. ASSUME NEW f \in Threads, NEW c \in Chunks, NEW p \in Pages, Intact(c)'
      PROVE  /\ (flush[f].pc = "seal" /\ ~lastErr =>
                   Kept(c, p, LastWrite(c, p, flush[f].from), flush[f].todo \cup Pending))'
             /\ (flush[f].pc \in {"entry", "send", "sent"} =>
                   LastWrite(c, p, flush[f].from) <= file.entry[c][p].val)'
             /\ (flush[f].pc = "send" => flush[f].entry[c] = file.entry[c])'
             /\ (flush[f].pc = "sent" => LastWrite(c, p, flush[f].from) <= file.filer[c][p].val)'
  <2>1. SealPart(f, c, p)' /\ EntryPart(f, c, p)' /\ SendPart(f, c)' /\ SentPart(f, c, p)'
    BY <1>1, <1>2
  <2> QED BY <2>1, Zenon DEF SealPart, EntryPart, SendPart, SentPart
<1> QED BY <1>2, Zenon DEF FlushInv

\* A write that is recorded stays recorded.
LEMMA IsWriteKept ==
    ASSUME BaseInv, BaseInv', Kinds, NEW c, NEW p, NEW v, IsWrite(c, p, v)
    PROVE  IsWrite(c, p, v)'
<1>1. WriteTypes /\ WriteTypes'
  BY DEF BaseInv, ChunkInv
<1>2. ASSUME NEW d \in Chunks, NEW span \in SUBSET Pages, NEW o \in Nat, WriteKind(d, span, o)
      PROVE  IsWrite(c, p, v)'
  <2>1. LastNext(d, span)
    BY <1>2, WrittenMoreIs DEF WriteKind, WrittenMore
  <2>2. DOMAIN writes = 1..Len(writes) /\ DOMAIN writes' = 1..(Len(writes) + 1) /\ Len(writes) \in Nat
    BY <1>1, <2>1 DEF LastNext, WriteTypes
  <2>3. \A i \in DOMAIN writes : i \in DOMAIN writes' /\ writes'[i] = writes[i]
    BY <2>1, <2>2 DEF LastNext
  <2> QED BY <2>3 DEF IsWrite
<1>3. ASSUME ~WritesNow PROVE IsWrite(c, p, v)'
  <2>1. writes' = writes
    BY <1>3, UnwrittenIs DEF Unwritten
  <2> QED BY <2>1 DEF IsWrite
<1> QED BY <1>2, <1>3 DEF WritesNow

\* Metadata becomes clean by a flush that is done; else it was clean, and nothing
\* was acknowledged since.
StaysClean(c) == ~dirty /\ "unsent" \notin mishap[c] /\ Acked' = Acked

Cleans == \E g \in Threads : FlushTurns(g) /\ FlushDone(g)

\* Steps after which metadata is clean and nothing is unsent.
LEMMA CleanStep ==
    ASSUME BaseInv, BaseInv', AloneInv, Kinds, NEW c \in Chunks, ~dirty', "unsent" \notin mishap'[c]
    PROVE  StaysClean(c) \/ Cleans
<1>0. Len(writes) \in Nat /\ mishap \in [Chunks -> SUBSET {"lapped", "recycled", "overwritten", "unsent"}]
  BY DEF BaseInv, ChunkInv, WriteTypes, PipeTypes
<1>1. ASSUME NEW d \in Chunks, NEW span \in SUBSET Pages, NEW o \in Nat, WriteKind(d, span, o)
      PROVE  StaysClean(c)
  <2>1. writer' = [pc |-> "seal", lc |-> d, span |-> {}, obj |-> o] /\ dirty' = dirty /\ mishap' = mishap
    BY <1>1 DEF WriteKind, Writes, WriteEnds
  <2>2. Len(writes') = Len(writes) + 1
    BY <1>1, WrittenMoreIs DEF WriteKind, WrittenMore, LastNext
  <2>3. writer.pc \in {"idle", "evict"}
    BY <1>1 DEF WriteKind, Exclusive
  <2>4. Acked = Len(writes) /\ Acked' = Len(writes)
    BY <1>0, <2>1, <2>2, <2>3 DEF Acked
  <2> QED BY <2>1, <2>4 DEF StaysClean
<1>2. ASSUME NEW o \in DOMAIN chunk, NEW d \in Chunks, NEW old \in Nat, SealKind(o, d, old)
      PROVE  StaysClean(c)
  <2>1. writes' = writes /\ dirty' = dirty /\ SealThread(o)
    BY <1>2 DEF SealKind, handleVars
  <2>2. mishap[c] \subseteq mishap'[c]
    BY <1>0, <1>2 DEF SealKind, Seals
  <2>3. writer' = writer \/ (writer.pc = "seal" /\ writer'.pc = "submit")
        \/ (writer.pc = "idle" /\ writer'.pc = "evict")
    <3>1. writer \in WriterType
      BY DEF BaseInv, ThreadTypes, WriterType
    <3>2. [writer EXCEPT !.pc = "submit"].pc = "submit"
      BY <3>1 DEF WriterType
    <3>3. (\E x \in Chunks, span \in SUBSET Pages : /\ ~Exclusive
                                                   /\ writer' = [pc |-> "evict", lc |-> x, span |-> span, obj |-> o])
          => writer.pc = "idle" /\ writer'.pc = "evict"
      BY DEF Exclusive
    <3> QED BY <2>1, <3>2, <3>3 DEF SealThread
  <2>4. Acked' = Acked
    BY <2>1, <2>3 DEF Acked
  <2> QED BY <2>1, <2>2, <2>4 DEF StaysClean
<1>3. ASSUME NEW o \in DOMAIN chunk, SaveContent(o) \/ SaveFails(o) \/ RemoveSealed(o)
      PROVE  StaysClean(c)
  <2>1. UNCHANGED <<writes, writer, dirty>>
    BY <1>3 DEF SaveContent, SaveFails, RemoveSealed, handleVars
  <2>2. mishap[c] \subseteq mishap'[c]
    BY <1>0, <1>3 DEF SaveContent, SaveFails, RemoveSealed
  <2> QED BY <2>1, <2>2 DEF StaysClean, Acked
<1>4. ASSUME Quiet, QuietStep
      PROVE  StaysClean(c) \/ Cleans
  <2>0. writes' = writes
    BY <1>4 DEF Quiet, StaysPut
  <2>1. CASE Rests
    BY <2>1 DEF Rests, StaysClean, Acked
  <2>2. ~WriteReturns
    BY DEF WriteReturns
  <2>3. ASSUME NEW r \in Readers, ReaderTurns(r)
        PROVE  StaysClean(c)
    BY <2>3 DEF ReaderTurns, ReadFromChunks, MaybeReadDataAt, UnlockForRead, handleVars, StaysClean, Acked
  <2>4. ASSUME NEW g \in Threads, FlushTurns(g)
        PROVE  StaysClean(c) \/ FlushDone(g)
    <3>1. CASE CreateEntry(g)
      <4>1. dirty' = dirty /\ flush[g].pc = "send"
        BY <3>1 DEF CreateEntry, handleVars
      <4> QED BY <4>1 DEF AloneInv
    <3>2. CASE ~CreateEntry(g) /\ ~FlushDone(g)
      <4>1. UNCHANGED <<writes, writer, dirty, mishap>>
        BY <2>4, <3>2 DEF FlushTurns, FlushStarts, FlushWaits, FlushReturns, CompactChunks,
             FlushMetadata, CreateEntryFails, handleVars
      <4> QED BY <4>1 DEF StaysClean, Acked
    <3> QED BY <3>1, <3>2
  <2> QED BY <1>4, <2>1, <2>2, <2>3, <2>4 DEF QuietStep, Cleans
<1> QED BY <1>1, <1>2, <1>3, <1>4 DEF Kinds

FiledPart(c, p) == IsWrite(c, p, file.filer[c][p].val)
CleanPart(c, p) == ~dirty /\ "unsent" \notin mishap[c] => LastWrite(c, p, Acked) <= file.filer[c][p].val

\* What the filer has was written.
LEMMA FiledNext ==
    ASSUME BaseInv, BaseInv', Kinds, EntryInv, FlushInv, FilerInv, NEW c \in Chunks, NEW p \in Pages, Intact(c)'
    PROVE  FiledPart(c, p)'
<1>1. Intact(c)
  BY IntactBefore
<1>2. PICK v : v = file'.filer[c][p].val
  OBVIOUS
<1>3. IsWrite(c, p, v)
  <2>1. CASE file'.filer = file.filer
    BY <1>1, <1>2, <2>1 DEF FilerInv
  <2>2. ASSUME NEW g \in Threads, FlushTurns(g), CreateEntry(g)
        PROVE  IsWrite(c, p, v)
    <3>1. file'.filer = flush[g].entry /\ flush[g].pc = "send"
      BY <2>2, CreateFile DEF CreateEntry
    <3>2. flush[g].entry[c] = file.entry[c]
      BY <1>1, <3>1 DEF FlushInv
    <3>3. EntryOK(c, p, file.entry[c][p])
      BY <1>1 DEF EntryInv
    <3> QED BY <1>2, <3>1, <3>2, <3>3 DEF EntryOK
  <2> QED BY <2>1, <2>2, FilerStep
<1>4. IsWrite(c, p, v)'
  BY <1>3, IsWriteKept
<1> QED BY <1>2, <1>4 DEF FiledPart

\* With clean metadata the filer has what was acknowledged.
LEMMA CleanNext ==
    ASSUME BaseInv, BaseInv', Kinds, AloneInv, FilerInv, NEW c \in Chunks, NEW p \in Pages, Intact(c)'
    PROVE  CleanPart(c, p)'
<1> SUFFICES ASSUME ~dirty', "unsent" \notin mishap'[c]
             PROVE  LastWrite(c, p, Acked)' <= file'.filer[c][p].val
  BY DEF CleanPart
<1>1. Intact(c)
  BY IntactBefore
<1>2. PICK a : a = Acked
  OBVIOUS
<1>3. a \in Nat /\ a <= Len(writes) /\ Len(writes) \in Nat
  BY <1>2, AckedType DEF BaseInv
<1>4. CASE StaysClean(c)
  <2>1. Acked' = a /\ LastWrite(c, p, a) <= file.filer[c][p].val
    BY <1>1, <1>2, <1>4 DEF StaysClean, FilerInv
  <2>2. ASSUME NEW g \in Threads, CreateEntry(g) PROVE FALSE
    BY <1>4, <2>2 DEF CreateEntry, AloneInv, StaysClean
  <2>3. file'.filer = file.filer
    BY <2>2, FilerStep
  <2>4. LastWrite(c, p, a)' = LastWrite(c, p, a)
    <3>1. ASSUME NEW d \in Chunks, NEW span \in SUBSET Pages, NEW o \in Nat, WriteKind(d, span, o)
          PROVE  LastWrite(c, p, a)' = LastWrite(c, p, a)
      <4>1. LastNext(d, span)
        BY <3>1, WrittenMoreIs DEF WriteKind, WrittenMore
      <4>2. a \in 0..Len(writes)
        BY <1>3
      <4> QED BY <4>1, <4>2 DEF LastNext
    <3>2. ASSUME ~WritesNow PROVE LastWrite(c, p, a)' = LastWrite(c, p, a)
      <4>1. writes' = writes
        BY <3>2, UnwrittenIs DEF Unwritten
      <4> QED BY <4>1, LastSame
    <3> QED BY <3>1, <3>2 DEF WritesNow
  <2>5. LastWrite(c, p, Acked)' = LastWrite(c, p, a)'
    BY <2>1 DEF LastWrite
  <2> QED BY <2>1, <2>3, <2>4, <2>5
<1>5. ASSUME NEW g \in Threads, FlushDone(g)
      PROVE  LastWrite(c, p, Acked)' <= file'.filer[c][p].val
  <2>1. writes' = writes /\ writer' = writer /\ file' = file
    BY <1>5 DEF FlushDone
  <2>2. mishap'[c] = mishap[c] \cup
          (IF \E q \in Pages : file.filer[c][q].val < LastWrite(c, q, Len(writes)) THEN {"unsent"} ELSE {})
    BY <1>5 DEF FlushDone
  <2>3. ~(file.filer[c][p].val < LastWrite(c, p, Len(writes)))
    BY <2>2
  <2>4. LastWrite(c, p, a) <= LastWrite(c, p, Len(writes))
        /\ LastWrite(c, p, a) \in Nat /\ LastWrite(c, p, Len(writes)) \in Nat
    BY <1>3, LastOrder
  <2>5. file.filer[c][p].val \in Nat
    BY DEF BaseInv, ThreadTypes, FileContent
  <2>6. LastWrite(c, p, a) <= file.filer[c][p].val
    BY <2>3, <2>4, <2>5
  <2>7. LastWrite(c, p, Acked)' = LastWrite(c, p, a)
    BY <1>2, <2>1 DEF LastWrite, Acked
  <2> QED BY <2>1, <2>6, <2>7
<1> QED BY <1>4, <1>5, CleanStep DEF Cleans

\* What is known of the filer is inductive.
LEMMA FilerNext ==
    ASSUME BaseInv, BaseInv', Kinds, AloneInv, EntryInv, FlushInv, FilerInv
    PROVE  FilerInv'
<1>1. ASSUME NEW c \in Chunks, NEW p \in Pages, Intact(c)'
      PROVE  FiledPart(c, p)' /\ CleanPart(c, p)'
  BY <1>1, FiledNext, CleanNext
<1>2. (\A c \in Chunks, p \in Pages : Intact(c) => FiledPart(c, p) /\ CleanPart(c, p))'
  BY <1>1
<1> QED BY <1>2 DEF FilerInv, FiledPart, CleanPart

StoreInv == BaseInv /\ AloneInv /\ EntryInv /\ KeptInv /\ FlushInv /\ FilerInv

LEMMA StoreInit ==
    ASSUME Init
    PROVE  StoreInv
<1>1. /\ writes = <<>> /\ chunk = <<>> /\ dirty = FALSE /\ lastErr = FALSE
      /\ file = [group |-> Blank, entry |-> Blank, filer |-> Blank]
      /\ writer = IdleThread /\ flush = [f \in Threads |-> IdleFlush]
  BY DEF Init, Threads
<1>2. DOMAIN chunk = {} /\ Len(writes) = 0 /\ Acked = 0
  BY <1>1 DEF Acked, IdleThread
<1>3. \A f \in Threads : flush[f].pc = "idle" /\ flush[f].from = 0
  BY <1>1 DEF IdleFlush
<1>4. \A c \in Chunks, p \in Pages : /\ file.entry[c][p].ts = 0 /\ file.entry[c][p].val = 0
                                     /\ file.filer[c][p].val = 0
  BY <1>1 DEF Blank
<1>5. \A c, p : LastWrite(c, p, 0) = 0
  <2> TAKE c, p
  <2>1. LastIn(writes, c, p, 0) \in 0..0
    BY LastInIs
  <2> QED BY <2>1, LastWriteIn
<1>6. AloneInv /\ FlushInv
  BY <1>2, <1>3 DEF AloneInv, FlushInv
<1>7. EntryInv
  BY <1>2, <1>4 DEF EntryInv, EntryOK, IsWrite
<1>8. KeptInv
  BY <1>2, <1>4, <1>5 DEF KeptInv, Kept, Last
<1>9. FilerInv
  BY <1>2, <1>4, <1>5 DEF FilerInv, IsWrite
<1> QED BY <1>6, <1>7, <1>8, <1>9, BaseInit DEF StoreInv

LEMMA StoreAlways == Spec => []StoreInv
<1>1. Init => StoreInv
  BY StoreInit
<1>2. StoreInv /\ [Next]_vars => StoreInv'
  <2> SUFFICES ASSUME StoreInv, [Next]_vars PROVE StoreInv'
    OBVIOUS
  <2>1. BaseInv /\ AloneInv /\ EntryInv /\ KeptInv /\ FlushInv /\ FilerInv
    BY DEF StoreInv
  <2>2. Kinds /\ BaseInv'
    BY <2>1, NextKinds, BaseNext
  <2>3. AloneInv' /\ EntryInv' /\ KeptInv'
    BY <2>1, <2>2, AloneNext, EntryNext, KeptNext
  <2>4. FlushInv' /\ FilerInv'
    BY <2>1, <2>2, FlushNext, FilerNext
  <2> QED BY <2>2, <2>3, <2>4 DEF StoreInv
<1> QED BY <1>1, <1>2, PTL DEF Spec

\* What the filer has of a page when a flush returns success.
Stores(f) == flush[f].pc \in {"entry", "sent"} /\ flush'[f].pc = "idle" =>
    \A c \in Chunks, p \in Pages :
      mishap[c] \cap {"recycled", "overwritten", "unsent"} = {} =>
        /\ LastWrite(c, p, flush[f].from) <= file.filer[c][p].val
        /\ IsWrite(c, p, file.filer[c][p].val)

\* A flush returns success in two ways: it finds clean metadata, or it has stored
\* the entry.
LEMMA StoreStep ==
    ASSUME StoreInv, [Next]_vars, NEW f \in Threads
    PROVE  Stores(f)
<1> SUFFICES ASSUME flush[f].pc \in {"entry", "sent"}, flush'[f].pc = "idle",
                    NEW c \in Chunks, NEW p \in Pages,
                    mishap[c] \cap {"recycled", "overwritten", "unsent"} = {}
             PROVE  /\ LastWrite(c, p, flush[f].from) <= file.filer[c][p].val
                    /\ IsWrite(c, p, file.filer[c][p].val)
  BY DEF Stores
<1>1. BaseInv /\ AloneInv /\ FlushInv /\ FilerInv
  BY DEF StoreInv
<1>2. Kinds
  BY <1>1, NextKinds
<1>3. Intact(c) /\ "unsent" \notin mishap[c]
  BY DEF Intact
<1>4. IsWrite(c, p, file.filer[c][p].val)
  BY <1>1, <1>3 DEF FilerInv
<1>5. FlushTurns(f)
  <2>1. FlushMove(f)
    BY <1>1, <1>2, FlushMoves
  <2> QED BY <2>1 DEF FlushMove, FlushSealed
<1>6. FlushReturns(f) \/ FlushDone(f)
  <2>1. Turned(f)
    BY <1>1, <1>5, TurnedIs
  <2>2. ~FlushStarts(f) /\ ~FlushWaits(f) /\ ~CreateEntry(f) /\ ~CreateEntryFails(f) /\ ~FlushMetadata(f)
    BY <2>1 DEF Turned
  <2>3. ~CompactChunks(f)
    BY <2>1 DEF Turned
  <2> QED BY <1>5, <2>2, <2>3 DEF FlushTurns
<1>7. CASE FlushReturns(f)
  <2>1. ~dirty
    BY <1>7 DEF FlushReturns
  <2>2. LastWrite(c, p, Acked) <= file.filer[c][p].val
    BY <1>1, <1>3, <2>1 DEF FilerInv
  <2>3. flush[f].from \in Nat /\ flush[f].from <= Acked /\ Acked \in Nat
    BY <1>1, AckedType DEF AloneInv, BaseInv, ThreadTypes
  <2>4. /\ LastWrite(c, p, flush[f].from) <= LastWrite(c, p, Acked)
        /\ LastWrite(c, p, flush[f].from) \in Nat /\ LastWrite(c, p, Acked) \in Nat
    BY <1>1, <2>3, LastOrder
  <2>5. file.filer[c][p].val \in Nat
    BY <1>1 DEF BaseInv, ThreadTypes, FileContent
  <2> QED BY <1>4, <2>2, <2>4, <2>5
<1>8. CASE FlushDone(f)
  <2>1. flush[f].pc = "sent"
    BY <1>8 DEF FlushDone
  <2> QED BY <1>1, <1>3, <1>4, <2>1 DEF FlushInv
<1> QED BY <1>6, <1>7, <1>8

\* A flush or fsync that returns success, whether it sent the entry itself or found
\* that another had, leaves at the filer every write that was acknowledged before
\* it began, or a later one of the page; for every number of writers' requests,
\* flushes, uploads and failures beside it, except in the chunks that met one of
\* the three mishaps.
THEOREM FlushesStore == Spec => FlushStores
<1> DEFINE Body == \A f \in Flushers :
         (flush[f].pc \in {"entry", "sent"} /\ flush'[f].pc = "idle") =>
           \A c \in Chunks, p \in Pages :
             LET v == file.filer[c][p].val IN
             mishap[c] \cap {"recycled", "overwritten", "unsent"} = {} =>
               /\ LastWrite(c, p, flush[f].from) <= v
               /\ v # 0 => writes[v].lc = c /\ p \in writes[v].span
<1>1. StoreInv /\ [Next]_vars => [Body]_vars
  <2> SUFFICES ASSUME StoreInv, [Next]_vars PROVE Body
    OBVIOUS
  <2>1. \A f \in Flushers : Stores(f)
    BY StoreStep DEF Threads
  <2> QED BY <2>1 DEF Stores, IsWrite
<1>2. [][Body]_vars => FlushStores
  BY DEF FlushStores
<1> QED BY StoreAlways, <1>1, <1>2, PTL DEF Spec


-----------------------------------------------------------------------------
(* Nobody waits for ever *)

\* Who can go on, by the guards of the steps: the writer...
WriterCan ==
    \/ writer.pc = "seal"
    \/ writer.pc \in {"evict", "submit"} /\ writer.obj \notin Queued

\* ... a flush: it seals, it goes on to the metadata, it returns, or it sends...
FlushCan(f) ==
    \/ /\ flush[f].pc = "seal" /\ ~ChunksLocked /\ flush[f].obj \notin Queued
       /\ \/ /\ flush[f].obj # 0 \/ flush[f].todo # {}
             /\ \E c \in Chunks : writableChunks[c] # 0
          \/ (\A o \in flush[f].todo : chunk[o].job # "open") /\ uploaderCount <= 0
    \/ flush[f].pc = "entry" /\ (~dirty \/ (~Exclusive /\ ~Shared))
    \/ flush[f].pc \in {"send", "sent"}

\* ... and a job: it gets a token, its upload ends, or it finds readers or none.
JobCan(o) ==
    \/ chunk[o].job = "token" /\ Cardinality(Running) < ConcurrentWriters
    \/ chunk[o].job = "ready"
    \/ chunk[o].job = "saved" /\ ~ChunksLocked

SomeoneCan ==
    \/ WriterCan
    \/ \E r \in Readers : reader[r].pc # "idle"
    \/ \E f \in Flushers : FlushCan(f)
    \/ \E f \in Loops : flush[f].pc = "send"
    \/ \E o \in DOMAIN chunk : JobCan(o)

\* NoneWaits, with the guards for ENABLED.
NoneStuck ==
    \/ Len(sleeping) = ConcurrentWriters
    \/ writer.pc = "idle" /\ \A f \in Flushers : flush[f].pc = "idle"
    \/ SomeoneCan

\* A job that sleeps is one that can be woken.
SleepersInv == \A o \in DOMAIN chunk :
    chunk[o].job = "asleep" => \E i \in DOMAIN sleeping : sleeping[i] = o

\* A flush is to visit chunks there are, and a loop is done once it has sent.
TodoInv == \A f \in Threads : flush[f].pc = "seal" => flush[f].todo \subseteq DOMAIN chunk

LoopInv == \A f \in Loops : flush[f].pc # "sent"

WaitInv == BaseInv /\ SleepersInv /\ TodoInv /\ LoopInv

\* The jobs that sleep are the same, or fewer.
LEMMA SleepersSame ==
    ASSUME SleepersInv, sleeping' = sleeping,
           \A x \in DOMAIN chunk' : chunk'[x].job = "asleep" => x \in DOMAIN chunk /\ chunk[x].job = "asleep"
    PROVE  SleepersInv'
BY DEF SleepersInv

\* A job that goes on without sleeping.
LEMMA SleepersRejob ==
    ASSUME SleepersInv, sleeping' = sleeping, NEW o \in DOMAIN chunk, NEW j, Rejobs(o, j), j # "asleep"
    PROVE  SleepersInv'
<1>1. DOMAIN chunk' = DOMAIN chunk /\ chunk'[o].job = j
      /\ \A x \in DOMAIN chunk : x # o => chunk'[x].job = chunk[x].job
  BY DEF Rejobs, SameData, SameDomain
<1> QED BY <1>1, SleepersSame

\* Jobs keep the sleepers...
LEMMA SleepersJob ==
    ASSUME BaseInv, SleepersInv, NEW o \in DOMAIN chunk, JobStep(o)
    PROVE  SleepersInv'
<1>1. CASE ExecuteJob(o)
  <2>1. chunk[o].job = "token" /\ chunk' = [chunk EXCEPT ![o].job = "ready"] /\ sleeping' = sleeping
    BY <1>1 DEF ExecuteJob, Execute
  <2>2. Rejobs(o, "ready")
    BY <2>1, RejobsIs DEF BaseInv, ChunkInv, Sealing
  <2> QED BY <2>1, <2>2, SleepersRejob
<1>2. CASE SaveContent(o) \/ SaveFails(o)
  <2>1. chunk[o].job = "ready" /\ chunk' = [chunk EXCEPT ![o].job = "saved"] /\ sleeping' = sleeping
    BY <1>2 DEF SaveContent, SaveFails
  <2>2. Rejobs(o, "saved")
    BY <2>1, RejobsIs DEF BaseInv, ChunkInv, Sealing
  <2> QED BY <2>1, <2>2, SleepersRejob
<1>3. CASE RemoveSealed(o)
  <2>1. Removes(o) /\ sleeping' = sleeping
    BY <1>3, ChunkRemoves DEF BaseInv, RemoveSealed
  <2>2. DOMAIN chunk' = DOMAIN chunk /\ chunk'[o].job = "done"
        /\ \A x \in DOMAIN chunk : x # o => chunk'[x] = chunk[x]
    BY <2>1 DEF Removes, SameDomain, Done
  <2> QED BY <2>1, <2>2, SleepersSame
<1>4. CASE WaitForReaders(o)
  <2>1. chunk[o].job = "saved" /\ chunk' = [chunk EXCEPT ![o].job = "asleep"]
        /\ sleeping' = Append(sleeping, o)
    BY <1>4 DEF WaitForReaders
  <2>2. Rejobs(o, "asleep")
    BY <2>1, RejobsIs DEF BaseInv, ChunkInv, Sealing
  <2>3. DOMAIN chunk' = DOMAIN chunk /\ \A x \in DOMAIN chunk : x # o => chunk'[x].job = chunk[x].job
    BY <2>2 DEF Rejobs, SameData, SameDomain
  <2>4. sleeping \in Seq(Nat) /\ o \in Nat
    BY ChunkTypes DEF BaseInv, ChunkInv, SleepInv
  <2>5. /\ Len(sleeping) + 1 \in DOMAIN sleeping' /\ sleeping'[Len(sleeping) + 1] = o
        /\ \A i \in DOMAIN sleeping : i \in DOMAIN sleeping' /\ sleeping'[i] = sleeping[i]
    BY <2>1, <2>4
  <2> QED BY <2>3, <2>5 DEF SleepersInv
<1> QED BY <1>1, <1>2, <1>3, <1>4 DEF JobStep

\* ... a reader wakes the one it takes out...
LEMMA SleepersRead ==
    ASSUME BaseInv, SleepersInv, NEW r, MaybeReadDataAt(r)
    PROVE  SleepersInv'
<1>1. CASE sleeping = <<>>
  <2>1. UNCHANGED <<chunk, sleeping>>
    BY <1>1 DEF MaybeReadDataAt
  <2> QED BY <2>1, SleepersSame
<1>2. CASE sleeping # <<>>
  <2>1. PICK o : o = Head(sleeping)
    OBVIOUS
  <2>2. sleeping' = Tail(sleeping) /\ chunk' = [chunk EXCEPT ![o].job = "saved"]
    BY <1>2, <2>1 DEF MaybeReadDataAt
  <2>3. o = sleeping[1] /\ 1 \in DOMAIN sleeping
    BY <1>2, <2>1 DEF BaseInv, ChunkInv, SleepInv
  <2>4. o \in DOMAIN chunk /\ chunk[o].job = "asleep"
    BY <2>3 DEF BaseInv, ChunkInv, SleepInv
  <2>5. Rejobs(o, "saved")
    BY <2>2, <2>4, RejobsIs DEF BaseInv, ChunkInv, Sealing
  <2>6. DOMAIN chunk' = DOMAIN chunk /\ chunk'[o].job = "saved"
        /\ \A x \in DOMAIN chunk : x # o => chunk'[x].job = chunk[x].job
    BY <2>5 DEF Rejobs, SameData, SameDomain
  <2>7. sleeping \in Seq(Nat)
    BY DEF BaseInv, ChunkInv, SleepInv
  <2>8. \A i \in DOMAIN sleeping : i # 1 => i - 1 \in DOMAIN sleeping' /\ sleeping'[i - 1] = sleeping[i]
    BY <1>2, <2>2, <2>7
  <2>9. ASSUME NEW x \in DOMAIN chunk', chunk'[x].job = "asleep"
        PROVE  \E i \in DOMAIN sleeping' : sleeping'[i] = x
    <3>1. x # o /\ x \in DOMAIN chunk /\ chunk[x].job = "asleep"
      BY <2>6, <2>9
    <3>2. PICK i \in DOMAIN sleeping : sleeping[i] = x
      BY <3>1 DEF SleepersInv
    <3> QED BY <2>3, <2>8, <3>1, <3>2
  <2> QED BY <2>9 DEF SleepersInv
<1> QED BY <1>1, <1>2

\* ... and nothing else touches a sleeping job.
LEMMA SleepersNext ==
    ASSUME BaseInv, SleepersInv, [Next]_vars
    PROVE  SleepersInv'
<1>1. ASSUME NEW o \in DOMAIN chunk, chunk[o].job = "open", MoveToSealed(o)
      PROVE  SleepersInv'
  <2>1. PICK c, old : Seals(o, c, old)
    BY <1>1, SealsIs DEF BaseInv, ChunkInv
  <2>2. DOMAIN chunk' = DOMAIN chunk /\ sleeping' = sleeping
        /\ \A x \in DOMAIN chunk : chunk'[x].job = IF x = o THEN "token" ELSE chunk[x].job
    BY <2>1 DEF Seals, SameData, SameDomain
  <2> QED BY <2>2, SleepersSame
<1>2. ASSUME NEW c \in Chunks, writableChunks[c] # 0, MoveToSealed(writableChunks[c])
      PROVE  SleepersInv'
  <2>1. PICK o : o = writableChunks[c]
    OBVIOUS
  <2>2. o \in DOMAIN chunk /\ chunk[o].job = "open"
    BY <1>2, <2>1, WritableIsOpen DEF BaseInv, ChunkInv
  <2> QED BY <1>1, <1>2, <2>1, <2>2
<1>3. ASSUME NEW c \in Chunks, NEW span \in SUBSET Pages, Len(writes) < MaxWrites, WriteDataAt(c, span)
      PROVE  SleepersInv'
  <2>1. PICK o \in Nat : Writes(c, span, o)
    BY <1>3, WritesIs DEF BaseInv, ChunkInv
  <2>2. WritesChunk(c, span, o)
    BY <2>1, WritesFacts DEF BaseInv, ChunkInv
  <2>3. sleeping' = sleeping /\ chunk'[o].job = "open"
    BY <2>1 DEF Writes, WriteEnds
  <2>4. \A x \in DOMAIN chunk' : x # o => x \in DOMAIN chunk /\ chunk'[x] = chunk[x]
    BY <2>2 DEF WritesChunk
  <2> QED BY <2>3, <2>4, SleepersSame
<1>4. ASSUME UNCHANGED pipeVars
      PROVE  SleepersInv'
  <2>1. UNCHANGED <<chunk, sleeping>>
    BY <1>4 DEF pipeVars
  <2> QED BY <2>1, SleepersSame
<1>5. ASSUME NEW q \in Requests, Write(q.lc, q.span) \/ WriteEvicts(q.lc, q.span)
      PROVE  SleepersInv'
  <2>1. PICK c \in Chunks, span \in SUBSET Pages : c = q.lc /\ span = q.span
    BY RequestTypes
  <2>2. CASE Write(q.lc, q.span)
    <3>1. WriteDataAt(c, span) /\ Len(writes) < MaxWrites
      BY <2>1, <2>2 DEF Write
    <3> QED BY <1>3, <3>1
  <2>3. CASE WriteEvicts(q.lc, q.span)
    <3>1. PICK d \in Chunks : Fullest(d) /\ MoveToSealed(writableChunks[d])
      BY <2>3 DEF WriteEvicts
    <3> QED BY <1>2, <3>1 DEF Fullest
  <2> QED BY <1>5, <2>2, <2>3
<1>6. CASE WriterStep
  <2>1. CASE WriteEvicted
    <3>1. PICK c \in Chunks, span \in SUBSET Pages : c = writer.lc /\ span = writer.span
      BY <2>1 DEF WriteEvicted, BaseInv, ThreadTypes, WriterInv
    <3>2. WriteDataAt(c, span) /\ Len(writes) < MaxWrites
      BY <2>1, <3>1 DEF WriteEvicted, BaseInv, WriterInv
    <3> QED BY <1>3, <3>2
  <2>2. CASE WriteSeals
    <3>1. PICK o : o = writer.obj
      OBVIOUS
    <3>2. o \in DOMAIN chunk /\ chunk[o].job = "open" /\ MoveToSealed(o)
      BY <2>2, <3>1 DEF WriteSeals, BaseInv, WriterInv
    <3> QED BY <1>1, <3>2
  <2>3. CASE WriteReturns
    BY <1>4, <2>3 DEF WriteReturns
  <2> QED BY <1>6, <2>1, <2>2, <2>3 DEF WriterStep
<1>7. ASSUME NEW r \in Readers, NEW c \in Reads, ReadFromChunks(r, c)
      PROVE  SleepersInv'
  BY <1>4, <1>7 DEF ReadFromChunks
<1>8. ASSUME NEW r \in Readers, ReaderStep(r)
      PROVE  SleepersInv'
  BY <1>4, <1>8, SleepersRead DEF ReaderStep, UnlockForRead
<1>9. ASSUME NEW f, NEW c \in Chunks, FlushSeals(f, c)
      PROVE  SleepersInv'
  BY <1>2, <1>9 DEF FlushSeals
<1>10. ASSUME NEW f, FlushTurns(f)
      PROVE  SleepersInv'
  BY <1>4, <1>10 DEF FlushTurns, FlushStarts, FlushWaits, FlushReturns, CompactChunks,
       FlushMetadata, CreateEntry, CreateEntryFails, FlushDone
<1>11. ASSUME NEW f \in Flushers, FlushStarts(f) \/ FlushStep(f)
      PROVE  SleepersInv'
  BY <1>9, <1>10, <1>11 DEF FlushStep, FlushTurns
<1>12. ASSUME NEW f \in Loops, FlushMetadata(f) \/ LoopStep(f)
      PROVE  SleepersInv'
  BY <1>10, <1>12 DEF LoopStep, FlushTurns
<1>13. CASE UNCHANGED vars
  BY <1>4, <1>13 DEF vars
<1> QED BY <1>5, <1>6, <1>7, <1>8, <1>11, <1>12, <1>13, SleepersJob DEF Next

\* Chunks are never taken off the list.
LEMMA ChunksGrow ==
    ASSUME BaseInv, Kinds
    PROVE  DOMAIN chunk \subseteq DOMAIN chunk'
<1>1. ASSUME NEW c \in Chunks, NEW span \in SUBSET Pages, NEW o \in Nat, WriteKind(c, span, o)
      PROVE  DOMAIN chunk \subseteq DOMAIN chunk'
  <2>1. WritesChunk(c, span, o)
    BY <1>1, WritesFacts DEF WriteKind, BaseInv, ChunkInv
  <2> QED BY <2>1 DEF WritesChunk
<1>2. ASSUME SameDomain
      PROVE  DOMAIN chunk \subseteq DOMAIN chunk'
  BY <1>2 DEF SameDomain
<1>3. ASSUME NEW o, NEW c, NEW old, SealKind(o, c, old)
      PROVE  SameDomain
  BY <1>3 DEF SealKind, Seals, SameData
<1>4. ASSUME NEW o, Saves(o) \/ Removes(o)
      PROVE  SameDomain
  BY <1>4 DEF Saves, Rejobs, SameData, Removes
<1>5. Quiet => SameDomain
  BY DEF Quiet, StaysPut, SameData
<1> QED BY <1>1, <1>2, <1>3, <1>4, <1>5 DEF Kinds

\* What a flush is to visit, and where a loop may be, is kept by every step.
LEMMA TodoNext ==
    ASSUME BaseInv, TodoInv, LoopInv, Kinds
    PROVE  TodoInv' /\ LoopInv'
<1>1. ASSUME NEW f \in Threads
      PROVE  /\ flush'[f].pc = "seal" => flush'[f].todo \subseteq DOMAIN chunk'
             /\ f \in Loops => flush'[f].pc # "sent"
  <2>1. DOMAIN chunk \subseteq DOMAIN chunk' /\ FlushMove(f)
    BY ChunksGrow, FlushMoves
  <2>2. CASE flush'[f] = flush[f]
    BY <2>1, <2>2 DEF TodoInv, LoopInv
  <2>3. CASE FlushSealed(f)
    BY <2>1, <2>3 DEF TodoInv, FlushSealed
  <2>4. CASE FlushTurns(f)
    <3>1. Turned(f)
      BY <2>4, TurnedIs
    <3>2. CASE FlushStarts(f)
      BY <2>1, <3>1, <3>2 DEF Turned
    <3>3. CASE ~FlushStarts(f)
      <4>1. flush'[f].pc # "seal" /\ (f \in Loops => flush'[f].pc # "sent")
        BY <2>4, <3>1, <3>3 DEF Turned, FlushTurns
      <4> QED BY <4>1
    <3> QED BY <3>2, <3>3
  <2> QED BY <2>1, <2>2, <2>3, <2>4 DEF FlushMove
<1> QED BY <1>1 DEF TodoInv, LoopInv, Threads

\* The invariant holds at all times.
LEMMA WaitAlways == Spec => []WaitInv
<1>1. Init => WaitInv
  <2> SUFFICES ASSUME Init PROVE WaitInv
    OBVIOUS
  <2>1. chunk = <<>> /\ flush = [f \in Threads |-> IdleFlush]
    BY DEF Init, Threads
  <2>2. DOMAIN chunk = {} /\ \A f \in Threads : flush[f].pc = "idle"
    BY <2>1 DEF IdleFlush
  <2>3. SleepersInv /\ TodoInv /\ LoopInv
    BY <2>2 DEF SleepersInv, TodoInv, LoopInv, Threads
  <2> QED BY <2>3, BaseInit DEF WaitInv
<1>2. WaitInv /\ [Next]_vars => WaitInv'
  BY BaseNext, NextKinds, SleepersNext, TodoNext DEF WaitInv
<1> QED BY <1>1, <1>2, PTL DEF Spec

\* With every token held by a job that sleeps, the sleepers are as many as the
\* tokens.
LEMMA TokensAsleep ==
    ASSUME BaseInv, SleepersInv, \A o \in Running : chunk[o].job = "asleep",
           Cardinality(Running) >= ConcurrentWriters
    PROVE  Len(sleeping) = ConcurrentWriters
<1>1. sleeping \in Seq(Nat)
  BY DEF BaseInv, ChunkInv, SleepInv
<1>2. PICK n \in Nat : n = Len(sleeping) /\ DOMAIN sleeping = 1..n
  BY <1>1
<1>3. sleeping \in [1..n -> Running]
  <2>1. \A i \in 1..n : sleeping[i] \in Running
    BY <1>2 DEF BaseInv, ChunkInv, SleepInv, Running
  <2> QED BY <1>1, <1>2, <2>1
<1>4. \A i, j \in 1..n : sleeping[i] = sleeping[j] => i = j
  BY <1>2 DEF BaseInv, ChunkInv, SleepInv
<1>5. \A o \in Running : \E i \in 1..n : sleeping[i] = o
  BY <1>2 DEF SleepersInv, Running
<1>6. ExistsBijection(1..n, Running)
  <2>1. sleeping \in Bijection(1..n, Running)
    BY <1>3, <1>4, <1>5, Fun_IsBij
  <2> QED BY <2>1 DEF ExistsBijection
<1>7. Cardinality(Running) = n
  BY <1>6, FS_CountingElements
<1>8. Cardinality(Running) <= ConcurrentWriters
  BY DEF BaseInv, ChunkInv, CountInv
<1> QED BY <1>2, <1>7, <1>8, PipelineAssumption

\* The cycle of waits is closed only through the tokens.
LEMMA WaitsEnd ==
    ASSUME WaitInv
    PROVE  NoneStuck
<1> SUFFICES ASSUME ~SomeoneCan, Len(sleeping) # ConcurrentWriters
             PROVE  writer.pc = "idle" /\ \A f \in Flushers : flush[f].pc = "idle"
  BY DEF NoneStuck
<1>1. BaseInv /\ SleepersInv /\ TodoInv /\ LoopInv /\ PipeTypes /\ TableInv /\ CountInv
  BY DEF WaitInv, BaseInv, ChunkInv
<1>2. /\ ~WriterCan /\ \A r \in Readers : reader[r].pc = "idle"
      /\ \A f \in Flushers : ~FlushCan(f)
      /\ \A f \in Loops : flush[f].pc # "send"
      /\ \A o \in DOMAIN chunk : ~JobCan(o)
  BY DEF SomeoneCan
<1>3. ~ChunksLocked
  BY <1>2 DEF WriterCan, ChunksLocked
<1>4. \A o \in Running : chunk[o].job = "asleep"
  BY <1>2, <1>3 DEF JobCan, Running
<1>5. Queued = {}
  <2> SUFFICES ASSUME NEW o \in Queued PROVE FALSE
    OBVIOUS
  <2>1. ~(Cardinality(Running) < ConcurrentWriters)
    BY <1>2 DEF JobCan, Queued
  <2>2. Cardinality(Running) >= ConcurrentWriters
    BY <1>1, <2>1, CountTypes, PipelineAssumption
  <2> QED BY <1>1, <1>4, <2>2, TokensAsleep
<1>6. writer.pc = "idle"
  BY <1>1, <1>2, <1>5 DEF WriterCan, BaseInv, ThreadTypes
<1>7. uploaderCount = 0
  <2>1. Pending = {}
    BY <1>2, <1>5 DEF JobCan, Pending, Queued
  <2> QED BY <1>1, <2>1, FS_EmptySet DEF CountInv
<1>8. ~Exclusive /\ ~Shared
  <2>1. \A f \in Threads : flush[f].pc \notin {"send", "sent"}
    BY <1>1, <1>2 DEF FlushCan, LoopInv, Threads
  <2> QED BY <1>2, <1>6, <2>1 DEF Exclusive, Shared, Threads
<1>9. ASSUME NEW f \in Flushers
      PROVE  flush[f].pc = "idle"
  <2>1. flush[f].pc \in {"idle", "seal", "entry", "send", "sent"}
    BY <1>1 DEF BaseInv, ThreadTypes, Threads
  <2>2. flush[f].pc \notin {"entry", "send", "sent"}
    BY <1>2, <1>8 DEF FlushCan
  <2>3. CASE flush[f].pc = "seal"
    <3>1. flush[f].obj \notin Queued
      BY <1>5
    <3>2. PICK o \in flush[f].todo : chunk[o].job = "open"
      BY <1>2, <1>3, <1>7, <2>3, <3>1 DEF FlushCan
    <3>3. o \in DOMAIN chunk
      BY <1>1, <2>3, <3>2 DEF TodoInv, Threads
    <3>4. chunk[o].lc \in Chunks /\ writableChunks[chunk[o].lc] = o /\ o # 0
      BY <1>1, <3>2, <3>3, ChunkTypes DEF TableInv, Chunk
    <3>5. FlushCan(f)
      BY <1>3, <2>3, <3>1, <3>2, <3>4 DEF FlushCan
    <3> QED BY <1>2, <3>5
  <2> QED BY <2>1, <2>2, <2>3
<1> QED BY <1>6, <1>9

\* Writes, reads, flushes, uploads and the tokens of the executor never wait for
\* each other in a circle: while a write or a flush is under way, some thread or
\* job passes the guard of its next step, unless every token is held by a job that
\* sleeps until the next read; for every number of tokens, threads and chunks.
THEOREM NeverStuck == Spec => []NoneStuck
<1>1. WaitInv => NoneStuck
  BY WaitsEnd
<1> QED BY WaitAlways, <1>1, PTL
=============================================================================
