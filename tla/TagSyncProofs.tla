--------------------------- MODULE TagSyncProofs ---------------------------
(***************************************************************************)
(* Proofs about TagSync, for any number of files, mounts, tools, requests, *)
(* replayers and failures: types, and that the index follows the filer     *)
(* where nothing raced.                                                    *)
(***************************************************************************)
EXTENDS TagSync, TagEventLogProofs

-----------------------------------------------------------------------------
(* The log under the writers *)

\* The offset no offset kept by the program is beyond.
Top(l) == FullEnd(l, Len(l))

\* off is where a line of l ends.
AtEnd(l, off) == \E i \in 0 .. Len(l) : off = End(l, i)

\* Nothing fails in the middle of a line here.
WholeLines == ~part /\ \A i \in 1 .. Len(log) : ~log[i].joined

\* Once a rewrite has made the log shorter than the checkpoint every line is marked.
OffsetInv ==
    /\ Len(log) <= MaxEvents
    /\ checkpoint <= Top(log)
    /\ \A r \in Replayers : rp[r].start <= Top(log)
    /\ \A i \in 1 .. Len(log) : ~log[i].updated => checkpoint <= Size(log)

\* What a replay with local state x has passed ends with a line, and it will
\* mark all of it.
ScanOK(l, x) ==
    /\ x.pc = "lock" => ~x.needsRewrite
    /\ x.pc = "fill" => ~l[LineAt(l, x.offset)].updated
    /\ x.pc = "checkpoint" => AtEnd(l, x.offset)
    /\ x.pc \in {"scan", "fill", "checkpoint"} /\ x.needsRewrite => x.endOffset = x.offset

ScanInv == \A r \in Replayers : ScanOK(log, rp[r]) /\ (logLock = r => Reading(r))

SyncLogInv == BaseInv /\ WholeLines /\ OffsetInv /\ ScanInv

\* The steps as far as the log is concerned.
LogStep ==
    \/ UNCHANGED <<log, part, checkpoint, logLock, rp, applied>> /\ stops' \in 0 .. MaxStops
    \/ \E p \in Paths, ts \in TagSet, u \in BOOLEAN : AppendTagEvent(p, ts, u)
    \/ \E r \in Replayers :
         \/ ReadCheckpoint(r) \/ LockAndRead(r) \/ SkipLine(r) \/ ClearIndex(r) \/ FillIndex(r)
         \/ WriteCheckpoint(r) \/ Finish(r) \/ ParseError(r) \/ Stop(r)

LEMMA LogBase ==
    ASSUME BaseInv, LogStep
    PROVE  BaseInv' /\ Grows
  <1>1. CASE UNCHANGED <<log, part, checkpoint, logLock, rp, applied>> /\ stops' \in 0 .. MaxStops
    <2>1. BaseInv'
      BY <1>1 DEF BaseInv, TypeOK, LockInv, Reading, FillInv, Whole, Line
    <2>2. /\ Len(log) \in Nat /\ DOMAIN log = 1 .. Len(log)
          /\ \A i \in 1 .. Len(log) : log[i] \in TagEvent
      BY DEF BaseInv, TypeOK
    <2>3. \A i \in 1 .. Len(log) : log[i] = [log[i] EXCEPT !.updated = log[i].updated]
      BY <2>2 DEF TagEvent
    <2>4. Len(log') >= Len(log)
      BY <1>1, <2>2
    <2>5. ASSUME NEW i \in DOMAIN log
          PROVE  /\ log'[i] = [log[i] EXCEPT !.updated = log'[i].updated]
                 /\ log[i].updated => log'[i].updated
      <3>1. log'[i] = log[i] /\ log[i] = [log[i] EXCEPT !.updated = log[i].updated]
        BY <1>1, <2>2, <2>3
      <3> QED BY <3>1, Zenon
    <2>6. Grows
      BY <2>4, <2>5 DEF Grows
    <2> QED
      BY <2>1, <2>6
  <1>2. CASE \E p \in Paths, ts \in TagSet, u \in BOOLEAN : AppendTagEvent(p, ts, u)
    <2>1. Next
      BY <1>2, WritersAssumption DEF Next, TagSet
    <2> QED
      BY <2>1, BaseStep, GrowStep
  <1>3. CASE \E r \in Replayers :
         \/ ReadCheckpoint(r) \/ LockAndRead(r) \/ SkipLine(r) \/ ClearIndex(r) \/ FillIndex(r)
         \/ WriteCheckpoint(r) \/ Finish(r) \/ ParseError(r) \/ Stop(r)
    <2>1. Next
      BY <1>3 DEF Next, ReplayStep
    <2> QED
      BY <2>1, BaseStep, GrowStep
  <1> QED
    BY <1>1, <1>2, <1>3 DEF LogStep

SameEvent(e, f) == e.joined = f.joined /\ e.path = f.path /\ e.tags = f.tags

\* A line keeps its event, and its mark.
LEMMA LinesKept ==
    ASSUME BaseInv, Grows
    PROVE  \A i \in 1 .. Len(log) :
             SameEvent(log[i], log'[i]) /\ (log[i].updated => log'[i].updated)
  <1>1. /\ DOMAIN log = 1 .. Len(log)
        /\ \A i \in 1 .. Len(log) : log[i] \in TagEvent
    BY DEF BaseInv, TypeOK
  <1>2. ASSUME NEW j \in 1 .. Len(log)
        PROVE  SameEvent(log[j], log'[j]) /\ (log[j].updated => log'[j].updated)
    <2>1. j \in DOMAIN log /\ log[j] \in TagEvent
      BY <1>1
    <2>2. log'[j] = [log[j] EXCEPT !.updated = log'[j].updated] /\ (log[j].updated => log'[j].updated)
      BY <2>1 DEF Grows
    <2>3. \A u : SameEvent(log[j], [log[j] EXCEPT !.updated = u])
      BY <2>1 DEF TagEvent, SameEvent
    <2> QED
      BY <2>2, <2>3
  <1> QED
    BY <1>2

\* The bound of the offsets only moves up.
LEMMA TopGrows ==
    ASSUME BaseInv, BaseInv', Grows
    PROVE  /\ Top(log) \in Nat /\ Top(log') \in Nat /\ Top(log) <= Top(log')
           /\ Size(log) \in Nat /\ Size(log) <= Top(log) /\ Top(log) <= Size(log) + Len(log)
  <1>1. /\ Len(log) \in Nat /\ Len(log') \in Nat /\ Len(log) <= Len(log')
        /\ DOMAIN log = 1 .. Len(log)
        /\ \A i \in 1 .. Len(log) : log[i] \in TagEvent
    BY DEF BaseInv, TypeOK, Grows
  <1>2. \A j \in 1 .. Len(log) : log[j].joined = log'[j].joined
    BY LinesKept DEF SameEvent
  <1>3. FullEnd(log, Len(log)) = FullEnd(log', Len(log))
    BY <1>1, <1>2, EndAgrees
  <1>4. FullEnd(log', Len(log)) <= FullEnd(log', Len(log'))
    BY <1>1, EndMono
  <1>5. /\ End(log, Len(log)) \in Nat /\ End(log', Len(log')) \in Nat
        /\ FullEnd(log, Len(log)) \in End(log, Len(log)) .. End(log, Len(log)) + Len(log)
        /\ FullEnd(log', Len(log')) \in End(log', Len(log')) .. End(log', Len(log')) + Len(log')
    BY <1>1, EndForm
  <1> QED
    BY <1>1, <1>2, <1>3, <1>4, <1>5 DEF Top, Size

-----------------------------------------------------------------------------
(* The index *)

LastLine(l, i, p) == l[i].path = p /\ \A j \in i + 1 .. Len(l) : l[j].path # p

\* Whoever has passed line i, the last one of p, found the index set from it.
Calm(i, p) ==
    /\ End(log, i) <= checkpoint => index[p] = log[i].tags
    /\ \A s \in Replayers :
         rp[s].pc = "lock" /\ End(log, i) <= rp[s].start => End(log, i) <= checkpoint

\* A replay that is late may break that, but it will have passed the line when
\* it finishes.
Safe(i, p) ==
    /\ logLock = NoProc => Calm(i, p)
    /\ \A r \in Replayers : Reading(r) =>
         /\ End(log, i) <= rp[r].offset => index[p] = log[i].tags
         /\ ~late => Calm(i, p) /\ checkpoint <= rp[r].offset
         /\ \/ Calm(i, p)
            \/ rp[r].pc \in {"fill", "checkpoint"}
            \/ checkpoint = rp[r].offset /\ AtEnd(log, rp[r].offset)

\* The index has the tags ts of p, or will once the log is replayed.
Follows(p, ts) ==
    \/ ~Unmarked(p) /\ index[p] = ts
    \/ \E i \in 1 .. Len(log) :
         LastLine(log, i, p) /\ ~log[i].updated /\ log[i].tags = ts /\ Safe(i, p)

Busy(w, p) == op[w].pc # "idle" /\ op[w].path = p

\* A mount has what the filer has, or a notice is on the way.
CacheInv == \A m \in Mounts, p \in Paths : p \notin notices[m] => cached[m][p] = filer[p]

\* Where w stands in a change of p.
Change(w, p) ==
    \/ /\ op[w].pc = "event" /\ w \in Mounts
       /\ filer[p] = op[w].new
    \/ /\ op[w].pc = "flush" /\ w \in Mounts
       /\ p \notin notices[w]
       /\ Follows(p, op[w].new)
    \/ /\ op[w].pc \in {"set", "index"} /\ w \notin Mounts
       /\ ~Unmarked(p)
       /\ op[w].pc = "index" => filer[p] = op[w].new
       /\ w \notin Uis => index[p] = op[w].old
    \/ /\ op[w].pc = "event" /\ w \notin Mounts
       /\ ~Unmarked(p)
       /\ filer[p] = op[w].new /\ index[p] = op[w].new
    \/ /\ op[w].pc = "rebuild" /\ w \notin Mounts
       /\ ~Unmarked(p)
       /\ filer[p] = op[w].new

Good(p) ==
    /\ \A v, w \in Writers : Busy(v, p) /\ Busy(w, p) => v = w
    /\ \A w \in Writers : Busy(w, p) => Change(w, p)
    /\ (\A w \in Writers : ~Busy(w, p)) => Follows(p, filer[p])

AgreeInv == \A p \in Paths : raced[p] = {} => Good(p)

SyncInv == SyncTypeOK /\ SyncLogInv /\ CacheInv /\ AgreeInv

-----------------------------------------------------------------------------
(* The invariant of the log *)

\* A step of r that does not touch the log.
LEMMA LogOne ==
    ASSUME SyncLogInv, BaseInv', Grows, NEW r \in Replayers, NEW x \in Replay,
           rp' = [rp EXCEPT ![r] = x], UNCHANGED <<log, part>>,
           x.start <= Top(log), ScanOK(log, x),
           checkpoint' = checkpoint \/ AtEnd(log, checkpoint'),
           logLock' \in {logLock, NoProc, r},
           logLock' = r => x.pc \in {"scan", "fill", "checkpoint"}
    PROVE  SyncLogInv'
  <1>1. /\ rp'[r] = x /\ \A s \in Replayers : s # r => rp'[s] = rp[s]
        /\ Len(log) \in Nat
    BY DEF SyncLogInv, BaseInv, TypeOK
  <1>2. /\ Top(log) \in Nat /\ Size(log) \in Nat /\ Size(log) <= Top(log)
    BY TopGrows DEF SyncLogInv
  <1>3. WholeLines'
    BY DEF SyncLogInv, WholeLines
  <1>4. AtEnd(log, checkpoint') => checkpoint' <= Size(log) /\ checkpoint' \in Nat
    <2> SUFFICES ASSUME NEW i \in 0 .. Len(log), checkpoint' = End(log, i)
                 PROVE  checkpoint' <= Size(log) /\ checkpoint' \in Nat
      BY DEF AtEnd
    <2>1. End(log, i) <= End(log, Len(log)) /\ End(log, i) \in Nat
      BY <1>1, EndMono, EndForm
    <2> QED BY <2>1 DEF Size
  <1>5. OffsetInv'
    <2>1. checkpoint' <= Top(log)
      BY <1>2, <1>4 DEF SyncLogInv, OffsetInv
    <2>2. \A s \in Replayers : rp'[s].start <= Top(log)
      BY <1>1 DEF SyncLogInv, OffsetInv
    <2>3. \A i \in 1 .. Len(log) : ~log[i].updated => checkpoint' <= Size(log)
      BY <1>4 DEF SyncLogInv, OffsetInv
    <2> QED
      BY <2>1, <2>2, <2>3 DEF SyncLogInv, OffsetInv
  <1>6. ASSUME NEW s \in Replayers
        PROVE  ScanOK(log, rp'[s]) /\ (logLock' = s => rp'[s].pc \in {"scan", "fill", "checkpoint"})
    <2>1. CASE s = r
      BY <1>1, <2>1
    <2>2. CASE s # r
      BY <1>1, <2>2, NoProcAssumption DEF SyncLogInv, ScanInv, Reading
    <2> QED BY <2>1, <2>2
  <1>7. ScanInv'
    BY <1>6 DEF ScanInv, Reading
  <1> QED
    BY <1>3, <1>5, <1>7 DEF SyncLogInv

\* A replay that has come to the end of the log marks all of it.
LEMMA AllMarked ==
    ASSUME SyncLogInv, NEW r \in Replayers, Finish(r), log' # log
    PROVE  \A i \in 1 .. Len(log) : log'[i].updated
  <1>1. /\ rp[r].data = log /\ log \in Seq(TagEvent) /\ Len(log) \in Nat
        /\ rp[r].offset \in Nat
    BY DEF SyncLogInv, BaseInv, LockInv, TypeOK, Finish, Reading, Replay
  <1>2. /\ log' = Marked(log, rp[r].endOffset)
        /\ rp[r].endOffset = rp[r].offset
        /\ ~(rp[r].offset < Size(log))
    BY <1>1 DEF Finish, More, SyncLogInv, ScanInv, ScanOK
  <1>3. ASSUME NEW i \in 1 .. Len(log) PROVE End(log, i) <= rp[r].endOffset
    <2>1. End(log, i) <= End(log, Len(log)) /\ End(log, i) \in Nat /\ End(log, Len(log)) \in Nat
      BY <1>1, EndMono, EndForm
    <2> QED BY <1>1, <1>2, <2>1 DEF Size
  <1> DEFINE m == Marked(log, rp[r].endOffset)
  <1>4. \A i \in 1 .. Len(log) :
          /\ m[i] = [log[i] EXCEPT !.updated = m[i].updated]
          /\ m[i].updated = (log[i].updated \/ End(log, i) <= rp[r].endOffset)
    BY <1>1, MarkedType
  <1> HIDE DEF m
  <1>5. log' = m
    BY <1>2 DEF m
  <1> QED
    BY <1>3, <1>4, <1>5

\* A new line lies beyond every offset.
LEMMA NewLine ==
    ASSUME SyncLogInv, BaseInv', Grows, NEW p \in Paths, NEW ts, NEW u \in BOOLEAN,
           AppendTagEvent(p, ts, u)
    PROVE  /\ Len(log') = Len(log) + 1 /\ Len(log) \in Nat /\ Len(log') <= MaxEvents
           /\ \A i \in 1 .. Len(log) : log'[i] = log[i] /\ End(log', i) = End(log, i)
           /\ log'[Len(log')].joined = FALSE
           /\ log'[Len(log')] = [path |-> p, tags |-> ts, updated |-> u, joined |-> FALSE]
           /\ Top(log) < End(log', Len(log')) /\ End(log', Len(log')) \in Nat
  <1> DEFINE e == [path |-> p, tags |-> ts, updated |-> u, joined |-> part]
             n == Len(log)
  <1>1. /\ log \in Seq(TagEvent) /\ n \in Nat /\ log' = Append(log, e) /\ part = FALSE
        /\ LineLen \in Nat /\ MaxEvents \in Nat /\ n < MaxEvents
    BY LineLenAssumption, BoundsAssumption
    DEF SyncLogInv, BaseInv, TypeOK, AppendTagEvent, WholeLines
  <1>2. /\ Len(log') = n + 1 /\ \A i \in 1 .. n : log'[i] = log[i]
        /\ log'[n + 1] = e
    BY <1>1
  <1> HIDE DEF e
  <1>3. ASSUME NEW i \in 0 .. n PROVE End(log', i) = End(log, i)
    <2>1. i \in Nat /\ \A j \in 1 .. i : log'[j] = log[j]
      BY <1>1, <1>2
    <2>2. /\ \A j \in 1 .. i : log'[j].joined = log[j].joined
          /\ \A j \in 1 .. i : log'[j].updated = log[j].updated
      BY <2>1
    <2> QED BY <2>1, <2>2, EndAgrees
  <1>4. /\ End(log', n) = Size(log) /\ End(log', n) + LineLen <= End(log', n + 1)
        /\ End(log', n) \in Nat /\ End(log', n + 1) \in Nat
    <2>1. n \in 0 .. n /\ n + 1 \in Nat /\ n < n + 1
      BY <1>1
    <2>2. End(log', n) = Size(log)
      BY <1>3, <2>1 DEF Size
    <2> QED BY <1>1, <2>1, <2>2, EndMono, EndForm
  <1>5. Top(log) <= Size(log) + n /\ Top(log) \in Nat
    BY TopGrows DEF SyncLogInv
  <1>6. Top(log) < End(log', n + 1)
    BY <1>1, <1>4, <1>5, LongLinesAssumption
  <1> QED
    <2>1. /\ log'[n + 1].joined = FALSE
          /\ log'[n + 1] = [path |-> p, tags |-> ts, updated |-> u, joined |-> FALSE]
      <3>1. e = [path |-> p, tags |-> ts, updated |-> u, joined |-> FALSE]
        BY <1>1 DEF e
      <3>2. [path |-> p, tags |-> ts, updated |-> u, joined |-> FALSE].joined = FALSE
        OBVIOUS
      <3> QED BY <1>2, <3>1, <3>2
    <2>2. n + 1 <= MaxEvents /\ \A i \in 1 .. n : i \in 0 .. n
      BY <1>1
    <2> QED BY <1>1, <1>2, <1>3, <1>4, <1>6, <2>1, <2>2

LEMMA LogInvStep ==
    ASSUME SyncLogInv, LogStep
    PROVE  SyncLogInv' /\ Grows
  <1>0. BaseInv' /\ Grows
    BY LogBase DEF SyncLogInv
  <1>a. /\ Top(log) \in Nat /\ Top(log') \in Nat /\ Top(log) <= Top(log')
        /\ Size(log) \in Nat /\ Size(log) <= Top(log)
        /\ Len(log) \in Nat /\ log \in Seq(TagEvent) /\ checkpoint \in Nat
        /\ rp \in [Replayers -> Replay]
    BY <1>0, TopGrows DEF SyncLogInv, BaseInv, TypeOK
  <1>b. ASSUME NEW r \in Replayers
        PROVE  /\ rp[r] \in Replay /\ rp[r].start <= Top(log) /\ ScanOK(log, rp[r])
               /\ rp[r].start \in Nat /\ rp[r].offset \in Nat /\ rp[r].endOffset \in Nat
               /\ rp[r].data \in Seq(TagEvent) /\ rp[r].needsRewrite \in BOOLEAN
    BY <1>a DEF SyncLogInv, OffsetInv, ScanInv, Replay
  <1>1. CASE UNCHANGED <<log, part, checkpoint, logLock, rp, applied>>
    BY <1>0, <1>1 DEF SyncLogInv, WholeLines, OffsetInv, ScanInv, Reading
  <1>2. ASSUME NEW p \in Paths, NEW ts \in TagSet, NEW u \in BOOLEAN, AppendTagEvent(p, ts, u)
        PROVE  SyncLogInv'
    <2>1. /\ Len(log') = Len(log) + 1 /\ Len(log') <= MaxEvents
          /\ \A i \in 1 .. Len(log) : log'[i] = log[i]
          /\ log'[Len(log')].joined = FALSE
          /\ Top(log) < End(log', Len(log')) /\ End(log', Len(log')) \in Nat
      BY <1>0, <1>2, NewLine
    <2>2. /\ UNCHANGED <<checkpoint, logLock, rp>> /\ logLock = NoProc /\ part' = FALSE
      BY <1>2 DEF AppendTagEvent
    <2>3. WholeLines'
      BY <1>a, <2>1, <2>2 DEF SyncLogInv, WholeLines
    <2>4. OffsetInv'
      BY <1>a, <1>b, <2>1, <2>2 DEF SyncLogInv, OffsetInv, Size
    <2>5. \A r \in Replayers : ~Reading(r) /\ logLock # r
      BY <2>2, NoProcAssumption DEF SyncLogInv, BaseInv, LockInv
    <2>6. ScanInv'
      BY <2>2, <2>5 DEF SyncLogInv, ScanInv, ScanOK, Reading
    <2> QED
      BY <1>0, <2>3, <2>4, <2>6 DEF SyncLogInv
  <1>3. ASSUME NEW r \in Replayers, ReadCheckpoint(r)
        PROVE  SyncLogInv'
    <2> DEFINE x == [IdleReplay EXCEPT !.pc = "lock", !.start = checkpoint,
                                       !.endOffset = checkpoint]
    <2>1. x \in Replay /\ x.pc = "lock" /\ x.start = checkpoint /\ x.needsRewrite = FALSE
      BY <1>a, IdleType DEF Replay, IdleReplay
    <2> HIDE DEF x
    <2>2. rp' = [rp EXCEPT ![r] = x] /\ UNCHANGED <<log, part, checkpoint, logLock>>
      BY <1>3 DEF ReadCheckpoint, x
    <2>3. logLock # r
      BY <1>3 DEF ReadCheckpoint, SyncLogInv, ScanInv, Reading
    <2>4. ScanOK(log, x) /\ x.start <= Top(log)
      BY <2>1 DEF ScanOK, SyncLogInv, OffsetInv
    <2> QED
      BY <1>0, <2>1, <2>2, <2>3, <2>4, LogOne
  <1>4. ASSUME NEW r \in Replayers, LockAndRead(r)
        PROVE  SyncLogInv'
    <2> DEFINE x == [rp[r] EXCEPT !.pc = "scan", !.data = log,
                                  !.offset = IF rp[r].start > FileSize THEN 0 ELSE rp[r].start]
    <2>0. rp[r].needsRewrite = FALSE
      BY <1>4, <1>b DEF LockAndRead, SyncLogInv, ScanInv, ScanOK
    <2>1. x \in Replay /\ x.pc = "scan" /\ x.start = rp[r].start /\ x.needsRewrite = rp[r].needsRewrite
      BY <1>a, <1>b DEF Replay
    <2> HIDE DEF x
    <2>2. rp' = [rp EXCEPT ![r] = x] /\ UNCHANGED <<log, part, checkpoint>> /\ logLock' = r
      BY <1>4, <1>a DEF LockAndRead, x
    <2>3. ScanOK(log, x) /\ x.start <= Top(log)
      BY <1>b, <2>0, <2>1 DEF ScanOK
    <2> QED
      BY <1>0, <2>1, <2>2, <2>3, LogOne
  <1>5. ASSUME NEW r \in Replayers, SkipLine(r) \/ FillIndex(r)
        PROVE  SyncLogInv'
    <2>1. /\ rp[r].data = log /\ logLock = r /\ End(log, Line(r)) \in Nat
          /\ Line(r) \in 1 .. Len(log)
      BY <1>5, LineType DEF SkipLine, FillIndex, SyncLogInv
    <2>2. PICK u \in BOOLEAN :
            rp' = [rp EXCEPT ![r] = [rp[r] EXCEPT !.pc = "checkpoint", !.offset = End(log, Line(r)),
                                        !.endOffset = End(log, Line(r)), !.needsRewrite = u]]
      <3>1. CASE SkipLine(r)
        <4>1. [rp[r] EXCEPT !.pc = "checkpoint", !.offset = End(log, Line(r)),
                            !.endOffset = End(log, Line(r))]
              = [rp[r] EXCEPT !.pc = "checkpoint", !.offset = End(log, Line(r)),
                              !.endOffset = End(log, Line(r)), !.needsRewrite = rp[r].needsRewrite]
          BY <1>b DEF Replay
        <4> QED BY <1>a, <1>b, <2>1, <3>1, <4>1, ZenonT(30) DEF SkipLine
      <3>2. CASE FillIndex(r)
        BY <1>a, <2>1, <3>2 DEF FillIndex
      <3> QED BY <1>5, <3>1, <3>2
    <2> DEFINE x == [rp[r] EXCEPT !.pc = "checkpoint", !.offset = End(log, Line(r)),
                                  !.endOffset = End(log, Line(r)), !.needsRewrite = u]
    <2>3. /\ x \in Replay /\ x.pc = "checkpoint" /\ x.start = rp[r].start
          /\ x.offset = End(log, Line(r)) /\ x.endOffset = End(log, Line(r))
      BY <1>b, <2>1 DEF Replay
    <2> HIDE DEF x
    <2>4. rp' = [rp EXCEPT ![r] = x] /\ UNCHANGED <<log, part, checkpoint, logLock>>
      BY <1>5, <2>2 DEF SkipLine, FillIndex, x
    <2>5. AtEnd(log, x.offset)
      BY <1>a, <2>1, <2>3 DEF AtEnd
    <2>6. ScanOK(log, x) /\ x.start <= Top(log)
      BY <1>b, <2>3, <2>5 DEF ScanOK
    <2> QED
      BY <1>0, <2>3, <2>4, <2>6, LogOne
  <1>6. ASSUME NEW r \in Replayers, ClearIndex(r)
        PROVE  SyncLogInv'
    <2> DEFINE x == [rp[r] EXCEPT !.pc = "fill"]
    <2>1. /\ x \in Replay /\ x.pc = "fill" /\ x.start = rp[r].start /\ x.offset = rp[r].offset
          /\ x.endOffset = rp[r].endOffset /\ x.needsRewrite = rp[r].needsRewrite
      BY <1>b DEF Replay
    <2> HIDE DEF x
    <2>2. /\ rp' = [rp EXCEPT ![r] = x] /\ UNCHANGED <<log, part, checkpoint, logLock>>
          /\ rp[r].pc = "scan"
      BY <1>6, <1>a DEF ClearIndex, More, x
    <2>a. ~log[LineAt(log, x.offset)].updated
      BY <1>6, <2>1, <2>2 DEF ClearIndex, Line, SyncLogInv, BaseInv, LockInv, Reading
    <2>3. ScanOK(log, x) /\ x.start <= Top(log)
      BY <1>b, <2>1, <2>2, <2>a DEF ScanOK
    <2> QED
      BY <1>0, <2>1, <2>2, <2>3, LogOne
  <1>7. ASSUME NEW r \in Replayers, WriteCheckpoint(r)
        PROVE  SyncLogInv'
    <2> DEFINE x == [rp[r] EXCEPT !.pc = "scan"]
    <2>1. /\ x \in Replay /\ x.pc = "scan" /\ x.start = rp[r].start /\ x.offset = rp[r].offset
          /\ x.endOffset = rp[r].endOffset /\ x.needsRewrite = rp[r].needsRewrite
      BY <1>b DEF Replay
    <2> HIDE DEF x
    <2>2. /\ rp' = [rp EXCEPT ![r] = x] /\ UNCHANGED <<log, part, logLock>>
          /\ rp[r].pc = "checkpoint" /\ checkpoint' = rp[r].offset
      BY <1>7, <1>a DEF WriteCheckpoint, x
    <2>3. ScanOK(log, x) /\ x.start <= Top(log) /\ AtEnd(log, checkpoint')
      BY <1>b, <2>1, <2>2 DEF ScanOK
    <2> QED
      BY <1>0, <2>1, <2>2, <2>3, LogOne
  <1>8. ASSUME NEW r \in Replayers, Finish(r) \/ ParseError(r) \/ Stop(r), UNCHANGED log
        PROVE  SyncLogInv'
    <2>1. /\ rp' = [rp EXCEPT ![r] = IdleReplay] /\ UNCHANGED <<part, checkpoint>>
          /\ logLock' \in {logLock, NoProc} /\ logLock' # r
      BY <1>8, NoProcAssumption DEF Finish, ParseError, Stop, Return
    <2>2. /\ IdleReplay \in Replay /\ IdleReplay.pc = "idle" /\ IdleReplay.start = 0
      BY IdleType DEF IdleReplay
    <2>3. ScanOK(log, IdleReplay) /\ IdleReplay.start <= Top(log)
      BY <1>a, <2>2 DEF ScanOK
    <2> QED
      BY <1>0, <1>8, <2>1, <2>2, <2>3, LogOne
  <1>9. ASSUME NEW r \in Replayers, Finish(r), log' # log
        PROVE  SyncLogInv'
    <2>1. \A i \in 1 .. Len(log) : log'[i].updated
      BY <1>9, AllMarked
    <2>2. /\ rp[r].data = log /\ log' = Marked(log, rp[r].endOffset)
      BY <1>9 DEF Finish, SyncLogInv, BaseInv, LockInv, Reading
    <2>3. Len(log') = Len(log) /\ \A i \in 1 .. Len(log) : log'[i].joined = log[i].joined
      <3>1. Len(log') = Len(log)
        BY <1>a, <2>2, MarkedType
      <3> QED BY <1>0, <3>1, LinesKept DEF SyncLogInv, SameEvent
    <2>4. /\ rp' = [rp EXCEPT ![r] = IdleReplay] /\ UNCHANGED <<part, checkpoint>>
          /\ logLock = r /\ logLock' = NoProc
      BY <1>9 DEF Finish, Return, SyncLogInv, BaseInv, LockInv, Reading
    <2>5. /\ rp'[r] = IdleReplay /\ \A s \in Replayers : s # r => rp'[s] = rp[s]
      BY <1>a, <2>4
    <2>6. IdleReplay.pc = "idle" /\ IdleReplay.start = 0
      BY DEF IdleReplay
    <2>7. WholeLines'
      BY <2>3, <2>4 DEF SyncLogInv, WholeLines
    <2>8. OffsetInv'
      <3>1. \A s \in Replayers : rp'[s].start <= Top(log')
        BY <1>a, <1>b, <2>5, <2>6
      <3> QED
        BY <1>a, <2>1, <2>3, <2>4, <3>1 DEF SyncLogInv, OffsetInv
    <2>9. ScanInv'
      <3>1. \A s \in Replayers : s # r => ~Reading(s) /\ rp[s].pc # "checkpoint"
        BY <2>4 DEF SyncLogInv, BaseInv, LockInv, Reading
      <3>2. \A s \in Replayers : ScanOK(log', rp'[s])
        BY <1>b, <2>5, <2>6, <3>1 DEF ScanOK, Reading
      <3> QED
        BY <2>4, <3>2, NoProcAssumption DEF ScanInv
    <2> QED
      BY <1>0, <2>7, <2>8, <2>9 DEF SyncLogInv
  <1>10. ASSUME NEW r \in Replayers, ParseError(r) \/ Stop(r) PROVE UNCHANGED log
    BY <1>10 DEF ParseError, Stop
  <1> QED
    BY <1>0, <1>1, <1>2, <1>3, <1>4, <1>5, <1>6, <1>7, <1>8, <1>9, <1>10 DEF LogStep

-----------------------------------------------------------------------------
(* What replays do to the index *)

\* A line that has more than r's offset is one that r has yet to apply.
LEMMA Ahead ==
    ASSUME SyncLogInv, NEW r \in Replayers, More(r) \/ rp[r].pc = "fill",
           NEW i \in 1 .. Len(log)
    PROVE  /\ rp[r].data = log /\ logLock = r /\ Line(r) \in 1 .. Len(log)
           /\ rp[r].offset \in Nat /\ End(log, i) \in Nat /\ End(log, Line(r)) \in Nat
           /\ rp[r].offset < End(log, Line(r))
           /\ Line(r) <= i => rp[r].offset < End(log, i) /\ End(log, Line(r)) <= End(log, i)
           /\ End(log, i) <= End(log, Line(r)) => i = Line(r) \/ End(log, i) <= rp[r].offset
  <1>1. /\ Line(r) \in 1 .. Len(log) /\ End(log, Line(r) - 1) <= rp[r].offset
        /\ rp[r].offset < End(log, Line(r)) /\ End(log, Line(r)) \in Nat
        /\ End(log, Line(r) - 1) \in Nat /\ rp[r].data = log /\ logLock = r
    BY LineType DEF SyncLogInv
  <1>2. rp[r].offset \in Nat /\ Len(log) \in Nat
    BY DEF SyncLogInv, BaseInv, TypeOK, Replay
  <1>3. End(log, i) \in Nat
    BY <1>2, EndForm
  <1> DEFINE k == Line(r)
  <1> HIDE DEF k
  <1>4. k \in 1 .. Len(log) /\ k = Line(r)
    BY <1>1 DEF k
  <1>5. ASSUME k <= i PROVE End(log, k) <= End(log, i)
    BY <1>2, <1>4, <1>5, EndMono
  <1>6. ASSUME k < i PROVE End(log, k) + LineLen <= End(log, i) /\ LineLen >= 1 /\ LineLen \in Nat
    BY <1>2, <1>4, <1>6, EndMono, LineLenAssumption
  <1>7. ASSUME i < k PROVE End(log, i) <= End(log, k - 1)
    BY <1>2, <1>4, <1>7, EndMono
  <1>8. i = k \/ i < k \/ k < i
    BY <1>2, <1>4
  <1>9. k <= i => rp[r].offset < End(log, i) /\ End(log, k) <= End(log, i)
    BY <1>1, <1>2, <1>3, <1>4, <1>5
  <1>10. End(log, i) <= End(log, k) => i = k \/ End(log, i) <= rp[r].offset
    BY <1>1, <1>2, <1>3, <1>4, <1>6, <1>7, <1>8
  <1> QED
    BY <1>1, <1>2, <1>3, <1>4, <1>9, <1>10

\* Nothing that Follows speaks of changes.
Still(p) ==
    /\ UNCHANGED <<log, checkpoint, logLock, rp, late>>
    /\ index'[p] = index[p]

\* What a step leaves of p's place in the log.
Kept(p) ==
    /\ \A ts \in TagSet : Follows(p, ts) => Follows(p, ts)'
    /\ ~Unmarked(p) => ~Unmarked(p)'

LEMMA StillKept ==
    ASSUME NEW p, Still(p)
    PROVE  Kept(p)
  BY DEF Still, Kept, Follows, Unmarked, Safe, Calm, Reading

\* Safe with what it depends on as parameters.
LEMMA KeptOne ==
    ASSUME NEW p, UNCHANGED log,
           ~Unmarked(p) => index'[p] = index[p],
           \A i \in 1 .. Len(log) :
             LastLine(log, i, p) /\ ~log[i].updated /\ Safe(i, p) => Safe(i, p)'
    PROVE  Kept(p)
  BY DEF Kept, Follows, Unmarked

\* The offset after a line is a number beyond 0.
LEMMA EndPositive ==
    ASSUME SyncLogInv, NEW i \in 1 .. Len(log)
    PROVE  /\ End(log, i) \in Nat /\ End(log, i) > 0 /\ End(log, i) <= Size(log)
           /\ Size(log) \in Nat /\ checkpoint \in Nat
           /\ \A r \in Replayers : rp[r].start \in Nat /\ rp[r].offset \in Nat
  <1>1. Len(log) \in Nat /\ LineLen \in Nat /\ LineLen >= 1 /\ i \in Nat /\ 0 < i /\ i <= Len(log)
    BY LineLenAssumption DEF SyncLogInv, BaseInv, TypeOK
  <1>2. /\ End(log, 0) \in Nat /\ End(log, i) \in Nat /\ End(log, Len(log)) \in Nat
        /\ End(log, 0) + LineLen <= End(log, i) /\ End(log, i) <= End(log, Len(log))
    BY <1>1, EndForm, EndMono
  <1> QED
    BY <1>1, <1>2 DEF SyncLogInv, BaseInv, TypeOK, Replay, Size

LEMMA ReadKept ==
    ASSUME SyncLogInv, NEW r \in Replayers, NEW p, ReadCheckpoint(r), UNCHANGED syncVars
    PROVE  Kept(p)
  <1>1. /\ rp'[r].pc = "lock" /\ rp'[r].start = checkpoint /\ rp[r].pc = "idle"
        /\ \A s \in Replayers : s # r => rp'[s] = rp[s]
    BY DEF ReadCheckpoint, IdleReplay, SyncLogInv, BaseInv, TypeOK
  <1>2. UNCHANGED <<log, checkpoint, logLock, index, late>>
    BY DEF ReadCheckpoint, syncVars
  <1>3. ASSUME NEW i \in 1 .. Len(log), Safe(i, p) PROVE Safe(i, p)'
    <2>1. checkpoint \in Nat
      BY EndPositive
    <2>2. Calm(i, p) => Calm(i, p)'
      BY <1>1, <1>2, <2>1 DEF Calm
    <2>3. \A s \in Replayers : Reading(s)' => Reading(s) /\ rp'[s] = rp[s]
      BY <1>1 DEF Reading
    <2> QED
      BY <1>2, <1>3, <2>2, <2>3 DEF Safe
  <1> QED
    BY <1>2, <1>3, KeptOne

LEMMA LockKept ==
    ASSUME SyncLogInv, SyncLogInv', NEW r \in Replayers, NEW p, ReplayLock(r)
    PROVE  Kept(p)
  <1>1. /\ logLock = NoProc /\ logLock' = r /\ rp[r].pc = "lock" /\ rp'[r].pc = "scan"
        /\ rp'[r].offset = IF rp[r].start > FileSize THEN 0 ELSE rp[r].start
        /\ \A s \in Replayers : s # r => rp'[s] = rp[s]
    BY DEF ReplayLock, LockAndRead, SyncLogInv, BaseInv, TypeOK, Replay
  <1>2. UNCHANGED <<log, checkpoint, index>> /\ (~late' => rp[r].start = checkpoint)
    <2>1. UNCHANGED <<log, checkpoint, index>>
      BY DEF ReplayLock, LockAndRead
    <2>2. ~late' => rp[r].start = checkpoint
      BY Zenon DEF ReplayLock
    <2> QED BY <2>1, <2>2
  <1>3. ASSUME NEW i \in 1 .. Len(log), ~log[i].updated, Safe(i, p) PROVE Safe(i, p)'
    <2>1. /\ End(log, i) \in Nat /\ End(log, i) > 0 /\ Size(log) \in Nat
          /\ checkpoint \in Nat /\ rp[r].start \in Nat
      BY EndPositive
    <2>2. Calm(i, p) /\ Calm(i, p)'
      BY <1>1, <1>2, <1>3 DEF Safe, Calm
    <2>3. \A s \in Replayers : Reading(s)' => s = r
      BY <1>1 DEF SyncLogInv, BaseInv, LockInv
    <2>4. End(log, i) <= rp'[r].offset => index[p] = log[i].tags
      BY <1>1, <2>1, <2>2 DEF Calm
    <2>5. FileSize >= Size(log) /\ FileSize \in Nat
      BY <2>1, LineLenAssumption DEF FileSize
    <2>6. ~late' => checkpoint <= rp'[r].offset
      BY <1>1, <1>2, <1>3, <2>1, <2>5 DEF SyncLogInv, OffsetInv
    <2>7. logLock' # NoProc
      BY <1>1, NoProcAssumption
    <2> QED
      BY <1>2, <2>2, <2>3, <2>4, <2>6, <2>7 DEF Safe
  <1> QED
    BY <1>2, <1>3, KeptOne

LEMMA SkipKept ==
    ASSUME SyncLogInv, SyncLogInv', NEW r \in Replayers, NEW p, SkipLine(r), UNCHANGED syncVars
    PROVE  Kept(p)
  <1>0. More(r)
    BY DEF SkipLine
  <1>1. /\ rp[r].pc = "scan" /\ rp'[r].pc = "checkpoint"
        /\ rp'[r].offset = End(rp[r].data, Line(r))
        /\ rp[r].data[Line(r)].updated
        /\ \A s \in Replayers : s # r => rp'[s] = rp[s]
    BY DEF SkipLine, More, SyncLogInv, BaseInv, TypeOK, Replay
  <1>2. UNCHANGED <<log, checkpoint, logLock, index, late>>
    BY DEF SkipLine, syncVars
  <1>3. ASSUME NEW i \in 1 .. Len(log), ~log[i].updated, Safe(i, p) PROVE Safe(i, p)'
    <2>1. /\ rp[r].data = log /\ logLock = r /\ rp[r].offset \in Nat /\ End(log, i) \in Nat
          /\ End(log, Line(r)) \in Nat /\ rp[r].offset < End(log, Line(r))
          /\ End(log, i) <= End(log, Line(r)) => i = Line(r) \/ End(log, i) <= rp[r].offset
      BY <1>0, Ahead
    <2>2. i # Line(r) /\ logLock # NoProc /\ checkpoint \in Nat
      BY <1>1, <1>3, <2>1, NoProcAssumption DEF SyncLogInv, BaseInv, TypeOK
    <2>3. Calm(i, p) => Calm(i, p)'
      BY <1>1, <1>2 DEF Calm
    <2>4. \A s \in Replayers : Reading(s)' => s = r
      BY <1>2, <2>1 DEF SyncLogInv, BaseInv, LockInv
    <2>5. Reading(r)
      BY <1>1 DEF Reading
    <2>6. End(log, i) <= rp'[r].offset => index[p] = log[i].tags
      BY <1>1, <1>3, <2>1, <2>2, <2>5 DEF Safe
    <2>7. ~late => Calm(i, p)' /\ checkpoint <= rp'[r].offset
      BY <1>1, <1>3, <2>1, <2>2, <2>3, <2>5 DEF Safe
    <2> QED
      BY <1>1, <1>2, <2>2, <2>4, <2>6, <2>7 DEF Safe
  <1> QED
    BY <1>2, <1>3, KeptOne

\* A line of p that is not marked is not beyond the last line of p.
LEMMA BeforeLast ==
    ASSUME NEW l, NEW i \in 1 .. Len(l), NEW k \in 1 .. Len(l), NEW p, LastLine(l, i, p),
           l[k].path = p, Len(l) \in Nat
    PROVE  k <= i
  BY DEF LastLine

LEMMA ClearKept ==
    ASSUME SyncLogInv, SyncLogInv', NEW r \in Replayers, NEW p \in Paths, ReplayClear(r),
           index \in [Paths -> TagSet]
    PROVE  Kept(p)
  <1>0. More(r)
    BY DEF ReplayClear, ClearIndex
  <1>1. /\ rp[r].pc = "scan" /\ rp'[r].pc = "fill" /\ rp'[r].offset = rp[r].offset
        /\ ~rp[r].data[Line(r)].updated
        /\ \A s \in Replayers : s # r => rp'[s] = rp[s]
    BY DEF ReplayClear, ClearIndex, More, SyncLogInv, BaseInv, TypeOK, Replay
  <1>2. /\ UNCHANGED <<log, checkpoint, logLock, late>>
        /\ index' = [index EXCEPT ![ReplayEvent(r).path] = {}]
    BY DEF ReplayClear, ClearIndex
  <1>3. rp[r].data[Line(r)].path # p => index'[p] = index[p]
    BY <1>2 DEF ReplayEvent
  <1>4. Line(r) \in 1 .. Len(log) /\ rp[r].data = log /\ Len(log) \in Nat
    BY <1>0, LineType DEF SyncLogInv, BaseInv, TypeOK
  <1>5. ~Unmarked(p) => index'[p] = index[p]
    BY <1>1, <1>3, <1>4 DEF Unmarked, SyncLogInv, BaseInv, TypeOK
  <1>6. ASSUME NEW i \in 1 .. Len(log), LastLine(log, i, p), ~log[i].updated, Safe(i, p)
        PROVE Safe(i, p)'
    <2>1. /\ logLock = r /\ rp[r].offset \in Nat /\ End(log, i) \in Nat
          /\ Line(r) <= i => rp[r].offset < End(log, i)
      BY <1>0, Ahead
    <2>2. logLock # NoProc /\ checkpoint \in Nat
      BY <2>1, NoProcAssumption DEF SyncLogInv, BaseInv, TypeOK
    <2>3. \A s \in Replayers : Reading(s)' => s = r
      BY <1>2, <2>1 DEF SyncLogInv, BaseInv, LockInv
    <2>4. Reading(r)
      BY <1>1 DEF Reading
    <2>5. index'[p] # index[p] => rp[r].offset < End(log, i)
      BY <1>3, <1>4, <1>6, <2>1, BeforeLast
    <2>6. End(log, i) <= rp'[r].offset => index'[p] = log[i].tags
      BY <1>1, <1>6, <2>1, <2>4, <2>5 DEF Safe
    <2>7. ~late => Calm(i, p)' /\ checkpoint <= rp'[r].offset
      <3>1. ~late => Calm(i, p) /\ checkpoint <= rp[r].offset
        BY <1>6, <2>4 DEF Safe
      <3>2. ~late => (End(log, i) <= checkpoint => index'[p] = log[i].tags)
        BY <2>1, <2>2, <2>5, <3>1 DEF Calm
      <3>3. ~late => \A s \in Replayers : rp'[s].pc = "lock" /\ End(log, i) <= rp'[s].start
                                          => End(log, i) <= checkpoint
        BY <1>1, <3>1 DEF Calm
      <3> QED BY <1>1, <1>2, <3>1, <3>2, <3>3 DEF Calm
    <2> QED
      BY <1>1, <1>2, <2>2, <2>3, <2>6, <2>7 DEF Safe
  <1> QED
    BY <1>2, <1>5, <1>6, KeptOne

LEMMA FillKept ==
    ASSUME SyncLogInv, SyncLogInv', NEW r \in Replayers, NEW p \in Paths, ReplayFill(r),
           index \in [Paths -> TagSet]
    PROVE  Kept(p)
  <1>0. rp[r].pc = "fill"
    BY DEF ReplayFill, FillIndex
  <1>1. /\ rp'[r].pc = "checkpoint" /\ rp'[r].offset = End(rp[r].data, Line(r))
        /\ \A s \in Replayers : s # r => rp'[s] = rp[s]
    BY DEF ReplayFill, FillIndex, SyncLogInv, BaseInv, TypeOK, Replay
  <1>2. /\ UNCHANGED <<log, checkpoint, logLock, late>>
        /\ index' = [index EXCEPT ![ReplayEvent(r).path] = ReplayEvent(r).tags]
    BY DEF ReplayFill, FillIndex
  <1>3. /\ rp[r].data[Line(r)].path # p => index'[p] = index[p]
        /\ rp[r].data[Line(r)].path = p => index'[p] = rp[r].data[Line(r)].tags
    BY <1>2 DEF ReplayEvent
  <1>4. Line(r) \in 1 .. Len(log) /\ rp[r].data = log /\ Len(log) \in Nat
    BY <1>0, LineType DEF SyncLogInv, BaseInv, TypeOK
  <1>a. ~log[Line(r)].updated
    BY <1>0, <1>4 DEF SyncLogInv, ScanInv, ScanOK, Line
  <1>5. ~Unmarked(p) => index'[p] = index[p]
    BY <1>3, <1>4, <1>a DEF Unmarked, SyncLogInv, BaseInv, TypeOK
  <1>6. ASSUME NEW i \in 1 .. Len(log), LastLine(log, i, p), ~log[i].updated, Safe(i, p)
        PROVE Safe(i, p)'
    <2>1. /\ logLock = r /\ rp[r].offset \in Nat /\ End(log, i) \in Nat
          /\ End(log, Line(r)) \in Nat /\ rp[r].offset < End(log, Line(r))
          /\ Line(r) <= i => rp[r].offset < End(log, i) /\ End(log, Line(r)) <= End(log, i)
          /\ End(log, i) <= End(log, Line(r)) => i = Line(r) \/ End(log, i) <= rp[r].offset
      BY <1>0, Ahead
    <2>2. logLock # NoProc /\ checkpoint \in Nat
      BY <2>1, NoProcAssumption DEF SyncLogInv, BaseInv, TypeOK
    <2>3. \A s \in Replayers : Reading(s)' => s = r
      BY <1>2, <2>1 DEF SyncLogInv, BaseInv, LockInv
    <2>4. Reading(r)
      BY <1>0 DEF Reading
    <2>5. log[Line(r)].path = p => rp[r].offset < End(log, i)
      BY <1>4, <1>6, <2>1, BeforeLast
    <2>6. End(log, i) <= rp'[r].offset => index'[p] = log[i].tags
      <3> SUFFICES ASSUME End(log, i) <= End(log, Line(r)) PROVE index'[p] = log[i].tags
        BY <1>1, <1>4
      <3>1. CASE i = Line(r)
        BY <1>3, <1>4, <1>6, <3>1 DEF LastLine
      <3>2. CASE End(log, i) <= rp[r].offset
        <4>1. index[p] = log[i].tags
          BY <1>6, <2>4, <3>2 DEF Safe
        <4>2. log[Line(r)].path # p
          BY <2>1, <2>5, <3>2
        <4> QED BY <1>3, <1>4, <4>1, <4>2
      <3> QED BY <2>1, <3>1, <3>2
    <2>7. ~late => Calm(i, p)' /\ checkpoint <= rp'[r].offset
      <3>1. ~late => Calm(i, p) /\ checkpoint <= rp[r].offset
        BY <1>6, <2>4 DEF Safe
      <3>2. ~late => (End(log, i) <= checkpoint => index'[p] = log[i].tags)
        BY <1>3, <1>4, <2>1, <2>2, <2>5, <3>1 DEF Calm
      <3>3. ~late => \A s \in Replayers : rp'[s].pc = "lock" /\ End(log, i) <= rp'[s].start
                                          => End(log, i) <= checkpoint
        BY <1>1, <3>1 DEF Calm
      <3>4. ~late => checkpoint <= rp'[r].offset
        BY <1>1, <1>4, <2>1, <2>2, <3>1
      <3> QED BY <1>2, <3>2, <3>3, <3>4 DEF Calm
    <2> QED
      BY <1>1, <1>2, <2>2, <2>3, <2>6, <2>7 DEF Safe
  <1> QED
    BY <1>2, <1>5, <1>6, KeptOne

LEMMA WriteKept ==
    ASSUME SyncLogInv, SyncLogInv', NEW r \in Replayers, NEW p, WriteCheckpoint(r),
           UNCHANGED syncVars
    PROVE  Kept(p)
  <1>1. /\ rp[r].pc = "checkpoint" /\ rp'[r].pc = "scan" /\ rp'[r].offset = rp[r].offset
        /\ checkpoint' = rp[r].offset
        /\ \A s \in Replayers : s # r => rp'[s] = rp[s]
    BY DEF WriteCheckpoint, SyncLogInv, BaseInv, TypeOK, Replay
  <1>2. UNCHANGED <<log, logLock, index, late>>
    BY DEF WriteCheckpoint, syncVars
  <1>3. Reading(r) /\ logLock = r /\ logLock # NoProc /\ AtEnd(log, rp[r].offset)
    BY <1>1, NoProcAssumption DEF Reading, SyncLogInv, BaseInv, LockInv, ScanInv, ScanOK
  <1>4. \A s \in Replayers : Reading(s)' => s = r
    BY <1>2, <1>3 DEF SyncLogInv, BaseInv, LockInv
  <1>5. ASSUME NEW i \in 1 .. Len(log), Safe(i, p) PROVE Safe(i, p)'
    <2>1. End(log, i) \in Nat /\ checkpoint \in Nat /\ rp[r].offset \in Nat
      BY EndPositive
    <2>2. End(log, i) <= rp[r].offset => index[p] = log[i].tags
      BY <1>3, <1>5 DEF Safe
    <2>3. ~late => Calm(i, p) /\ checkpoint <= rp[r].offset
      BY <1>3, <1>5 DEF Safe
    <2>4. ~late => \A s \in Replayers : rp'[s].pc = "lock" /\ End(log, i) <= rp'[s].start
                                        => End(log, i) <= checkpoint'
      BY <1>1, <2>1, <2>3 DEF Calm
    <2>5. ~late => Calm(i, p)'
      BY <1>1, <1>2, <2>2, <2>4 DEF Calm
    <2>6. checkpoint' <= rp'[r].offset
      BY <1>1, <2>1
    <2> QED
      BY <1>1, <1>2, <1>3, <1>4, <2>2, <2>5, <2>6 DEF Safe
  <1> QED
    BY <1>2, <1>5, KeptOne

\* When r returns, what is left is calm.
LEMMA ReturnKept ==
    ASSUME SyncLogInv, SyncLogInv', NEW r \in Replayers, NEW p, Return(r),
           UNCHANGED <<log, checkpoint, index, late>>,
           \A i \in 1 .. Len(log) :
             LastLine(log, i, p) /\ ~log[i].updated /\ Safe(i, p) /\ Reading(r) => Calm(i, p)
    PROVE  Kept(p)
  <1>1. /\ rp'[r].pc = "idle"
        /\ \A s \in Replayers : s # r => rp'[s] = rp[s]
        /\ logLock' = IF logLock = r THEN NoProc ELSE logLock
    BY DEF Return, IdleReplay, SyncLogInv, BaseInv, TypeOK
  <1>2. ASSUME NEW i \in 1 .. Len(log), LastLine(log, i, p), ~log[i].updated, Safe(i, p)
        PROVE Safe(i, p)'
    <2>1. Calm(i, p) => Calm(i, p)'
      BY <1>1 DEF Calm
    <2>2. CASE Reading(r)
      <3>1. logLock = r /\ logLock' = NoProc
        BY <1>1, <2>2 DEF SyncLogInv, BaseInv, LockInv
      <3>2. \A s \in Replayers : ~Reading(s)'
        BY <3>1, NoProcAssumption DEF SyncLogInv, BaseInv, LockInv
      <3> QED BY <1>2, <2>1, <2>2, <3>1, <3>2 DEF Safe
    <2>3. CASE ~Reading(r)
      <3>1. logLock' = logLock
        BY <1>1, <2>3 DEF SyncLogInv, ScanInv
      <3>2. \A s \in Replayers : Reading(s)' => Reading(s) /\ rp'[s] = rp[s]
        BY <1>1 DEF Reading
      <3> QED BY <1>2, <2>1, <3>1, <3>2 DEF Safe
    <2> QED BY <2>2, <2>3
  <1> QED
    BY <1>2, KeptOne

LEMMA FinishKept ==
    ASSUME SyncLogInv, SyncLogInv', Grows, NEW r \in Replayers, NEW p, Finish(r),
           UNCHANGED syncVars
    PROVE  Kept(p)
  <1>1. /\ rp[r].pc = "scan" /\ rp[r].data = log /\ ~(rp[r].offset < Size(log))
        /\ Reading(r) /\ Return(r) /\ UNCHANGED <<checkpoint, index, late>>
    BY DEF Finish, More, Reading, syncVars, SyncLogInv, BaseInv, LockInv
  <1>2. ASSUME NEW i \in 1 .. Len(log), Safe(i, p)
        PROVE  /\ index[p] = log[i].tags /\ Calm(i, p)
    <2>1. /\ End(log, i) \in Nat /\ End(log, i) <= Size(log) /\ Size(log) \in Nat
          /\ rp[r].offset \in Nat /\ checkpoint \in Nat
      BY EndPositive
    <2>2. End(log, i) <= rp[r].offset
      BY <1>1, <2>1
    <2>3. index[p] = log[i].tags
      BY <1>1, <1>2, <2>2 DEF Safe
    <2>4. Calm(i, p) \/ checkpoint = rp[r].offset
      BY <1>1, <1>2 DEF Safe
    <2> QED BY <2>2, <2>3, <2>4 DEF Calm
  <1>3. CASE UNCHANGED log
    BY <1>1, <1>2, <1>3, ReturnKept
  <1>4. CASE log' # log
    <2>1. /\ \A i \in 1 .. Len(log) : log'[i].updated
          /\ Len(log) \in Nat /\ Len(log') \in Nat
          /\ DOMAIN log' = 1 .. Len(log') /\ DOMAIN log = 1 .. Len(log)
      BY <1>4, AllMarked DEF SyncLogInv, BaseInv, TypeOK
    <2>2. Len(log') = Len(log)
      BY <1>1, <1>4, MarkedType DEF Finish, SyncLogInv, BaseInv, TypeOK
    <2>3. ~Unmarked(p)'
      BY <2>1, <2>2 DEF Unmarked
    <2>4. ASSUME NEW ts \in TagSet, Follows(p, ts) PROVE index[p] = ts
      BY <1>2, <2>4 DEF Follows
    <2>5. ASSUME NEW ts \in TagSet, Follows(p, ts) PROVE Follows(p, ts)'
      BY <1>1, <2>3, <2>4, <2>5 DEF Follows
    <2> QED BY <2>3, <2>5 DEF Kept
  <1> QED
    BY <1>3, <1>4

\* From the end of a line on, a replay reads the next line whole.
LEMMA EndIsBegin ==
    ASSUME SyncLogInv, NEW r \in Replayers, More(r), AtEnd(log, rp[r].offset)
    PROVE  Whole(r)
  <1>1. /\ Line(r) \in 1 .. Len(log) /\ End(log, Line(r) - 1) <= rp[r].offset
        /\ rp[r].offset < End(log, Line(r)) /\ rp[r].data = log
        /\ End(log, Line(r) - 1) \in Nat /\ End(log, Line(r)) \in Nat
    BY LineType DEF SyncLogInv
  <1>2. PICK i \in 0 .. Len(log) : rp[r].offset = End(log, i)
    BY DEF AtEnd
  <1>3. Len(log) \in Nat /\ LineLen \in Nat /\ LineLen >= 1 /\ End(log, i) \in Nat
    BY <1>2, LineLenAssumption, EndForm DEF SyncLogInv, BaseInv, TypeOK
  <1> DEFINE k == Line(r)
  <1> HIDE DEF k
  <1>4. k \in 1 .. Len(log) /\ k = Line(r) /\ k - 1 \in Nat
    BY <1>1, <1>3 DEF k
  <1>5. ASSUME k <= i PROVE End(log, k) <= End(log, i)
    BY <1>3, <1>4, <1>5, EndMono
  <1>6. ASSUME i < k - 1 PROVE End(log, i) + LineLen <= End(log, k - 1)
    BY <1>3, <1>4, <1>6, EndMono
  <1>7. i = k - 1
    BY <1>1, <1>2, <1>3, <1>4, <1>5, <1>6
  <1>8. ~log[k].joined
    BY <1>4 DEF SyncLogInv, WholeLines
  <1>9. Begin(log, k) = End(log, k - 1)
    BY <1>1, <1>4, <1>8 DEF Begin
  <1> QED
    BY <1>1, <1>2, <1>4, <1>7, <1>9 DEF Whole

LEMMA ErrorKept ==
    ASSUME SyncLogInv, SyncLogInv', NEW r \in Replayers, NEW p, ParseError(r), UNCHANGED syncVars
    PROVE  Kept(p)
  <1>1. /\ More(r) /\ ~Whole(r) /\ rp[r].pc = "scan" /\ Return(r)
        /\ UNCHANGED <<log, checkpoint, index, late>>
    BY DEF ParseError, More, syncVars
  <1>2. ~AtEnd(log, rp[r].offset)
    BY <1>1, EndIsBegin
  <1>3. ASSUME NEW i \in 1 .. Len(log), Safe(i, p), Reading(r) PROVE Calm(i, p)
    BY <1>1, <1>2, <1>3 DEF Safe
  <1> QED
    BY <1>1, <1>3, ReturnKept

LEMMA StopKept ==
    ASSUME SyncLogInv, SyncLogInv', NEW r \in Replayers, NEW p \in Paths, ReplayStop(r),
           raced'[p] = {}
    PROVE  Kept(p)
  <1>1. Return(r) /\ UNCHANGED <<log, checkpoint, index, late>>
    BY DEF ReplayStop, Stop
  <1>2. ~(late /\ logLock = r /\ Unmarked(p))
    <2>1. raced' = [q \in Paths |->
                     IF late /\ logLock = r /\ Unmarked(q) THEN raced[q] \cup {"late"} ELSE raced[q]]
      BY DEF ReplayStop
    <2> QED BY <2>1
  <1>3. ASSUME NEW i \in 1 .. Len(log), LastLine(log, i, p), ~log[i].updated, Safe(i, p), Reading(r)
        PROVE  Calm(i, p)
    <2>1. logLock = r
      BY <1>3 DEF SyncLogInv, BaseInv, LockInv
    <2>2. Unmarked(p)
      BY <1>3 DEF Unmarked, LastLine, SyncLogInv, BaseInv, TypeOK
    <2> QED BY <1>2, <1>3, <2>1, <2>2 DEF Safe
  <1> QED
    BY <1>1, <1>3, ReturnKept

-----------------------------------------------------------------------------
(* What appends do *)

\* An event of another path leaves p's place in the log.
LEMMA AppendOther ==
    ASSUME SyncLogInv, BaseInv', Grows, NEW q \in Paths, NEW ts, NEW u \in BOOLEAN,
           AppendTagEvent(q, ts, u), UNCHANGED <<index, late>>, NEW p, p # q
    PROVE  Kept(p)
  <1>1. /\ Len(log') = Len(log) + 1 /\ Len(log) \in Nat
        /\ \A i \in 1 .. Len(log) : log'[i] = log[i] /\ End(log', i) = End(log, i)
        /\ log'[Len(log')] = [path |-> q, tags |-> ts, updated |-> u, joined |-> FALSE]
    BY NewLine
  <1>2. log'[Len(log) + 1].path = q
    BY <1>1
  <1>3. DOMAIN log = 1 .. Len(log) /\ DOMAIN log' = 1 .. Len(log) + 1
    BY <1>1 DEF SyncLogInv, BaseInv, TypeOK
  <1>4. logLock = NoProc /\ UNCHANGED <<checkpoint, logLock, rp>>
    BY DEF AppendTagEvent
  <1>5. \A r \in Replayers : ~Reading(r) /\ ~Reading(r)'
    BY <1>4, NoProcAssumption DEF SyncLogInv, BaseInv, LockInv, Reading
  <1>6. ~Unmarked(p) => ~Unmarked(p)'
    BY <1>1, <1>2, <1>3 DEF Unmarked
  <1>7. ASSUME NEW i \in 1 .. Len(log), LastLine(log, i, p), Safe(i, p)
        PROVE  LastLine(log', i, p) /\ Safe(i, p)' /\ i \in 1 .. Len(log') /\ log'[i] = log[i]
    <2>1. LastLine(log', i, p)
      BY <1>1, <1>2, <1>7 DEF LastLine
    <2>2. Calm(i, p)'
      BY <1>1, <1>4, <1>7 DEF Safe, Calm
    <2> QED BY <1>1, <1>5, <1>7, <2>1, <2>2 DEF Safe
  <1>8. ASSUME NEW t \in TagSet, Follows(p, t) PROVE Follows(p, t)'
    <2>1. CASE ~Unmarked(p) /\ index[p] = t
      BY <1>6, <2>1 DEF Follows
    <2>2. CASE \E i \in 1 .. Len(log) :
                 LastLine(log, i, p) /\ ~log[i].updated /\ log[i].tags = t /\ Safe(i, p)
      <3>1. PICK i \in 1 .. Len(log) :
                 LastLine(log, i, p) /\ ~log[i].updated /\ log[i].tags = t /\ Safe(i, p)
        BY <2>2
      <3>2. LastLine(log', i, p) /\ Safe(i, p)' /\ i \in 1 .. Len(log') /\ log'[i] = log[i]
        BY <3>1, <1>7
      <3> QED BY <3>1, <3>2 DEF Follows
    <2> QED BY <1>8, <2>1, <2>2 DEF Follows
  <1> QED
    BY <1>6, <1>8 DEF Kept

\* After an event that is to be replayed the index will follow it.
LEMMA AppendFollows ==
    ASSUME SyncLogInv, SyncLogInv', Grows, NEW p \in Paths, NEW ts,
           AppendTagEvent(p, ts, FALSE)
    PROVE  Follows(p, ts)'
  <1>1. /\ Len(log') = Len(log) + 1 /\ Len(log) \in Nat
        /\ log'[Len(log')] = [path |-> p, tags |-> ts, updated |-> FALSE, joined |-> FALSE]
        /\ Top(log) < End(log', Len(log')) /\ End(log', Len(log')) \in Nat
    BY NewLine DEF SyncLogInv
  <1> DEFINE i == Len(log')
  <1>2. i \in 1 .. Len(log') /\ log'[i].path = p /\ log'[i].tags = ts /\ ~log'[i].updated
    BY <1>1
  <1>3. LastLine(log', i, p)
    BY <1>1, <1>2 DEF LastLine
  <1>4. logLock = NoProc /\ UNCHANGED <<checkpoint, logLock, rp>>
    BY DEF AppendTagEvent
  <1>5. \A r \in Replayers : ~Reading(r)'
    BY <1>4, NoProcAssumption DEF SyncLogInv, BaseInv, LockInv, Reading
  <1>6. Top(log) \in Nat /\ checkpoint \in Nat /\ \A s \in Replayers : rp[s].start \in Nat
    BY TopGrows DEF SyncLogInv, BaseInv, TypeOK, Replay
  <1>7. /\ ~(End(log', i) <= checkpoint)
        /\ \A s \in Replayers : ~(End(log', i) <= rp[s].start)
    BY <1>1, <1>6 DEF SyncLogInv, OffsetInv
  <1> HIDE DEF i
  <1>8. ASSUME NEW k, k = i PROVE Safe(k, p)'
    BY <1>4, <1>5, <1>7, <1>8 DEF Safe, Calm
  <1> QED
    BY <1>2, <1>3, <1>8 DEF Follows

\* An event that is already in the index leaves nothing to replay.
LEMMA AppendMarked ==
    ASSUME SyncLogInv, BaseInv', Grows, NEW p \in Paths, NEW ts,
           AppendTagEvent(p, ts, TRUE), ~Unmarked(p)
    PROVE  ~Unmarked(p)'
  <1>1. /\ Len(log') = Len(log) + 1 /\ Len(log) \in Nat
        /\ \A i \in 1 .. Len(log) : log'[i] = log[i]
        /\ log'[Len(log')] = [path |-> p, tags |-> ts, updated |-> TRUE, joined |-> FALSE]
    BY NewLine
  <1>2. log'[Len(log) + 1].updated
    BY <1>1
  <1>3. DOMAIN log = 1 .. Len(log) /\ DOMAIN log' = 1 .. Len(log) + 1
    BY <1>1 DEF SyncLogInv, BaseInv, TypeOK
  <1> QED
    BY <1>1, <1>2, <1>3 DEF Unmarked

-----------------------------------------------------------------------------
(* The writers *)

LEMMA OpType ==
    ASSUME SyncTypeOK, NEW w \in Writers
    PROVE  /\ op[w] \in Op /\ op[w].pc \in {"idle", "event", "flush", "set", "index", "rebuild"}
           /\ op[w].old \in TagSet /\ op[w].new \in TagSet
           /\ op[w].pc # "idle" => op[w].path \in Paths
  <1>1. op[w] \in Op
    BY DEF SyncTypeOK
  <1>2. CASE op[w] = Idle
    BY <1>1, <1>2 DEF Idle, TagSet
  <1>3. CASE op[w] \in [pc : {"event", "flush", "set", "index", "rebuild"},
                        path : Paths, old : TagSet, new : TagSet]
    BY <1>1, <1>3
  <1> QED
    BY <1>1, <1>2, <1>3 DEF Op

\* Where nothing is left to replay the index stays as it is.
LEMMA KeptIndex ==
    ASSUME NEW p, Kept(p), index[p] \in TagSet, SyncLogInv', ~Unmarked(p)
    PROVE  index'[p] = index[p]
  <1>1. PICK ts \in TagSet : ts = index[p]
    OBVIOUS
  <1>2. Follows(p, ts)' /\ ~Unmarked(p)'
    BY <1>1 DEF Kept, Follows
  <1>3. DOMAIN log' = 1 .. Len(log')
    BY DEF SyncLogInv, BaseInv, TypeOK
  <1>4. \A i \in 1 .. Len(log') : ~(LastLine(log', i, p) /\ ~log'[i].updated)
    BY <1>2, <1>3 DEF Unmarked, LastLine
  <1> QED
    BY <1>1, <1>2, <1>4 DEF Follows

\* A step that leaves the changes of p, and p's place in the log, alone.
LEMMA GoodKept ==
    ASSUME NEW p \in Paths, Good(p), Kept(p),
           ~Unmarked(p) => index'[p] = index[p], filer'[p] = filer[p], filer[p] \in TagSet,
           \A v \in Writers : op[v].new \in TagSet,
           \A v \in Writers : Busy(v, p) => op'[v] = op[v],
           \A v \in Writers : Busy(v, p)' => Busy(v, p),
           \A m \in Mounts : Busy(m, p) /\ op[m].pc = "flush" /\ p \in notices'[m] => p \in notices[m]
    PROVE  Good(p)'
  <1>1. \A v \in Writers : Busy(v, p)' => Busy(v, p) /\ op'[v] = op[v]
    OBVIOUS
  <1>2. \A v \in Writers : Busy(v, p) => Busy(v, p)'
    BY DEF Busy
  <1>3. \A v, u \in Writers : Busy(v, p)' /\ Busy(u, p)' => v = u
    BY <1>1 DEF Good
  <1>4. ASSUME NEW v \in Writers, Busy(v, p)' PROVE Change(v, p)'
    <2>1. Change(v, p) /\ op'[v] = op[v] /\ op[v].new \in TagSet
      BY <1>1, <1>4 DEF Good
    <2>2. PICK ts \in TagSet : ts = op[v].new
      BY <2>1
    <2>3. /\ ~Unmarked(p) => ~Unmarked(p)'
          /\ Follows(p, ts) => Follows(p, ts)'
      BY DEF Kept
    <2>4. CASE op[v].pc = "flush"
      <3>1. Follows(p, ts)' /\ p \notin notices'[v] /\ v \in Mounts
        BY <1>1, <1>4, <2>1, <2>2, <2>3, <2>4 DEF Change
      <3>2. Follows(p, op[v].new)'
        BY <2>1, <2>2, <3>1 DEF Follows
      <3> QED BY <2>1, <2>4, <3>1, <3>2 DEF Change
    <2>5. CASE op[v].pc # "flush"
      BY <2>1, <2>3, <2>5 DEF Change
    <2> QED BY <2>4, <2>5
  <1>5. (\A v \in Writers : ~Busy(v, p)') => Follows(p, filer[p])'
    <2>1. (\A v \in Writers : ~Busy(v, p)') => Follows(p, filer[p])
      BY <1>2 DEF Good
    <2>2. PICK ts \in TagSet : ts = filer[p]
      OBVIOUS
    <2>3. (\A v \in Writers : ~Busy(v, p)') => Follows(p, ts)'
      BY <2>1, <2>2 DEF Kept
    <2> QED BY <2>2, <2>3 DEF Follows
  <1> QED
    BY <1>3, <1>4, <1>5 DEF Good

\* A step of w that is about q only.
Aside(w, q) ==
    /\ \A v \in Writers : v # w => op'[v] = op[v]
    /\ op[w].pc = "idle" \/ op[w].path = q
    /\ op'[w].pc = "idle" \/ op'[w].path = q
    /\ \A p \in Paths : p # q =>
         /\ raced'[p] = raced[p] /\ index'[p] = index[p] /\ filer'[p] = filer[p]
         /\ \A m \in Mounts : p \in notices'[m] => p \in notices[m]
         /\ Kept(p)

LEMMA AgreeOne ==
    ASSUME SyncTypeOK, AgreeInv, NEW w \in Writers, NEW q \in Paths, Aside(w, q),
           raced'[q] = {} => Good(q)'
    PROVE  AgreeInv'
  <1> SUFFICES ASSUME NEW p \in Paths, raced'[p] = {} PROVE Good(p)'
    BY DEF AgreeInv
  <1>1. CASE p = q
    BY <1>1
  <1>2. CASE p # q
    <2>1. /\ raced[p] = {} /\ index'[p] = index[p] /\ filer'[p] = filer[p]
          /\ \A m \in Mounts : p \in notices'[m] => p \in notices[m]
          /\ Kept(p)
      BY <1>2 DEF Aside
    <2>2. Good(p)
      BY <2>1 DEF AgreeInv
    <2>3. filer[p] \in TagSet /\ \A v \in Writers : op[v].new \in TagSet
      BY OpType DEF SyncTypeOK
    <2>4. \A v \in Writers : Busy(v, p) => op'[v] = op[v]
      BY <1>2 DEF Aside, Busy
    <2>5. \A v \in Writers : Busy(v, p)' => Busy(v, p)
      BY <1>2 DEF Aside, Busy
    <2>6. ~Unmarked(p) => index'[p] = index[p]
      BY <2>1
    <2>7. \A m \in Mounts : Busy(m, p) /\ op[m].pc = "flush" /\ p \in notices'[m] => p \in notices[m]
      BY <2>1
    <2> QED
      BY <2>1, <2>2, <2>3, <2>4, <2>5, <2>6, <2>7, GoodKept
  <1> QED
    BY <1>1, <1>2

\* w alone is left with a change of q, or nobody is.
LEMMA OneBusy ==
    ASSUME NEW w \in Writers, NEW q, \A v \in Writers : v # w => ~Busy(v, q)', Busy(w, q)',
           Change(w, q)'
    PROVE  Good(q)'
  BY DEF Good

LEMMA NoneBusy ==
    ASSUME NEW q, \A v \in Writers : ~Busy(v, q)', Follows(q, filer[q])'
    PROVE  Good(q)'
  BY DEF Good

\* Who may start a change of q.
LEMMA NoCause ==
    ASSUME NEW w \in Writers, NEW q
    PROVE  /\ Causes(w, q, FALSE) = {} =>
                /\ \A v \in Writers : v # w => ~Busy(v, q)
                /\ w \in Mounts => q \notin notices[w]
           /\ Causes(w, q, TRUE) = {} =>
                /\ \A v \in Writers : v # w => ~Busy(v, q)
                /\ ~Unmarked(q)
  BY DEF Causes, Overlap, Busy

\* Who is changing q is alone.
LEMMA Alone ==
    ASSUME NEW w \in Writers, NEW q, Good(q), Busy(w, q)
    PROVE  Change(w, q) /\ \A v \in Writers : v # w => ~Busy(v, q)
  BY DEF Good

LEMMA SaveFacts ==
    ASSUME SyncTypeOK, NEW w, NEW q \in Paths, NEW ts, Save(w, q, ts)
    PROVE  /\ filer'[q] = ts
           /\ \A p \in Paths : p # q => filer'[p] = filer[p]
           /\ \A p \in Paths, m \in Mounts : p # q /\ p \in notices'[m] => p \in notices[m]
           /\ w \in Mounts => notices'[w] = notices[w]
  BY DEF SyncTypeOK, Save

\* Other paths than q keep what a writer may change.
Elsewhere(q) ==
    \A p \in Paths : p # q =>
      /\ raced'[p] = raced[p] /\ index'[p] = index[p] /\ filer'[p] = filer[p]
      /\ \A m \in Mounts : p \in notices'[m] => p \in notices[m]

\* A step of w on q that leaves log and replayers alone.
LEMMA QuietAside ==
    ASSUME SyncTypeOK, NEW w \in Writers, NEW q \in Paths, NEW x,
           UNCHANGED <<log, checkpoint, logLock, rp, late>>, op' = [op EXCEPT ![w] = x],
           op[w].pc = "idle" \/ op[w].path = q, x.pc = "idle" \/ x.path = q, Elsewhere(q)
    PROVE  Aside(w, q) /\ op'[w] = x
  <1>1. op'[w] = x /\ \A v \in Writers : v # w => op'[v] = op[v]
    BY DEF SyncTypeOK
  <1>2. \A p \in Paths : p # q => Kept(p)
    BY StillKept DEF Still, Elsewhere
  <1> QED
    BY <1>1, <1>2 DEF Aside, Elsewhere

RacedElsewhere(q) == \A p \in Paths : p # q => raced'[p] = raced[p]

\* A step of w that appends an event of q.
LEMMA AppendAside ==
    ASSUME SyncTypeOK, SyncLogInv, BaseInv', Grows, NEW w \in Writers, NEW q \in Paths, NEW x,
           NEW ts, NEW u \in BOOLEAN, AppendTagEvent(q, ts, u),
           UNCHANGED <<index, filer, notices, late>>, op' = [op EXCEPT ![w] = x],
           op[w].pc = "idle" \/ op[w].path = q, x.pc = "idle" \/ x.path = q,
           RacedElsewhere(q)
    PROVE  Aside(w, q) /\ op'[w] = x
  <1>1. op'[w] = x /\ \A v \in Writers : v # w => op'[v] = op[v]
    BY DEF SyncTypeOK
  <1>2. \A p \in Paths : p # q => Kept(p)
    BY AppendOther
  <1> QED
    BY <1>1, <1>2 DEF Aside, RacedElsewhere

\* A step of a replay, or one that changes nothing.
LEMMA ReplayAgrees ==
    ASSUME SyncTypeOK, SyncLogInv', AgreeInv, UNCHANGED <<filer, op, notices>>,
           \A p \in Paths : raced'[p] = {} => raced[p] = {},
           \A p \in Paths : raced'[p] = {} => Kept(p)
    PROVE  AgreeInv'
  <1> SUFFICES ASSUME NEW p \in Paths, raced'[p] = {} PROVE Good(p)'
    BY DEF AgreeInv
  <1>1. Kept(p) /\ Good(p)
    BY DEF AgreeInv
  <1>2. filer[p] \in TagSet /\ index[p] \in TagSet /\ \A v \in Writers : op[v].new \in TagSet
    BY OpType DEF SyncTypeOK
  <1>3. \A v \in Writers : Busy(v, p) => op'[v] = op[v]
    OBVIOUS
  <1>4. \A v \in Writers : Busy(v, p)' => Busy(v, p)
    BY DEF Busy
  <1>5. ~Unmarked(p) => index'[p] = index[p]
    BY <1>1, <1>2, KeptIndex
  <1>6. \A m \in Mounts : Busy(m, p) /\ op[m].pc = "flush" /\ p \in notices'[m] => p \in notices[m]
    OBVIOUS
  <1> QED
    BY <1>1, <1>2, <1>3, <1>4, <1>5, <1>6, GoodKept

LEMMA ReplayStepAgrees ==
    ASSUME SyncTypeOK, SyncLogInv, SyncLogInv', Grows, AgreeInv, NEW r \in Replayers,
           ReplayClear(r) \/ ReplayFill(r) \/ ReplayLock(r) \/ ReplayOther(r) \/ ReplayStop(r)
    PROVE  AgreeInv'
  <1>0. index \in [Paths -> TagSet]
    BY DEF SyncTypeOK
  <1>1. UNCHANGED <<filer, op, notices>>
    BY DEF ReplayClear, ReplayFill, ReplayLock, ReplayOther, ReplayStop, syncVars
  <1>2. ASSUME NEW p \in Paths, raced'[p] = {} PROVE raced[p] = {}
    <2>1. CASE ReplayStop(r)
      <3>1. raced'[p] = raced[p] \/ raced'[p] = raced[p] \cup {"late"}
        BY <2>1 DEF ReplayStop
      <3> QED BY <1>2, <3>1
    <2>2. CASE ~ReplayStop(r)
      BY <1>2, <2>2 DEF ReplayClear, ReplayFill, ReplayLock, ReplayOther, syncVars
    <2> QED BY <2>1, <2>2
  <1>3. ASSUME NEW p \in Paths, raced'[p] = {} PROVE Kept(p)
    <2>1. CASE ReplayClear(r)
      BY <1>0, <2>1, ClearKept
    <2>2. CASE ReplayFill(r)
      BY <1>0, <2>2, FillKept
    <2>3. CASE ReplayLock(r)
      BY <2>3, LockKept
    <2>4. CASE ReplayStop(r)
      BY <1>3, <2>4, StopKept
    <2>5. CASE ReplayOther(r)
      <3>1. UNCHANGED syncVars
        BY <2>5 DEF ReplayOther
      <3> QED BY <2>5, <3>1, ReadKept, SkipKept, WriteKept, FinishKept, ErrorKept DEF ReplayOther
    <2> QED BY <2>1, <2>2, <2>3, <2>4, <2>5
  <1> QED
    BY <1>1, <1>2, <1>3, ReplayAgrees

\* Only a change without a cause against it makes up for earlier races.
LEMMA RestartFacts ==
    ASSUME SyncTypeOK, NEW w, NEW q \in Paths, NEW d \in BOOLEAN, Restart(w, q, d)
    PROVE  /\ raced'[q] = {} => Causes(w, q, d) = {}
           /\ \A p \in Paths : p # q => raced'[p] = raced[p]
  <1> DEFINE c == Causes(w, q, d)
  <1>1. raced' = [raced EXCEPT ![q] = IF c = {} THEN {} ELSE @ \cup c]
    BY DEF Restart
  <1> HIDE DEF c
  <1>2. raced'[q] = {} => c = {}
    BY <1>1 DEF SyncTypeOK
  <1>3. \A p \in Paths : p # q => raced'[p] = raced[p]
    BY <1>1 DEF SyncTypeOK
  <1> QED
    BY <1>2, <1>3 DEF c

LEMMA SaveEntryAgrees ==
    ASSUME SyncTypeOK, AgreeInv, NEW w \in Mounts, NEW q \in Paths, NEW ts \in TagSet,
           SaveEntry(w, q, ts)
    PROVE  AgreeInv'
  <1> DEFINE x == [Idle EXCEPT !.pc = "event", !.path = q, !.new = ts]
  <1>1. x.pc = "event" /\ x.path = q /\ x.new = ts
    BY DEF Idle
  <1> HIDE DEF x
  <1>2. /\ op[w].pc = "idle" /\ Save(w, q, ts) /\ op' = [op EXCEPT ![w] = x]
        /\ Restart(w, q, FALSE) /\ UNCHANGED <<log, checkpoint, logLock, rp, late, index>>
        /\ w \in Writers
    BY DEF SaveEntry, logVars, Writers, x
  <1>3. Aside(w, q) /\ op'[w] = x
    <2>1. \A p \in Paths : p # q => raced'[p] = raced[p]
      BY <1>2, RestartFacts
    <2>2. /\ \A p \in Paths : p # q => filer'[p] = filer[p]
          /\ \A p \in Paths, m \in Mounts : p # q /\ p \in notices'[m] => p \in notices[m]
      BY <1>2, SaveFacts
    <2>3. index' = index
      BY <1>2
    <2>4. Elsewhere(q)
      BY <2>1, <2>2, <2>3 DEF Elsewhere
    <2> QED BY <1>1, <1>2, <2>4, QuietAside
  <1>4. ASSUME raced'[q] = {} PROVE Good(q)'
    <2>1. \A v \in Writers : v # w => ~Busy(v, q)
      BY <1>2, <1>4, RestartFacts, NoCause
    <2>2. \A v \in Writers : v # w => ~Busy(v, q)'
      BY <1>3, <2>1 DEF Aside, Busy
    <2>3. Busy(w, q)' /\ Change(w, q)'
      BY <1>1, <1>2, <1>3, SaveFacts DEF Busy, Change
    <2> QED BY <1>2, <2>2, <2>3, OneBusy
  <1> QED
    BY <1>2, <1>3, <1>4, AgreeOne

LEMMA AppendFuseAgrees ==
    ASSUME SyncTypeOK, SyncLogInv, SyncLogInv', Grows, AgreeInv, NEW w \in Mounts,
           AppendFuseEvent(w)
    PROVE  AgreeInv'
  <1>0. w \in Writers /\ op[w].pc = "event" /\ Idle.pc = "idle" /\ BaseInv'
    BY DEF AppendFuseEvent, Writers, Idle, SyncLogInv
  <1>1. PICK q \in Paths, ts \in TagSet : q = op[w].path /\ ts = op[w].new
    BY <1>0, OpType
  <1>2. /\ AppendTagEvent(q, ts, FALSE) /\ op' = [op EXCEPT ![w] = Idle]
        /\ UNCHANGED <<index, filer, notices, late, raced>>
    BY <1>1 DEF AppendFuseEvent
  <1>3. Aside(w, q) /\ op'[w] = Idle
    <2>1. RacedElsewhere(q)
      BY <1>2 DEF RacedElsewhere
    <2> QED BY <1>0, <1>1, <1>2, <2>1, AppendAside
  <1>4. ASSUME raced'[q] = {} PROVE Good(q)'
    <2>1. Good(q) /\ Busy(w, q)
      BY <1>0, <1>1, <1>2, <1>4 DEF AgreeInv, Busy
    <2>2. Change(w, q) /\ \A v \in Writers : v # w => ~Busy(v, q)
      BY <1>0, <2>1, Alone
    <2>3. filer[q] = ts
      BY <1>0, <1>1, <2>2 DEF Change
    <2>4. Follows(q, ts)'
      BY <1>2, AppendFollows
    <2>5. Follows(q, filer[q])'
      BY <1>2, <2>3, <2>4 DEF Follows
    <2>6. \A v \in Writers : ~Busy(v, q)'
      BY <1>0, <1>3, <2>2 DEF Aside, Busy
    <2> QED BY <2>5, <2>6, NoneBusy
  <1> QED
    BY <1>0, <1>3, <1>4, AgreeOne

LEMMA SetOnHandleAgrees ==
    ASSUME SyncTypeOK, SyncLogInv, SyncLogInv', Grows, AgreeInv, NEW w \in Mounts,
           NEW q \in Paths, NEW ts \in TagSet, SetOnHandle(w, q, ts)
    PROVE  AgreeInv'
  <1> DEFINE x == [Idle EXCEPT !.pc = "flush", !.path = q, !.new = ts]
  <1>1. x.pc = "flush" /\ x.path = q /\ x.new = ts
    BY DEF Idle
  <1> HIDE DEF x
  <1>2. /\ op[w].pc = "idle" \/ op[w].path = q
        /\ AppendTagEvent(q, ts, FALSE) /\ op' = [op EXCEPT ![w] = x]
        /\ Restart(w, q, FALSE) /\ UNCHANGED <<index, filer, notices, late>>
        /\ w \in Writers /\ BaseInv'
    BY DEF SetOnHandle, Writers, SyncLogInv, x
  <1>3. RacedElsewhere(q)
    BY <1>2, RestartFacts DEF RacedElsewhere
  <1>4. Aside(w, q) /\ op'[w] = x
    BY <1>1, <1>2, <1>3, AppendAside
  <1>5. ASSUME raced'[q] = {} PROVE Good(q)'
    <2>1. Causes(w, q, FALSE) = {}
      BY <1>2, <1>5, RestartFacts
    <2>2. (\A v \in Writers : v # w => ~Busy(v, q)) /\ q \notin notices[w]
      BY <1>2, <2>1, NoCause
    <2>3. \A v \in Writers : v # w => ~Busy(v, q)'
      BY <1>4, <2>2 DEF Aside, Busy
    <2>4. Follows(q, ts)'
      BY <1>2, AppendFollows
    <2>5. Follows(q, op[w].new)'
      BY <1>1, <1>4, <2>4 DEF Follows
    <2>6. Busy(w, q)' /\ Change(w, q)'
      BY <1>1, <1>2, <1>4, <2>2, <2>5 DEF Busy, Change
    <2> QED BY <1>2, <2>3, <2>6, OneBusy
  <1> QED
    BY <1>2, <1>4, <1>5, AgreeOne

LEMMA FlushAgrees ==
    ASSUME SyncTypeOK, AgreeInv, NEW w \in Mounts, FlushHandle(w)
    PROVE  AgreeInv'
  <1>0. w \in Writers /\ op[w].pc = "flush" /\ Idle.pc = "idle"
    BY DEF FlushHandle, Writers, Idle
  <1>1. PICK q \in Paths, ts \in TagSet : q = op[w].path /\ ts = op[w].new
    BY <1>0, OpType
  <1>2. /\ Save(w, q, ts) /\ op' = [op EXCEPT ![w] = Idle]
        /\ UNCHANGED <<index, raced, log, checkpoint, logLock, rp, late>>
    BY <1>1 DEF FlushHandle, logVars
  <1>3. Aside(w, q) /\ op'[w] = Idle
    <2>1. Elsewhere(q)
      BY <1>2, SaveFacts DEF Elsewhere
    <2> QED BY <1>0, <1>1, <1>2, <2>1, QuietAside
  <1>4. ASSUME raced'[q] = {} PROVE Good(q)'
    <2>1. Good(q) /\ Busy(w, q)
      BY <1>0, <1>1, <1>2, <1>4 DEF AgreeInv, Busy
    <2>2. Change(w, q) /\ \A v \in Writers : v # w => ~Busy(v, q)
      BY <1>0, <2>1, Alone
    <2>3. Follows(q, ts)
      BY <1>0, <1>1, <2>2 DEF Change
    <2>4. Follows(q, ts)' /\ filer'[q] = ts
      BY <1>2, <2>3, StillKept, SaveFacts DEF Still, Kept
    <2>5. Follows(q, filer[q])'
      BY <2>4 DEF Follows
    <2>6. \A v \in Writers : ~Busy(v, q)'
      BY <1>0, <1>3, <2>2 DEF Aside, Busy
    <2> QED BY <2>5, <2>6, NoneBusy
  <1> QED
    BY <1>0, <1>3, <1>4, AgreeOne

LEMMA SetOtherAgrees ==
    ASSUME SyncTypeOK, CacheInv, AgreeInv, NEW w \in Mounts, NEW q \in Paths, SetOther(w, q)
    PROVE  AgreeInv'
  <1>1. /\ op[w].pc = "idle" /\ Save(w, q, cached[w][q]) /\ w \in Writers /\ op' = op
        /\ UNCHANGED <<log, checkpoint, logLock, rp, late, index>>
    BY DEF SetOther, logVars, Writers
  <1>2. op' = [op EXCEPT ![w] = op[w]]
    BY <1>1 DEF SyncTypeOK
  <1>3. Aside(w, q)
    <2>1. \A p \in Paths : p # q => raced'[p] = raced[p]
      BY DEF SetOther, SyncTypeOK
    <2>2. Elsewhere(q)
      BY <1>1, <2>1, SaveFacts DEF Elsewhere
    <2> QED BY <1>1, <1>2, <2>2, QuietAside
  <1>4. ASSUME raced'[q] = {} PROVE Good(q)'
    <2>1. /\ raced[q] = {} /\ q \notin notices[w]
          /\ \A m \in Mounts : m # w => ~(op[m].pc = "flush" /\ op[m].path = q)
      BY <1>4 DEF SetOther, SyncTypeOK
    <2>2. filer'[q] = filer[q] /\ filer[q] \in TagSet /\ \A v \in Writers : op[v].new \in TagSet
      BY <1>1, <2>1, SaveFacts, OpType DEF CacheInv, SyncTypeOK
    <2>3. Good(q) /\ Kept(q)
      BY <1>1, <2>1, StillKept DEF AgreeInv, Still
    <2>4. \A v \in Writers : Busy(v, q) => op'[v] = op[v]
      BY <1>1
    <2>5. \A v \in Writers : Busy(v, q)' => Busy(v, q)
      BY <1>1 DEF Busy
    <2>6. \A m \in Mounts : Busy(m, q) /\ op[m].pc = "flush" /\ q \in notices'[m] => q \in notices[m]
      BY <1>1, <2>1 DEF Busy
    <2>7. ~Unmarked(q) => index'[q] = index[q]
      BY <1>1
    <2> QED BY <2>2, <2>3, <2>4, <2>5, <2>6, <2>7, GoodKept
  <1> QED
    BY <1>1, <1>3, <1>4, AgreeOne

LEMMA HearAgrees ==
    ASSUME SyncTypeOK, AgreeInv, NEW w \in Mounts, NEW q \in Paths, HearNotice(w, q)
    PROVE  AgreeInv'
  <1> SUFFICES ASSUME NEW p \in Paths, raced'[p] = {} PROVE Good(p)'
    BY DEF AgreeInv
  <1>1. /\ q \in notices[w] /\ w \in Writers
        /\ UNCHANGED <<log, checkpoint, logLock, rp, late, index, filer, raced>>
    BY DEF HearNotice, logVars, Writers
  <1>2. Good(p) /\ Kept(p)
    BY <1>1, StillKept DEF AgreeInv, Still
  <1>3. filer[p] \in TagSet /\ \A v \in Writers : op[v].new \in TagSet
    BY OpType DEF SyncTypeOK
  <1>4. /\ \A v \in Writers : v # w => op'[v] = op[v]
        /\ op'[w].pc = op[w].pc /\ op'[w].path = op[w].path
        /\ op'[w] = op[w] \/ (op[w].pc = "flush" /\ op[w].path = q)
    <2>1. CASE op[w].pc = "flush" /\ op[w].path = q
      <3>1. op' = [op EXCEPT ![w].new = filer[q]]
        BY <2>1 DEF HearNotice
      <3>2. op[w] \in [pc : {"event", "flush", "set", "index", "rebuild"},
                        path : Paths, old : TagSet, new : TagSet]
        BY <1>1, <2>1 DEF SyncTypeOK, Op, Idle
      <3>3. op'[w] = [op[w] EXCEPT !.new = filer[q]] /\ \A v \in Writers : v # w => op'[v] = op[v]
        BY <1>1, <3>1 DEF SyncTypeOK
      <3> QED BY <2>1, <3>2, <3>3
    <2>2. CASE ~(op[w].pc = "flush" /\ op[w].path = q)
      BY <2>2 DEF HearNotice
    <2> QED BY <2>1, <2>2
  <1>5. ASSUME op'[w] # op[w], Busy(w, p) PROVE FALSE
    <2>1. op[w].pc = "flush" /\ p = q
      BY <1>4, <1>5 DEF Busy
    <2>2. Change(w, p)
      BY <1>1, <1>2, <1>5 DEF Good
    <2> QED BY <1>1, <2>1, <2>2 DEF Change
  <1>6. \A v \in Writers : Busy(v, p) => op'[v] = op[v]
    BY <1>4, <1>5
  <1>7. \A v \in Writers : Busy(v, p)' => Busy(v, p)
    BY <1>4 DEF Busy
  <1>8. \A m \in Mounts : Busy(m, p) /\ op[m].pc = "flush" /\ p \in notices'[m] => p \in notices[m]
    BY DEF HearNotice, SyncTypeOK
  <1>9. ~Unmarked(p) => index'[p] = index[p]
    BY <1>1
  <1>10. filer'[p] = filer[p]
    BY <1>1
  <1> QED
    BY <1>2, <1>3, <1>6, <1>7, <1>8, <1>9, <1>10, GoodKept

\* The index has what it should follow once nothing is left to replay.
LEMMA FollowsNow ==
    ASSUME SyncLogInv, NEW p, NEW t, Follows(p, t), ~Unmarked(p)
    PROVE  index[p] = t
  <1>1. DOMAIN log = 1 .. Len(log)
    BY DEF SyncLogInv, BaseInv, TypeOK
  <1>2. \A i \in 1 .. Len(log) : ~(LastLine(log, i, p) /\ ~log[i].updated)
    BY <1>1 DEF Unmarked, LastLine
  <1> QED
    BY <1>2 DEF Follows

LEMMA ToolNotMount ==
    ASSUME NEW w \in Tools \cup Uis
    PROVE  w \notin Mounts /\ w \in Writers
  BY WritersAssumption DEF Writers

LEMMA GetTagsAgrees ==
    ASSUME SyncTypeOK, SyncLogInv, AgreeInv, NEW w \in Tools \cup Uis, NEW cmd,
           NEW q \in Paths, NEW ts, GetTags(w, cmd, q, ts)
    PROVE  AgreeInv'
  <1> DEFINE x == [Idle EXCEPT !.pc = "set", !.path = q, !.old = filer[q],
                               !.new = Merge(cmd, filer[q], ts)]
  <1>1. x.pc = "set" /\ x.path = q /\ x.old = filer[q]
    BY DEF Idle
  <1> HIDE DEF x
  <1>2. /\ op[w].pc = "idle" /\ op' = [op EXCEPT ![w] = x] /\ w \in Writers /\ w \notin Mounts
        /\ UNCHANGED <<log, checkpoint, logLock, rp, late, index, filer, notices>>
    BY ToolNotMount DEF GetTags, logVars, x
  <1>3. /\ \A p \in Paths : p # q => raced'[p] = raced[p]
        /\ raced'[q] = {} => Causes(w, q, TRUE) = {}
        /\ raced'[q] = {} /\ w \notin Uis => raced[q] = {}
    <2>1. CASE w \in Uis
      <3>1. Restart(w, q, TRUE)
        BY <2>1 DEF GetTags
      <3> QED BY <2>1, <3>1, RestartFacts
    <2>2. CASE w \notin Uis
      <3> DEFINE c == Causes(w, q, TRUE)
      <3>1. raced' = [raced EXCEPT ![q] = @ \cup c]
        BY <2>2 DEF GetTags
      <3> HIDE DEF c
      <3>2. raced'[q] = {} => c = {} /\ raced[q] = {}
        BY <3>1 DEF SyncTypeOK
      <3>3. \A p \in Paths : p # q => raced'[p] = raced[p]
        BY <3>1 DEF SyncTypeOK
      <3> QED BY <3>2, <3>3 DEF c
    <2> QED BY <2>1, <2>2
  <1>4. Aside(w, q) /\ op'[w] = x
    <2>1. Elsewhere(q)
      BY <1>2, <1>3 DEF Elsewhere
    <2> QED BY <1>1, <1>2, <2>1, QuietAside
  <1>5. ASSUME raced'[q] = {} PROVE Good(q)'
    <2>1. (\A v \in Writers : v # w => ~Busy(v, q)) /\ ~Unmarked(q)
      BY <1>2, <1>3, <1>5, NoCause
    <2>2. \A v \in Writers : v # w => ~Busy(v, q)'
      BY <1>4, <2>1 DEF Aside, Busy
    <2>3. ~Unmarked(q)'
      BY <1>2, <2>1 DEF Unmarked
    <2>4. w \notin Uis => index[q] = filer[q]
      <3> SUFFICES ASSUME w \notin Uis PROVE index[q] = filer[q]
        OBVIOUS
      <3>1. Good(q)
        BY <1>3, <1>5 DEF AgreeInv
      <3>2. \A v \in Writers : ~Busy(v, q)
        BY <1>2, <2>1 DEF Busy
      <3>3. Follows(q, filer[q])
        BY <3>1, <3>2 DEF Good
      <3> QED BY <2>1, <3>3, FollowsNow
    <2>5. Busy(w, q)' /\ Change(w, q)'
      BY <1>1, <1>2, <1>4, <2>3, <2>4 DEF Busy, Change
    <2> QED BY <1>2, <2>2, <2>5, OneBusy
  <1> QED
    BY <1>2, <1>4, <1>5, AgreeOne

LEMMA SetTagsAgrees ==
    ASSUME SyncTypeOK, AgreeInv, NEW w \in Tools \cup Uis, SetTags(w)
    PROVE  AgreeInv'
  <1>0. w \in Writers /\ w \notin Mounts /\ op[w].pc = "set"
    BY ToolNotMount DEF SetTags
  <1>1. PICK q \in Paths, ts \in TagSet : q = op[w].path /\ ts = op[w].new
    BY <1>0, OpType
  <1> DEFINE x == [op[w] EXCEPT !.pc = "index"]
  <1>2. x.pc = "index" /\ x.path = q /\ x.new = ts /\ x.old = op[w].old
    <2>1. op[w] \in [pc : {"event", "flush", "set", "index", "rebuild"},
                      path : Paths, old : TagSet, new : TagSet]
      BY <1>0 DEF SyncTypeOK, Op, Idle
    <2> QED BY <1>1, <2>1
  <1>3. /\ Save(w, q, ts) /\ op' = [op EXCEPT ![w] = x]
        /\ UNCHANGED <<index, raced, log, checkpoint, logLock, rp, late>>
    BY <1>0, <1>1 DEF SetTags, logVars, SyncTypeOK
  <1> HIDE DEF x
  <1>4. Aside(w, q) /\ op'[w] = x
    <2>1. Elsewhere(q)
      BY <1>3, SaveFacts DEF Elsewhere
    <2> QED BY <1>0, <1>1, <1>2, <1>3, <2>1, QuietAside
  <1>5. ASSUME raced'[q] = {} PROVE Good(q)'
    <2>1. Good(q) /\ Busy(w, q)
      BY <1>0, <1>1, <1>3, <1>5 DEF AgreeInv, Busy
    <2>2. Change(w, q) /\ \A v \in Writers : v # w => ~Busy(v, q)
      BY <1>0, <2>1, Alone
    <2>3. \A v \in Writers : v # w => ~Busy(v, q)'
      BY <1>4, <2>2 DEF Aside, Busy
    <2>4. ~Unmarked(q)'
      BY <1>0, <1>3, <2>2 DEF Change, Unmarked
    <2>5. Busy(w, q)' /\ Change(w, q)'
      BY <1>0, <1>1, <1>2, <1>3, <1>4, <2>2, <2>4, SaveFacts DEF Busy, Change
    <2> QED BY <1>0, <2>3, <2>5, OneBusy
  <1> QED
    BY <1>0, <1>4, <1>5, AgreeOne

LEMMA UpdateIndexAgrees ==
    ASSUME SyncTypeOK, AgreeInv, NEW w \in Tools \cup Uis, UpdateIndex(w)
    PROVE  AgreeInv'
  <1>0. w \in Writers /\ w \notin Mounts /\ op[w].pc = "index"
    BY ToolNotMount DEF UpdateIndex
  <1>1. PICK q \in Paths, ts \in TagSet : q = op[w].path /\ ts = op[w].new
    BY <1>0, OpType
  <1> DEFINE x == [op[w] EXCEPT !.pc = "event"]
  <1>2. x.pc = "event" /\ x.path = q /\ x.new = ts
    <2>1. op[w] \in [pc : {"event", "flush", "set", "index", "rebuild"},
                      path : Paths, old : TagSet, new : TagSet]
      BY <1>0 DEF SyncTypeOK, Op, Idle
    <2> QED BY <1>1, <2>1
  <1>3. /\ op' = [op EXCEPT ![w] = x]
        /\ UNCHANGED <<filer, notices, raced, log, checkpoint, logLock, rp, late>>
    BY <1>0 DEF UpdateIndex, logVars, SyncTypeOK
  <1> HIDE DEF x
  <1>4. /\ \A p \in Paths : p # q => index'[p] = index[p]
        /\ w \in Uis => index'[q] = ts
        /\ w \notin Uis /\ index[q] = op[w].old => index'[q] = ts
    <2>1. index' = [index EXCEPT ![q] =
                   IF w \in Uis THEN ts
                   ELSE (@ \ (op[w].old \ ts)) \cup (ts \ op[w].old)]
      BY <1>1 DEF UpdateIndex
    <2>2. (op[w].old \ (op[w].old \ ts)) \cup (ts \ op[w].old) = ts
      OBVIOUS
    <2> QED BY <2>1, <2>2 DEF SyncTypeOK
  <1>5. Aside(w, q) /\ op'[w] = x
    <2>1. Elsewhere(q)
      BY <1>3, <1>4 DEF Elsewhere
    <2> QED BY <1>0, <1>1, <1>2, <1>3, <2>1, QuietAside
  <1>6. ASSUME raced'[q] = {} PROVE Good(q)'
    <2>1. Good(q) /\ Busy(w, q)
      BY <1>0, <1>1, <1>3, <1>6 DEF AgreeInv, Busy
    <2>2. Change(w, q) /\ \A v \in Writers : v # w => ~Busy(v, q)
      BY <1>0, <2>1, Alone
    <2>3. \A v \in Writers : v # w => ~Busy(v, q)'
      BY <1>5, <2>2 DEF Aside, Busy
    <2>4. ~Unmarked(q)'
      BY <1>0, <1>3, <2>2 DEF Change, Unmarked
    <2>5. Busy(w, q)' /\ Change(w, q)'
      BY <1>0, <1>1, <1>2, <1>3, <1>4, <1>5, <2>2, <2>4 DEF Busy, Change
    <2> QED BY <1>0, <2>3, <2>5, OneBusy
  <1> QED
    BY <1>0, <1>5, <1>6, AgreeOne

LEMMA AppendToolAgrees ==
    ASSUME SyncTypeOK, SyncLogInv, SyncLogInv', Grows, AgreeInv, NEW w \in Tools \cup Uis,
           AppendToolEvent(w)
    PROVE  AgreeInv'
  <1>0. w \in Writers /\ w \notin Mounts /\ op[w].pc = "event" /\ Idle.pc = "idle" /\ BaseInv'
    BY ToolNotMount DEF AppendToolEvent, Idle, SyncLogInv
  <1>1. PICK q \in Paths, ts \in TagSet : q = op[w].path /\ ts = op[w].new
    BY <1>0, OpType
  <1>2. /\ AppendTagEvent(q, ts, TRUE) /\ op' = [op EXCEPT ![w] = Idle]
        /\ UNCHANGED <<index, filer, notices, late, raced>>
    BY <1>1 DEF AppendToolEvent
  <1>3. Aside(w, q) /\ op'[w] = Idle
    <2>1. RacedElsewhere(q)
      BY <1>2 DEF RacedElsewhere
    <2> QED BY <1>0, <1>1, <1>2, <2>1, AppendAside
  <1>4. ASSUME raced'[q] = {} PROVE Good(q)'
    <2>1. Good(q) /\ Busy(w, q)
      BY <1>0, <1>1, <1>2, <1>4 DEF AgreeInv, Busy
    <2>2. Change(w, q) /\ \A v \in Writers : v # w => ~Busy(v, q)
      BY <1>0, <2>1, Alone
    <2>3. filer[q] = index[q] /\ ~Unmarked(q)
      BY <1>0, <1>1, <2>2 DEF Change
    <2>4. ~Unmarked(q)'
      BY <1>0, <1>2, <2>3, AppendMarked
    <2>5. Follows(q, filer[q])'
      BY <1>2, <2>3, <2>4 DEF Follows
    <2>6. \A v \in Writers : ~Busy(v, q)'
      BY <1>0, <1>3, <2>2 DEF Aside, Busy
    <2> QED BY <2>5, <2>6, NoneBusy
  <1> QED
    BY <1>0, <1>3, <1>4, AgreeOne

LEMMA ReadForRebuildAgrees ==
    ASSUME SyncTypeOK, AgreeInv, NEW w \in Tools, NEW q \in Paths, ReadForRebuild(w, q)
    PROVE  AgreeInv'
  <1> DEFINE x == [Idle EXCEPT !.pc = "rebuild", !.path = q, !.new = filer[q]]
  <1>1. x.pc = "rebuild" /\ x.path = q /\ x.new = filer[q]
    BY DEF Idle
  <1> HIDE DEF x
  <1>2. /\ op[w].pc = "idle" /\ op' = [op EXCEPT ![w] = x] /\ w \in Writers /\ w \notin Mounts
        /\ Restart(w, q, TRUE)
        /\ UNCHANGED <<log, checkpoint, logLock, rp, late, index, filer, notices>>
    BY ToolNotMount DEF ReadForRebuild, logVars, x
  <1>3. /\ \A p \in Paths : p # q => raced'[p] = raced[p]
        /\ raced'[q] = {} => Causes(w, q, TRUE) = {}
    BY <1>2, RestartFacts
  <1>4. Aside(w, q) /\ op'[w] = x
    <2>1. Elsewhere(q)
      BY <1>2, <1>3 DEF Elsewhere
    <2> QED BY <1>1, <1>2, <2>1, QuietAside
  <1>5. ASSUME raced'[q] = {} PROVE Good(q)'
    <2>1. (\A v \in Writers : v # w => ~Busy(v, q)) /\ ~Unmarked(q)
      BY <1>2, <1>3, <1>5, NoCause
    <2>2. \A v \in Writers : v # w => ~Busy(v, q)'
      BY <1>4, <2>1 DEF Aside, Busy
    <2>3. ~Unmarked(q)'
      BY <1>2, <2>1 DEF Unmarked
    <2>4. Busy(w, q)' /\ Change(w, q)'
      BY <1>1, <1>2, <1>4, <2>3 DEF Busy, Change
    <2> QED BY <1>2, <2>2, <2>4, OneBusy
  <1> QED
    BY <1>2, <1>4, <1>5, AgreeOne

LEMMA RebuildAgrees ==
    ASSUME SyncTypeOK, AgreeInv, NEW w \in Tools, RebuildIndex(w)
    PROVE  AgreeInv'
  <1>0. w \in Writers /\ w \notin Mounts /\ op[w].pc = "rebuild" /\ Idle.pc = "idle"
    BY ToolNotMount DEF RebuildIndex, Idle
  <1>1. PICK q \in Paths, ts \in TagSet : q = op[w].path /\ ts = op[w].new
    BY <1>0, OpType
  <1>2. /\ index' = [index EXCEPT ![q] = ts] /\ op' = [op EXCEPT ![w] = Idle]
        /\ UNCHANGED <<filer, notices, raced, log, checkpoint, logLock, rp, late>>
    BY <1>1 DEF RebuildIndex, logVars
  <1>3. index'[q] = ts /\ \A p \in Paths : p # q => index'[p] = index[p]
    BY <1>2 DEF SyncTypeOK
  <1>4. Aside(w, q) /\ op'[w] = Idle
    <2>1. Elsewhere(q)
      BY <1>2, <1>3 DEF Elsewhere
    <2> QED BY <1>0, <1>1, <1>2, <2>1, QuietAside
  <1>5. ASSUME raced'[q] = {} PROVE Good(q)'
    <2>1. Good(q) /\ Busy(w, q)
      BY <1>0, <1>1, <1>2, <1>5 DEF AgreeInv, Busy
    <2>2. Change(w, q) /\ \A v \in Writers : v # w => ~Busy(v, q)
      BY <1>0, <2>1, Alone
    <2>3. filer[q] = ts /\ ~Unmarked(q)
      BY <1>0, <1>1, <2>2 DEF Change
    <2>4. ~Unmarked(q)'
      BY <1>2, <2>3 DEF Unmarked
    <2>5. Follows(q, filer[q])'
      BY <1>2, <1>3, <2>3, <2>4 DEF Follows
    <2>6. \A v \in Writers : ~Busy(v, q)'
      BY <1>0, <1>4, <2>2 DEF Aside, Busy
    <2> QED BY <2>5, <2>6, NoneBusy
  <1> QED
    BY <1>0, <1>4, <1>5, AgreeOne

LEMMA InterruptAgrees ==
    ASSUME SyncTypeOK, AgreeInv, NEW w \in Writers, Interrupt(w)
    PROVE  AgreeInv'
  <1>1. PICK q \in Paths : q = op[w].path
    BY OpType DEF Interrupt
  <1>2. /\ raced' = [raced EXCEPT ![q] = @ \cup {"interrupt"}] /\ op' = [op EXCEPT ![w] = Idle]
        /\ UNCHANGED <<filer, notices, index, log, checkpoint, logLock, rp, late>>
        /\ Idle.pc = "idle"
    BY <1>1 DEF Interrupt, Idle
  <1>3. raced'[q] # {} /\ \A p \in Paths : p # q => raced'[p] = raced[p]
    BY <1>2 DEF SyncTypeOK
  <1>4. Aside(w, q)
    <2>1. Elsewhere(q)
      BY <1>2, <1>3 DEF Elsewhere
    <2> QED BY <1>1, <1>2, <2>1, QuietAside
  <1> QED
    BY <1>3, <1>4, AgreeOne

-----------------------------------------------------------------------------
(* Every step *)

\* A writer saves tags, or a mount hears of them: whoever is behind has a notice.
LEMMA SaveCache ==
    ASSUME SyncTypeOK, CacheInv, NEW w, NEW q \in Paths, NEW ts, Save(w, q, ts)
    PROVE  CacheInv'
  <1> SUFFICES ASSUME NEW m \in Mounts, NEW p \in Paths, p \notin notices'[m]
               PROVE  cached'[m][p] = filer'[p]
    BY DEF CacheInv
  <1>1. p \notin notices[m]
    BY DEF Save
  <1>2. cached[m][p] = filer[p]
    BY <1>1 DEF CacheInv
  <1>3. CASE m = w
    BY <1>2, <1>3 DEF Save, SyncTypeOK
  <1>4. CASE m # w
    <2>1. p # q
      BY <1>4 DEF Save
    <2> QED BY <1>2, <1>4, <2>1 DEF Save, SyncTypeOK
  <1> QED
    BY <1>3, <1>4

LEMMA HearCache ==
    ASSUME SyncTypeOK, CacheInv, NEW w \in Mounts, NEW q \in Paths, HearNotice(w, q)
    PROVE  CacheInv'
  <1> SUFFICES ASSUME NEW m \in Mounts, NEW p \in Paths, p \notin notices'[m]
               PROVE  cached'[m][p] = filer'[p]
    BY DEF CacheInv
  <1>1. /\ filer' = filer /\ cached' = [cached EXCEPT ![w][q] = filer[q]]
        /\ notices' = [notices EXCEPT ![w] = @ \ {q}]
    BY DEF HearNotice
  <1>2. CASE m = w /\ p = q
    BY <1>1, <1>2 DEF SyncTypeOK
  <1>3. CASE ~(m = w /\ p = q)
    <2>1. p \notin notices[m]
      BY <1>1, <1>3 DEF SyncTypeOK
    <2>2. cached'[m][p] = cached[m][p]
      BY <1>1, <1>3 DEF SyncTypeOK
    <2> QED BY <1>1, <2>1, <2>2 DEF CacheInv
  <1> QED
    BY <1>2, <1>3

LEMMA SyncLogStep ==
    ASSUME SyncTypeOK, [SyncNext]_vars
    PROVE  LogStep
  <1>0. stops \in 0 .. MaxStops /\ MaxStops \in Nat
    BY BoundsAssumption DEF SyncTypeOK, TypeOK
  <1>1. ASSUME UNCHANGED logVars PROVE LogStep
    BY <1>0, <1>1 DEF LogStep, logVars
  <1>2. ASSUME NEW p \in Paths, NEW ts \in TagSet, NEW u \in BOOLEAN, AppendTagEvent(p, ts, u)
        PROVE  LogStep
    BY <1>2 DEF LogStep
  <1>3. CASE UNCHANGED vars
    BY <1>1, <1>3 DEF vars
  <1>4. ASSUME NEW w \in Mounts, MountNext(w) PROVE LogStep
    <2>1. w \in Writers
      BY DEF Writers
    <2>2. CASE AppendFuseEvent(w)
      BY <1>2, <2>1, <2>2, OpType DEF AppendFuseEvent
    <2>3. ASSUME NEW p \in Paths, NEW ts \in TagSet, SetOnHandle(w, p, ts) PROVE LogStep
      BY <1>2, <2>3 DEF SetOnHandle
    <2>4. CASE FlushHandle(w)
      BY <1>1, <2>4 DEF FlushHandle
    <2>5. ASSUME NEW p \in Paths, SetOther(w, p) \/ HearNotice(w, p) PROVE LogStep
      BY <1>1, <2>5 DEF SetOther, HearNotice
    <2>6. ASSUME NEW p \in Paths, NEW ts \in TagSet, SaveEntry(w, p, ts) PROVE LogStep
      BY <1>1, <2>6 DEF SaveEntry
    <2> QED BY <1>4, <2>2, <2>3, <2>4, <2>5, <2>6 DEF MountNext
  <1>5. ASSUME NEW w \in Tools \cup Uis, ToolNext(w) PROVE LogStep
    <2>1. w \in Writers
      BY DEF Writers
    <2>2. CASE AppendToolEvent(w)
      BY <1>2, <2>1, <2>2, OpType DEF AppendToolEvent
    <2>3. CASE SetTags(w) \/ UpdateIndex(w)
      BY <1>1, <2>3 DEF SetTags, UpdateIndex
    <2>4. ASSUME NEW cmd, NEW p, NEW ts, GetTags(w, cmd, p, ts) PROVE LogStep
      BY <1>1, <2>4 DEF GetTags
    <2> QED BY <1>5, <2>2, <2>3, <2>4 DEF ToolNext
  <1>6. ASSUME NEW w \in Tools, NEW p, RebuildIndex(w) \/ ReadForRebuild(w, p) PROVE LogStep
    BY <1>1, <1>6 DEF RebuildIndex, ReadForRebuild
  <1>7. ASSUME NEW w \in Writers, Interrupt(w) PROVE LogStep
    BY <1>0, <1>7 DEF Interrupt, LogStep
  <1>8. ASSUME NEW r \in Replayers,
               ReplayClear(r) \/ ReplayFill(r) \/ ReplayLock(r) \/ ReplayOther(r) \/ ReplayStop(r)
        PROVE  LogStep
    BY <1>8 DEF LogStep, ReplayClear, ReplayFill, ReplayLock, ReplayOther, ReplayStop
  <1> QED
    BY <1>3, <1>4, <1>5, <1>6, <1>7, <1>8 DEF SyncNext

CacheSame == UNCHANGED <<filer, notices, cached>>

LEMMA CacheStep ==
    ASSUME SyncTypeOK, CacheInv, [SyncNext]_vars
    PROVE  CacheInv'
  <1>1. ASSUME CacheSame PROVE CacheInv'
    BY <1>1 DEF CacheInv, CacheSame
  <1>2. ASSUME NEW w, NEW p \in Paths, NEW ts, Save(w, p, ts) PROVE CacheInv'
    BY <1>2, SaveCache
  <1>3. CASE UNCHANGED vars
    BY <1>1, <1>3 DEF vars, syncVars, CacheSame
  <1>4. ASSUME NEW w \in Mounts, MountNext(w) PROVE CacheInv'
    <2>1. w \in Writers
      BY DEF Writers
    <2>2. CASE AppendFuseEvent(w)
      BY <1>1, <2>2 DEF AppendFuseEvent, CacheSame
    <2>3. ASSUME NEW p \in Paths, NEW ts \in TagSet, SetOnHandle(w, p, ts) PROVE CacheInv'
      BY <1>1, <2>3 DEF SetOnHandle, CacheSame
    <2>4. CASE FlushHandle(w)
      BY <1>2, <2>1, <2>4, OpType DEF FlushHandle
    <2>5. ASSUME NEW p \in Paths, SetOther(w, p) PROVE CacheInv'
      BY <1>2, <2>5 DEF SetOther
    <2>6. ASSUME NEW p \in Paths, HearNotice(w, p) PROVE CacheInv'
      BY <2>6, HearCache
    <2>7. ASSUME NEW p \in Paths, NEW ts \in TagSet, SaveEntry(w, p, ts) PROVE CacheInv'
      BY <1>2, <2>7 DEF SaveEntry
    <2> QED BY <1>4, <2>2, <2>3, <2>4, <2>5, <2>6, <2>7 DEF MountNext
  <1>5. ASSUME NEW w \in Tools \cup Uis, ToolNext(w) PROVE CacheInv'
    <2>1. w \in Writers
      BY DEF Writers
    <2>2. CASE AppendToolEvent(w) \/ UpdateIndex(w)
      BY <1>1, <2>2 DEF AppendToolEvent, UpdateIndex, CacheSame
    <2>3. CASE SetTags(w)
      BY <1>2, <2>1, <2>3, OpType DEF SetTags
    <2>4. ASSUME NEW cmd, NEW p, NEW ts, GetTags(w, cmd, p, ts) PROVE CacheInv'
      BY <1>1, <2>4 DEF GetTags, CacheSame
    <2> QED BY <1>5, <2>2, <2>3, <2>4 DEF ToolNext
  <1>6. ASSUME NEW w \in Tools, NEW p, RebuildIndex(w) \/ ReadForRebuild(w, p) PROVE CacheInv'
    BY <1>1, <1>6 DEF RebuildIndex, ReadForRebuild, CacheSame
  <1>7. ASSUME NEW w \in Writers, Interrupt(w) PROVE CacheInv'
    BY <1>1, <1>7 DEF Interrupt, CacheSame
  <1>8. ASSUME NEW r \in Replayers,
               ReplayClear(r) \/ ReplayFill(r) \/ ReplayLock(r) \/ ReplayOther(r) \/ ReplayStop(r)
        PROVE  CacheInv'
    BY <1>1, <1>8
    DEF CacheSame, ReplayClear, ReplayFill, ReplayLock, ReplayOther, ReplayStop, syncVars
  <1> QED
    BY <1>3, <1>4, <1>5, <1>6, <1>7, <1>8 DEF SyncNext

LEMMA AgreeStep ==
    ASSUME SyncTypeOK, SyncLogInv, SyncLogInv', Grows, CacheInv, AgreeInv, [SyncNext]_vars
    PROVE  AgreeInv'
  <1>1. CASE UNCHANGED vars
    <2>1. \A p \in Paths : Kept(p)
      BY <1>1, StillKept DEF vars, logVars, syncVars, Still
    <2> QED BY <1>1, <2>1, ReplayAgrees DEF vars, syncVars
  <1>2. ASSUME NEW w \in Mounts, MountNext(w) PROVE AgreeInv'
    BY <1>2, SaveEntryAgrees, SetOnHandleAgrees, AppendFuseAgrees, FlushAgrees, SetOtherAgrees,
       HearAgrees DEF MountNext
  <1>3. ASSUME NEW w \in Tools \cup Uis, ToolNext(w) PROVE AgreeInv'
    BY <1>3, GetTagsAgrees, SetTagsAgrees, UpdateIndexAgrees, AppendToolAgrees DEF ToolNext
  <1>4. ASSUME NEW w \in Tools, NEW p \in Paths, ReadForRebuild(w, p) PROVE AgreeInv'
    BY <1>4, ReadForRebuildAgrees
  <1>5. ASSUME NEW w \in Tools, RebuildIndex(w) PROVE AgreeInv'
    BY <1>5, RebuildAgrees
  <1>6. ASSUME NEW w \in Writers, Interrupt(w) PROVE AgreeInv'
    BY <1>6, InterruptAgrees
  <1>7. ASSUME NEW r \in Replayers,
               ReplayClear(r) \/ ReplayFill(r) \/ ReplayLock(r) \/ ReplayOther(r) \/ ReplayStop(r)
        PROVE  AgreeInv'
    BY <1>7, ReplayStepAgrees
  <1> QED
    BY <1>1, <1>2, <1>3, <1>4, <1>5, <1>6, <1>7 DEF SyncNext

-----------------------------------------------------------------------------
(* Types *)

AllCauses == {"overlap", "unheard", "unmarked", "interrupt", "late"}

\* A writer's step whose parts are well typed.
LEMMA WriterType ==
    ASSUME SyncTypeOK, TypeOK', NEW w \in Writers, NEW x \in Op, op' = [op EXCEPT ![w] = x],
           filer' \in [Paths -> TagSet], index' \in [Paths -> TagSet],
           raced' \in [Paths -> SUBSET AllCauses], notices' \in [Mounts -> SUBSET Paths],
           cached' \in [Mounts -> [Paths -> TagSet]], late' = late
    PROVE  SyncTypeOK'
  <1>1. op' \in [Writers -> Op]
    BY DEF SyncTypeOK
  <1> QED
    BY <1>1 DEF SyncTypeOK, AllCauses

LEMMA SaveType ==
    ASSUME SyncTypeOK, NEW w, NEW q \in Paths, NEW ts \in TagSet, Save(w, q, ts)
    PROVE  /\ filer' \in [Paths -> TagSet] /\ notices' \in [Mounts -> SUBSET Paths]
           /\ cached' \in [Mounts -> [Paths -> TagSet]]
  <1>1. filer' \in [Paths -> TagSet]
    BY DEF Save, SyncTypeOK
  <1>2. notices' \in [Mounts -> SUBSET Paths]
    BY DEF Save, SyncTypeOK
  <1>3. ASSUME NEW m \in Mounts
        PROVE  (IF m = w THEN [cached[m] EXCEPT ![q] = ts] ELSE cached[m]) \in [Paths -> TagSet]
    BY DEF SyncTypeOK
  <1>4. cached' \in [Mounts -> [Paths -> TagSet]]
    BY <1>3 DEF Save
  <1> QED
    BY <1>1, <1>2, <1>4

LEMMA CausesType ==
    ASSUME NEW w, NEW q, NEW d \in BOOLEAN
    PROVE  Causes(w, q, d) \in SUBSET AllCauses
  BY DEF Causes, AllCauses

LEMMA RacedType ==
    ASSUME SyncTypeOK, NEW q \in Paths, NEW c \in SUBSET AllCauses,
           \/ raced' = [raced EXCEPT ![q] = @ \cup c]
           \/ raced' = [raced EXCEPT ![q] = IF c = {} THEN {} ELSE @ \cup c]
    PROVE  raced' \in [Paths -> SUBSET AllCauses]
  BY DEF SyncTypeOK, AllCauses

LEMMA RestartType ==
    ASSUME SyncTypeOK, NEW w, NEW q \in Paths, NEW d \in BOOLEAN, Restart(w, q, d)
    PROVE  raced' \in [Paths -> SUBSET AllCauses]
  <1>1. PICK c \in SUBSET AllCauses : c = Causes(w, q, d)
    BY CausesType
  <1>2. raced' = [raced EXCEPT ![q] = IF c = {} THEN {} ELSE @ \cup c]
    BY <1>1 DEF Restart
  <1> QED
    BY <1>2, RacedType

\* The records a writer goes through.
LEMMA OpTypes ==
    ASSUME NEW q \in Paths, NEW ts \in TagSet, NEW old \in TagSet
    PROVE  /\ Idle \in Op
           /\ [Idle EXCEPT !.pc = "event", !.path = q, !.new = ts] \in Op
           /\ [Idle EXCEPT !.pc = "flush", !.path = q, !.new = ts] \in Op
           /\ [Idle EXCEPT !.pc = "rebuild", !.path = q, !.new = ts] \in Op
           /\ [Idle EXCEPT !.pc = "set", !.path = q, !.old = old, !.new = ts] \in Op
  BY DEF Op, Idle, TagSet

LEMMA OpBusy ==
    ASSUME SyncTypeOK, NEW w \in Writers, op[w].pc # "idle"
    PROVE  /\ op[w] \in [pc : {"event", "flush", "set", "index", "rebuild"},
                         path : Paths, old : TagSet, new : TagSet]
           /\ [op[w] EXCEPT !.pc = "index"] \in Op
           /\ [op[w] EXCEPT !.pc = "event"] \in Op
           /\ \A ts \in TagSet : [op[w] EXCEPT !.new = ts] \in Op
  <1>1. op[w] \in [pc : {"event", "flush", "set", "index", "rebuild"},
                   path : Paths, old : TagSet, new : TagSet]
    BY DEF SyncTypeOK, Op, Idle
  <1> QED
    BY <1>1 DEF Op

LEMMA MountType ==
    ASSUME SyncTypeOK, TypeOK', NEW w \in Mounts, MountNext(w)
    PROVE  SyncTypeOK'
  <1>0. /\ w \in Writers /\ op[w] \in Op
        /\ filer \in [Paths -> TagSet] /\ index \in [Paths -> TagSet]
        /\ raced \in [Paths -> SUBSET AllCauses] /\ notices \in [Mounts -> SUBSET Paths]
        /\ cached \in [Mounts -> [Paths -> TagSet]] /\ {} \in TagSet
    BY OpType DEF SyncTypeOK, AllCauses, Writers, TagSet
  <1>1. ASSUME NEW q \in Paths, NEW ts \in TagSet, SaveEntry(w, q, ts) PROVE SyncTypeOK'
    <2>1. filer' \in [Paths -> TagSet] /\ notices' \in [Mounts -> SUBSET Paths]
          /\ cached' \in [Mounts -> [Paths -> TagSet]]
      BY <1>1, SaveType DEF SaveEntry
    <2>2. raced' \in [Paths -> SUBSET AllCauses]
      BY <1>1, RestartType DEF SaveEntry
    <2>3. PICK x \in Op : op' = [op EXCEPT ![w] = x]
      BY <1>0, <1>1, OpTypes DEF SaveEntry
    <2> QED BY <1>0, <1>1, <2>1, <2>2, <2>3, WriterType DEF SaveEntry
  <1>2. ASSUME NEW q \in Paths, NEW ts \in TagSet, SetOnHandle(w, q, ts) PROVE SyncTypeOK'
    <2>1. raced' \in [Paths -> SUBSET AllCauses]
      BY <1>2, RestartType DEF SetOnHandle
    <2>2. PICK x \in Op : op' = [op EXCEPT ![w] = x]
      BY <1>0, <1>2, OpTypes DEF SetOnHandle
    <2> QED BY <1>0, <1>2, <2>1, <2>2, WriterType DEF SetOnHandle
  <1>3. ASSUME AppendFuseEvent(w) PROVE SyncTypeOK'
    <2>1. PICK x \in Op : op' = [op EXCEPT ![w] = x]
      BY <1>0, <1>3 DEF AppendFuseEvent, Op
    <2> QED BY <1>0, <1>3, <2>1, WriterType DEF AppendFuseEvent
  <1>4. ASSUME FlushHandle(w) PROVE SyncTypeOK'
    <2>1. PICK q \in Paths, ts \in TagSet : q = op[w].path /\ ts = op[w].new
      BY <1>0, <1>4, OpType DEF FlushHandle
    <2>2. filer' \in [Paths -> TagSet] /\ notices' \in [Mounts -> SUBSET Paths]
          /\ cached' \in [Mounts -> [Paths -> TagSet]]
      BY <1>4, <2>1, SaveType DEF FlushHandle
    <2>3. PICK x \in Op : op' = [op EXCEPT ![w] = x]
      BY <1>0, <1>4 DEF FlushHandle, Op
    <2> QED BY <1>0, <1>4, <2>2, <2>3, WriterType DEF FlushHandle
  <1>5. ASSUME NEW q \in Paths, SetOther(w, q) PROVE SyncTypeOK'
    <2>1. PICK ts \in TagSet : ts = cached[w][q]
      BY <1>0
    <2>2. filer' \in [Paths -> TagSet] /\ notices' \in [Mounts -> SUBSET Paths]
          /\ cached' \in [Mounts -> [Paths -> TagSet]]
      BY <1>5, <2>1, SaveType DEF SetOther
    <2>3. raced' \in [Paths -> SUBSET AllCauses]
      BY <1>0, <1>5 DEF SetOther, AllCauses
    <2>4. op' = [op EXCEPT ![w] = op[w]]
      BY <1>5 DEF SetOther, SyncTypeOK
    <2> QED BY <1>0, <1>5, <2>2, <2>3, <2>4, WriterType DEF SetOther
  <1>6. ASSUME NEW q \in Paths, HearNotice(w, q) PROVE SyncTypeOK'
    <2>1. notices' \in [Mounts -> SUBSET Paths]
      BY <1>0, <1>6 DEF HearNotice
    <2>2. cached' \in [Mounts -> [Paths -> TagSet]]
      BY <1>0, <1>6 DEF HearNotice
    <2>3. PICK x \in Op : op' = [op EXCEPT ![w] = x]
      <3>1. CASE op[w].pc = "flush" /\ op[w].path = q
        <4>1. op' = [op EXCEPT ![w] = [op[w] EXCEPT !.new = filer[q]]]
          BY <1>0, <1>6, <3>1 DEF HearNotice, SyncTypeOK
        <4>2. [op[w] EXCEPT !.new = filer[q]] \in Op
          BY <1>0, <3>1, OpBusy
        <4> QED BY <4>1, <4>2
      <3>2. CASE ~(op[w].pc = "flush" /\ op[w].path = q)
        <4>1. op' = [op EXCEPT ![w] = op[w]]
          BY <1>6, <3>2 DEF HearNotice, SyncTypeOK
        <4> QED BY <1>0, <4>1
      <3> QED BY <3>1, <3>2
    <2> QED BY <1>0, <1>6, <2>1, <2>2, <2>3, WriterType DEF HearNotice
  <1> QED
    BY <1>1, <1>2, <1>3, <1>4, <1>5, <1>6 DEF MountNext

LEMMA MergeType ==
    ASSUME NEW cmd \in Commands, NEW old \in TagSet, NEW ts \in TagSet
    PROVE  Merge(cmd, old, ts) \in TagSet
  <1>1. cmd \in {"set", "add", "delete"}
    BY WritersAssumption
  <1>2. CASE cmd = "set"
    BY <1>2 DEF Merge, TagSet
  <1>3. CASE cmd = "add"
    BY <1>3 DEF Merge, TagSet
  <1>4. CASE cmd = "delete"
    BY <1>4 DEF Merge, TagSet
  <1> QED
    BY <1>1, <1>2, <1>3, <1>4

LEMMA ToolType ==
    ASSUME SyncTypeOK, TypeOK', NEW w \in Tools \cup Uis, ToolNext(w)
    PROVE  SyncTypeOK'
  <1>0. /\ w \in Writers /\ op[w] \in Op
        /\ filer \in [Paths -> TagSet] /\ index \in [Paths -> TagSet]
        /\ raced \in [Paths -> SUBSET AllCauses] /\ notices \in [Mounts -> SUBSET Paths]
        /\ cached \in [Mounts -> [Paths -> TagSet]]
    BY OpType DEF SyncTypeOK, AllCauses, Writers
  <1>1. ASSUME NEW cmd \in Commands, NEW q \in Paths, NEW ts \in TagSet, GetTags(w, cmd, q, ts)
        PROVE  SyncTypeOK'
    <2>1. raced' \in [Paths -> SUBSET AllCauses]
      <3>1. CASE w \in Uis
        BY <1>1, <3>1, RestartType DEF GetTags
      <3>2. CASE w \notin Uis
        <4>1. PICK c \in SUBSET AllCauses : c = Causes(w, q, TRUE)
          BY CausesType
        <4>2. raced' = [raced EXCEPT ![q] = @ \cup c]
          BY <1>1, <3>2, <4>1 DEF GetTags
        <4> QED BY <4>2, RacedType
      <3> QED BY <3>1, <3>2
    <2>2. PICK old \in TagSet, new \in TagSet : old = filer[q] /\ new = Merge(cmd, filer[q], ts)
      BY <1>0, MergeType
    <2>3. op' = [op EXCEPT ![w] = [Idle EXCEPT !.pc = "set", !.path = q, !.old = old, !.new = new]]
      BY <1>1, <2>2 DEF GetTags
    <2>4. PICK x \in Op : op' = [op EXCEPT ![w] = x]
      BY <2>3, OpTypes
    <2> QED BY <1>0, <1>1, <2>1, <2>4, WriterType DEF GetTags
  <1>2. ASSUME SetTags(w) PROVE SyncTypeOK'
    <2>1. PICK q \in Paths, ts \in TagSet : q = op[w].path /\ ts = op[w].new
      BY <1>0, <1>2, OpType DEF SetTags
    <2>2. filer' \in [Paths -> TagSet] /\ notices' \in [Mounts -> SUBSET Paths]
          /\ cached' \in [Mounts -> [Paths -> TagSet]]
      BY <1>2, <2>1, SaveType DEF SetTags
    <2>3. op' = [op EXCEPT ![w] = [op[w] EXCEPT !.pc = "index"]]
      BY <1>0, <1>2 DEF SetTags, SyncTypeOK
    <2>4. PICK x \in Op : op' = [op EXCEPT ![w] = x]
      BY <1>0, <1>2, <2>3, OpBusy DEF SetTags
    <2> QED BY <1>0, <1>2, <2>2, <2>4, WriterType DEF SetTags
  <1>3. ASSUME UpdateIndex(w) PROVE SyncTypeOK'
    <2>1. PICK q \in Paths, ts \in TagSet : q = op[w].path /\ ts = op[w].new
      BY <1>0, <1>3, OpType DEF UpdateIndex
    <2>2. index' = [index EXCEPT ![q] = IF w \in Uis THEN ts
                                       ELSE (@ \ (op[w].old \ ts)) \cup (ts \ op[w].old)]
      BY <1>3, <2>1 DEF UpdateIndex
    <2>3. index' \in [Paths -> TagSet]
      BY <1>0, <2>1, <2>2 DEF TagSet
    <2>4. op' = [op EXCEPT ![w] = [op[w] EXCEPT !.pc = "event"]]
      BY <1>0, <1>3 DEF UpdateIndex, SyncTypeOK
    <2>5. PICK x \in Op : op' = [op EXCEPT ![w] = x]
      BY <1>0, <1>3, <2>4, OpBusy DEF UpdateIndex
    <2> QED BY <1>0, <1>3, <2>3, <2>5, WriterType DEF UpdateIndex
  <1>4. ASSUME AppendToolEvent(w) PROVE SyncTypeOK'
    <2>1. PICK x \in Op : op' = [op EXCEPT ![w] = x]
      BY <1>0, <1>4 DEF AppendToolEvent, Op
    <2> QED BY <1>0, <1>4, <2>1, WriterType DEF AppendToolEvent
  <1> QED
    BY <1>1, <1>2, <1>3, <1>4 DEF ToolNext

LEMMA SyncTypeStep ==
    ASSUME SyncTypeOK, SyncLogInv, TypeOK', [SyncNext]_vars
    PROVE  SyncTypeOK'
  <1>0. /\ filer \in [Paths -> TagSet] /\ index \in [Paths -> TagSet] /\ op \in [Writers -> Op]
        /\ raced \in [Paths -> SUBSET AllCauses] /\ notices \in [Mounts -> SUBSET Paths]
        /\ cached \in [Mounts -> [Paths -> TagSet]] /\ late \in BOOLEAN
    BY DEF SyncTypeOK, AllCauses
  <1>1. CASE UNCHANGED vars
    BY <1>1 DEF vars, syncVars, SyncTypeOK
  <1>2. ASSUME NEW w \in Tools, NEW q \in Paths, ReadForRebuild(w, q) PROVE SyncTypeOK'
    <2>1. raced' \in [Paths -> SUBSET AllCauses]
      BY <1>2, RestartType DEF ReadForRebuild
    <2>2. PICK ts \in TagSet : ts = filer[q]
      BY <1>0
    <2>3. op' = [op EXCEPT ![w] = [Idle EXCEPT !.pc = "rebuild", !.path = q, !.new = ts]]
      BY <1>2, <2>2 DEF ReadForRebuild
    <2>4. PICK x \in Op : op' = [op EXCEPT ![w] = x]
      BY <2>3, OpTypes
    <2> QED BY <1>0, <1>2, <2>1, <2>4, WriterType, ToolNotMount DEF ReadForRebuild
  <1>3. ASSUME NEW w \in Tools, RebuildIndex(w) PROVE SyncTypeOK'
    <2>0. w \in Writers
      BY DEF Writers
    <2>1. PICK q \in Paths, ts \in TagSet : q = op[w].path /\ ts = op[w].new
      BY <1>3, <2>0, OpType DEF RebuildIndex
    <2>2. index' \in [Paths -> TagSet]
      BY <1>0, <1>3, <2>1 DEF RebuildIndex
    <2>3. PICK x \in Op : op' = [op EXCEPT ![w] = x]
      BY <1>3 DEF RebuildIndex, Op
    <2> QED BY <1>0, <1>3, <2>0, <2>2, <2>3, WriterType DEF RebuildIndex
  <1>4. ASSUME NEW w \in Writers, Interrupt(w) PROVE SyncTypeOK'
    <2>1. PICK q \in Paths : q = op[w].path
      BY <1>4, OpType DEF Interrupt
    <2>2. raced' \in [Paths -> SUBSET AllCauses]
      BY <1>0, <1>4, <2>1 DEF Interrupt, AllCauses
    <2>3. PICK x \in Op : op' = [op EXCEPT ![w] = x]
      BY <1>4 DEF Interrupt, Op
    <2> QED BY <1>0, <1>4, <2>2, <2>3, WriterType DEF Interrupt
  <1>5. ASSUME NEW r \in Replayers, ReplayClear(r) \/ ReplayFill(r) PROVE SyncTypeOK'
    <2>1. Line(r) \in 1 .. Len(log) /\ rp[r].data = log
      BY <1>5, LineType DEF ReplayClear, ReplayFill, ClearIndex, FillIndex, SyncLogInv
    <2>2. ReplayEvent(r).path \in Paths /\ ReplayEvent(r).tags \in TagSet /\ {} \in TagSet
      <3>1. log \in Seq(TagEvent) /\ TagSets = TagSet /\ {} \in TagSet
        BY WritersAssumption DEF SyncTypeOK, TypeOK, TagSet
      <3>2. ReplayEvent(r) \in TagEvent
        BY <2>1, <3>1 DEF ReplayEvent
      <3> QED BY <3>1, <3>2 DEF TagEvent
    <2>3. index' \in [Paths -> TagSet]
      BY <1>0, <1>5, <2>2 DEF ReplayClear, ReplayFill
    <2> QED BY <1>0, <1>5, <2>3 DEF ReplayClear, ReplayFill, SyncTypeOK, AllCauses
  <1>6. ASSUME NEW r \in Replayers, ReplayLock(r) PROVE SyncTypeOK'
    <2>1. late' \in BOOLEAN
      BY <1>6, Zenon DEF ReplayLock
    <2> QED BY <1>0, <1>6, <2>1 DEF ReplayLock, SyncTypeOK
  <1>7. ASSUME NEW r \in Replayers, ReplayOther(r) PROVE SyncTypeOK'
    BY <1>7 DEF ReplayOther, syncVars, SyncTypeOK
  <1>8. ASSUME NEW r \in Replayers, ReplayStop(r) PROVE SyncTypeOK'
    <2>1. raced' \in [Paths -> SUBSET AllCauses]
      BY <1>0, <1>8 DEF ReplayStop, AllCauses
    <2> QED BY <1>0, <1>8, <2>1 DEF ReplayStop, SyncTypeOK, AllCauses
  <1> QED
    BY <1>1, <1>2, <1>3, <1>4, <1>5, <1>6, <1>7, <1>8, MountType, ToolType DEF SyncNext

-----------------------------------------------------------------------------
(* The theorems *)

LEMMA SyncInitial ==
    ASSUME Init
    PROVE  SyncInv
  <1>0. LogInit /\ BaseInv
    BY BaseInit DEF Init
  <1>1. SyncTypeOK
    <2>1. {} \in TagSet /\ Idle \in Op
      BY DEF TagSet, Op
    <2> QED BY <1>0, <2>1 DEF Init, SyncTypeOK, BaseInv
  <1>2. /\ Len(log) = 0 /\ checkpoint = 0 /\ logLock = NoProc /\ part = FALSE
        /\ \A r \in Replayers : rp[r] = IdleReplay
    BY <1>0 DEF LogInit
  <1>3. IdleReplay.pc = "idle" /\ IdleReplay.start = 0
    BY DEF IdleReplay
  <1>4. SyncLogInv
    <2>1. Top(log) \in Nat
      BY <1>2, EndForm DEF Top
    <2>2. WholeLines /\ OffsetInv
      BY <1>2, <1>3, <2>1, BoundsAssumption DEF WholeLines, OffsetInv
    <2>3. ScanInv
      BY <1>2, <1>3, NoProcAssumption DEF ScanInv, ScanOK, Reading
    <2> QED BY <1>0, <2>2, <2>3 DEF SyncLogInv
  <1>5. CacheInv
    BY DEF Init, CacheInv
  <1>6. AgreeInv
    <2>1. \A p \in Paths : ~Unmarked(p)
      BY <1>0 DEF LogInit, Unmarked
    <2>2. \A p \in Paths : Follows(p, filer[p])
      BY <2>1 DEF Init, Follows
    <2>3. \A w \in Writers, p \in Paths : ~Busy(w, p)
      BY DEF Init, Busy, Idle
    <2> QED BY <2>2, <2>3 DEF AgreeInv, Good
  <1> QED
    BY <1>1, <1>4, <1>5, <1>6 DEF SyncInv

LEMMA SyncStep ==
    ASSUME SyncInv, [SyncNext]_vars
    PROVE  SyncInv'
  <1>1. SyncTypeOK /\ SyncLogInv /\ CacheInv /\ AgreeInv
    BY DEF SyncInv
  <1>2. SyncLogInv' /\ Grows
    BY <1>1, SyncLogStep, LogInvStep
  <1>3. SyncTypeOK'
    BY <1>1, <1>2, SyncTypeStep DEF SyncLogInv, BaseInv
  <1>4. CacheInv'
    BY <1>1, CacheStep
  <1>5. AgreeInv'
    BY <1>1, <1>2, AgreeStep
  <1> QED
    BY <1>2, <1>3, <1>4, <1>5 DEF SyncInv

\* The filer, the index, the log and the writers keep their types.
THEOREM SyncTypeCorrect == SyncSpec => []SyncTypeOK
  <1>1. Init => SyncInv
    BY SyncInitial
  <1>2. SyncInv /\ [SyncNext]_vars => SyncInv'
    BY SyncStep
  <1>3. SyncInv => SyncTypeOK
    BY DEF SyncInv
  <1> QED
    BY <1>1, <1>2, <1>3, PTL DEF SyncSpec

\* Once nobody changes tags and every event is marked as applied, the index has
\* the filer's tags of every path on which none of the listed races took place,
\* whatever the number of mounts, tools, requests, replayers and failures, as long
\* as the log has fewer lines than a line has bytes (LongLinesAssumption).
THEOREM IndexFollowsFiler == SyncSpec => []AgreesUnlessRaced
  <1>1. Init => SyncInv
    BY SyncInitial
  <1>2. SyncInv /\ [SyncNext]_vars => SyncInv'
    BY SyncStep
  <1>3. SyncInv => AgreesUnlessRaced
    <2> SUFFICES ASSUME SyncInv, Settled, NEW p \in Paths, raced[p] = {}
                 PROVE  index[p] = filer[p]
      BY DEF AgreesUnlessRaced
    <2>1. SyncLogInv /\ Good(p)
      BY DEF SyncInv, AgreeInv
    <2>2. \A w \in Writers : ~Busy(w, p)
      BY DEF Settled, Busy
    <2>3. Follows(p, filer[p]) /\ ~Unmarked(p)
      BY <2>1, <2>2 DEF Good, Settled, Unmarked
    <2> QED BY <2>1, <2>3, FollowsNow
  <1> QED
    BY <1>1, <1>2, <1>3, PTL DEF SyncSpec
=============================================================================
