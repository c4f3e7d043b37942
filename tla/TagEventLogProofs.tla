------------------------- MODULE TagEventLogProofs -------------------------
(***************************************************************************)
(* Proofs about TagEventLog, for any number of replayers, events and       *)
(* failures: types, that the log only grows, and, for logs of at most      *)
(* LineLen lines, that checkpoint and marks only pass applied events.      *)
(***************************************************************************)
EXTENDS TagEventLog, FiniteSetTheorems, SequenceTheorems, TLAPS

-----------------------------------------------------------------------------
(* Offsets *)

\* Offsets are sums of multiples of the lengths.
LEMMA Product ==
    ASSUME NEW a \in Nat, NEW b \in Nat, NEW c \in Nat
    PROVE  /\ a * c \in Nat
           /\ a <= b => a * c <= b * c
           /\ a < b => a * c + c <= b * c
  <1>1. a * c \in Nat
    OBVIOUS
  <1>2. \A d \in Nat : (a + d) * c = a * c + d * c /\ d * c \in Nat
    OBVIOUS
  <1>3. \A d \in Nat : d >= 1 => d * c >= c
    <2> SUFFICES ASSUME NEW d \in Nat, d >= 1 PROVE d * c >= c
      OBVIOUS
    <2>1. d - 1 \in Nat /\ (d - 1) * c \in Nat
      OBVIOUS
    <2>2. d * c = (d - 1) * c + c
      OBVIOUS
    <2> QED BY <2>1, <2>2
  <1>4. a <= b => b - a \in Nat /\ b = a + (b - a)
    OBVIOUS
  <1> QED BY <1>1, <1>2, <1>3, <1>4

FalseMarks(l, i) == {j \in 1 .. i : ~l[j].updated}
Joined(l, i) == {j \in 1 .. i : l[j].joined}

\* The offset after line i of l if no line were marked yet: a rewrite of the
\* log does not move it.
FullEnd(l, i) == i * LineLen + i + PartLen * Cardinality(Joined(l, i))

LEMMA Counts ==
    ASSUME NEW l, NEW i \in Nat
    PROVE  /\ IsFiniteSet(FalseMarks(l, i)) /\ Cardinality(FalseMarks(l, i)) \in 0 .. i
           /\ IsFiniteSet(Joined(l, i)) /\ Cardinality(Joined(l, i)) \in 0 .. i
  <1>1. IsFiniteSet(1 .. i) /\ Cardinality(1 .. i) = i
    BY FS_Interval
  <1>2. FalseMarks(l, i) \in SUBSET (1 .. i) /\ Joined(l, i) \in SUBSET (1 .. i)
    BY DEF FalseMarks, Joined
  <1> QED
    BY <1>1, <1>2, FS_Subset, FS_CardinalityType

\* The next line adds its length.
LEMMA CountNext ==
    ASSUME NEW l, NEW i \in Nat
    PROVE  /\ Cardinality(FalseMarks(l, i + 1)) =
                Cardinality(FalseMarks(l, i)) + IF l[i + 1].updated THEN 0 ELSE 1
           /\ Cardinality(Joined(l, i + 1)) =
                Cardinality(Joined(l, i)) + IF l[i + 1].joined THEN 1 ELSE 0
  <1>1. /\ IsFiniteSet(FalseMarks(l, i)) /\ IsFiniteSet(Joined(l, i))
        /\ Cardinality(FalseMarks(l, i)) \in Nat /\ Cardinality(Joined(l, i)) \in Nat
    BY Counts
  <1>2. /\ i + 1 \notin FalseMarks(l, i)
        /\ i + 1 \notin Joined(l, i)
    BY DEF FalseMarks, Joined
  <1>3. FalseMarks(l, i + 1) = IF l[i + 1].updated THEN FalseMarks(l, i)
                             ELSE FalseMarks(l, i) \cup {i + 1}
    BY DEF FalseMarks
  <1>4. Joined(l, i + 1) = IF l[i + 1].joined THEN Joined(l, i) \cup {i + 1}
                           ELSE Joined(l, i)
    BY DEF Joined
  <1>5. Cardinality(FalseMarks(l, i) \cup {i + 1}) = Cardinality(FalseMarks(l, i)) + 1
    BY <1>1, <1>2, FS_AddElement
  <1>6. Cardinality(Joined(l, i) \cup {i + 1}) = Cardinality(Joined(l, i)) + 1
    BY <1>1, <1>2, FS_AddElement
  <1> QED
    BY <1>1, <1>3, <1>4, <1>5, <1>6

LEMMA CountMono ==
    ASSUME NEW l, NEW i \in Nat, NEW j \in Nat, i <= j
    PROVE  /\ Cardinality(FalseMarks(l, i)) <= Cardinality(FalseMarks(l, j))
           /\ Cardinality(Joined(l, i)) <= Cardinality(Joined(l, j))
  <1>1. FalseMarks(l, i) \in SUBSET FalseMarks(l, j) /\ Joined(l, i) \in SUBSET Joined(l, j)
    BY DEF FalseMarks, Joined
  <1> QED
    BY <1>1, Counts, FS_Subset

LEMMA EndForm ==
    ASSUME NEW l, NEW i \in Nat
    PROVE  /\ End(l, i) = i * LineLen + Cardinality(FalseMarks(l, i))
                          + PartLen * Cardinality(Joined(l, i))
           /\ i * LineLen \in Nat
           /\ PartLen * Cardinality(Joined(l, i)) \in Nat
           /\ End(l, i) \in Nat
           /\ FullEnd(l, i) \in End(l, i) .. End(l, i) + i
  <1>1. LineLen \in Nat /\ PartLen \in Nat
    BY LineLenAssumption
  <1>2. Cardinality(Joined(l, i)) \in Nat /\ Cardinality(FalseMarks(l, i)) \in 0 .. i
    BY Counts
  <1>3. i * LineLen \in Nat /\ PartLen * Cardinality(Joined(l, i)) \in Nat
    BY <1>1, <1>2
  <1>4. End(l, i) = i * LineLen + Cardinality(FalseMarks(l, i))
                    + PartLen * Cardinality(Joined(l, i))
    BY DEF End, FalseMarks, Joined
  <1> HIDE DEF End
  <1> QED
    BY <1>2, <1>3, <1>4 DEF FullEnd

\* A line takes LineLen bytes at least.
LEMMA EndMono ==
    ASSUME NEW l, NEW i \in Nat, NEW j \in Nat
    PROVE  /\ i <= j => End(l, i) <= End(l, j) /\ FullEnd(l, i) <= FullEnd(l, j)
           /\ i < j => End(l, i) + LineLen <= End(l, j)
  <1>1. LineLen \in Nat /\ PartLen \in Nat
    BY LineLenAssumption
  <1>2. CASE i <= j
    <2> DEFINE ui == Cardinality(FalseMarks(l, i))  uj == Cardinality(FalseMarks(l, j))
               ji == Cardinality(Joined(l, i))    jj == Cardinality(Joined(l, j))
    <2>1. ui \in Nat /\ uj \in Nat /\ ji \in Nat /\ jj \in Nat /\ ui <= uj /\ ji <= jj
      BY <1>2, Counts, CountMono
    <2> HIDE DEF ui, uj, ji, jj
    <2>2. PartLen * ji <= PartLen * jj
      <3>1. ji * PartLen <= jj * PartLen
        BY <2>1, <1>1, Product
      <3>2. ji * PartLen = PartLen * ji /\ jj * PartLen = PartLen * jj
        BY <2>1, <1>1
      <3> QED BY <3>1, <3>2
    <2>3. i * LineLen <= j * LineLen /\ (i < j => i * LineLen + LineLen <= j * LineLen)
      BY <1>1, <1>2, Product
    <2>4. /\ End(l, i) = i * LineLen + ui + PartLen * ji
          /\ End(l, j) = j * LineLen + uj + PartLen * jj
      BY EndForm DEF ui, uj, ji, jj
    <2>5. /\ FullEnd(l, i) = i * LineLen + i + PartLen * ji
          /\ FullEnd(l, j) = j * LineLen + j + PartLen * jj
      BY DEF FullEnd, ji, jj
    <2>6. /\ i * LineLen \in Nat /\ j * LineLen \in Nat
          /\ PartLen * ji \in Nat /\ PartLen * jj \in Nat
      BY <1>1, <2>1
    <2> QED
      BY <1>1, <1>2, <2>1, <2>2, <2>3, <2>4, <2>5, <2>6
  <1> QED
    BY <1>2

\* The offsets of the event in the next line.
LEMMA EndNext ==
    ASSUME NEW l, NEW i \in Nat
    PROVE  End(l, i + 1) = End(l, i) + LineLen + (IF l[i + 1].updated THEN 0 ELSE 1)
                           + (IF l[i + 1].joined THEN PartLen ELSE 0)
  <1> DEFINE u == Cardinality(FalseMarks(l, i))      c == Cardinality(Joined(l, i))
             v == Cardinality(FalseMarks(l, i + 1))  d == Cardinality(Joined(l, i + 1))
  <1>1. LineLen \in Nat /\ PartLen \in Nat
    BY LineLenAssumption
  <1>2. /\ u \in Nat /\ c \in Nat
        /\ v = u + IF l[i + 1].updated THEN 0 ELSE 1
        /\ d = c + IF l[i + 1].joined THEN 1 ELSE 0
    BY Counts, CountNext
  <1>3. End(l, i) = i * LineLen + u + PartLen * c
    BY EndForm
  <1>4. End(l, i + 1) = (i + 1) * LineLen + v + PartLen * d
    BY EndForm, i + 1 \in Nat
  <1> HIDE DEF u, c, v, d
  <1>5. (i + 1) * LineLen = i * LineLen + LineLen
    BY <1>1
  <1>6. PartLen * (c + 1) = PartLen * c + PartLen
    BY <1>1, <1>2
  <1>7. i * LineLen \in Nat /\ PartLen * c \in Nat
    BY <1>1, <1>2
  <1>8. d = c \/ d = c + 1
    BY <1>2
  <1> QED
    BY <1>1, <1>2, <1>3, <1>4, <1>5, <1>6, <1>7, <1>8

\* Every offset inside the log is in a line of it.
LEMMA LineFound ==
    ASSUME NEW l \in Seq(TagEvent), NEW off \in Nat, off < Size(l)
    PROVE  /\ LineAt(l, off) \in 1 .. Len(l)
           /\ End(l, LineAt(l, off) - 1) <= off
           /\ off < End(l, LineAt(l, off))
  <1> DEFINE S == {i \in 0 .. Len(l) : End(l, i) <= off}
             m == Cardinality(S) - 1
  <1>1. Len(l) \in Nat
    OBVIOUS
  <1>2. IsFiniteSet(S) /\ Cardinality(S) \in Nat
    <2>1. IsFiniteSet(0 .. Len(l)) /\ S \in SUBSET (0 .. Len(l))
      BY <1>1, FS_Interval
    <2> QED BY <2>1, FS_Subset, FS_CardinalityType
  <1>3. 0 \in S
    <2>1. End(l, 0) = 0 * LineLen + Cardinality(FalseMarks(l, 0))
                      + PartLen * Cardinality(Joined(l, 0))
      BY EndForm
    <2>2. Cardinality(FalseMarks(l, 0)) = 0 /\ Cardinality(Joined(l, 0)) = 0
      BY Counts
    <2>3. End(l, 0) = 0
      BY <2>1, <2>2, LineLenAssumption
    <2> QED BY <2>3, <1>1
  <1>4. ASSUME NEW i \in S PROVE i <= m
    <2>1. i \in 0 .. Len(l) /\ i \in Nat
      BY <1>1
    <2>2. ASSUME NEW j \in 0 .. i
          PROVE  End(l, j) <= End(l, i) /\ End(l, j) \in Nat /\ End(l, i) \in Nat
      <3>1. j \in Nat /\ j <= i
        BY <2>1
      <3>2. End(l, j) <= End(l, i)
        BY <2>1, <3>1, EndMono
      <3> QED BY <2>1, <3>1, <3>2, EndForm
    <2>3. 0 .. i \in SUBSET S
      BY <1>1, <2>1, <2>2
    <2>4. Cardinality(0 .. i) = i + 1
      BY <2>1, FS_Interval
    <2>5. Cardinality(0 .. i) <= Cardinality(S)
      BY <2>3, <1>2, FS_Subset
    <2> QED BY <2>1, <2>4, <2>5, <1>2
  <1>5. m \in Nat
    BY <1>2, <1>3, <1>4
  <1>6. S = 0 .. m
    <2>1. S \in SUBSET (0 .. m)
      BY <1>4, <1>5, <1>1
    <2>2. Cardinality(0 .. m) = Cardinality(S) /\ IsFiniteSet(0 .. m)
      BY <1>2, <1>5, FS_Interval
    <2> QED BY <2>1, <2>2, FS_Subset
  <1> HIDE DEF m
  <1>7. m \in S /\ m + 1 \notin S
    <2> HIDE DEF S
    <2> QED BY <1>5, <1>6
  <1>8. m # Len(l)
    BY <1>1, <1>7, EndForm DEF Size
  <1>9. m + 1 \in 1 .. Len(l) /\ End(l, (m + 1) - 1) <= off /\ off < End(l, m + 1)
    BY <1>1, <1>5, <1>7, <1>8, EndForm
  <1> QED
    BY <1>9 DEF LineAt

\* Offsets depend on the lines before them only, and FullEnd not on the marks.
LEMMA EndAgrees ==
    ASSUME NEW l, NEW m, NEW i \in Nat,
           \A j \in 1 .. i : l[j].joined = m[j].joined
    PROVE  /\ FullEnd(l, i) = FullEnd(m, i)
           /\ (\A j \in 1 .. i : l[j].updated = m[j].updated) => End(l, i) = End(m, i)
  <1>1. Joined(l, i) = Joined(m, i)
    BY DEF Joined
  <1>2. (\A j \in 1 .. i : l[j].updated = m[j].updated) => FalseMarks(l, i) = FalseMarks(m, i)
    BY DEF FalseMarks
  <1> QED
    BY <1>1, <1>2, EndForm DEF FullEnd

-----------------------------------------------------------------------------
(* Types and the lock *)

\* A replay between reading the log and its return.
Reading(r) == rp[r].pc \in {"scan", "fill", "checkpoint"}

\* It holds the lock, so that what it has read is the log.
LockInv == \A r \in Replayers : Reading(r) => logLock = r /\ rp[r].data = log

\* store.Set is between its halves for an event the replay has read whole.
FillInv == \A r \in Replayers :
    rp[r].pc = "fill" => rp[r].offset < Size(rp[r].data) /\ Whole(r)

BaseInv == TypeOK /\ LockInv /\ FillInv

LEMMA IdleType == IdleReplay \in Replay
  BY DEF IdleReplay, Replay

\* Where a replay stands when it has read a line.
LEMMA LineType ==
    ASSUME BaseInv, NEW r \in Replayers, More(r) \/ rp[r].pc = "fill"
    PROVE  /\ Line(r) \in 1 .. Len(log)
           /\ End(log, Line(r) - 1) <= rp[r].offset
           /\ rp[r].offset < End(log, Line(r))
           /\ End(log, Line(r)) \in Nat /\ End(log, Line(r) - 1) \in Nat
           /\ rp[r].data = log /\ logLock = r
  <1>1. rp[r] \in Replay /\ log \in Seq(TagEvent) /\ Len(log) \in Nat
    BY DEF BaseInv, TypeOK
  <1>2. rp[r].data = log /\ logLock = r /\ rp[r].offset < Size(log)
    BY DEF BaseInv, LockInv, FillInv, Reading, More
  <1>3. rp[r].offset \in Nat
    BY <1>1 DEF Replay
  <1>4. /\ Line(r) \in 1 .. Len(log)
        /\ End(log, Line(r) - 1) <= rp[r].offset
        /\ rp[r].offset < End(log, Line(r))
    BY <1>1, <1>2, <1>3, LineFound DEF Line
  <1> QED
    BY <1>1, <1>2, <1>4, EndForm

\* What a replay leaves when it returns.
LEMMA ReturnBase ==
    ASSUME BaseInv, NEW r \in Replayers, Return(r),
           log' \in Seq(TagEvent), Len(log') = Len(log), log' # log => logLock = r,
           UNCHANGED <<part, checkpoint, applied>>, stops' \in 0 .. MaxStops
    PROVE  BaseInv'
  <1>1. TypeOK'
    BY IdleType DEF BaseInv, TypeOK, Return
  <1>2. ASSUME NEW s \in Replayers, rp'[s].pc # "idle"
        PROVE  s # r /\ rp'[s] = rp[s]
    BY <1>2, r \in Replayers DEF BaseInv, TypeOK, Return, IdleReplay
  <1>3. LockInv'
    BY <1>2, NoProcAssumption DEF BaseInv, LockInv, Reading, Return
  <1>4. FillInv'
    BY <1>2 DEF BaseInv, FillInv, Whole, Line
  <1> QED
    BY <1>1, <1>3, <1>4 DEF BaseInv

LEMMA BaseInit == LogInit => BaseInv
  <1> SUFFICES ASSUME LogInit PROVE BaseInv
    OBVIOUS
  <1>1. TypeOK
    <2>1. log \in Seq(TagEvent) /\ applied \in SUBSET (1 .. Len(log))
      BY EmptySeq DEF LogInit
    <2>2. rp \in [Replayers -> Replay]
      BY IdleType DEF LogInit
    <2>3. part \in BOOLEAN
      BY DEF LogInit
    <2> QED
      BY <2>1, <2>2, <2>3, BoundsAssumption DEF LogInit, TypeOK
  <1>2. LockInv /\ FillInv
    BY DEF LogInit, LockInv, FillInv, Reading, IdleReplay
  <1> QED
    BY <1>1, <1>2 DEF BaseInv

\* A rewrite keeps every line and sets marks only.
LEMMA MarkedType ==
    ASSUME NEW l \in Seq(TagEvent), NEW through
    PROVE  /\ Marked(l, through) \in Seq(TagEvent)
           /\ Len(Marked(l, through)) = Len(l)
           /\ \A i \in 1 .. Len(l) :
                /\ Marked(l, through)[i] = [l[i] EXCEPT !.updated = Marked(l, through)[i].updated]
                /\ Marked(l, through)[i].joined = l[i].joined
                /\ Marked(l, through)[i].updated = (l[i].updated \/ End(l, i) <= through)
  <1> DEFINE m == Marked(l, through)
  <1>1. Len(l) \in Nat /\ DOMAIN l = 1 .. Len(l)
    OBVIOUS
  <1>2. m = [i \in 1 .. Len(l) |-> IF End(l, i) <= through
                                   THEN [l[i] EXCEPT !.updated = TRUE] ELSE l[i]]
    BY <1>1 DEF Marked
  <1>3. \A i \in 1 .. Len(l) : l[i] \in TagEvent
    OBVIOUS
  <1>4. \A i \in 1 .. Len(l) :
          /\ m[i] \in TagEvent
          /\ m[i] = [l[i] EXCEPT !.updated = m[i].updated]
          /\ m[i].joined = l[i].joined
          /\ m[i].updated = (l[i].updated \/ End(l, i) <= through)
    BY <1>2, <1>3 DEF TagEvent
  <1>5. m \in Seq(TagEvent) /\ Len(m) = Len(l)
    <2>1. m \in [1 .. Len(l) -> TagEvent]
      BY <1>2, <1>4
    <2> HIDE DEF m
    <2>2. m \in Seq(TagEvent)
      BY <1>1, <2>1, SeqDef
    <2>3. Len(m) \in Nat /\ DOMAIN m = 1 .. Len(m) /\ DOMAIN m = 1 .. Len(l)
      BY <2>1, <2>2, LenProperties
    <2>4. Len(m) = Len(l)
      BY <1>1, <2>3, \A a, b \in Nat : 1 .. a = 1 .. b => a = b
    <2> QED
      BY <2>2, <2>4
  <1> QED
    BY <1>4, <1>5

\* A step of one replayer leaves the others alone.
LEMMA OthersKept ==
    ASSUME BaseInv, NEW r \in Replayers, NEW x \in Replay, rp' = [rp EXCEPT ![r] = x],
           UNCHANGED <<log, part, stops>>,
           checkpoint' \in Nat, applied' \in SUBSET (1 .. Len(log)),
           logLock' = logLock \/ (logLock = NoProc /\ logLock' = r),
           x.pc \in {"scan", "fill", "checkpoint"} => logLock' = r /\ x.data = log,
           x.pc = "fill" => /\ x.offset < Size(x.data)
                            /\ x.offset = Begin(x.data, LineAt(x.data, x.offset))
    PROVE  BaseInv'
  <1>1. TypeOK'
    BY DEF BaseInv, TypeOK
  <1>2. rp'[r] = x /\ \A s \in Replayers : s # r => rp'[s] = rp[s]
    BY DEF BaseInv, TypeOK
  <1>3. LockInv'
    BY <1>2, NoProcAssumption DEF BaseInv, LockInv, Reading
  <1>4. FillInv'
    BY <1>2 DEF BaseInv, FillInv, Whole, Line
  <1> QED
    BY <1>1, <1>3, <1>4 DEF BaseInv

LEMMA BaseStep ==
    ASSUME BaseInv, [Next]_logVars
    PROVE  BaseInv'
  <1>0. /\ log \in Seq(TagEvent) /\ Len(log) \in Nat /\ part \in BOOLEAN /\ checkpoint \in Nat
        /\ applied \in SUBSET (1 .. Len(log)) /\ rp \in [Replayers -> Replay]
    BY DEF BaseInv, TypeOK
  <1>a. \A r \in Replayers : /\ rp[r] \in Replay
                             /\ rp[r].start \in Nat /\ rp[r].offset \in Nat
                             /\ rp[r].endOffset \in Nat /\ rp[r].needsRewrite \in BOOLEAN
                             /\ rp[r].data \in Seq(TagEvent)
    BY <1>0 DEF Replay
  <1>1. CASE UNCHANGED logVars
    BY <1>1 DEF logVars, BaseInv, TypeOK, LockInv, Reading, FillInv, Whole, Line
  <1>2. ASSUME NEW p \in Paths, NEW ts \in TagSets, NEW updated \in BOOLEAN,
               AppendTagEvent(p, ts, updated)
        PROVE  BaseInv'
    <2> DEFINE e == [path |-> p, tags |-> ts, updated |-> updated, joined |-> part]
    <2>1. e \in TagEvent
      BY <1>0 DEF TagEvent
    <2>2. log' = Append(log, e) /\ log' \in Seq(TagEvent) /\ Len(log') = Len(log) + 1
      BY <1>0, <1>2, <2>1 DEF AppendTagEvent
    <2>3. applied' \in SUBSET (1 .. Len(log'))
      <3>1. applied' = applied \/ applied' = applied \cup {Len(log) + 1}
        BY <1>2 DEF AppendTagEvent
      <3>2. 1 .. Len(log) \in SUBSET (1 .. Len(log')) /\ Len(log) + 1 \in 1 .. Len(log')
        BY <1>0, <2>2
      <3> HIDE DEF e
      <3> QED BY <1>0, <3>1, <3>2
    <2>4. TypeOK'
      BY <1>2, <2>2, <2>3 DEF AppendTagEvent, BaseInv, TypeOK
    <2>5. \A r \in Replayers : ~Reading(r)
      BY <1>2, NoProcAssumption DEF AppendTagEvent, BaseInv, LockInv
    <2>6. LockInv' /\ FillInv'
      BY <1>2, <2>5 DEF AppendTagEvent, LockInv, FillInv, Reading
    <2> QED
      BY <2>4, <2>6 DEF BaseInv
  <1>3. CASE AppendFails
    <2>1. TypeOK'
      BY <1>3, BoundsAssumption DEF AppendFails, BaseInv, TypeOK
    <2>2. LockInv' /\ FillInv'
      BY <1>3 DEF AppendFails, BaseInv, LockInv, FillInv, Reading, Whole, Line
    <2> QED
      BY <2>1, <2>2 DEF BaseInv
  <1>4. ASSUME NEW r \in Replayers, ReadCheckpoint(r)
        PROVE  BaseInv'
    <2> DEFINE x == [IdleReplay EXCEPT !.pc = "lock", !.start = checkpoint,
                                       !.endOffset = checkpoint]
    <2>1. x \in Replay /\ x.pc = "lock"
      BY <1>0, IdleType DEF Replay
    <2> HIDE DEF x
    <2>2. rp' = [rp EXCEPT ![r] = x]
      BY <1>4 DEF ReadCheckpoint, x
    <2> QED
      BY <1>0, <1>4, <2>1, <2>2, OthersKept DEF ReadCheckpoint
  <1>5. ASSUME NEW r \in Replayers, LockAndRead(r)
        PROVE  BaseInv'
    <2> DEFINE x == [rp[r] EXCEPT !.pc = "scan", !.data = log,
                                  !.offset = IF rp[r].start > FileSize THEN 0 ELSE rp[r].start]
    <2>1. x \in Replay /\ x.pc = "scan" /\ x.data = log
      BY <1>0, <1>a DEF Replay
    <2> HIDE DEF x
    <2>2. rp' = [rp EXCEPT ![r] = x]
      BY <1>0, <1>5 DEF LockAndRead, x
    <2> QED
      BY <1>0, <1>5, <2>1, <2>2, OthersKept DEF LockAndRead
  <1>6. ASSUME NEW r \in Replayers, SkipLine(r) \/ SkipBlank(r)
        PROVE  BaseInv'
    <2>1. /\ rp[r].data = log /\ logLock = r /\ End(log, Line(r)) \in Nat
      BY <1>6, LineType DEF SkipLine, SkipBlank
    <2>2. PICK x : /\ x = [rp[r] EXCEPT !.pc = "checkpoint", !.offset = End(log, Line(r)),
                                        !.endOffset = x.endOffset]
                   /\ x.endOffset \in Nat
                   /\ rp' = [rp EXCEPT ![r] = x]
      <3>1. CASE SkipLine(r)
        <4> DEFINE x == [rp[r] EXCEPT !.pc = "checkpoint", !.offset = End(log, Line(r)),
                                      !.endOffset = End(log, Line(r))]
        <4>1. x.endOffset = End(log, Line(r))
          BY <1>a DEF Replay
        <4>2. rp' = [rp EXCEPT ![r] = x]
          BY <1>0, <2>1, <3>1 DEF SkipLine
        <4> QED BY <2>1, <4>1, <4>2
      <3>2. CASE SkipBlank(r)
        <4> DEFINE x == [rp[r] EXCEPT !.pc = "checkpoint", !.offset = End(log, Line(r))]
        <4>1. x.endOffset = rp[r].endOffset /\ x = [rp[r] EXCEPT !.pc = "checkpoint", !.offset = End(log, Line(r)),
                                        !.endOffset = x.endOffset]
          BY <1>a DEF Replay
        <4>2. rp' = [rp EXCEPT ![r] = x]
          BY <1>0, <2>1, <3>2 DEF SkipBlank
        <4> QED BY <1>a, <4>1, <4>2
      <3> QED BY <1>6, <3>1, <3>2
    <2>3. x \in Replay /\ x.pc = "checkpoint" /\ x.data = log
      BY <1>a, <2>1, <2>2 DEF Replay
    <2>4. UNCHANGED <<log, part, checkpoint, logLock, applied, stops>>
      BY <1>6 DEF SkipLine, SkipBlank
    <2> QED
      BY <1>0, <2>1, <2>2, <2>3, <2>4, OthersKept
  <1>7. ASSUME NEW r \in Replayers, ClearIndex(r)
        PROVE  BaseInv'
    <2>1. rp[r].data = log /\ logLock = r
      BY <1>7, LineType DEF ClearIndex
    <2> DEFINE x == [rp[r] EXCEPT !.pc = "fill"]
    <2>2. x \in Replay /\ x.pc = "fill" /\ x.data = rp[r].data /\ x.offset = rp[r].offset
      BY <1>a DEF Replay
    <2> HIDE DEF x
    <2>3. rp' = [rp EXCEPT ![r] = x]
      BY <1>0, <1>7 DEF ClearIndex, x
    <2>4. x.offset < Size(x.data) /\ x.offset = Begin(x.data, LineAt(x.data, x.offset))
      BY <1>7, <2>2 DEF ClearIndex, More, Whole, Line
    <2> QED
      BY <1>0, <1>7, <2>1, <2>2, <2>3, <2>4, OthersKept DEF ClearIndex
  <1>8. ASSUME NEW r \in Replayers, FillIndex(r)
        PROVE  BaseInv'
    <2>1. /\ rp[r].data = log /\ logLock = r /\ End(log, Line(r)) \in Nat
          /\ Line(r) \in 1 .. Len(log)
      BY <1>8, LineType DEF FillIndex
    <2> DEFINE x == [rp[r] EXCEPT !.pc = "checkpoint", !.offset = End(log, Line(r)),
                                  !.endOffset = End(log, Line(r)), !.needsRewrite = TRUE]
    <2>2. x \in Replay /\ x.pc = "checkpoint" /\ x.data = log
      BY <1>a, <2>1 DEF Replay
    <2> HIDE DEF x
    <2>3. rp' = [rp EXCEPT ![r] = x]
      BY <1>0, <1>8, <2>1 DEF FillIndex, x
    <2>4. applied' \in SUBSET (1 .. Len(log))
      BY <1>0, <1>8, <2>1 DEF FillIndex
    <2> QED
      BY <1>0, <1>8, <2>1, <2>2, <2>3, <2>4, OthersKept DEF FillIndex
  <1>9. ASSUME NEW r \in Replayers, WriteCheckpoint(r)
        PROVE  BaseInv'
    <2>1. rp[r].data = log /\ logLock = r
      BY <1>9 DEF WriteCheckpoint, BaseInv, LockInv, Reading
    <2> DEFINE x == [rp[r] EXCEPT !.pc = "scan"]
    <2>2. x \in Replay /\ x.pc = "scan" /\ x.data = log
      BY <1>a, <2>1 DEF Replay
    <2> HIDE DEF x
    <2>3. rp' = [rp EXCEPT ![r] = x]
      BY <1>0, <1>9 DEF WriteCheckpoint, x
    <2> QED
      BY <1>0, <1>a, <1>9, <2>1, <2>2, <2>3, OthersKept DEF WriteCheckpoint
  <1>10. ASSUME NEW r \in Replayers, Finish(r)
         PROVE  BaseInv'
    <2>1. rp[r].data = log /\ logLock = r
      BY <1>10 DEF Finish, BaseInv, LockInv, Reading
    <2>2. log' \in Seq(TagEvent) /\ Len(log') = Len(log)
      BY <1>0, <1>10, <2>1, MarkedType DEF Finish
    <2> QED
      BY <1>10, <2>1, <2>2, ReturnBase DEF Finish, BaseInv, TypeOK
  <1>11. ASSUME NEW r \in Replayers, ParseError(r) \/ Stop(r)
         PROVE  BaseInv'
    <2>1. stops' \in 0 .. MaxStops
      BY <1>11, BoundsAssumption DEF ParseError, Stop, BaseInv, TypeOK
    <2>2. Return(r) /\ UNCHANGED <<log, part, checkpoint, applied>>
      BY <1>11 DEF ParseError, Stop
    <2> QED
      BY <1>0, <2>1, <2>2, ReturnBase
  <1> QED
    BY <1>1, <1>2, <1>3, <1>4, <1>5, <1>6, <1>7, <1>8, <1>9, <1>10, <1>11
    DEF Next, ReplayStep

LEMMA BaseInvariant == Spec => []BaseInv
  <1>1. BaseInv /\ [Next]_logVars => BaseInv'
    BY BaseStep
  <1> QED
    BY BaseInit, <1>1, PTL DEF Spec

\* The log, the checkpoint and the replayers keep their types: above all, the
\* line a replay applies is always one of the log (FillIndex).
THEOREM TypeCorrect == Spec => []TypeOK
  <1>1. BaseInv => TypeOK
    BY DEF BaseInv
  <1> QED
    BY BaseInvariant, <1>1, PTL

\* A step only adds lines at the end, sets marks and applies events.
Grows ==
    /\ Len(log') >= Len(log)
    /\ \A i \in DOMAIN log :
         /\ log'[i] = [log[i] EXCEPT !.updated = log'[i].updated]
         /\ log[i].updated => log'[i].updated

LEMMA GrowStep ==
    ASSUME BaseInv, [Next]_logVars
    PROVE  Grows /\ applied \subseteq applied'
  <1>0. /\ log \in Seq(TagEvent) /\ Len(log) \in Nat /\ DOMAIN log = 1 .. Len(log)
        /\ \A i \in 1 .. Len(log) : log[i] \in TagEvent
    BY DEF BaseInv, TypeOK
  <1>1. \A i \in 1 .. Len(log) : log[i] = [log[i] EXCEPT !.updated = log[i].updated]
    BY <1>0 DEF TagEvent
  <1>2. ASSUME UNCHANGED log PROVE Grows
    <2>1. Len(log') >= Len(log)
      BY <1>0, <1>2
    <2>2. ASSUME NEW i \in DOMAIN log
          PROVE  /\ log'[i] = [log[i] EXCEPT !.updated = log'[i].updated]
                 /\ log[i].updated => log'[i].updated
      <3>1. log'[i] = log[i] /\ log[i] = [log[i] EXCEPT !.updated = log[i].updated]
        BY <1>0, <1>1, <1>2
      <3> QED BY <3>1, Zenon
    <2> QED
      BY <2>1, <2>2 DEF Grows
  <1>3. ASSUME NEW p \in Paths, NEW ts \in TagSets, NEW updated \in BOOLEAN,
               AppendTagEvent(p, ts, updated)
        PROVE  Grows
    <2> DEFINE e == [path |-> p, tags |-> ts, updated |-> updated, joined |-> part]
    <2>1. e \in TagEvent /\ log' = Append(log, e)
      BY <1>3 DEF AppendTagEvent, BaseInv, TypeOK, TagEvent
    <2> HIDE DEF e
    <2>2. Len(log') = Len(log) + 1 /\ \A i \in 1 .. Len(log) : log'[i] = log[i]
      BY <1>0, <2>1
    <2> QED
      BY <1>0, <1>1, <2>2 DEF Grows
  <1>4. ASSUME NEW r \in Replayers, Finish(r), log' # log
        PROVE  Grows
    <2>1. rp[r].data = log /\ log' = Marked(log, rp[r].endOffset)
      BY <1>4 DEF Finish, BaseInv, LockInv, Reading
    <2>2. /\ Len(log') = Len(log)
          /\ \A i \in 1 .. Len(log) :
               /\ log'[i] = [log[i] EXCEPT !.updated = log'[i].updated]
               /\ log'[i].updated = (log[i].updated \/ End(log, i) <= rp[r].endOffset)
      BY <1>0, <2>1, MarkedType
    <2>3. ASSUME NEW i \in DOMAIN log
          PROVE  /\ log'[i] = [log[i] EXCEPT !.updated = log'[i].updated]
                 /\ log[i].updated => log'[i].updated
      <3>1. i \in 1 .. Len(log)
        BY <1>0
      <3> QED BY <2>2, <3>1, Zenon
    <2> QED
      BY <1>0, <2>2, <2>3 DEF Grows
  <1>5. Grows
    BY <1>2, <1>3, <1>4 DEF Next, ReplayStep, logVars, AppendFails, ReadCheckpoint,
       LockAndRead, SkipLine, SkipBlank, ClearIndex, FillIndex, WriteCheckpoint,
       ParseError, Stop
  <1>6. applied \subseteq applied'
    BY DEF Next, ReplayStep, logVars, AppendTagEvent, AppendFails, ReadCheckpoint,
       LockAndRead, SkipLine, SkipBlank, ClearIndex, FillIndex, WriteCheckpoint,
       Finish, ParseError, Stop
  <1> QED
    BY <1>5, <1>6

\* No step loses, reorders or alters an event: the rewrite of markEventsUpdated
\* writes back what the replay has read, and the lock has kept appends out since.
THEOREM LogGrows == Spec => LogOnlyGrows
  <1>1. BaseInv /\ [Next]_logVars => [Grows]_logVars
    BY GrowStep
  <1>2. [][Grows]_logVars => LogOnlyGrows
    BY DEF Grows, LogOnlyGrows
  <1> QED
    BY BaseInvariant, <1>1, <1>2, PTL DEF Spec

-----------------------------------------------------------------------------
(* Offsets pass applied events only *)

\* An offset is covered when the events of all the lines it may have passed,
\* were no line marked yet, have been applied.  Neither a rewrite, which makes
\* the log shorter, nor an append takes that away.
Covered(l, done, off) == \E k \in 0 .. Len(l) : 1 .. k \subseteq done /\ off <= FullEnd(l, k)

\* Every offset the program keeps is covered: the one in the file, the ones a
\* replay read before it had the lock, and the ones it has reached.
CoverInv ==
    /\ Covered(log, applied, checkpoint)
    /\ \A r \in Replayers : /\ Covered(log, applied, rp[r].start)
                            /\ Covered(log, applied, rp[r].offset)
                            /\ Covered(log, applied, rp[r].endOffset)

\* A rewrite moves the lines after the marked ones by a byte for every mark, so
\* an offset stays inside the line it points to as long as the log does not
\* have more lines than a line has bytes.
Short == Len(log) <= LineLen

ReplayInv == BaseInv /\ (Short => MarkedWasApplied /\ CoverInv)

LEMMA CoveredZero ==
    ASSUME BaseInv
    PROVE  Covered(log, applied, 0)
  <1>1. Len(log) \in Nat /\ FullEnd(log, 0) \in End(log, 0) .. End(log, 0) + 0 /\ End(log, 0) \in Nat
    BY EndForm DEF BaseInv, TypeOK
  <1> QED
    BY <1>1 DEF Covered

LEMMA CoveredKept ==
    ASSUME BaseInv, BaseInv', Grows, applied \subseteq applied', NEW off,
           Covered(log, applied, off)
    PROVE  Covered(log', applied', off)
  <1>1. PICK k \in 0 .. Len(log) : 1 .. k \subseteq applied /\ off <= FullEnd(log, k)
    BY DEF Covered
  <1>2. /\ Len(log) \in Nat /\ Len(log') \in Nat /\ Len(log) <= Len(log')
        /\ DOMAIN log = 1 .. Len(log)
        /\ \A i \in 1 .. Len(log) : log[i] \in TagEvent
    BY DEF BaseInv, TypeOK, Grows
  <1>3. ASSUME NEW j \in 1 .. k PROVE log[j].joined = log'[j].joined
    <2>1. j \in DOMAIN log /\ log[j] \in TagEvent
      BY <1>1, <1>2
    <2>2. log'[j] = [log[j] EXCEPT !.updated = log'[j].updated]
      BY <2>1 DEF Grows
    <2>3. \A u : [log[j] EXCEPT !.updated = u].joined = log[j].joined
      BY <2>1 DEF TagEvent
    <2> QED
      BY <2>2, <2>3
  <1>4. FullEnd(log, k) = FullEnd(log', k)
    BY <1>1, <1>2, <1>3, EndAgrees
  <1>5. k \in 0 .. Len(log') /\ 1 .. k \subseteq applied'
    BY <1>1, <1>2
  <1> QED
    BY <1>1, <1>4, <1>5 DEF Covered

\* A covered offset has passed applied events only.
LEMMA Passed ==
    ASSUME BaseInv, Short, NEW off \in Nat, Covered(log, applied, off),
           NEW i \in 1 .. Len(log), End(log, i) <= off
    PROVE  i \in applied
  <1>1. PICK k \in 0 .. Len(log) : 1 .. k \subseteq applied /\ off <= FullEnd(log, k)
    BY DEF Covered
  <1>2. Len(log) \in Nat /\ LineLen \in Nat /\ Len(log) <= LineLen
    BY LineLenAssumption DEF BaseInv, TypeOK, Short
  <1>3. /\ End(log, k) \in Nat /\ End(log, i) \in Nat
        /\ FullEnd(log, k) \in End(log, k) .. End(log, k) + k
    BY <1>1, <1>2, EndForm
  <1>4. k < i => End(log, k) + LineLen <= End(log, i)
    BY <1>1, <1>2, EndMono
  <1>5. ~(k < i)
    BY <1>1, <1>2, <1>3, <1>4
  <1> QED
    BY <1>1, <1>2, <1>5

\* A replay that stands at an event has passed applied events only.
LEMMA BeforeApplied ==
    ASSUME BaseInv, Short, CoverInv, NEW r \in Replayers, More(r) \/ rp[r].pc = "fill"
    PROVE  1 .. Line(r) - 1 \subseteq applied
  <1> SUFFICES ASSUME NEW j \in 1 .. Line(r) - 1 PROVE j \in applied
    OBVIOUS
  <1>1. /\ Line(r) \in 1 .. Len(log) /\ Len(log) \in Nat
        /\ End(log, Line(r) - 1) <= rp[r].offset
        /\ rp[r].offset \in Nat
    BY LineType DEF BaseInv, TypeOK, Replay
  <1>2. j \in Nat /\ Line(r) - 1 \in Nat /\ j <= Line(r) - 1 /\ j \in 1 .. Len(log)
    BY <1>1
  <1>3. End(log, j) <= End(log, Line(r) - 1)
    BY <1>2, EndMono
  <1>4. End(log, j) <= rp[r].offset
    BY <1>1, <1>2, <1>3, EndForm, SMTT(30)
  <1> QED
    BY <1>1, <1>2, <1>4, Passed DEF CoverInv

\* The end of a line is covered once the line and the ones before are applied.
LEMMA CoveredEnd ==
    ASSUME BaseInv, NEW i \in 1 .. Len(log), NEW done, 1 .. i - 1 \subseteq done, i \in done
    PROVE  Covered(log, done, End(log, i))
  <1>1. Len(log) \in Nat /\ i \in Nat
    BY DEF BaseInv, TypeOK
  <1>2. End(log, i) \in Nat /\ FullEnd(log, i) \in End(log, i) .. End(log, i) + i
    BY <1>1, EndForm
  <1>3. 1 .. i \subseteq done
    BY <1>1
  <1> QED
    BY <1>1, <1>2, <1>3 DEF Covered

\* Only of a marked line may a covered offset have left nothing but the newline.
LEMMA BlankApplied ==
    ASSUME BaseInv, Short, MarkedWasApplied, CoverInv, NEW r \in Replayers, More(r), Blank(r)
    PROVE  Line(r) \in applied
  <1> DEFINE i == Line(r)
  <1>0. /\ log \in Seq(TagEvent) /\ Len(log) \in Nat /\ DOMAIN log = 1 .. Len(log)
        /\ LineLen \in Nat /\ Len(log) <= LineLen /\ PartLen \in Nat /\ PartLen >= 1
    BY LineLenAssumption DEF BaseInv, TypeOK, Short
  <1>1. /\ i \in 1 .. Len(log) /\ rp[r].data = log
        /\ End(log, i) \in Nat /\ End(log, i - 1) \in Nat
    BY LineType
  <1>2. rp[r].offset = End(log, i) - 1
    BY <1>1 DEF Blank
  <1>3. PICK k \in 0 .. Len(log) : 1 .. k \subseteq applied /\ rp[r].offset <= FullEnd(log, k)
    BY DEF CoverInv, Covered
  <1> HIDE DEF i
  <1>4. CASE k >= i
    BY <1>0, <1>1, <1>3, <1>4 DEF i
  <1>5. CASE k < i
    <2>1. k \in Nat /\ i - 1 \in Nat /\ k <= i - 1 /\ i - 1 < LineLen /\ (i - 1) + 1 = i
      BY <1>0, <1>1, <1>3, <1>5
    <2>2. FullEnd(log, k) <= FullEnd(log, i - 1)
      BY <2>1, EndMono
    <2>3. FullEnd(log, i - 1) <= End(log, i - 1) + (i - 1)
      BY <2>1, EndForm
    <2>4. End(log, i) = End(log, i - 1) + LineLen + (IF log[i].updated THEN 0 ELSE 1)
                        + (IF log[i].joined THEN PartLen ELSE 0)
      BY <2>1, EndNext
    <2>5. FullEnd(log, k) \in Int /\ FullEnd(log, i - 1) \in Int
      BY <2>1, EndForm
    <2>6. End(log, i) - 1 <= End(log, i - 1) + (i - 1)
      BY <1>1, <1>2, <1>3, <2>1, <2>2, <2>3, <2>5
    <2>7. log[i].updated
      BY <1>0, <1>1, <2>1, <2>4, <2>6, SMTT(30)
    <2> QED
      BY <1>0, <1>1, <2>7 DEF MarkedWasApplied, i
  <1> QED
    BY <1>0, <1>1, <1>3, <1>4, <1>5

\* The marks of the next state are set by an append or a rewrite.
LEMMA MarkStep ==
    ASSUME BaseInv, Short, MarkedWasApplied, CoverInv, [Next]_logVars
    PROVE  MarkedWasApplied'
  <1>0. /\ log \in Seq(TagEvent) /\ Len(log) \in Nat /\ DOMAIN log = 1 .. Len(log)
        /\ applied \subseteq applied'
    BY GrowStep DEF BaseInv, TypeOK
  <1>1. CASE UNCHANGED log
    BY <1>0, <1>1 DEF MarkedWasApplied
  <1>2. ASSUME NEW p \in Paths, NEW ts \in TagSets, NEW updated \in BOOLEAN,
               AppendTagEvent(p, ts, updated)
        PROVE  MarkedWasApplied'
    <2> DEFINE e == [path |-> p, tags |-> ts, updated |-> updated, joined |-> part]
    <2>1. e \in TagEvent /\ log' = Append(log, e) /\ e.updated = updated
      BY <1>2 DEF AppendTagEvent, BaseInv, TypeOK, TagEvent
    <2> HIDE DEF e
    <2>2. /\ DOMAIN log' = 1 .. Len(log) + 1
          /\ \A i \in 1 .. Len(log) : log'[i] = log[i]
          /\ log'[Len(log) + 1] = e
      BY <1>0, <2>1
    <2>3. updated => Len(log) + 1 \in applied'
      BY <1>2 DEF AppendTagEvent
    <2> SUFFICES ASSUME NEW i \in DOMAIN log', log'[i].updated PROVE i \in applied'
      BY DEF MarkedWasApplied
    <2>4. i \in 1 .. Len(log) \/ i = Len(log) + 1
      BY <1>0, <2>2
    <2>5. CASE i \in 1 .. Len(log)
      BY <1>0, <2>2, <2>5 DEF MarkedWasApplied
    <2>6. CASE i = Len(log) + 1
      BY <2>1, <2>2, <2>3, <2>6
    <2> QED
      BY <2>4, <2>5, <2>6
  <1>3. ASSUME NEW r \in Replayers, Finish(r), log' # log
        PROVE  MarkedWasApplied'
    <2>1. rp[r].data = log /\ log' = Marked(log, rp[r].endOffset)
      BY <1>3 DEF Finish, BaseInv, LockInv, Reading
    <2> DEFINE m == Marked(log, rp[r].endOffset)
    <2>2. /\ Len(m) = Len(log) /\ m \in Seq(TagEvent)
          /\ \A i \in 1 .. Len(log) :
               /\ m[i] = [log[i] EXCEPT !.updated = m[i].updated]
               /\ m[i].updated = (log[i].updated \/ End(log, i) <= rp[r].endOffset)
      BY <1>0, MarkedType
    <2> HIDE DEF m
    <2>3. rp[r].endOffset \in Nat /\ Covered(log, applied, rp[r].endOffset)
      BY DEF BaseInv, TypeOK, Replay, CoverInv
    <2> SUFFICES ASSUME NEW i \in DOMAIN log', log'[i].updated PROVE i \in applied'
      BY DEF MarkedWasApplied
    <2>4. i \in 1 .. Len(log) /\ log' = m
      BY <1>0, <2>1, <2>2 DEF m
    <2>5. log[i].updated \/ End(log, i) <= rp[r].endOffset
      BY <2>2, <2>4
    <2> QED
      BY <1>0, <2>3, <2>4, <2>5, Passed DEF MarkedWasApplied
  <1> QED
    BY <1>1, <1>2, <1>3 DEF Next, ReplayStep, logVars, AppendFails, ReadCheckpoint,
       LockAndRead, SkipLine, SkipBlank, ClearIndex, FillIndex, WriteCheckpoint,
       ParseError, Stop

\* A step of r keeps the offsets of the others; its own are given.
LEMMA CoverOne ==
    ASSUME BaseInv, BaseInv', [Next]_logVars, CoverInv, NEW r \in Replayers,
           NEW x, rp' = [rp EXCEPT ![r] = x],
           Covered(log', applied', checkpoint'),
           Covered(log', applied', x.start), Covered(log', applied', x.offset),
           Covered(log', applied', x.endOffset)
    PROVE  CoverInv'
  <1>1. Grows /\ applied \subseteq applied'
    BY GrowStep
  <1>2. rp'[r] = x /\ \A s \in Replayers : s # r => rp'[s] = rp[s]
    BY DEF BaseInv, TypeOK
  <1>3. ASSUME NEW s \in Replayers
        PROVE  /\ Covered(log', applied', rp'[s].start)
               /\ Covered(log', applied', rp'[s].offset)
               /\ Covered(log', applied', rp'[s].endOffset)
    <2>1. CASE s = r
      BY <1>2, <2>1
    <2>2. CASE s # r
      BY <1>1, <1>2, <2>2, CoveredKept DEF CoverInv
    <2> QED BY <2>1, <2>2
  <1> QED
    BY <1>3 DEF CoverInv

LEMMA CoverStep ==
    ASSUME BaseInv, BaseInv', Short, MarkedWasApplied, CoverInv, [Next]_logVars
    PROVE  CoverInv'
  <1>0. Grows /\ applied \subseteq applied'
    BY GrowStep
  <1>a. \A off : Covered(log, applied, off) => Covered(log', applied', off)
    BY <1>0, CoveredKept
  <1>b. Covered(log', applied', 0)
    BY <1>a, CoveredZero
  <1>c. /\ Covered(log', applied', checkpoint)
        /\ \A r \in Replayers : /\ Covered(log', applied', rp[r].start)
                                /\ Covered(log', applied', rp[r].offset)
                                /\ Covered(log', applied', rp[r].endOffset)
    BY <1>a DEF CoverInv
  <1>d. \A r \in Replayers : rp[r] \in Replay
    BY DEF BaseInv, TypeOK
  <1>1. CASE UNCHANGED <<checkpoint, rp>>
    BY <1>c, <1>1 DEF CoverInv
  <1>2. ASSUME NEW r \in Replayers, ReadCheckpoint(r)
        PROVE  CoverInv'
    <2> DEFINE x == [IdleReplay EXCEPT !.pc = "lock", !.start = checkpoint,
                                       !.endOffset = checkpoint]
    <2>1. x.start = checkpoint /\ x.offset = 0 /\ x.endOffset = checkpoint
      BY DEF IdleReplay
    <2> HIDE DEF x
    <2>2. rp' = [rp EXCEPT ![r] = x] /\ checkpoint' = checkpoint
      BY <1>2 DEF ReadCheckpoint, x
    <2> QED
      BY <1>b, <1>c, <2>1, <2>2, CoverOne
  <1>3. ASSUME NEW r \in Replayers, LockAndRead(r)
        PROVE  CoverInv'
    <2> DEFINE x == [rp[r] EXCEPT !.pc = "scan", !.data = log,
                                  !.offset = IF rp[r].start > FileSize THEN 0 ELSE rp[r].start]
    <2>1. /\ x.start = rp[r].start /\ x.endOffset = rp[r].endOffset
          /\ x.offset = 0 \/ x.offset = rp[r].start
      BY <1>d DEF Replay
    <2> HIDE DEF x
    <2>2. rp' = [rp EXCEPT ![r] = x] /\ checkpoint' = checkpoint
      BY <1>3 DEF LockAndRead, x, BaseInv, TypeOK
    <2> QED
      BY <1>b, <1>c, <2>1, <2>2, CoverOne
  <1>4. ASSUME NEW r \in Replayers, SkipLine(r) \/ SkipBlank(r) \/ FillIndex(r)
        PROVE  CoverInv'
    <2>1. /\ rp[r].data = log /\ Line(r) \in 1 .. Len(log)
          /\ 1 .. Line(r) - 1 \subseteq applied
      BY <1>4, LineType, BeforeApplied DEF SkipLine, SkipBlank, FillIndex
    <2>2. Line(r) \in applied'
      <3>1. CASE SkipLine(r)
        BY <3>1, <1>0, <2>1 DEF SkipLine, MarkedWasApplied, BaseInv, TypeOK
      <3>2. CASE SkipBlank(r)
        BY <3>2, <1>0, BlankApplied DEF SkipBlank
      <3>3. CASE FillIndex(r)
        BY <3>3 DEF FillIndex
      <3> QED BY <1>4, <3>1, <3>2, <3>3
    <2>3. UNCHANGED <<log, checkpoint>>
      BY <1>4 DEF SkipLine, SkipBlank, FillIndex
    <2>4. Covered(log', applied', End(log, Line(r)))
      BY <1>0, <2>1, <2>2, <2>3, CoveredEnd
    <2>5. ASSUME NEW x, rp' = [rp EXCEPT ![r] = x], x.start = rp[r].start,
                 x.offset = End(log, Line(r)),
                 x.endOffset = End(log, Line(r)) \/ x.endOffset = rp[r].endOffset
          PROVE  CoverInv'
      BY <1>c, <2>3, <2>4, <2>5, CoverOne
    <2>6. CASE SkipLine(r)
      <3> DEFINE x == [rp[r] EXCEPT !.pc = "checkpoint", !.offset = End(log, Line(r)),
                                    !.endOffset = End(log, Line(r))]
      <3>1. x.start = rp[r].start /\ x.offset = End(log, Line(r)) /\ x.endOffset = End(log, Line(r))
        BY <1>d DEF Replay
      <3>2. rp' = [rp EXCEPT ![r] = x]
        BY <2>1, <2>6 DEF SkipLine, BaseInv, TypeOK
      <3> QED BY <2>5, <3>1, <3>2
    <2>7. CASE SkipBlank(r)
      <3> DEFINE x == [rp[r] EXCEPT !.pc = "checkpoint", !.offset = End(log, Line(r))]
      <3>1. x.start = rp[r].start /\ x.offset = End(log, Line(r)) /\ x.endOffset = rp[r].endOffset
        BY <1>d DEF Replay
      <3>2. rp' = [rp EXCEPT ![r] = x]
        BY <2>1, <2>7 DEF SkipBlank, BaseInv, TypeOK
      <3> QED BY <2>5, <3>1, <3>2
    <2>8. CASE FillIndex(r)
      <3> DEFINE x == [rp[r] EXCEPT !.pc = "checkpoint", !.offset = End(log, Line(r)),
                                    !.endOffset = End(log, Line(r)), !.needsRewrite = TRUE]
      <3>1. x.start = rp[r].start /\ x.offset = End(log, Line(r)) /\ x.endOffset = End(log, Line(r))
        BY <1>d DEF Replay
      <3>2. rp' = [rp EXCEPT ![r] = x]
        BY <2>1, <2>8 DEF FillIndex, BaseInv, TypeOK
      <3> QED BY <2>5, <3>1, <3>2
    <2> QED
      BY <1>4, <2>6, <2>7, <2>8
  <1>5. ASSUME NEW r \in Replayers, ClearIndex(r)
        PROVE  CoverInv'
    <2> DEFINE x == [rp[r] EXCEPT !.pc = "fill"]
    <2>1. x.start = rp[r].start /\ x.offset = rp[r].offset /\ x.endOffset = rp[r].endOffset
      BY <1>d DEF Replay
    <2> HIDE DEF x
    <2>2. rp' = [rp EXCEPT ![r] = x] /\ checkpoint' = checkpoint
      BY <1>5 DEF ClearIndex, x, BaseInv, TypeOK
    <2> QED
      BY <1>c, <2>1, <2>2, CoverOne
  <1>6. ASSUME NEW r \in Replayers, WriteCheckpoint(r)
        PROVE  CoverInv'
    <2> DEFINE x == [rp[r] EXCEPT !.pc = "scan"]
    <2>1. x.start = rp[r].start /\ x.offset = rp[r].offset /\ x.endOffset = rp[r].endOffset
      BY <1>d DEF Replay
    <2> HIDE DEF x
    <2>2. rp' = [rp EXCEPT ![r] = x] /\ checkpoint' = rp[r].offset
      BY <1>6 DEF WriteCheckpoint, x, BaseInv, TypeOK
    <2> QED
      BY <1>c, <2>1, <2>2, CoverOne
  <1>7. ASSUME NEW r \in Replayers, Finish(r) \/ ParseError(r) \/ Stop(r)
        PROVE  CoverInv'
    <2>1. rp' = [rp EXCEPT ![r] = IdleReplay] /\ checkpoint' = checkpoint
      BY <1>7 DEF Finish, ParseError, Stop, Return
    <2>2. IdleReplay.start = 0 /\ IdleReplay.offset = 0 /\ IdleReplay.endOffset = 0
      BY DEF IdleReplay
    <2> QED
      BY <1>b, <1>c, <2>1, <2>2, CoverOne
  <1> QED
    BY <1>1, <1>2, <1>3, <1>4, <1>5, <1>6, <1>7
    DEF Next, ReplayStep, logVars, AppendTagEvent, AppendFails

LEMMA ReplayInvariant == Spec => []ReplayInv
  <1>1. ASSUME LogInit PROVE ReplayInv
    <2>1. BaseInv
      BY <1>1, BaseInit
    <2>2. MarkedWasApplied
      BY <1>1 DEF LogInit, MarkedWasApplied
    <2>3. CoverInv
      BY <1>1, <2>1, CoveredZero DEF LogInit, CoverInv, IdleReplay
    <2> QED
      BY <2>1, <2>2, <2>3 DEF ReplayInv
  <1>2. ASSUME ReplayInv, [Next]_logVars PROVE ReplayInv'
    <2>1. BaseInv /\ BaseInv'
      BY <1>2, BaseStep DEF ReplayInv
    <2>2. Short' => Short
      <3>1. Len(log) \in Nat /\ Len(log') \in Nat /\ Len(log) <= Len(log') /\ LineLen \in Nat
        BY <1>2, <2>1, GrowStep, LineLenAssumption DEF BaseInv, TypeOK, Grows
      <3> QED BY <3>1 DEF Short
    <2>3. Short => MarkedWasApplied' /\ CoverInv'
      BY <1>2, <2>1, MarkStep, CoverStep DEF ReplayInv
    <2> QED
      BY <2>1, <2>2, <2>3 DEF ReplayInv
  <1> QED
    BY <1>1, <1>2, PTL DEF Spec

\* A replay that is cut short, or that started from a checkpoint another replay
\* has moved since, never makes a later replay skip an event, as long as the
\* log does not have more lines than a line has bytes.  (With one line more TLC
\* finds a rewrite that leaves the checkpoint beyond an event nobody applied.)
THEOREM CheckpointSound == Spec => [](Len(log) <= LineLen => CheckpointCovers)
  <1>1. ASSUME ReplayInv PROVE Len(log) <= LineLen => CheckpointCovers
    <2> SUFFICES ASSUME Short, NEW i \in DOMAIN log, End(log, i) <= checkpoint
                 PROVE  i \in applied
      BY DEF Short, CheckpointCovers
    <2>1. /\ i \in 1 .. Len(log) /\ checkpoint \in Nat /\ BaseInv
          /\ Covered(log, applied, checkpoint)
      BY <1>1 DEF ReplayInv, BaseInv, TypeOK, CoverInv
    <2> QED
      BY <2>1, Passed
  <1> QED
    BY ReplayInvariant, <1>1, PTL

\* A line is marked index_updated only after the index was set from it, as long
\* as the log does not have more lines than a line has bytes.
THEOREM MarksSound == Spec => [](Len(log) <= LineLen => MarkedWasApplied)
  <1>1. ReplayInv => (Len(log) <= LineLen => MarkedWasApplied)
    BY DEF ReplayInv, Short
  <1> QED
    BY ReplayInvariant, <1>1, PTL
=============================================================================
