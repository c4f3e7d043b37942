---------------------------- MODULE TagEventLog ----------------------------
(***************************************************************************)
(* The tag event log (tag_events.log), its replay checkpoint               *)
(* (tag_events.offset) and the replayers: the watcher of tagUI and the     *)
(* command tagctl replay-events (tagindex/internal/events/replay.go).      *)
(* Appenders and replayers share the flock on tag_events.log.lock.         *)
(*                                                                         *)
(* The checkpoint is a byte offset, so lines have a length.  A line whose  *)
(* index_updated is true takes LineLen bytes, and one byte more while it   *)
(* is false ("false" against "true"): marking lines as updated rewrites    *)
(* the log and makes it shorter.  A write that fails may leave a part of a *)
(* line at the end; the next event is then appended to it.                 *)
(*                                                                         *)
(* What an event does to the index is left to TagSync; here a line is      *)
(* "applied" once the index has been set from it.                          *)
(***************************************************************************)
EXTENDS Integers, Sequences, FiniteSets

CONSTANTS
    Paths,       \* tagged files
    TagSets,     \* the sets of tags an event may carry
    Replayers,   \* processes that replay the log
    LineLen,     \* bytes of a line whose index_updated is true
    PartLen,     \* bytes of a line whose write failed that are left
    MaxEvents,   \* bound on the length of the log
    MaxStops,    \* bound on replays and appends cut short by a crash or an I/O error
    NoProc       \* the lock is free

ASSUME LineLenAssumption == LineLen \in Nat \ {0, 1} /\ PartLen \in 1 .. LineLen - 1
ASSUME BoundsAssumption == MaxEvents \in Nat /\ MaxStops \in Nat
ASSUME NoProcAssumption == NoProc \notin Replayers

VARIABLES
    log,         \* the lines of tag_events.log
    part,        \* whether a part of a line follows them
    checkpoint,  \* the offset in tag_events.offset
    logLock,     \* holder of the flock
    rp,          \* rp[r]: the local state of r's ReplayTagEvents
    applied,     \* the lines the index was set from (history)
    stops        \* replays and appends cut short so far

logVars == <<log, part, checkpoint, logLock, rp, applied, stops>>

-----------------------------------------------------------------------------
(* Bytes *)

\* A line is joined if the part of another line comes before the event.
TagEvent == [path : Paths, tags : TagSets, updated : BOOLEAN, joined : BOOLEAN]

\* The offset just after line i of l.
End(l, i) == i * LineLen + Cardinality({j \in 1 .. i : ~l[j].updated})
             + PartLen * Cardinality({j \in 1 .. i : l[j].joined})

\* The offset of the event in line i of l.
Begin(l, i) == End(l, i - 1) + IF l[i].joined THEN PartLen ELSE 0

Size(l) == End(l, Len(l))

\* The line that holds the byte at offset off.
LineAt(l, off) ==
    CHOOSE i \in 1 .. Len(l) : End(l, i - 1) <= off /\ off < End(l, i)

IdleReplay == [pc |-> "idle", start |-> 0, data |-> << >>, offset |-> 0,
               endOffset |-> 0, needsRewrite |-> FALSE]

LogInit ==
    /\ log = << >> /\ part = FALSE
    /\ checkpoint = 0
    /\ logLock = NoProc
    /\ rp = [r \in Replayers |-> IdleReplay]
    /\ applied = {}
    /\ stops = 0

-----------------------------------------------------------------------------
(* AppendTagEvent: one write of one line, under the lock and fsynced. *)

AppendTagEvent(p, ts, updated) ==
    /\ logLock = NoProc
    /\ Len(log) < MaxEvents
    /\ log' = Append(log, [path |-> p, tags |-> ts, updated |-> updated, joined |-> part])
    /\ part' = FALSE
    /\ applied' = IF updated THEN applied \cup {Len(log) + 1} ELSE applied
    /\ UNCHANGED <<checkpoint, logLock, rp, stops>>

\* The write of a line fails and leaves a part of it.
AppendFails ==
    /\ logLock = NoProc /\ ~part
    /\ stops < MaxStops
    /\ stops' = stops + 1
    /\ part' = TRUE
    /\ UNCHANGED <<log, checkpoint, logLock, rp, applied>>

-----------------------------------------------------------------------------
(* ReplayTagEvents *)

\* The checkpoint is read before the lock is taken.
ReadCheckpoint(r) ==
    /\ rp[r].pc = "idle"
    /\ rp' = [rp EXCEPT ![r] = [IdleReplay EXCEPT !.pc = "lock", !.start = checkpoint,
                                                  !.endOffset = checkpoint]]
    /\ UNCHANGED <<log, part, checkpoint, logLock, applied, stops>>

FileSize == Size(log) + IF part THEN PartLen ELSE 0

\* LockAndRead that lets go of the lock after reading, for validating
\* LogOnlyGrows and TypeOK.
ReadUnlocked(r) ==
    /\ rp[r].pc = "lock"
    /\ logLock = NoProc
    /\ rp' = [rp EXCEPT ![r].pc = "scan",
                        ![r].data = log,
                        ![r].offset = IF rp[r].start > FileSize THEN 0 ELSE rp[r].start]
    /\ UNCHANGED <<log, part, checkpoint, logLock, applied, stops>>

\* Lock and read the whole log; a checkpoint beyond its end starts over.
LockAndRead(r) ==
    /\ rp[r].pc = "lock"
    /\ logLock = NoProc
    /\ logLock' = r
    /\ rp' = [rp EXCEPT ![r].pc = "scan",
                        ![r].data = log,
                        ![r].offset = IF rp[r].start > FileSize THEN 0 ELSE rp[r].start]
    /\ UNCHANGED <<log, part, checkpoint, applied, stops>>

\* More that stops before the last line, for validating AppliedUnlessShifted.
MoreButLast(r) ==
    rp[r].pc = "scan" /\ rp[r].offset + LineLen + 1 < Size(rp[r].data)

More(r) == rp[r].pc = "scan" /\ rp[r].offset < Size(rp[r].data)

Line(r) == LineAt(rp[r].data, rp[r].offset)

\* The bytes read from the offset on are an event, only the newline of a line, or
\* something else, which is not JSON.
Whole(r) == rp[r].offset = Begin(rp[r].data, Line(r))
Blank(r) == rp[r].offset = End(rp[r].data, Line(r)) - 1

\* A line that is already in the index.
SkipLine(r) ==
    /\ More(r) /\ Whole(r)
    /\ rp[r].data[Line(r)].updated
    /\ rp' = [rp EXCEPT ![r].pc = "checkpoint",
                        ![r].offset = End(rp[r].data, Line(r)),
                        ![r].endOffset = End(rp[r].data, Line(r))]
    /\ UNCHANGED <<log, part, checkpoint, logLock, applied, stops>>

SkipBlank(r) ==
    /\ More(r) /\ Blank(r)
    /\ rp' = [rp EXCEPT ![r].pc = "checkpoint",
                        ![r].offset = End(rp[r].data, Line(r))]
    /\ UNCHANGED <<log, part, checkpoint, logLock, applied, stops>>

\* ClearIndex with the checkpoint written before the index, for validating
\* CheckpointCovers.
ClearIndexAfterCheckpoint(r) ==
    /\ More(r) /\ Whole(r)
    /\ ~rp[r].data[Line(r)].updated
    /\ checkpoint' = End(rp[r].data, Line(r))
    /\ rp' = [rp EXCEPT ![r].pc = "fill"]
    /\ UNCHANGED <<log, part, logLock, applied, stops>>

\* ClearIndex that goes on when store.Set has failed, for validating
\* MarkedWasApplied.
ClearIndexErrorIgnored(r) ==
    /\ More(r) /\ Whole(r)
    /\ ~rp[r].data[Line(r)].updated
    /\ rp' = [rp EXCEPT ![r].pc = "checkpoint",
                        ![r].offset = End(rp[r].data, Line(r)),
                        ![r].endOffset = End(rp[r].data, Line(r)),
                        ![r].needsRewrite = TRUE]
    /\ UNCHANGED <<log, part, checkpoint, logLock, applied, stops>>

\* store.Set, first half: the path leaves every tag file.
ClearIndex(r) ==
    /\ More(r) /\ Whole(r)
    /\ ~rp[r].data[Line(r)].updated
    /\ rp' = [rp EXCEPT ![r].pc = "fill"]
    /\ UNCHANGED <<log, part, checkpoint, logLock, applied, stops>>

\* store.Set, second half: the path enters the files of the event's tags.
FillIndex(r) ==
    /\ rp[r].pc = "fill"
    /\ applied' = applied \cup {Line(r)}
    /\ rp' = [rp EXCEPT ![r].pc = "checkpoint",
                        ![r].offset = End(rp[r].data, Line(r)),
                        ![r].endOffset = End(rp[r].data, Line(r)),
                        ![r].needsRewrite = TRUE]
    /\ UNCHANGED <<log, part, checkpoint, logLock, stops>>

WriteCheckpoint(r) ==
    /\ rp[r].pc = "checkpoint"
    /\ checkpoint' = rp[r].offset
    /\ rp' = [rp EXCEPT ![r].pc = "scan"]
    /\ UNCHANGED <<log, part, logLock, applied, stops>>

\* markEventsUpdated: the log is replaced by what was read, with the lines up
\* to the end offset marked, unless one of them is not JSON.
Markable(data, through) == \A i \in DOMAIN data : End(data, i) <= through => ~data[i].joined

Marked(data, through) ==
    [i \in DOMAIN data |->
        IF End(data, i) <= through THEN [data[i] EXCEPT !.updated = TRUE] ELSE data[i]]

Return(r) ==
    /\ logLock' = IF logLock = r THEN NoProc ELSE logLock
    /\ rp' = [rp EXCEPT ![r] = IdleReplay]

Finish(r) ==
    /\ rp[r].pc = "scan" /\ ~More(r)
    /\ log' = IF rp[r].needsRewrite /\ Markable(rp[r].data, rp[r].endOffset)
              THEN Marked(rp[r].data, rp[r].endOffset) ELSE log
    /\ Return(r)
    /\ UNCHANGED <<part, checkpoint, applied, stops>>

\* "parse event at offset": the replay returns before it changed anything.
ParseError(r) ==
    /\ More(r) /\ ~Whole(r) /\ ~Blank(r)
    /\ Return(r)
    /\ UNCHANGED <<log, part, checkpoint, applied, stops>>

\* The replayer dies, or a write of the index, the checkpoint or the log fails.
Stop(r) ==
    /\ rp[r].pc # "idle"
    /\ stops < MaxStops
    /\ stops' = stops + 1
    /\ Return(r)
    /\ UNCHANGED <<log, part, checkpoint, applied>>

ReplayStep(r) ==
    \/ ReadCheckpoint(r) \/ LockAndRead(r)
    \/ SkipLine(r) \/ SkipBlank(r) \/ ClearIndex(r) \/ FillIndex(r)
    \/ WriteCheckpoint(r) \/ Finish(r) \/ ParseError(r)

-----------------------------------------------------------------------------

Next ==
    \/ \E p \in Paths, ts \in TagSets, updated \in BOOLEAN : AppendTagEvent(p, ts, updated)
    \/ AppendFails
    \/ \E r \in Replayers : ReplayStep(r) \/ Stop(r)

Spec == LogInit /\ [][Next]_logVars

\* watchEvents replays at every tick for as long as tagUI runs.
FairSpec == Spec /\ \A r \in Replayers : WF_logVars(ReplayStep(r))

-----------------------------------------------------------------------------
(* Properties *)

Replay == [pc : {"idle", "lock", "scan", "fill", "checkpoint"},
           start : Nat, data : Seq(TagEvent), offset : Nat, endOffset : Nat,
           needsRewrite : BOOLEAN]

\* Type correctness of the log, the checkpoint file and the replayers.
TypeOK ==
    /\ log \in Seq(TagEvent) /\ part \in BOOLEAN
    /\ checkpoint \in Nat
    /\ logLock \in Replayers \cup {NoProc}
    /\ rp \in [Replayers -> Replay]
    /\ applied \in SUBSET (1 .. Len(log))
    /\ stops \in 0 .. MaxStops

\* A line that the checkpoint has passed has been applied: a replay that is
\* cut short, or that started from a checkpoint another replay has moved since,
\* never makes a later replay skip an event.
CheckpointCovers ==
    \A i \in DOMAIN log : End(log, i) <= checkpoint => i \in applied

\* A line is marked index_updated only after the index was set from it.
MarkedWasApplied ==
    \A i \in DOMAIN log : log[i].updated => i \in applied

\* No step loses, reorders or alters an event: a rewrite of the log may only
\* set index_updated, and never takes away what another process appended.
LogOnlyGrows ==
    [][/\ Len(log') >= Len(log)
       /\ \A i \in DOMAIN log :
            /\ log'[i] = [log[i] EXCEPT !.updated = log'[i].updated]
            /\ log[i].updated => log'[i].updated]_logVars

Pending == DOMAIN log \ applied

\* The checkpoint points into the middle of a line.
Shifted ==
    checkpoint < Size(log) /\ \A i \in 0 .. Len(log) : checkpoint # End(log, i)

\* Replays that go on at every tick apply every event, unless a rewrite has
\* left the checkpoint in the middle of a line; only the events from the first line
\* on that was joined to a part of another may be left.
AppliedUnlessShifted ==
    <>[](\A i \in Pending : \E j \in 1 .. i : log[j].joined) \/ <>[]Shifted

\* "Replay tag_events.log from the saved checkpoint into the index": as long as
\* replays go on, every event reaches the index.
EveryEventApplied == <>[](Pending = {})
=============================================================================
