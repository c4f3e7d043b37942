------------------------------ MODULE TagSync ------------------------------
(***************************************************************************)
(* How the tag index follows the tags kept by the filer.  Three programs   *)
(* change tags:                                                            *)
(*  - the FUSE mount (weed/mount/weedfs_xattr.go) saves the entry and      *)
(*    appends an event for a replayer to apply; on a file with an open     *)
(*    handle it appends the event first and saves when the handle is       *)
(*    flushed;                                                             *)
(*  - tagctl (set, add, delete, random-set) and tagUI read the tags from   *)
(*    the filer, save new ones, update the index themselves and append an  *)
(*    event that is already marked index_updated;                          *)
(*  - tagctl rebuild-index copies the tags of the filer into the index.    *)
(* The filer is external: it keeps one set of tags for each path and       *)
(* answers one request at a time.                                          *)
(***************************************************************************)
EXTENDS TagEventLog

CONSTANTS
    Tags,      \* the tags
    Mounts,    \* FUSE mounts; the kernel runs one setxattr at a time on a file
    Tools,     \* tagctl processes
    Uis,       \* requests served by tagUI
    Commands   \* the subcommands of tagctl and tagUI in use

\* A rewrite of the log never moves the checkpoint by as much as a line: what
\* happens then (SkipBlank) is a subject of TagEventLog alone.
ASSUME LongLinesAssumption == LineLen > MaxEvents + 1
ASSUME WritersAssumption ==
    /\ Mounts \cap (Tools \cup Uis) = {}
    /\ IsFiniteSet(Mounts) /\ IsFiniteSet(Tools) /\ IsFiniteSet(Uis)
    /\ TagSets = SUBSET Tags
    /\ Commands \subseteq {"set", "add", "delete"}

VARIABLES
    filer,     \* filer[p]: the tags kept in the metadata of p
    index,     \* index[p]: the tags whose file in by-tag/ lists p
    op,        \* op[w]: what w is doing
    notices,   \* notices[m]: paths saved by others that mount m has yet to hear of
    cached,    \* cached[m][p]: the tags of p in the entry cached by mount m
    raced,     \* raced[p]: why the index may not follow the filer on p (history)
    late       \* the last replay to lock the log had an old checkpoint (history)

syncVars == <<filer, index, op, notices, cached, raced, late>>
vars == <<logVars, syncVars>>

Writers == Mounts \cup Tools \cup Uis

TagSet == SUBSET Tags

Idle == [pc |-> "idle", path |-> "none", old |-> {}, new |-> {}]

Init ==
    /\ LogInit
    /\ filer = [p \in Paths |-> {}]
    /\ index = [p \in Paths |-> {}]
    /\ op = [w \in Writers |-> Idle]
    /\ notices = [m \in Mounts |-> {}]
    /\ cached = [m \in Mounts |-> [p \in Paths |-> {}]]
    /\ raced = [p \in Paths |-> {}]
    /\ late = FALSE

-----------------------------------------------------------------------------
(* History: when may the index be expected to follow the filer? *)

Overlap(w, p) == \E v \in Writers \ {w} : op[v].pc # "idle" /\ op[v].path = p

\* An event for p that a replay may still apply.
Unmarked(p) == \E i \in DOMAIN log : log[i].path = p /\ ~log[i].updated

\* The causes of disagreement when w starts to change p: another change of p is
\* under way, w is a mount that has yet to hear of an earlier one or, for a
\* change that does not go through the log, an event for p is still to be replayed.
Causes(w, p, direct) ==
    (IF Overlap(w, p) THEN {"overlap"} ELSE {}) \cup
    (IF w \in Mounts /\ p \in notices[w] THEN {"unheard"} ELSE {}) \cup
    (IF direct /\ Unmarked(p) THEN {"unmarked"} ELSE {})

\* A change that sets all tags of p makes up for what happened before, unless
\* there is a cause against it.
Restart(w, p, direct) ==
    raced' = [raced EXCEPT ![p] = IF Causes(w, p, direct) = {} THEN {}
                                  ELSE @ \cup Causes(w, p, direct)]

\* The log has room for one more event (a bound of the model).
Room == Len(log) + Cardinality({v \in Writers : op[v].pc # "idle"}) < MaxEvents

-----------------------------------------------------------------------------
(* The FUSE mount *)

\* w saves the entry of p, a mount in its own cache too, and the filer sends a
\* notice to the other mounts.
Save(w, p, ts) ==
    /\ filer' = [filer EXCEPT ![p] = ts]
    /\ notices' = [m \in Mounts |-> IF m = w THEN notices[m] ELSE notices[m] \cup {p}]
    /\ cached' = [m \in Mounts |-> IF m = w THEN [cached[m] EXCEPT ![p] = ts] ELSE cached[m]]

\* SetXAttr, or RemoveXAttr, on a file that is not open, or Mknod with rule
\* tags: the entry is saved...
SaveEntry(w, p, ts) ==
    /\ op[w].pc = "idle" /\ Room
    /\ Save(w, p, ts)
    /\ op' = [op EXCEPT ![w] = [Idle EXCEPT !.pc = "event", !.path = p, !.new = ts]]
    /\ Restart(w, p, FALSE)
    /\ UNCHANGED <<logVars, index, late>>

\* ... then appendTagEventIfNeeded.
AppendFuseEvent(w) ==
    /\ op[w].pc = "event" /\ w \in Mounts
    /\ AppendTagEvent(op[w].path, op[w].new, FALSE)
    /\ op' = [op EXCEPT ![w] = Idle]
    /\ UNCHANGED <<filer, index, raced, notices, cached, late>>

\* SetXAttr on an open file: the tags are in the handle's entry and the event
\* is in the log before the filer has heard of either.  The handle may already
\* have tags to flush.
SetOnHandle(w, p, ts) ==
    /\ op[w].pc = "idle" \/ (op[w].pc = "flush" /\ op[w].path = p)
    /\ Room
    /\ AppendTagEvent(p, ts, FALSE)
    /\ op' = [op EXCEPT ![w] = [Idle EXCEPT !.pc = "flush", !.path = p, !.new = ts]]
    /\ Restart(w, p, FALSE)
    /\ UNCHANGED <<filer, index, notices, cached, late>>

FlushHandle(w) ==
    /\ op[w].pc = "flush"
    /\ Save(w, op[w].path, op[w].new)
    /\ op' = [op EXCEPT ![w] = Idle]
    /\ UNCHANGED <<logVars, index, raced, late>>

\* SetXAttr of any other attribute on a file that is not open: the whole entry
\* is saved as the mount has it cached, its tags with it, and no event is
\* appended.  A mount that has yet to hear of a change of the tags undoes it, and
\* the notice it causes undoes tags that another mount has yet to flush.
SetOther(w, p) ==
    /\ op[w].pc = "idle"
    /\ Save(w, p, cached[w][p])
    /\ raced' = [raced EXCEPT ![p] = @ \cup
                    (IF p \in notices[w] THEN {"unheard"} ELSE {}) \cup
                    (IF \E m \in Mounts \ {w} : op[m].pc = "flush" /\ op[m].path = p
                     THEN {"overlap"} ELSE {})]
    /\ UNCHANGED <<logVars, index, op, late>>

\* A notice arrives: the mount's cache, and the handle that is open on the path,
\* take the filer's entry in place of their own.
HearNotice(w, p) ==
    /\ p \in notices[w]
    /\ notices' = [notices EXCEPT ![w] = @ \ {p}]
    /\ cached' = [cached EXCEPT ![w][p] = filer[p]]
    /\ op' = IF op[w].pc = "flush" /\ op[w].path = p
              THEN [op EXCEPT ![w].new = filer[p]] ELSE op
    /\ UNCHANGED <<logVars, filer, index, raced, late>>

-----------------------------------------------------------------------------
(* tagctl and tagUI *)

Merge(cmd, old, ts) ==
    CASE cmd = "set"    -> ts
      [] cmd = "add"    -> old \cup ts
      [] cmd = "delete" -> old \ ts

\* GetTags, and the tags that will be saved.
GetTags(w, cmd, p, ts) ==
    /\ op[w].pc = "idle" /\ Room
    /\ op' = [op EXCEPT ![w] = [Idle EXCEPT !.pc = "set", !.path = p, !.old = filer[p],
                                            !.new = Merge(cmd, filer[p], ts)]]
    /\ IF w \in Uis THEN Restart(w, p, TRUE)
       ELSE raced' = [raced EXCEPT ![p] = @ \cup Causes(w, p, TRUE)]
    /\ UNCHANGED <<logVars, filer, index, notices, cached, late>>

\* SetTags, or ClearTags when no tag is left.
SetTags(w) ==
    /\ op[w].pc = "set"
    /\ Save(w, op[w].path, op[w].new)
    /\ op' = [op EXCEPT ![w].pc = "index"]
    /\ UNCHANGED <<logVars, index, raced, late>>

\* UpdateIndex that only adds tags, for validating AgreesUnlessRaced.
UpdateIndexAddsOnly(w) ==
    /\ op[w].pc = "index"
    /\ index' = [index EXCEPT ![op[w].path] =
                   IF w \in Uis THEN op[w].new ELSE @ \cup (op[w].new \ op[w].old)]
    /\ op' = [op EXCEPT ![w].pc = "event"]
    /\ UNCHANGED <<logVars, filer, raced, notices, cached, late>>

\* tagctl calls store.Update with the tags it read before, tagUI store.Set.
UpdateIndex(w) ==
    /\ op[w].pc = "index"
    /\ index' = [index EXCEPT ![op[w].path] =
                   IF w \in Uis THEN op[w].new
                   ELSE (@ \ (op[w].old \ op[w].new)) \cup (op[w].new \ op[w].old)]
    /\ op' = [op EXCEPT ![w].pc = "event"]
    /\ UNCHANGED <<logVars, filer, raced, notices, cached, late>>

AppendToolEvent(w) ==
    /\ op[w].pc = "event" /\ w \notin Mounts
    /\ AppendTagEvent(op[w].path, op[w].new, TRUE)
    /\ op' = [op EXCEPT ![w] = Idle]
    /\ UNCHANGED <<filer, index, raced, notices, cached, late>>

\* rebuild-index: GetTags, then store.Set.
ReadForRebuild(w, p) ==
    /\ op[w].pc = "idle" /\ Room
    /\ op' = [op EXCEPT ![w] = [Idle EXCEPT !.pc = "rebuild", !.path = p, !.new = filer[p]]]
    /\ Restart(w, p, TRUE)
    /\ UNCHANGED <<logVars, filer, index, notices, cached, late>>

RebuildIndex(w) ==
    /\ op[w].pc = "rebuild"
    /\ index' = [index EXCEPT ![op[w].path] = op[w].new]
    /\ op' = [op EXCEPT ![w] = Idle]
    /\ UNCHANGED <<logVars, filer, raced, notices, cached, late>>

-----------------------------------------------------------------------------
(* Failures and replays *)

\* The process dies, or a request or a write fails, between two steps.  The
\* mount only prints that it could not append the event.
Interrupt(w) ==
    /\ op[w].pc # "idle"
    /\ stops < MaxStops
    /\ stops' = stops + 1
    /\ raced' = [raced EXCEPT ![op[w].path] = @ \cup {"interrupt"}]
    /\ op' = [op EXCEPT ![w] = Idle]
    /\ UNCHANGED <<log, part, checkpoint, logLock, rp, applied, filer, index, notices, cached, late>>

ReplayEvent(r) == rp[r].data[Line(r)]

ReplayClear(r) ==
    /\ ClearIndex(r)
    /\ index' = [index EXCEPT ![ReplayEvent(r).path] = {}]
    /\ UNCHANGED <<filer, op, raced, notices, cached, late>>

ReplayFill(r) ==
    /\ FillIndex(r)
    /\ index' = [index EXCEPT ![ReplayEvent(r).path] = ReplayEvent(r).tags]
    /\ UNCHANGED <<filer, op, raced, notices, cached, late>>

ReplayLock(r) ==
    /\ LockAndRead(r)
    /\ late' = (rp[r].start # checkpoint)
    /\ UNCHANGED <<filer, index, op, raced, notices, cached>>

\* A replay that started from a checkpoint another replay has moved since may
\* set the index from events the checkpoint is beyond; when it stops, a later
\* replay need not apply them again.
ReplayStop(r) ==
    /\ Stop(r)
    /\ raced' = [p \in Paths |->
                   IF late /\ logLock = r /\ Unmarked(p) THEN raced[p] \cup {"late"}
                   ELSE raced[p]]
    /\ UNCHANGED <<filer, index, op, notices, cached, late>>

ReplayOther(r) ==
    /\ \/ ReadCheckpoint(r) \/ SkipLine(r) \/ WriteCheckpoint(r)
       \/ Finish(r) \/ ParseError(r)
    /\ UNCHANGED syncVars

-----------------------------------------------------------------------------

MountNext(w) ==
    \/ \E p \in Paths, ts \in TagSet : SaveEntry(w, p, ts) \/ SetOnHandle(w, p, ts)
    \/ AppendFuseEvent(w)
    \/ FlushHandle(w)
    \/ \E p \in Paths : SetOther(w, p) \/ HearNotice(w, p)

ToolNext(w) ==
    \/ \E cmd \in Commands, p \in Paths, ts \in TagSet \ {{}} :
         GetTags(w, cmd, p, ts)
    \/ SetTags(w)
    \/ UpdateIndex(w)
    \/ AppendToolEvent(w)

SyncNext ==
    \/ \E w \in Mounts : MountNext(w)
    \/ \E w \in Tools \cup Uis : ToolNext(w)
    \/ \E w \in Tools : RebuildIndex(w) \/ \E p \in Paths : ReadForRebuild(w, p)
    \/ \E w \in Writers : Interrupt(w)
    \/ \E r \in Replayers : ReplayClear(r) \/ ReplayFill(r) \/ ReplayLock(r) \/ ReplayOther(r) \/ ReplayStop(r)

SyncSpec == Init /\ [][SyncNext]_vars

-----------------------------------------------------------------------------
(* Properties *)

\* What a writer may be doing.
Op == {Idle} \cup [pc : {"event", "flush", "set", "index", "rebuild"},
                   path : Paths, old : TagSet, new : TagSet]

\* Type correctness of the filer, the index and the writers.
SyncTypeOK ==
    /\ TypeOK
    /\ filer \in [Paths -> TagSet]
    /\ index \in [Paths -> TagSet]
    /\ op \in [Writers -> Op]
    /\ raced \in [Paths -> SUBSET {"overlap", "unheard", "unmarked", "interrupt", "late"}]
    /\ notices \in [Mounts -> SUBSET Paths]
    /\ late \in BOOLEAN
    /\ cached \in [Mounts -> [Paths -> TagSet]]

\* Nobody is changing tags and every event is marked as applied.
Settled ==
    /\ logLock = NoProc
    /\ \A i \in DOMAIN log : log[i].updated
    /\ \A w \in Writers : op[w].pc = "idle"

\* Once things have settled the index has the filer's tags of every path,
\* except where two changes of one path overlapped, one was interrupted, the
\* mount had yet to hear of an earlier one, tagctl or tagUI changed a path that
\* had an event still to be replayed, or a replay was cut short that had started
\* from a checkpoint another replay moved before it got the lock.
AgreesUnlessRaced ==
    Settled => \A p \in Paths : raced[p] = {} => index[p] = filer[p]
=============================================================================
