------------------------------ MODULE TagIndex ------------------------------
(***************************************************************************)
(* The tag index on disk (tagindex/internal/index/index.go): one file in   *)
(* by-tag/ for each tag, listing the paths that have it, and the file      *)
(* all-tagged.  tagctl, the requests of tagUI and the replayers change it  *)
(* at the same time and take no lock.  A file is changed by reading it,    *)
(* writing a temporary file in the same directory and renaming that over   *)
(* it; a listing of by-tag/ sees the temporary files of the others.        *)
(*                                                                         *)
(* An operation has a plan: the files of by-tag/ to drop its path from,    *)
(* those to add it to, and what to do with all-tagged.                     *)
(***************************************************************************)
EXTENDS Integers, FiniteSets

CONSTANTS
    Paths,        \* files that have tags
    Tags,         \* the tags, and their files in by-tag/
    Temps,        \* names of temporary files in by-tag/
    Procs,        \* processes and requests that change the index
    MaxOps,       \* bound on Set and Update
    MaxCrashes,   \* bound on processes that die
    NoFile        \* there is no file of that name

ASSUME IndexAssumption ==
    /\ Tags \cap Temps = {}
    /\ NoFile \notin Paths /\ \A lines \in SUBSET Paths : NoFile # lines
    /\ MaxOps \in Nat /\ MaxCrashes \in Nat

VARIABLES
    files,        \* files[f]: the lines of f in by-tag/
    allTagged,    \* the lines of all-tagged
    proc,         \* proc[w]: what w is doing
    wanted,       \* wanted[p]: the tags p has at the filer
    clean,        \* paths the index must be right about (history)
    ops,          \* operations started so far
    crashes       \* processes that have died

vars == <<files, allTagged, proc, wanted, clean, ops, crashes>>

-----------------------------------------------------------------------------

Files == Tags \cup Temps

\* readLines: a missing file has no lines.
Lines(f) == IF files[f] = NoFile THEN {} ELSE files[f]

Existing == {f \in Files : files[f] # NoFile}

\* allPaths: every path listed in by-tag/, the temporary files included.
allPaths == UNION {Lines(f) : f \in Files}

\* What is left to do of an operation.
Plan(drop, add, tagged) == [drop |-> drop, add |-> add, tagged |-> tagged]

NoPlan == Plan({}, {}, "none")

\* Set: clear the path from every file there is, then all-tagged, then add it
\* to the files of its tags.
SetPlan(tags) == Plan(Existing, tags, IF tags = {} THEN "untag" ELSE "tag")

\* UpdatePlan that never takes a path out of all-tagged, for validating QueryExact.
UpdatePlanTagsOnly(old, new) ==
    Plan(old \ new, new \ old, IF old = {} /\ new # {} THEN "tag" ELSE "none")

\* Update: only the files of the tags that change, and then all-tagged if the path
\* had no tag before or has none now.
UpdatePlan(old, new) ==
    Plan(old \ new, new \ old, IF old = {} /\ new # {} THEN "tag"
                               ELSE IF old # {} /\ new = {} THEN "untag" ELSE "none")

IdleProc == [pc |-> "idle", op |-> "none", path |-> NoFile, plan |-> NoPlan,
             target |-> NoFile, temp |-> NoFile, buf |-> {}, alone |-> TRUE]

Init ==
    /\ files = [f \in Files |-> NoFile]
    /\ allTagged = NoFile
    /\ proc = [w \in Procs |-> IdleProc]
    /\ wanted = [p \in Paths |-> {}]
    /\ clean = Paths
    /\ ops = 0
    /\ crashes = 0

\* It is the turn of the files to add to, and of all-tagged.
AddsNow(w) ==
    proc[w].plan.drop = {} /\ (proc[w].op = "Set" => proc[w].plan.tagged = "none")
TagsNow(w) ==
    /\ proc[w].plan.drop = {} /\ proc[w].plan.tagged # "none"
    /\ proc[w].op = "Update" => proc[w].plan.add = {}

Busy == {w \in Procs : proc[w].pc \notin {"idle", "dead"}}

-----------------------------------------------------------------------------
(* Operations *)

\* w goes on with a plan, or returns when there is nothing left of it.  A Set
\* that overlapped with nothing has put its path right.
Proceed(w, plan) ==
    /\ proc' = [proc EXCEPT ![w] =
                  IF plan = NoPlan THEN IdleProc
                  ELSE [@ EXCEPT !.pc = "run", !.plan = plan, !.target = NoFile,
                                 !.temp = NoFile, !.buf = {}]]
    /\ clean' = IF plan = NoPlan /\ proc[w].op = "Set" /\ proc[w].alone
                THEN clean \cup {proc[w].path} ELSE clean

\* w starts an operation; what overlaps with it can be wrong afterwards.
Begin(w, op, p, plan) ==
    /\ proc[w].pc = "idle"
    /\ LET start == [IdleProc EXCEPT !.pc = "run", !.op = op, !.path = p,
                                     !.plan = plan, !.alone = (Busy = {})]
       IN  proc' = [v \in Procs |-> IF v = w THEN (IF plan = NoPlan THEN IdleProc ELSE start)
                                    ELSE [proc[v] EXCEPT !.alone = FALSE]]
    /\ clean' = IF Busy = {} THEN clean ELSE {}
    /\ UNCHANGED <<files, allTagged, crashes>>

Set(w, p, tags) ==
    /\ ops < MaxOps
    /\ ops' = ops + 1
    /\ wanted' = [wanted EXCEPT ![p] = tags]
    /\ Begin(w, "Set", p, SetPlan(tags))

\* The caller has read the old tags from the filer and saved the new ones there.
Update(w, p, tags) ==
    /\ ops < MaxOps
    /\ ops' = ops + 1
    /\ wanted' = [wanted EXCEPT ![p] = tags]
    /\ Begin(w, "Update", p, UpdatePlan(wanted[p], tags))

RebuildAllTagged(w) ==
    /\ Begin(w, "Rebuild", NoFile, Plan({}, {}, "rebuild"))
    /\ UNCHANGED <<ops, wanted>>

-----------------------------------------------------------------------------
(* addPath, removePath and removePathFromAllTags: one file *)

\* Names that no process has listed or is using.
FreeTemps ==
    {n \in Temps :
        /\ files[n] = NoFile
        /\ \A v \in Procs :
             /\ n \notin {proc[v].target, proc[v].temp} \cup proc[v].plan.drop}

\* w has read f and will write the lines buf to it.
Rewrites(w, f, plan, buf) ==
    /\ proc' = [proc EXCEPT ![w].pc = "create", ![w].plan = plan, ![w].target = f, ![w].buf = buf]
    /\ UNCHANGED clean

removePath(w, f) ==
    LET rest == [proc[w].plan EXCEPT !.drop = @ \ {f}]  p == proc[w].path IN
    /\ proc[w].pc = "run" /\ f \in proc[w].plan.drop
    /\ IF p \in Lines(f) THEN Rewrites(w, f, rest, Lines(f) \ {p}) ELSE Proceed(w, rest)
    /\ UNCHANGED <<files, allTagged, wanted, ops, crashes>>

addPath(w, f) ==
    /\ proc[w].pc = "run" /\ AddsNow(w) /\ f \in proc[w].plan.add
    /\ Rewrites(w, f, [proc[w].plan EXCEPT !.add = @ \ {f}], Lines(f) \cup {proc[w].path})
    /\ UNCHANGED <<files, allTagged, wanted, ops, crashes>>

\* CreateTemp with one name for all, for validating TypeOK.
CreateFixedTemp(w) ==
    /\ proc[w].pc = "create"
    /\ LET n == CHOOSE n \in Temps : TRUE IN
         /\ files' = [files EXCEPT ![n] = proc[w].buf]
         /\ proc' = [proc EXCEPT ![w].pc = "rename", ![w].temp = n]
    /\ UNCHANGED <<allTagged, wanted, clean, ops, crashes>>

\* writeLines: os.CreateTemp and the lines...
CreateTemp(w) ==
    /\ proc[w].pc = "create"
    /\ FreeTemps # {}
    /\ LET n == CHOOSE n \in FreeTemps : TRUE IN
         /\ files' = [files EXCEPT ![n] = proc[w].buf]
         /\ proc' = [proc EXCEPT ![w].pc = "rename", ![w].temp = n]
    /\ UNCHANGED <<allTagged, wanted, clean, ops, crashes>>

\* ... and os.Rename.
Rename(w) ==
    /\ proc[w].pc = "rename"
    /\ files' = [files EXCEPT ![proc[w].target] = files[proc[w].temp],
                              ![proc[w].temp] = NoFile]
    /\ Proceed(w, proc[w].plan)
    /\ UNCHANGED <<allTagged, wanted, ops, crashes>>

-----------------------------------------------------------------------------
(* addTaggedPath, removeTaggedPath and RebuildAllTagged *)

\* allTaggedPaths makes the file from by-tag/ if it is missing.
ReadTagged(w) ==
    LET act == proc[w].plan.tagged
        p == proc[w].path
        rest == [proc[w].plan EXCEPT !.tagged = "none"]
        tagged == IF allTagged = NoFile \/ act = "rebuild" THEN allPaths ELSE allTagged
    IN
    /\ proc[w].pc = "run" /\ TagsNow(w)
    /\ allTagged' = IF act = "rebuild" THEN allTagged ELSE tagged
    /\ IF act = "untag" /\ p \notin tagged
       THEN Proceed(w, rest)
       ELSE /\ proc' = [proc EXCEPT ![w].pc = "save", ![w].plan = rest,
                 ![w].buf = CASE act = "tag"     -> tagged \cup {p}
                              [] act = "untag"   -> tagged \ {p}
                              [] act = "rebuild" -> tagged]
            /\ UNCHANGED clean
    /\ UNCHANGED <<files, wanted, ops, crashes>>

SaveTagged(w) ==
    /\ proc[w].pc = "save"
    /\ allTagged' = proc[w].buf
    /\ Proceed(w, proc[w].plan)
    /\ UNCHANGED <<files, wanted, ops, crashes>>

\* The process dies: a temporary file it was about to rename stays.
Crash(w) ==
    /\ w \in Busy
    /\ crashes < MaxCrashes
    /\ crashes' = crashes + 1
    /\ proc' = [proc EXCEPT ![w] = [IdleProc EXCEPT !.pc = "dead"]]
    /\ clean' = clean \ {proc[w].path}
    /\ UNCHANGED <<files, allTagged, wanted, ops>>

Step(w) ==
    \/ \E f \in Files : removePath(w, f) \/ addPath(w, f)
    \/ CreateTemp(w) \/ Rename(w)
    \/ ReadTagged(w) \/ SaveTagged(w)

Next ==
    \E w \in Procs :
        \/ Step(w) \/ Crash(w) \/ RebuildAllTagged(w)
        \/ \E p \in Paths, tags \in SUBSET Tags :
             \/ Set(w, p, tags)
             \/ Update(w, p, tags)

Spec == Init /\ [][Next]_vars

-----------------------------------------------------------------------------
(* Properties *)

Plans ==
    [drop : SUBSET Files, add : SUBSET Tags, tagged : {"none", "tag", "untag", "rebuild"}]

ProcStates ==
    [pc : {"idle", "run", "create", "rename", "save", "dead"},
     op : {"none", "Set", "Update", "Rebuild"}, path : Paths \cup {NoFile}, plan : Plans,
     target : Files \cup {NoFile}, temp : Temps \cup {NoFile}, buf : SUBSET Paths,
     alone : BOOLEAN]

\* Type correctness; a temporary file is there when its process renames it,
\* although the other processes see it and may replace it meanwhile.
TypeOK ==
    /\ files \in [Files -> (SUBSET Paths) \cup {NoFile}]
    /\ allTagged \in (SUBSET Paths) \cup {NoFile}
    /\ proc \in [Procs -> ProcStates]
    /\ \A w \in Procs : proc[w].pc = "rename" => files[proc[w].temp] # NoFile
    /\ wanted \in [Paths -> SUBSET Tags]
    /\ clean \subseteq Paths
    /\ ops \in 0 .. MaxOps
    /\ crashes \in 0 .. MaxCrashes

InFlight(p) == \E w \in Busy : proc[w].path = p

\* Queries are right about a path, whatever lost updates, crashes and left-over
\* temporary files came before, once one Set of it has run without overlapping
\* with another operation; operations on other paths, and crashes of them, do
\* not undo this as long as operations do not overlap.  Only all-tagged may
\* name it wrongly, and only if a left-over temporary file lists it.
QueryExact ==
    \A p \in clean : ~InFlight(p) =>
        /\ \A t \in Tags : p \in Lines(t) <=> t \in wanted[p]
        /\ allTagged # NoFile /\ (\A n \in Temps : p \notin Lines(n)) =>
              (p \in allTagged <=> wanted[p] # {})
=============================================================================
