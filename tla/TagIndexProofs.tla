--------------------------- MODULE TagIndexProofs ---------------------------
(***************************************************************************)
(* Proofs about TagIndex, for any paths, tags, processes and operations:   *)
(* type correctness, and that queries are right about a path once one Set  *)
(* of it has run without overlapping with another operation.               *)
(***************************************************************************)
EXTENDS TagIndex, TLAPS

-----------------------------------------------------------------------------
(* The inductive invariant *)

\* Only Set and Update have files to change.
Fits(op, plan) ==
    /\ op \in {"Set", "Update"} => plan.tagged # "rebuild"
    /\ op = "Rebuild" => plan.drop = {} /\ plan.add = {} /\ plan.tagged \in {"none", "rebuild"}
    /\ op = "none" => plan = NoPlan

\* The operation of the process r, its plan and its path fit together.
PlanOK(r) ==
    /\ r.op = "none" <=> r.pc \in {"idle", "dead"}
    /\ Fits(r.op, r.plan)
    /\ r.op \in {"Set", "Update"} => r.path \in Paths
    /\ r.op = "Rebuild" => r.path = NoFile /\ r.pc \in {"run", "save"}
    /\ r.pc \in {"create", "rename"} => r.target \in Files

PlanInv == \A w \in Procs : PlanOK(proc[w])

\* A temporary file belongs to the one process that is about to rename it.
TempInv ==
    \A w \in Procs : proc[w].pc = "rename" =>
        /\ proc[w].temp \in Temps /\ proc[w].temp # proc[w].target
        /\ \A v \in Procs : v # w /\ proc[v].pc = "rename" => proc[v].temp # proc[w].temp

TypeInv == TypeOK /\ PlanInv /\ TempInv

\* The lines of file f when the files of by-tag/ are fl.
LinesIn(fl, f) == IF fl[f] = NoFile THEN {} ELSE fl[f]

\* The files that the process r has still to drop its path from, and to add it to, the
\* one it is writing included, and the temporary file it is about to rename.
DropsOf(r) ==
    r.plan.drop \cup {f \in {r.target} : r.pc \in {"create", "rename"} /\ r.path \notin r.buf}
AddsOf(r) ==
    r.plan.add \cup {f \in {r.target} : r.pc \in {"create", "rename"} /\ r.path \in r.buf}
TempsOf(r) == {n \in {r.temp} : r.pc = "rename"}

\* Apart from the files D, the files of the tags T but for those in A name p.
ExactIn(fl, T, p, D, A) == \A t \in Tags \ D : p \in LinesIn(fl, t) <=> t \in T \ A

\* The list of all tagged paths is right about p, which has the tags T, unless it is
\* missing or a left-over temporary file names p.
TaggedIn(fl, temps, T, p, lines) ==
    lines # NoFile /\ (\A n \in Temps \ temps : p \notin LinesIn(fl, n)) =>
        (p \in lines <=> T # {})

\* What the process r is about to write changes nothing but its own path.
BufferIn(fl, r) ==
    /\ r.pc \in {"create", "rename"} =>
         \A x \in Paths \ {r.path} : x \in r.buf <=> x \in LinesIn(fl, r.target)
    /\ r.pc = "rename" => fl[r.temp] = r.buf

\* The list of all tagged paths that r is about to save is right about the others.
SavesIn(fl, want, right, r) ==
    r.pc = "save" => \A x \in right \ {r.path} : TaggedIn(fl, {}, want[x], x, r.buf)

\* How far the process r has come with its own path, which is to have the tags T.
OwnIn(fl, all, T, r) ==
    /\ AddsOf(r) \subseteq T /\ DropsOf(r) \cap T \subseteq AddsOf(r)
    /\ ExactIn(fl, T, r.path, DropsOf(r), AddsOf(r))
    /\ r.plan.tagged = "tag" => T # {}
    /\ r.plan.tagged = "untag" => T = {}
    /\ r.plan.tagged = "none" => DropsOf(r) \subseteq Tags
    /\ r.pc \in {"create", "rename"} /\ r.path \in r.buf =>
         r.plan.drop = {} /\ r.target \notin r.plan.add
    /\ r.pc = "save" => (r.path \in r.buf <=> T # {})
    /\ r.pc # "save" /\ r.plan.tagged = "none" =>
         TaggedIn(fl, TempsOf(r), T, r.path, all)

\* An operation that overlaps with nothing is the only one, and paths are clean only
\* as long as there is no other kind.
AloneInv ==
    /\ \A w \in Busy : proc[w].alone => Busy = {w}
    /\ clean # {} => \A w \in Busy : proc[w].alone

\* The temporary files that are about to be renamed.
LiveTemps == UNION {TempsOf(proc[w]) : w \in Busy}

RightAbout(x) ==
    /\ ExactIn(files, wanted[x], x, {}, {})
    /\ TaggedIn(files, LiveTemps, wanted[x], x, allTagged)

CleanInv == \A x \in clean : ~InFlight(x) => RightAbout(x)

WorkInv ==
    \A w \in Busy : proc[w].alone =>
        /\ BufferIn(files, proc[w])
        /\ SavesIn(files, wanted, clean, proc[w])
        /\ proc[w].op = "Set" \/ proc[w].path \in clean =>
             OwnIn(files, allTagged, wanted[proc[w].path], proc[w])

IndexInv == TypeInv /\ AloneInv /\ CleanInv /\ WorkInv

-----------------------------------------------------------------------------
(* Type correctness *)

LinesType == (SUBSET Paths) \cup {NoFile}

\* What a process becomes that goes on with a plan.
Moved(r, plan) ==
    IF plan = NoPlan THEN IdleProc
    ELSE [r EXCEPT !.pc = "run", !.plan = plan, !.target = NoFile, !.temp = NoFile, !.buf = {}]

LEMMA NoPlanType == NoPlan \in Plans /\ NoPlan.drop = {} /\ NoPlan.add = {}
                    /\ NoPlan.tagged = "none"
BY DEF NoPlan, Plan, Plans

LEMMA IdleType == IdleProc \in ProcStates /\ PlanOK(IdleProc)
                  /\ [IdleProc EXCEPT !.pc = "dead"] \in ProcStates
                  /\ PlanOK([IdleProc EXCEPT !.pc = "dead"])
<1>1. IdleProc \in ProcStates /\ [IdleProc EXCEPT !.pc = "dead"] \in ProcStates
  BY NoPlanType DEF IdleProc, ProcStates
<1>2. PlanOK(IdleProc) /\ PlanOK([IdleProc EXCEPT !.pc = "dead"])
  BY DEF IdleProc, PlanOK, Fits
<1> QED
  BY <1>1, <1>2

LEMMA MovedType ==
    ASSUME NEW r \in ProcStates, PlanOK(r), NEW plan \in Plans, Fits(r.op, plan),
           r.op # "none"
    PROVE  /\ Moved(r, plan) \in ProcStates /\ PlanOK(Moved(r, plan))
           /\ Moved(r, plan).pc \in {"idle", "run"}
           /\ plan = NoPlan => Moved(r, plan) = IdleProc
           /\ plan # NoPlan => /\ Moved(r, plan).pc = "run" /\ Moved(r, plan).plan = plan
                               /\ Moved(r, plan).op = r.op /\ Moved(r, plan).path = r.path
                               /\ Moved(r, plan).alone = r.alone
<1>1. CASE plan = NoPlan
  <2>1. Moved(r, plan) = IdleProc
    BY <1>1 DEF Moved
  <2>2. IdleProc.pc = "idle"
    BY DEF IdleProc
  <2> QED
    BY <1>1, <2>1, <2>2, IdleType
<1>2. CASE plan # NoPlan
  <2> DEFINE x == [r EXCEPT !.pc = "run", !.plan = plan, !.target = NoFile, !.temp = NoFile,
                            !.buf = {}]
  <2>1. Moved(r, plan) = x
    BY <1>2 DEF Moved
  <2>2. /\ x \in ProcStates /\ x.pc = "run" /\ x.plan = plan /\ x.op = r.op
        /\ x.path = r.path /\ x.alone = r.alone
    BY DEF ProcStates
  <2> HIDE DEF x
  <2>3. PlanOK(x)
    BY <2>2 DEF PlanOK
  <2> QED
    BY <1>2, <2>1, <2>2, <2>3
<1> QED
  BY <1>1, <1>2

\* The processes keep their types when one of them becomes x and the temporary files
\* of the others stay.
LEMMA UpdateProc ==
    ASSUME TypeInv, NEW w \in Procs, NEW x \in ProcStates, PlanOK(x),
           proc' = [proc EXCEPT ![w] = x],
           \A v \in Procs : v # w /\ proc[v].pc = "rename" => files'[proc[v].temp] # NoFile,
           x.pc = "rename" =>
              /\ x.temp \in Temps /\ x.temp # x.target /\ files'[x.temp] # NoFile
              /\ \A v \in Procs : v # w /\ proc[v].pc = "rename" => proc[v].temp # x.temp
    PROVE  /\ proc' \in [Procs -> ProcStates]
           /\ \A v \in Procs : proc'[v].pc = "rename" => files'[proc'[v].temp] # NoFile
           /\ PlanInv' /\ TempInv'
<1>1. proc' \in [Procs -> ProcStates]
  BY DEF TypeInv, TypeOK
<1>2. /\ proc'[w] = x
      /\ \A v \in Procs : v # w => proc'[v] = proc[v]
  BY DEF TypeInv, TypeOK
<1>3. \A v \in Procs : proc'[v].pc = "rename" => files'[proc'[v].temp] # NoFile
  BY <1>2
<1>4. PlanInv'
  BY <1>2 DEF TypeInv, PlanInv
<1>5. TempInv'
  BY <1>2 DEF TypeInv, TempInv
<1> QED
  BY <1>1, <1>3, <1>4, <1>5

\* The same when no file changes.
LEMMA UpdateProcOnly ==
    ASSUME TypeInv, NEW w \in Procs, NEW x \in ProcStates, PlanOK(x), x.pc # "rename",
           proc' = [proc EXCEPT ![w] = x], UNCHANGED files
    PROVE  /\ proc' \in [Procs -> ProcStates]
           /\ \A v \in Procs : proc'[v].pc = "rename" => files'[proc'[v].temp] # NoFile
           /\ PlanInv' /\ TempInv'
<1>1. \A v \in Procs : v # w /\ proc[v].pc = "rename" => files'[proc[v].temp] # NoFile
  BY DEF TypeInv, TypeOK
<1> QED
  BY <1>1, UpdateProc

\* A process that proceeds becomes Moved, and only its path may become clean.
LEMMA ProceedMoves ==
    ASSUME TypeInv, NEW w \in Procs, NEW plan, Proceed(w, plan)
    PROVE  /\ proc' = [proc EXCEPT ![w] = Moved(proc[w], plan)]
           /\ clean' = IF plan = NoPlan /\ proc[w].op = "Set" /\ proc[w].alone
                       THEN clean \cup {proc[w].path} ELSE clean
           /\ clean' \subseteq Paths
<1>1. /\ proc' = [proc EXCEPT ![w] = Moved(proc[w], plan)]
      /\ clean' = IF plan = NoPlan /\ proc[w].op = "Set" /\ proc[w].alone
                  THEN clean \cup {proc[w].path} ELSE clean
  BY DEF Proceed, Moved, TypeInv, TypeOK
<1>2. proc[w].op = "Set" => proc[w].path \in Paths
  BY DEF TypeInv, PlanInv, PlanOK
<1> QED
  BY <1>1, <1>2 DEF TypeInv, TypeOK

\* The process that w is, and that it is busy when it takes a step.
LEMMA ProcFields ==
    ASSUME TypeInv, NEW w \in Procs
    PROVE  /\ proc[w] \in ProcStates /\ PlanOK(proc[w])
           /\ proc[w].plan \in Plans /\ proc[w].buf \subseteq Paths
           /\ w \in Busy <=> proc[w].op # "none"
<1>1. proc[w] \in ProcStates /\ PlanOK(proc[w])
  BY DEF TypeInv, TypeOK, PlanInv
<1>2. proc[w].plan \in Plans /\ proc[w].buf \subseteq Paths
  BY <1>1 DEF ProcStates
<1> QED
  BY <1>1, <1>2 DEF PlanOK, Busy

LEMMA LinesTyped ==
    ASSUME TypeInv, NEW f \in Files
    PROVE  Lines(f) \subseteq Paths /\ allPaths \subseteq Paths
<1>1. ASSUME NEW g \in Files PROVE Lines(g) \subseteq Paths
  <2>1. files[g] = NoFile \/ files[g] \in SUBSET Paths
    BY DEF TypeInv, TypeOK
  <2> QED
    BY <2>1 DEF Lines
<1> QED
  BY <1>1 DEF allPaths

\* A process that has read f and is to write it.
Rewritten(r, f, plan, buf) ==
    [r EXCEPT !.pc = "create", !.plan = plan, !.target = f, !.buf = buf]

LEMMA RewrittenType ==
    ASSUME NEW r \in ProcStates, PlanOK(r), NEW plan \in Plans, NEW f \in Files,
           NEW buf \in SUBSET Paths, r.op \in {"Set", "Update"}, Fits(r.op, plan)
    PROVE  LET x == Rewritten(r, f, plan, buf) IN
           /\ x \in ProcStates /\ PlanOK(x)
           /\ x.pc = "create" /\ x.plan = plan /\ x.target = f /\ x.buf = buf
           /\ x.op = r.op /\ x.path = r.path /\ x.alone = r.alone
<1> DEFINE x == Rewritten(r, f, plan, buf)
<1>1. /\ x \in ProcStates
      /\ x.pc = "create" /\ x.plan = plan /\ x.target = f /\ x.buf = buf
      /\ x.op = r.op /\ x.path = r.path /\ x.alone = r.alone
  BY DEF ProcStates, Rewritten
<1> HIDE DEF x
<1>2. PlanOK(x)
  BY <1>1 DEF PlanOK
<1> QED
  BY <1>1, <1>2 DEF x

\* What is left of a plan when a file or all-tagged is done.
LEMMA PlanLess ==
    ASSUME NEW plan \in Plans, NEW f, NEW op \in {"Set", "Update", "Rebuild"}, Fits(op, plan)
    PROVE  /\ LET rest == [plan EXCEPT !.drop = @ \ {f}] IN
              /\ rest \in Plans /\ Fits(op, rest)
              /\ rest.drop = plan.drop \ {f} /\ rest.add = plan.add
              /\ rest.tagged = plan.tagged
           /\ LET rest == [plan EXCEPT !.add = @ \ {f}] IN
              /\ rest \in Plans /\ Fits(op, rest)
              /\ rest.drop = plan.drop /\ rest.add = plan.add \ {f}
              /\ rest.tagged = plan.tagged
           /\ LET rest == [plan EXCEPT !.tagged = "none"] IN
              /\ rest \in Plans /\ Fits(op, rest)
              /\ rest.drop = plan.drop /\ rest.add = plan.add
              /\ rest.tagged = "none"
<1> DEFINE r1 == [plan EXCEPT !.drop = @ \ {f}]
           r2 == [plan EXCEPT !.add = @ \ {f}]
           r3 == [plan EXCEPT !.tagged = "none"]
<1>1. /\ r1 \in Plans /\ r1.drop = plan.drop \ {f} /\ r1.add = plan.add
      /\ r1.tagged = plan.tagged
  BY DEF Plans
<1>2. /\ r2 \in Plans /\ r2.drop = plan.drop /\ r2.add = plan.add \ {f}
      /\ r2.tagged = plan.tagged
  BY DEF Plans
<1>3. /\ r3 \in Plans /\ r3.drop = plan.drop /\ r3.add = plan.add
      /\ r3.tagged = "none"
  BY DEF Plans
<1> HIDE DEF r1, r2, r3
<1>4. Fits(op, r1)
  BY <1>1 DEF Fits
<1>5. Fits(op, r2)
  BY <1>2 DEF Fits
<1>6. Fits(op, r3)
  BY <1>3 DEF Fits
<1> QED
  BY <1>1, <1>2, <1>3, <1>4, <1>5, <1>6 DEF r1, r2, r3

\* A plan is done when nothing is left in it.
LEMMA PlanDone ==
    ASSUME NEW plan \in Plans
    PROVE  plan = NoPlan <=> plan.drop = {} /\ plan.add = {} /\ plan.tagged = "none"
BY DEF Plans, NoPlan, Plan

\* removePath: the file is written without the path, or skipped.
LEMMA removePathEffect ==
    ASSUME TypeInv, NEW w \in Procs, NEW f \in Files, removePath(w, f)
    PROVE  LET r == proc[w]  rest == [r.plan EXCEPT !.drop = @ \ {f}] IN
           /\ r.pc = "run" /\ f \in r.plan.drop /\ r.op \in {"Set", "Update"}
           /\ \/ /\ r.path \in Lines(f) /\ clean' = clean
                 /\ proc' = [proc EXCEPT ![w] = Rewritten(r, f, rest, Lines(f) \ {r.path})]
              \/ r.path \notin Lines(f) /\ Proceed(w, rest)
           /\ UNCHANGED <<files, allTagged, wanted, ops, crashes>>
<1>1. proc[w].pc = "run" /\ f \in proc[w].plan.drop
  BY DEF removePath
<1>2. proc[w].op \in {"Set", "Update"}
  BY <1>1, ProcFields, NoPlanType DEF PlanOK, Fits, ProcStates
<1>3. \/ /\ proc[w].path \in Lines(f)
         /\ Rewrites(w, f, [proc[w].plan EXCEPT !.drop = @ \ {f}], Lines(f) \ {proc[w].path})
      \/ proc[w].path \notin Lines(f) /\ Proceed(w, [proc[w].plan EXCEPT !.drop = @ \ {f}])
  BY DEF removePath
<1> QED
  BY <1>1, <1>2, <1>3 DEF removePath, Rewrites, Rewritten, TypeInv, TypeOK

\* addPath: the file is written with the path.
LEMMA addPathEffect ==
    ASSUME TypeInv, NEW w \in Procs, NEW f \in Files, addPath(w, f)
    PROVE  LET r == proc[w]  rest == [r.plan EXCEPT !.add = @ \ {f}] IN
           /\ r.pc = "run" /\ AddsNow(w) /\ f \in r.plan.add /\ r.op \in {"Set", "Update"}
           /\ proc' = [proc EXCEPT ![w] = Rewritten(r, f, rest, Lines(f) \cup {r.path})]
           /\ UNCHANGED <<files, allTagged, wanted, ops, crashes, clean>>
<1>1. proc[w].pc = "run" /\ f \in proc[w].plan.add
  BY DEF addPath
<1>2. proc[w].op \in {"Set", "Update"}
  BY <1>1, ProcFields, NoPlanType DEF PlanOK, Fits, ProcStates
<1> QED
  BY <1>1, <1>2 DEF addPath, Rewrites, Rewritten, TypeInv, TypeOK

LEMMA removePathType ==
    ASSUME TypeInv, NEW w \in Procs, NEW f \in Files, removePath(w, f)
    PROVE  TypeInv'
<1> DEFINE r == proc[w]
           rest == [r.plan EXCEPT !.drop = @ \ {f}]
<1>1. /\ r.pc = "run" /\ f \in r.plan.drop /\ r.op \in {"Set", "Update"}
      /\ \/ /\ r.path \in Lines(f) /\ clean' = clean
            /\ proc' = [proc EXCEPT ![w] = Rewritten(r, f, rest, Lines(f) \ {r.path})]
         \/ r.path \notin Lines(f) /\ Proceed(w, rest)
      /\ UNCHANGED <<files, allTagged, wanted, ops, crashes>>
  BY removePathEffect
<1>2. r \in ProcStates /\ PlanOK(r) /\ r.plan \in Plans /\ Fits(r.op, r.plan)
  BY ProcFields DEF PlanOK
<1>3. rest \in Plans /\ Fits(r.op, rest) /\ r.op # "none"
  <2>1. r.op \in {"Set", "Update", "Rebuild"} /\ r.op # "none"
    BY <1>1
  <2> QED
    BY <1>2, <2>1, PlanLess, ZenonT(30)
<1>4. Lines(f) \ {r.path} \in SUBSET Paths
  BY LinesTyped
<1> HIDE DEF rest, r
<1>5. CASE proc' = [proc EXCEPT ![w] = Rewritten(r, f, rest, Lines(f) \ {r.path})]
           /\ clean' = clean
  <2> DEFINE x == Rewritten(r, f, rest, Lines(f) \ {r.path})
  <2>1. x \in ProcStates /\ PlanOK(x) /\ x.pc # "rename"
    BY <1>1, <1>2, <1>3, <1>4, RewrittenType
  <2> HIDE DEF x
  <2>2. /\ proc' \in [Procs -> ProcStates] /\ PlanInv' /\ TempInv'
        /\ \A v \in Procs : proc'[v].pc = "rename" => files'[proc'[v].temp] # NoFile
    BY <1>1, <1>5, <2>1, UpdateProcOnly DEF x
  <2> QED
    BY <1>1, <1>5, <2>2 DEF TypeInv, TypeOK
<1>6. CASE Proceed(w, rest)
  <2>1. proc' = [proc EXCEPT ![w] = Moved(r, rest)] /\ clean' \subseteq Paths
    BY <1>6, ProceedMoves DEF r
  <2>2. Moved(r, rest) \in ProcStates /\ PlanOK(Moved(r, rest)) /\ Moved(r, rest).pc # "rename"
    BY <1>2, <1>3, MovedType
  <2>3. /\ proc' \in [Procs -> ProcStates] /\ PlanInv' /\ TempInv'
        /\ \A v \in Procs : proc'[v].pc = "rename" => files'[proc'[v].temp] # NoFile
    BY <1>1, <2>1, <2>2, UpdateProcOnly
  <2> QED
    BY <1>1, <2>1, <2>3 DEF TypeInv, TypeOK
<1> QED
  BY <1>1, <1>5, <1>6

LEMMA addPathType ==
    ASSUME TypeInv, NEW w \in Procs, NEW f \in Files, addPath(w, f)
    PROVE  TypeInv'
<1> DEFINE r == proc[w]
           rest == [r.plan EXCEPT !.add = @ \ {f}]
           x == Rewritten(r, f, rest, Lines(f) \cup {r.path})
<1>1. /\ r.op \in {"Set", "Update"} /\ proc' = [proc EXCEPT ![w] = x]
      /\ UNCHANGED <<files, allTagged, wanted, ops, crashes, clean>>
  BY addPathEffect
<1>2. r \in ProcStates /\ PlanOK(r) /\ r.plan \in Plans /\ Fits(r.op, r.plan)
  BY ProcFields DEF PlanOK
<1>3. rest \in Plans /\ Fits(r.op, rest)
  <2>1. r.op \in {"Set", "Update", "Rebuild"} /\ r.op # "none"
    BY <1>1
  <2> QED
    BY <1>2, <2>1, PlanLess, ZenonT(30)
<1>4. Lines(f) \cup {r.path} \in SUBSET Paths
  BY <1>1, <1>2, LinesTyped DEF PlanOK
<1> HIDE DEF rest, r
<1>5. x \in ProcStates /\ PlanOK(x) /\ x.pc # "rename"
  BY <1>1, <1>2, <1>3, <1>4, RewrittenType
<1> HIDE DEF x
<1>6. /\ proc' \in [Procs -> ProcStates] /\ PlanInv' /\ TempInv'
      /\ \A v \in Procs : proc'[v].pc = "rename" => files'[proc'[v].temp] # NoFile
  BY <1>1, <1>5, UpdateProcOnly
<1> QED
  BY <1>1, <1>6 DEF TypeInv, TypeOK

\* CreateTemp: the lines go to a name that nobody uses.
LEMMA CreateTempEffect ==
    ASSUME TypeInv, NEW w \in Procs, CreateTemp(w)
    PROVE  /\ proc[w].pc = "create" /\ UNCHANGED <<allTagged, wanted, clean, ops, crashes>>
           /\ \E n \in Temps :
                /\ files[n] = NoFile
                /\ \A v \in Procs : n # proc[v].target /\ n # proc[v].temp
                                    /\ n \notin proc[v].plan.drop
                /\ files' = [files EXCEPT ![n] = proc[w].buf]
                /\ proc' = [proc EXCEPT ![w] = [proc[w] EXCEPT !.pc = "rename", !.temp = n]]
<1> DEFINE n == CHOOSE n \in FreeTemps : TRUE
<1>1. n \in FreeTemps
  BY DEF CreateTemp
<1>2. /\ files' = [files EXCEPT ![n] = proc[w].buf]
      /\ proc' = [proc EXCEPT ![w].pc = "rename", ![w].temp = n]
  BY DEF CreateTemp
<1> HIDE DEF n
<1>3. proc' = [proc EXCEPT ![w] = [proc[w] EXCEPT !.pc = "rename", !.temp = n]]
  BY <1>2 DEF TypeInv, TypeOK
<1>4. /\ n \in Temps /\ files[n] = NoFile
      /\ \A v \in Procs : n # proc[v].target /\ n # proc[v].temp /\ n \notin proc[v].plan.drop
  BY <1>1 DEF FreeTemps
<1> QED
  BY <1>2, <1>3, <1>4 DEF CreateTemp

LEMMA CreateTempType ==
    ASSUME TypeInv, NEW w \in Procs, CreateTemp(w)
    PROVE  TypeInv'
<1>1. proc[w].pc = "create" /\ UNCHANGED <<allTagged, wanted, clean, ops, crashes>>
  BY CreateTempEffect
<1>2. PICK n \in Temps :
        /\ files[n] = NoFile
        /\ \A v \in Procs : n # proc[v].target /\ n # proc[v].temp
        /\ files' = [files EXCEPT ![n] = proc[w].buf]
        /\ proc' = [proc EXCEPT ![w] = [proc[w] EXCEPT !.pc = "rename", !.temp = n]]
  BY CreateTempEffect
<1> DEFINE x == [proc[w] EXCEPT !.pc = "rename", !.temp = n]
<1>3. proc[w] \in ProcStates /\ PlanOK(proc[w]) /\ proc[w].buf \in SUBSET Paths
  BY ProcFields
<1>4. /\ x \in ProcStates /\ x.pc = "rename" /\ x.temp = n /\ x.target = proc[w].target
      /\ x.op = proc[w].op /\ x.plan = proc[w].plan /\ x.path = proc[w].path
  BY <1>3 DEF ProcStates
<1> HIDE DEF x
<1>5. PlanOK(x)
  BY <1>1, <1>3, <1>4 DEF PlanOK
<1>6. /\ files' \in [Files -> (SUBSET Paths) \cup {NoFile}]
      /\ files'[n] = proc[w].buf /\ \A f \in Files : f # n => files'[f] = files[f]
  BY <1>2, <1>3 DEF TypeInv, TypeOK, Files
<1>7. files'[n] # NoFile
  BY <1>3, <1>6, IndexAssumption
<1>8. \A v \in Procs : v # w /\ proc[v].pc = "rename" => files'[proc[v].temp] # NoFile
  BY <1>2, <1>6 DEF TypeInv, TypeOK, TempInv, Files
<1>9. /\ proc' \in [Procs -> ProcStates] /\ PlanInv' /\ TempInv'
      /\ \A v \in Procs : proc'[v].pc = "rename" => files'[proc'[v].temp] # NoFile
  <2>1. x.temp \in Temps /\ x.temp # x.target /\ files'[x.temp] # NoFile
    BY <1>2, <1>4, <1>7
  <2>2. \A v \in Procs : v # w /\ proc[v].pc = "rename" => proc[v].temp # x.temp
    BY <1>2, <1>4
  <2>3. proc' = [proc EXCEPT ![w] = x]
    BY <1>2 DEF x
  <2> QED
    BY <1>4, <1>5, <1>8, <2>1, <2>2, <2>3, UpdateProc
<1> QED
  BY <1>1, <1>6, <1>9 DEF TypeInv, TypeOK

\* Rename: the target gets the lines of the temporary file, which is gone.
LEMMA RenameEffect ==
    ASSUME TypeInv, NEW w \in Procs, Rename(w)
    PROVE  LET r == proc[w] IN
           /\ r.pc = "rename" /\ Proceed(w, r.plan) /\ r.op \in {"Set", "Update"}
           /\ r.target \in Files /\ r.temp \in Temps /\ r.temp # r.target
           /\ files[r.temp] \in SUBSET Paths
           /\ files' \in [Files -> (SUBSET Paths) \cup {NoFile}]
           /\ files'[r.target] = files[r.temp] /\ files'[r.temp] = NoFile
           /\ \A f \in Files : f # r.target /\ f # r.temp => files'[f] = files[f]
           /\ UNCHANGED <<allTagged, wanted, ops, crashes>>
<1> DEFINE r == proc[w]
<1>1. /\ r.pc = "rename" /\ Proceed(w, r.plan)
      /\ files' = [files EXCEPT ![r.target] = files[r.temp], ![r.temp] = NoFile]
      /\ UNCHANGED <<allTagged, wanted, ops, crashes>>
  BY DEF Rename
<1>2. r.op \in {"Set", "Update"} /\ r.target \in Files
  BY <1>1, ProcFields DEF PlanOK, ProcStates
<1>3. r.temp \in Temps /\ r.temp # r.target /\ files[r.temp] # NoFile
  BY <1>1 DEF TypeInv, TempInv, TypeOK
<1>4. files[r.temp] \in SUBSET Paths
  BY <1>3 DEF TypeInv, TypeOK, Files
<1> HIDE DEF r
<1>5. /\ files' \in [Files -> (SUBSET Paths) \cup {NoFile}]
      /\ files'[r.target] = files[r.temp] /\ files'[r.temp] = NoFile
      /\ \A f \in Files : f # r.target /\ f # r.temp => files'[f] = files[f]
  BY <1>1, <1>2, <1>3, <1>4 DEF TypeInv, TypeOK, Files
<1> QED
  BY <1>1, <1>2, <1>3, <1>4, <1>5 DEF r

LEMMA RenameType ==
    ASSUME TypeInv, NEW w \in Procs, Rename(w)
    PROVE  TypeInv'
<1> DEFINE r == proc[w]
<1>1. /\ r.pc = "rename" /\ Proceed(w, r.plan) /\ r.op \in {"Set", "Update"}
      /\ r.target \in Files /\ r.temp \in Temps /\ r.temp # r.target
      /\ files[r.temp] \in SUBSET Paths
      /\ files' \in [Files -> (SUBSET Paths) \cup {NoFile}]
      /\ files'[r.target] = files[r.temp] /\ files'[r.temp] = NoFile
      /\ \A f \in Files : f # r.target /\ f # r.temp => files'[f] = files[f]
      /\ UNCHANGED <<allTagged, wanted, ops, crashes>>
  BY RenameEffect
<1>2. r \in ProcStates /\ PlanOK(r) /\ r.plan \in Plans /\ Fits(r.op, r.plan) /\ r.op # "none"
  BY <1>1, ProcFields DEF PlanOK
<1>3. proc' = [proc EXCEPT ![w] = Moved(r, r.plan)] /\ clean' \subseteq Paths
  BY <1>1, ProceedMoves
<1>4. \A v \in Procs : v # w /\ proc[v].pc = "rename" =>
        proc[v].temp \in Files /\ proc[v].temp # r.temp /\ files[proc[v].temp] # NoFile
  BY <1>1 DEF TypeInv, TypeOK, TempInv, Files
<1> HIDE DEF r
<1>5. files'[r.target] # NoFile
  BY <1>1, IndexAssumption
<1>6. \A v \in Procs : v # w /\ proc[v].pc = "rename" => files'[proc[v].temp] # NoFile
  BY <1>1, <1>4, <1>5
<1>7. /\ Moved(r, r.plan) \in ProcStates /\ PlanOK(Moved(r, r.plan))
      /\ Moved(r, r.plan).pc # "rename"
  BY <1>2, MovedType
<1>8. /\ proc' \in [Procs -> ProcStates] /\ PlanInv' /\ TempInv'
      /\ \A v \in Procs : proc'[v].pc = "rename" => files'[proc'[v].temp] # NoFile
  BY <1>3, <1>6, <1>7, UpdateProc
<1> QED
  BY <1>1, <1>3, <1>8 DEF TypeInv, TypeOK

\* A process that is to save all-tagged.
Saving(r, plan, buf) == [r EXCEPT !.pc = "save", !.plan = plan, !.buf = buf]

LEMMA SavingType ==
    ASSUME NEW r \in ProcStates, PlanOK(r), NEW plan \in Plans, NEW buf \in SUBSET Paths,
           r.op # "none", Fits(r.op, plan)
    PROVE  LET x == Saving(r, plan, buf) IN
           /\ x \in ProcStates /\ PlanOK(x)
           /\ x.pc = "save" /\ x.plan = plan /\ x.buf = buf
           /\ x.op = r.op /\ x.path = r.path /\ x.alone = r.alone
<1> DEFINE x == Saving(r, plan, buf)
<1>1. /\ x \in ProcStates /\ x.pc = "save" /\ x.plan = plan /\ x.buf = buf
      /\ x.op = r.op /\ x.path = r.path /\ x.alone = r.alone
  BY DEF ProcStates, Saving
<1> HIDE DEF x
<1>2. PlanOK(x)
  BY <1>1 DEF PlanOK
<1> QED
  BY <1>1, <1>2 DEF x

\* The paths that ReadTagged takes for tagged, and the list it is to save.
TaggedNow(act) == IF allTagged = NoFile \/ act = "rebuild" THEN allPaths ELSE allTagged

SavedList(act, p) ==
    IF act = "tag" THEN TaggedNow(act) \cup {p}
    ELSE IF act = "untag" THEN TaggedNow(act) \ {p} ELSE TaggedNow(act)

LEMMA ReadTaggedEffect ==
    ASSUME TypeInv, NEW w \in Procs, ReadTagged(w)
    PROVE  LET r == proc[w]  act == r.plan.tagged
               rest == [r.plan EXCEPT !.tagged = "none"] IN
           /\ r.pc = "run" /\ r.op # "none" /\ r.plan.drop = {}
           /\ act \in {"tag", "untag", "rebuild"}
           /\ act \in {"tag", "untag"} <=> r.op \in {"Set", "Update"}
           /\ r.op = "Update" => r.plan.add = {}
           /\ allTagged' = IF act = "rebuild" THEN allTagged ELSE TaggedNow(act)
           /\ TaggedNow(act) \in SUBSET Paths /\ SavedList(act, r.path) \in SUBSET Paths
           /\ \/ act = "untag" /\ r.path \notin TaggedNow(act) /\ Proceed(w, rest)
              \/ /\ proc' = [proc EXCEPT ![w] = Saving(r, rest, SavedList(act, r.path))]
                 /\ clean' = clean
           /\ UNCHANGED <<files, wanted, ops, crashes>>
<1> DEFINE r == proc[w]
           act == r.plan.tagged
           rest == [r.plan EXCEPT !.tagged = "none"]
<1>1. /\ r.pc = "run" /\ r.plan.drop = {} /\ act # "none"
      /\ r.op = "Update" => r.plan.add = {}
      /\ allTagged' = IF act = "rebuild" THEN allTagged ELSE TaggedNow(act)
      /\ UNCHANGED <<files, wanted, ops, crashes>>
  BY DEF ReadTagged, TagsNow, TaggedNow
<1>2. r.plan \in Plans /\ PlanOK(r) /\ r \in ProcStates
  BY ProcFields
<1>3. act \in {"tag", "untag", "rebuild"}
  BY <1>1, <1>2 DEF Plans
<1>4. r.op # "none" /\ (act \in {"tag", "untag"} <=> r.op \in {"Set", "Update"})
  BY <1>1, <1>2, <1>3 DEF PlanOK, Fits, ProcStates
<1>5. TaggedNow(act) \in SUBSET Paths
  <2>1. allPaths \subseteq Paths
    <3>1. \A f \in Files : Lines(f) \subseteq Paths
      BY LinesTyped
    <3> QED
      BY <3>1 DEF allPaths
  <2> QED
    BY <2>1 DEF TaggedNow, TypeInv, TypeOK
<1>6. SavedList(act, r.path) \in SUBSET Paths
  BY <1>2, <1>4, <1>5 DEF SavedList, PlanOK
<1>7. \/ act = "untag" /\ r.path \notin TaggedNow(act) /\ Proceed(w, rest)
      \/ /\ proc' = [proc EXCEPT ![w] = Saving(r, rest, SavedList(act, r.path))]
         /\ clean' = clean
  <2>1. CASE act = "untag" /\ r.path \notin TaggedNow(act)
    BY <2>1 DEF ReadTagged, TaggedNow
  <2>2. CASE ~(act = "untag" /\ r.path \notin TaggedNow(act))
    <3>1. (CASE act = "tag"     -> TaggedNow(act) \cup {r.path}
             [] act = "untag"   -> TaggedNow(act) \ {r.path}
             [] act = "rebuild" -> TaggedNow(act)) = SavedList(act, r.path)
      BY <1>3 DEF SavedList
    <3>2. /\ clean' = clean
          /\ proc' = [proc EXCEPT ![w].pc = "save", ![w].plan = rest,
                        ![w].buf = CASE act = "tag"     -> TaggedNow(act) \cup {r.path}
                                     [] act = "untag"   -> TaggedNow(act) \ {r.path}
                                     [] act = "rebuild" -> TaggedNow(act)]
      BY <2>2 DEF ReadTagged, TaggedNow
    <3>3. proc' = [proc EXCEPT ![w].pc = "save", ![w].plan = rest,
                               ![w].buf = SavedList(act, r.path)]
      BY <3>1, <3>2
    <3> QED
      BY <3>2, <3>3 DEF Saving, TypeInv, TypeOK
  <2> QED
    BY <2>1, <2>2
<1> QED
  BY <1>1, <1>3, <1>4, <1>5, <1>6, <1>7

LEMMA ReadTaggedType ==
    ASSUME TypeInv, NEW w \in Procs, ReadTagged(w)
    PROVE  TypeInv'
<1> DEFINE r == proc[w]
           act == r.plan.tagged
           rest == [r.plan EXCEPT !.tagged = "none"]
<1>1. /\ r.op # "none"
      /\ allTagged' = IF act = "rebuild" THEN allTagged ELSE TaggedNow(act)
      /\ TaggedNow(act) \in SUBSET Paths /\ SavedList(act, r.path) \in SUBSET Paths
      /\ \/ Proceed(w, rest)
         \/ /\ proc' = [proc EXCEPT ![w] = Saving(r, rest, SavedList(act, r.path))]
            /\ clean' = clean
      /\ UNCHANGED <<files, wanted, ops, crashes>>
  BY ReadTaggedEffect
<1>2. r \in ProcStates /\ PlanOK(r) /\ r.plan \in Plans /\ Fits(r.op, r.plan)
  BY ProcFields DEF PlanOK
<1>3. rest \in Plans /\ Fits(r.op, rest)
  <2>1. r.op \in {"Set", "Update", "Rebuild"}
    BY <1>1, <1>2 DEF ProcStates
  <2> QED
    BY <1>2, <2>1, PlanLess
<1>4. allTagged' \in (SUBSET Paths) \cup {NoFile}
  BY <1>1 DEF TypeInv, TypeOK
<1> DEFINE buf == SavedList(act, r.path)
<1>5. buf \in SUBSET Paths
  BY <1>1
<1> HIDE DEF rest, r, buf
<1>6. CASE proc' = [proc EXCEPT ![w] = Saving(r, rest, buf)] /\ clean' = clean
  <2> DEFINE x == Saving(r, rest, buf)
  <2>1. x \in ProcStates /\ PlanOK(x) /\ x.pc # "rename"
    BY <1>1, <1>2, <1>3, <1>5, SavingType
  <2> HIDE DEF x
  <2>2. /\ proc' \in [Procs -> ProcStates] /\ PlanInv' /\ TempInv'
        /\ \A v \in Procs : proc'[v].pc = "rename" => files'[proc'[v].temp] # NoFile
    BY <1>1, <1>6, <2>1, UpdateProcOnly DEF x
  <2> QED
    BY <1>1, <1>4, <1>6, <2>2 DEF TypeInv, TypeOK
<1>7. CASE Proceed(w, rest)
  <2>1. proc' = [proc EXCEPT ![w] = Moved(r, rest)] /\ clean' \subseteq Paths
    BY <1>7, ProceedMoves DEF r
  <2>2. Moved(r, rest) \in ProcStates /\ PlanOK(Moved(r, rest)) /\ Moved(r, rest).pc # "rename"
    BY <1>1, <1>2, <1>3, MovedType
  <2>3. /\ proc' \in [Procs -> ProcStates] /\ PlanInv' /\ TempInv'
        /\ \A v \in Procs : proc'[v].pc = "rename" => files'[proc'[v].temp] # NoFile
    BY <1>1, <2>1, <2>2, UpdateProcOnly
  <2> QED
    BY <1>1, <1>4, <2>1, <2>3 DEF TypeInv, TypeOK
<1> QED
  BY <1>1, <1>6, <1>7 DEF buf

LEMMA SaveTaggedType ==
    ASSUME TypeInv, NEW w \in Procs, SaveTagged(w)
    PROVE  TypeInv'
<1> DEFINE r == proc[w]
<1>1. /\ r.pc = "save" /\ allTagged' = r.buf /\ Proceed(w, r.plan)
      /\ UNCHANGED <<files, wanted, ops, crashes>>
  BY DEF SaveTagged
<1>2. /\ r \in ProcStates /\ PlanOK(r) /\ r.plan \in Plans /\ Fits(r.op, r.plan)
      /\ r.buf \in SUBSET Paths /\ r.op # "none"
  BY <1>1, ProcFields DEF PlanOK
<1>3. proc' = [proc EXCEPT ![w] = Moved(r, r.plan)] /\ clean' \subseteq Paths
  BY <1>1, ProceedMoves
<1>4. /\ Moved(r, r.plan) \in ProcStates /\ PlanOK(Moved(r, r.plan))
      /\ Moved(r, r.plan).pc # "rename"
  BY <1>2, MovedType
<1> HIDE DEF r
<1>5. /\ proc' \in [Procs -> ProcStates] /\ PlanInv' /\ TempInv'
      /\ \A v \in Procs : proc'[v].pc = "rename" => files'[proc'[v].temp] # NoFile
  BY <1>1, <1>3, <1>4, UpdateProcOnly
<1> QED
  BY <1>1, <1>2, <1>3, <1>5 DEF TypeInv, TypeOK

LEMMA CrashType ==
    ASSUME TypeInv, NEW w \in Procs, Crash(w)
    PROVE  TypeInv'
<1> DEFINE x == [IdleProc EXCEPT !.pc = "dead"]
<1>1. /\ proc' = [proc EXCEPT ![w] = x] /\ clean' \subseteq clean
      /\ crashes < MaxCrashes /\ crashes' = crashes + 1
      /\ UNCHANGED <<files, allTagged, wanted, ops>>
  BY DEF Crash
<1>2. x \in ProcStates /\ PlanOK(x)
  BY IdleType
<1>3. x.pc # "rename"
  BY DEF IdleProc
<1> HIDE DEF x
<1>4. /\ proc' \in [Procs -> ProcStates] /\ PlanInv' /\ TempInv'
      /\ \A v \in Procs : proc'[v].pc = "rename" => files'[proc'[v].temp] # NoFile
  BY <1>1, <1>2, <1>3, UpdateProcOnly
<1> QED
  BY <1>1, <1>4, IndexAssumption DEF TypeInv, TypeOK

\* The process that starts an operation, alone or not.
Started(op, p, plan) ==
    [IdleProc EXCEPT !.pc = "run", !.op = op, !.path = p, !.plan = plan, !.alone = TRUE]
Overlaps(op, p, plan) == [Started(op, p, plan) EXCEPT !.alone = FALSE]

Starts(r, op, p, plan) == r.pc = "run" /\ r.op = op /\ r.path = p /\ r.plan = plan

Lone(r) == r.alone

LEMMA StartedType ==
    ASSUME NEW op \in {"Set", "Update", "Rebuild"}, NEW p \in Paths \cup {NoFile},
           NEW plan \in Plans, Fits(op, plan),
           op \in {"Set", "Update"} => p \in Paths, op = "Rebuild" => p = NoFile
    PROVE  /\ LET x == Started(op, p, plan) IN
              /\ x \in ProcStates /\ PlanOK(x) /\ x.pc = "run" /\ Starts(x, op, p, plan) /\ Lone(x)
           /\ LET x == Overlaps(op, p, plan) IN
              /\ x \in ProcStates /\ PlanOK(x) /\ x.pc = "run" /\ Starts(x, op, p, plan) /\ ~Lone(x)
<1> DEFINE x == Started(op, p, plan)
           y == Overlaps(op, p, plan)
<1>1. /\ x \in ProcStates /\ x.pc = "run" /\ x.op = op /\ x.path = p
      /\ x.plan = plan /\ x.alone = TRUE
  BY IdleType DEF Started, ProcStates, IdleProc
<1> HIDE DEF x
<1>2. y = [x EXCEPT !.alone = FALSE]
  BY DEF Overlaps, x
<1>3. /\ y \in ProcStates /\ y.pc = "run" /\ y.op = op /\ y.path = p
      /\ y.plan = plan /\ y.alone = FALSE
  BY <1>1, <1>2 DEF ProcStates
<1> HIDE DEF y
<1>4. PlanOK(x) /\ PlanOK(y)
  BY <1>1, <1>3 DEF PlanOK
<1>5. Starts(x, op, p, plan) /\ Starts(y, op, p, plan) /\ Lone(x) /\ ~Lone(y)
  BY <1>1, <1>3 DEF Starts, Lone
<1> QED
  BY <1>1, <1>3, <1>4, <1>5 DEF x, y

\* The process w starts the operation op on the path p with a plan that fits.
Opens(w, op, p, plan) ==
    /\ w \in Procs /\ op \in {"Set", "Update", "Rebuild"}
    /\ p \in Paths \cup {NoFile} /\ plan \in Plans /\ Fits(op, plan)
    /\ op \in {"Set", "Update"} => p \in Paths
    /\ op = "Rebuild" => p = NoFile
    /\ Begin(w, op, p, plan)

\* Begin: the others go on, no longer alone.
LEMMA BeginEffect ==
    ASSUME TypeInv, NEW w, NEW op, NEW p, NEW plan, Opens(w, op, p, plan)
    PROVE  /\ proc[w].pc = "idle" /\ UNCHANGED <<files, allTagged, crashes>>
           /\ Busy = {} => clean' = clean
           /\ Busy # {} => clean' = {}
           /\ proc' \in [Procs -> ProcStates]
           /\ plan = NoPlan => proc'[w] = IdleProc
           /\ plan # NoPlan => Starts(proc'[w], op, p, plan)
           /\ plan # NoPlan => (Lone(proc'[w]) <=> Busy = {})
           /\ proc'[w].pc \in {"idle", "run"} /\ PlanOK(proc'[w])
           /\ \A v \in Procs : v # w =>
                /\ PlanOK(proc'[v]) /\ ~Lone(proc'[v])
                /\ proc'[v].pc = proc[v].pc /\ proc'[v].op = proc[v].op
                /\ proc'[v].temp = proc[v].temp /\ proc'[v].target = proc[v].target
                /\ proc'[v].path = proc[v].path
<1>0. /\ w \in Procs /\ op \in {"Set", "Update", "Rebuild"}
      /\ p \in Paths \cup {NoFile} /\ plan \in Plans /\ Fits(op, plan)
      /\ op \in {"Set", "Update"} => p \in Paths
      /\ op = "Rebuild" => p = NoFile
      /\ Begin(w, op, p, plan)
  BY DEF Opens
<1> DEFINE x == IF Busy = {} THEN Started(op, p, plan) ELSE Overlaps(op, p, plan)
<1>1. /\ proc[w].pc = "idle" /\ UNCHANGED <<files, allTagged, crashes>>
      /\ clean' = IF Busy = {} THEN clean ELSE {}
      /\ proc' = [v \in Procs |-> IF v = w THEN (IF plan = NoPlan THEN IdleProc ELSE x)
                                  ELSE [proc[v] EXCEPT !.alone = FALSE]]
  <2>1. [IdleProc EXCEPT !.pc = "run", !.op = op, !.path = p, !.plan = plan,
                         !.alone = (Busy = {})] = x
    <3>1. CASE Busy = {}
      BY <3>1 DEF Started, IdleProc
    <3>2. CASE Busy # {}
      BY <3>2 DEF Started, Overlaps, IdleProc
    <3> QED
      BY <3>1, <3>2
  <2> QED
    BY <1>0, <2>1 DEF Begin
<1>2. /\ x \in ProcStates /\ PlanOK(x) /\ x.pc = "run" /\ Starts(x, op, p, plan)
      /\ Lone(x) <=> Busy = {}
  BY <1>0, StartedType
<1>3. IdleProc \in ProcStates /\ PlanOK(IdleProc) /\ IdleProc.pc = "idle"
  BY IdleType DEF IdleProc
<1> HIDE DEF x
<1>4. ASSUME NEW v \in Procs, v # w
      PROVE  LET y == [proc[v] EXCEPT !.alone = FALSE] IN
             /\ proc'[v] = y /\ y \in ProcStates /\ PlanOK(y) /\ ~Lone(y)
             /\ y.pc = proc[v].pc /\ y.op = proc[v].op
             /\ y.temp = proc[v].temp /\ y.target = proc[v].target /\ y.path = proc[v].path
  <2> DEFINE y == [proc[v] EXCEPT !.alone = FALSE]
  <2>1. proc[v] \in ProcStates /\ PlanOK(proc[v])
    BY ProcFields
  <2>2. /\ y \in ProcStates /\ y.alone = FALSE
        /\ y.pc = proc[v].pc /\ y.op = proc[v].op /\ y.plan = proc[v].plan
        /\ y.temp = proc[v].temp /\ y.target = proc[v].target /\ y.path = proc[v].path
    BY <2>1 DEF ProcStates
  <2>3. proc'[v] = y
    BY <1>1, <1>4
  <2> HIDE DEF y
  <2>4. PlanOK(y) /\ ~Lone(y)
    BY <2>1, <2>2 DEF PlanOK, Lone
  <2> QED
    BY <2>2, <2>3, <2>4 DEF y
<1>5. proc'[w] = IF plan = NoPlan THEN IdleProc ELSE x
  BY <1>0, <1>1
<1>6. proc' \in [Procs -> ProcStates]
  BY <1>1, <1>2, <1>3, <1>4
<1> QED
  BY <1>0, <1>1, <1>2, <1>3, <1>4, <1>5, <1>6 DEF x

\* What is asked of the processes and temporary files when an operation begins.
LEMMA BeginType ==
    ASSUME TypeInv, NEW w, NEW op, NEW p, NEW plan, Opens(w, op, p, plan), wanted' \in [Paths -> SUBSET Tags], ops' \in 0 .. MaxOps
    PROVE  TypeInv'
<1>1. /\ UNCHANGED <<files, allTagged, crashes>> /\ clean' \subseteq clean
      /\ proc' \in [Procs -> ProcStates]
      /\ proc'[w].pc \in {"idle", "run"} /\ PlanOK(proc'[w])
      /\ \A v \in Procs : v # w =>
           /\ PlanOK(proc'[v])
           /\ proc'[v].pc = proc[v].pc
           /\ proc'[v].temp = proc[v].temp /\ proc'[v].target = proc[v].target
  BY BeginEffect
<1>2. PlanInv'
  BY <1>1 DEF PlanInv
<1>3. TempInv'
  BY <1>1 DEF TypeInv, TempInv
<1>4. TypeOK'
  BY <1>1 DEF TypeInv, TypeOK
<1> QED
  BY <1>2, <1>3, <1>4 DEF TypeInv

\* The plans of the operations.
LEMMA PlansTyped ==
    ASSUME NEW old \in SUBSET Tags, NEW new \in SUBSET Tags
    PROVE  /\ SetPlan(new) \in Plans /\ Fits("Set", SetPlan(new))
           /\ UpdatePlan(old, new) \in Plans /\ Fits("Update", UpdatePlan(old, new))
           /\ Plan({}, {}, "rebuild") \in Plans /\ Fits("Rebuild", Plan({}, {}, "rebuild"))
<1>1. Existing \subseteq Files /\ old \ new \subseteq Files
  BY DEF Existing, Files
<1>2. /\ SetPlan(new) \in Plans /\ UpdatePlan(old, new) \in Plans
      /\ Plan({}, {}, "rebuild") \in Plans
  BY <1>1 DEF SetPlan, UpdatePlan, Plan, Plans
<1>3. /\ SetPlan(new).tagged # "rebuild" /\ UpdatePlan(old, new).tagged # "rebuild"
  BY DEF SetPlan, UpdatePlan, Plan
<1>4. LET q == Plan({}, {}, "rebuild") IN q.drop = {} /\ q.add = {} /\ q.tagged = "rebuild"
  BY DEF Plan
<1> QED
  BY <1>2, <1>3, <1>4 DEF Fits

LEMMA OperationType ==
    ASSUME TypeInv, NEW w \in Procs,
           \/ RebuildAllTagged(w)
           \/ \E p \in Paths, tags \in SUBSET Tags : Set(w, p, tags) \/ Update(w, p, tags)
    PROVE  TypeInv'
<1>1. CASE RebuildAllTagged(w)
  <2>1. /\ Begin(w, "Rebuild", NoFile, Plan({}, {}, "rebuild"))
        /\ wanted' \in [Paths -> SUBSET Tags] /\ ops' \in 0 .. MaxOps
    BY <1>1 DEF RebuildAllTagged, TypeInv, TypeOK
  <2>2. Plan({}, {}, "rebuild") \in Plans /\ Fits("Rebuild", Plan({}, {}, "rebuild"))
    BY PlansTyped
  <2>3. Opens(w, "Rebuild", NoFile, Plan({}, {}, "rebuild"))
    BY <2>1, <2>2 DEF Opens
  <2> QED
    BY <2>1, <2>3, BeginType
<1>2. ASSUME NEW p \in Paths, NEW tags \in SUBSET Tags, Set(w, p, tags) \/ Update(w, p, tags)
      PROVE  TypeInv'
  <2>1. wanted' \in [Paths -> SUBSET Tags] /\ ops' \in 0 .. MaxOps
    BY <1>2, IndexAssumption DEF Set, Update, TypeInv, TypeOK
  <2>2. wanted[p] \in SUBSET Tags
    BY DEF TypeInv, TypeOK
  <2>3. CASE Set(w, p, tags)
    <3>1. Begin(w, "Set", p, SetPlan(tags))
      BY <2>3 DEF Set
    <3>2. SetPlan(tags) \in Plans /\ Fits("Set", SetPlan(tags))
      BY PlansTyped
    <3>3. Opens(w, "Set", p, SetPlan(tags))
      BY <3>1, <3>2 DEF Opens
    <3> QED
      BY <2>1, <3>3, BeginType
  <2>4. CASE Update(w, p, tags)
    <3>1. Begin(w, "Update", p, UpdatePlan(wanted[p], tags))
      BY <2>4 DEF Update
    <3>2. /\ UpdatePlan(wanted[p], tags) \in Plans
          /\ Fits("Update", UpdatePlan(wanted[p], tags))
      BY <2>2, PlansTyped
    <3>3. Opens(w, "Update", p, UpdatePlan(wanted[p], tags))
      BY <3>1, <3>2 DEF Opens
    <3> QED
      BY <2>1, <3>3, BeginType
  <2> QED
    BY <1>2, <2>3, <2>4
<1> QED
  BY <1>1, <1>2

LEMMA InitTypeInv == Init => TypeInv
<1> SUFFICES ASSUME Init PROVE TypeInv
  OBVIOUS
<1>1. \A w \in Procs : proc[w] = IdleProc
  BY DEF Init
<1>2. IdleProc.pc = "idle"
  BY DEF IdleProc
<1>3. TypeOK
  BY <1>1, <1>2, IdleType, IndexAssumption DEF Init, TypeOK
<1>4. PlanInv
  BY <1>1, IdleType DEF PlanInv
<1>5. TempInv
  BY <1>1, <1>2 DEF TempInv
<1> QED
  BY <1>3, <1>4, <1>5 DEF TypeInv

LEMMA TypeStep == TypeInv /\ [Next]_vars => TypeInv'
<1> SUFFICES ASSUME TypeInv, [Next]_vars PROVE TypeInv'
  OBVIOUS
<1>1. CASE UNCHANGED vars
  BY <1>1 DEF vars, TypeInv, TypeOK, PlanInv, TempInv
<1>2. ASSUME NEW w \in Procs, Step(w) PROVE TypeInv'
  BY <1>2, removePathType, addPathType, CreateTempType, RenameType, ReadTaggedType,
     SaveTaggedType DEF Step
<1>3. ASSUME NEW w \in Procs, Crash(w) PROVE TypeInv'
  BY <1>3, CrashType
<1>4. ASSUME NEW w \in Procs,
             \/ RebuildAllTagged(w)
             \/ \E p \in Paths, tags \in SUBSET Tags : Set(w, p, tags) \/ Update(w, p, tags)
      PROVE  TypeInv'
  BY <1>4, OperationType
<1> QED
  BY <1>1, <1>2, <1>3, <1>4 DEF Next

\* Type correctness: the files of the index hold paths, and whatever the other
\* processes list, rename or leave behind, the temporary file that writeLines is
\* about to rename is there.
THEOREM TypeCorrect == Spec => []TypeOK
<1>1. Init => TypeInv
  BY InitTypeInv
<1>2. TypeInv /\ [Next]_vars => TypeInv'
  BY TypeStep
<1>3. TypeInv => TypeOK
  BY DEF TypeInv
<1> QED
  BY <1>1, <1>2, <1>3, PTL DEF Spec

-----------------------------------------------------------------------------
(* What a lone operation leaves right *)

Rests(r) == r.pc \in {"idle", "dead"}

\* The index is right about the clean paths that the process r does not work on.
OthersIn(fl, all, want, right, r) ==
    \A y \in right : Rests(r) \/ r.path # y =>
        /\ ExactIn(fl, want[y], y, {}, {})
        /\ TaggedIn(fl, TempsOf(r), want[y], y, all)

\* The index is right when r is the only process that may be busy.
RightIn(fl, all, want, right, r) ==
    /\ OthersIn(fl, all, want, right, r)
    /\ ~Rests(r) =>
         /\ BufferIn(fl, r)
         /\ SavesIn(fl, want, right, r)
         /\ r.op = "Set" \/ r.path \in right => OwnIn(fl, all, want[r.path], r)

\* An operation that is alone is the only one, and the index is right.
LEMMA LoneIsRight ==
    ASSUME IndexInv, NEW w \in Busy, proc[w].alone
    PROVE  Busy = {w} /\ RightIn(files, allTagged, wanted, clean, proc[w])
<1>1. Busy = {w}
  BY DEF IndexInv, AloneInv
<1>2. /\ BufferIn(files, proc[w])
      /\ SavesIn(files, wanted, clean, proc[w])
      /\ proc[w].op = "Set" \/ proc[w].path \in clean =>
             OwnIn(files, allTagged, wanted[proc[w].path], proc[w])
  BY DEF IndexInv, WorkInv
<1>3. LiveTemps = TempsOf(proc[w])
  BY <1>1 DEF LiveTemps
<1>4. ~Rests(proc[w])
  BY DEF Rests, Busy
<1>5. OthersIn(files, allTagged, wanted, clean, proc[w])
  BY <1>1, <1>3, <1>4 DEF IndexInv, CleanInv, InFlight, RightAbout, OthersIn
<1> QED
  BY <1>1, <1>2, <1>5 DEF RightIn

\* When nobody is busy the index is right about the clean paths.
LEMMA QuietIsRight ==
    ASSUME IndexInv, Busy = {}
    PROVE  \A y \in clean : /\ ExactIn(files, wanted[y], y, {}, {})
                            /\ TaggedIn(files, {}, wanted[y], y, allTagged)
<1>1. LiveTemps = {}
  BY DEF LiveTemps
<1> QED
  BY <1>1 DEF IndexInv, CleanInv, InFlight, RightAbout

\* The invariant holds again when w is the only process that may be busy.
LEMMA LoneAgain ==
    ASSUME NEW w \in Procs, TypeInv',
           \A v \in Procs : v # w => Rests(proc'[v]),
           Rests(proc'[w]) \/ proc'[w].alone,
           RightIn(files', allTagged', wanted', clean', proc'[w])
    PROVE  IndexInv'
<1>1. Busy' \subseteq {w} /\ (w \in Busy' <=> ~Rests(proc'[w]))
  BY DEF Busy, Rests
<1>2. LiveTemps' = TempsOf(proc'[w])
  <2>1. CASE Rests(proc'[w])
    BY <1>1, <2>1 DEF LiveTemps, TempsOf, Rests
  <2>2. CASE ~Rests(proc'[w])
    <3>1. Busy' = {w}
      BY <1>1, <2>2
    <3> QED
      BY <3>1 DEF LiveTemps
  <2> QED
    BY <2>1, <2>2
<1>3. AloneInv'
  BY <1>1 DEF AloneInv
<1>4. CleanInv'
  BY <1>1, <1>2 DEF RightIn, OthersIn, CleanInv, InFlight, RightAbout
<1>5. WorkInv'
  BY <1>1 DEF RightIn, WorkInv
<1> QED
  BY <1>3, <1>4, <1>5 DEF IndexInv

\* When operations overlap no path is clean, and none of them is alone.
LEMMA OverlapAgain ==
    ASSUME TypeInv', clean' = {}, \A v \in Procs : Rests(proc'[v]) \/ ~proc'[v].alone
    PROVE  IndexInv'
<1>1. \A v \in Busy' : ~proc'[v].alone
  BY DEF Busy, Rests
<1> QED
  BY <1>1 DEF IndexInv, AloneInv, CleanInv, WorkInv

\* A step of one process, which becomes x.
LEMMA OneSteps ==
    ASSUME IndexInv, TypeInv', NEW w \in Busy, NEW x, proc' = [proc EXCEPT ![w] = x],
           Rests(x) \/ x.alone = proc[w].alone,
           ~proc[w].alone => clean' \subseteq clean,
           proc[w].alone /\ RightIn(files, allTagged, wanted, clean, proc[w]) =>
               RightIn(files', allTagged', wanted', clean', x)
    PROVE  IndexInv'
<1>1. w \in Procs /\ Busy \subseteq Procs
  BY DEF Busy
<1>2. proc'[w] = x /\ \A v \in Procs : v # w => proc'[v] = proc[v]
  BY <1>1 DEF IndexInv, TypeInv, TypeOK
<1>3. CASE proc[w].alone
  <2>1. Busy = {w} /\ RightIn(files', allTagged', wanted', clean', x)
    BY <1>3, LoneIsRight
  <2>2. \A v \in Procs : v # w => Rests(proc'[v])
    BY <1>2, <2>1 DEF Busy, Rests
  <2> QED
    BY <1>1, <1>2, <1>3, <2>1, <2>2, LoneAgain
<1>4. CASE ~proc[w].alone
  <2>1. clean = {} /\ \A v \in Busy : ~proc[v].alone
    BY <1>4 DEF IndexInv, AloneInv
  <2>2. clean' = {}
    BY <1>4, <2>1
  <2>3. \A v \in Procs : Rests(proc'[v]) \/ ~proc'[v].alone
    BY <1>2, <1>4, <2>1 DEF Busy, Rests
  <2> QED
    BY <2>2, <2>3, OverlapAgain
<1> QED
  BY <1>3, <1>4

\* A process that goes on with a plan, be there anything left of it or not.
Ran(r, plan) ==
    [r EXCEPT !.pc = "run", !.plan = plan, !.target = NoFile, !.temp = NoFile, !.buf = {}]

LEMMA RanType ==
    ASSUME NEW r \in ProcStates, NEW plan \in Plans
    PROVE  LET z == Ran(r, plan) IN
           /\ z.pc = "run" /\ z.plan = plan /\ z.op = r.op /\ z.path = r.path
           /\ z.alone = r.alone /\ ~Rests(z)
           /\ DropsOf(z) = plan.drop /\ AddsOf(z) = plan.add /\ TempsOf(z) = {}
<1> DEFINE z == Ran(r, plan)
<1>1. /\ z.pc = "run" /\ z.plan = plan /\ z.op = r.op /\ z.path = r.path
      /\ z.alone = r.alone
  BY DEF Ran, ProcStates
<1> HIDE DEF z
<1>2. /\ ~Rests(z) /\ DropsOf(z) = plan.drop /\ AddsOf(z) = plan.add /\ TempsOf(z) = {}
  BY <1>1 DEF Rests, DropsOf, AddsOf, TempsOf
<1> QED
  BY <1>1, <1>2 DEF z

\* A process that returns has put its own path right.
LEMMA MovedRight ==
    ASSUME NEW r \in ProcStates, NEW plan \in Plans, NEW fl, NEW all, NEW want, NEW right,
           RightIn(fl, all, want, right, Ran(r, plan))
    PROVE  RightIn(fl, all, want,
                   IF plan = NoPlan /\ r.op = "Set" /\ r.alone
                   THEN right \cup {r.path} ELSE right, Moved(r, plan))
<1> DEFINE z == Ran(r, plan)
<1>1. CASE plan # NoPlan
  BY <1>1 DEF Moved, Ran
<1>2. CASE plan = NoPlan
  <2> DEFINE more == IF r.op = "Set" /\ r.alone THEN right \cup {r.path} ELSE right
  <2>1. /\ z.pc = "run" /\ z.plan = plan /\ z.op = r.op /\ z.path = r.path
        /\ ~Rests(z) /\ DropsOf(z) = {} /\ AddsOf(z) = {} /\ TempsOf(z) = {}
    BY <1>2, RanType, NoPlanType
  <2>2. Moved(r, plan) = IdleProc /\ IdleProc.pc = "idle"
    BY <1>2 DEF Moved, IdleProc
  <2>3. Rests(IdleProc) /\ TempsOf(IdleProc) = {}
    BY <2>2 DEF Rests, TempsOf
  <2> HIDE DEF z
  <2>4. RightIn(fl, all, want, right, z)
    BY DEF z
  <2>5. ASSUME NEW y \in more
        PROVE  ExactIn(fl, want[y], y, {}, {}) /\ TaggedIn(fl, {}, want[y], y, all)
    <3>1. CASE y = r.path
      <4>1. OwnIn(fl, all, want[y], z)
        <5>1. z.op = "Set" \/ z.path \in right
          BY <2>1, <2>5, <3>1
        <5> QED
          BY <2>1, <2>4, <3>1, <5>1 DEF RightIn
      <4>2. ExactIn(fl, want[y], y, {}, {})
        BY <2>1, <3>1, <4>1 DEF OwnIn
      <4>3. z.plan.tagged = "none" /\ z.pc # "save"
        BY <1>2, <2>1, NoPlanType
      <4>4. TaggedIn(fl, {}, want[y], y, all)
        BY <2>1, <3>1, <4>1, <4>3 DEF OwnIn
      <4> QED
        BY <4>2, <4>4
    <3>2. CASE y # r.path
      <4>1. y \in right /\ z.path # y
        BY <2>1, <2>5, <3>2
      <4> QED
        BY <2>1, <2>4, <4>1 DEF RightIn, OthersIn
    <3> QED
      BY <3>1, <3>2
  <2> HIDE DEF more
  <2>6. OthersIn(fl, all, want, more, IdleProc)
    BY <2>3, <2>5 DEF OthersIn
  <2>7. RightIn(fl, all, want, more, IdleProc)
    BY <2>3, <2>6 DEF RightIn
  <2> QED
    BY <1>2, <2>2, <2>7 DEF more
<1> QED
  BY <1>1, <1>2

LEMMA ProceedSteps ==
    ASSUME IndexInv, TypeInv', NEW w \in Busy, NEW plan \in Plans, Fits(proc[w].op, plan),
           Proceed(w, plan),
           proc[w].alone /\ RightIn(files, allTagged, wanted, clean, proc[w]) =>
               RightIn(files', allTagged', wanted', clean, Ran(proc[w], plan))
    PROVE  IndexInv'
<1> DEFINE r == proc[w]
           x == Moved(r, plan)
<1>1. w \in Procs /\ TypeInv
  BY DEF Busy, IndexInv
<1>2. r \in ProcStates /\ PlanOK(r) /\ r.op # "none"
  BY <1>1, ProcFields
<1>3. /\ proc' = [proc EXCEPT ![w] = x]
      /\ clean' = IF plan = NoPlan /\ r.op = "Set" /\ r.alone
                  THEN clean \cup {r.path} ELSE clean
  BY <1>1, ProceedMoves
<1>4. Rests(x) \/ x.alone = r.alone
  BY <1>2, MovedType DEF Rests, IdleProc
<1>5. ASSUME r.alone, RightIn(files, allTagged, wanted, clean, r)
      PROVE  RightIn(files', allTagged', wanted', clean', x)
  <2>1. RightIn(files', allTagged', wanted', clean, Ran(r, plan))
    BY <1>5
  <2> HIDE DEF r
  <2> QED
    BY <1>2, <1>3, <2>1, MovedRight
<1>6. ~r.alone => clean' \subseteq clean
  BY <1>3
<1> HIDE DEF x
<1> QED
  BY <1>3, <1>4, <1>5, <1>6, OneSteps

\* What the plan and the lines of a process are that has read the file f to drop its
\* path from it, or to add it to it.
ReadsToDrop(r, f, plan, buf) ==
    /\ f \in r.plan.drop /\ r.path \notin buf
    /\ plan.drop = r.plan.drop \ {f} /\ plan.add = r.plan.add
    /\ plan.tagged = r.plan.tagged

ReadsToAdd(r, f, plan, buf) ==
    /\ f \in r.plan.add /\ r.path \in buf /\ r.plan.drop = {}
    /\ plan.drop = {} /\ plan.add = r.plan.add \ {f}
    /\ plan.tagged = r.plan.tagged

LEMMA RewrittenRight ==
    ASSUME NEW r \in ProcStates, NEW x, NEW f, NEW fl, NEW all, NEW want, NEW right,
           r.pc = "run", x.pc = "create", x.target = f,
           x.op = r.op, x.path = r.path, x.alone = r.alone,
           ReadsToDrop(r, f, x.plan, x.buf) \/ ReadsToAdd(r, f, x.plan, x.buf),
           \A y \in Paths \ {r.path} : y \in x.buf <=> y \in LinesIn(fl, f),
           RightIn(fl, all, want, right, r)
    PROVE  RightIn(fl, all, want, right, x)
<1>1. /\ DropsOf(r) = r.plan.drop /\ AddsOf(r) = r.plan.add /\ TempsOf(r) = {}
      /\ ~Rests(r) /\ ~Rests(x) /\ TempsOf(x) = {}
  BY DEF DropsOf, AddsOf, TempsOf, Rests
<1>2. DropsOf(x) = r.plan.drop /\ AddsOf(x) = r.plan.add /\ x.plan.tagged = r.plan.tagged
  BY DEF DropsOf, AddsOf, ReadsToDrop, ReadsToAdd
<1>3. x.path \in x.buf => x.plan.drop = {} /\ x.target \notin x.plan.add
  BY DEF ReadsToDrop, ReadsToAdd
<1>4. OthersIn(fl, all, want, right, x)
  BY <1>1 DEF RightIn, OthersIn
<1>5. BufferIn(fl, x) /\ SavesIn(fl, want, right, x)
  BY DEF BufferIn, SavesIn
<1>6. ASSUME x.op = "Set" \/ x.path \in right PROVE OwnIn(fl, all, want[x.path], x)
  <2>1. OwnIn(fl, all, want[r.path], r)
    BY <1>1, <1>6 DEF RightIn
  <2> QED
    BY <1>1, <1>2, <1>3, <2>1 DEF OwnIn
<1> QED
  BY <1>1, <1>4, <1>5, <1>6 DEF RightIn

\* A file that does not name the path is skipped.
LEMMA SkippedRight ==
    ASSUME NEW r \in ProcStates, NEW plan \in Plans, NEW f, NEW fl, NEW all, NEW want, NEW right,
           r.pc = "run", f \in r.plan.drop, r.path \notin LinesIn(fl, f),
           plan.drop = r.plan.drop \ {f}, plan.add = r.plan.add, plan.tagged = r.plan.tagged,
           RightIn(fl, all, want, right, r)
    PROVE  RightIn(fl, all, want, right, Ran(r, plan))
<1> DEFINE z == Ran(r, plan)
<1>1. /\ z.pc = "run" /\ z.plan = plan /\ z.op = r.op /\ z.path = r.path /\ ~Rests(z)
      /\ DropsOf(z) = plan.drop /\ AddsOf(z) = plan.add /\ TempsOf(z) = {}
  BY RanType
<1> HIDE DEF z
<1>2. DropsOf(r) = r.plan.drop /\ AddsOf(r) = r.plan.add /\ TempsOf(r) = {} /\ ~Rests(r)
  BY DEF DropsOf, AddsOf, TempsOf, Rests
<1>3. OthersIn(fl, all, want, right, z)
  BY <1>1, <1>2 DEF RightIn, OthersIn
<1>4. BufferIn(fl, z) /\ SavesIn(fl, want, right, z)
  BY <1>1 DEF BufferIn, SavesIn
<1>5. ASSUME z.op = "Set" \/ z.path \in right PROVE OwnIn(fl, all, want[z.path], z)
  <2> DEFINE T == want[r.path]
  <2>1. OwnIn(fl, all, T, r)
    BY <1>1, <1>2, <1>5 DEF RightIn
  <2> HIDE DEF T
  <2>2. ExactIn(fl, T, r.path, DropsOf(z), AddsOf(z))
    BY <1>1, <1>2, <2>1 DEF OwnIn, ExactIn
  <2>3. OwnIn(fl, all, T, z)
    BY <1>1, <1>2, <2>1, <2>2 DEF OwnIn
  <2> QED
    BY <1>1, <2>3 DEF T
<1> QED
  BY <1>3, <1>4, <1>5 DEF RightIn, z

\* The lines of the files before and after a step.
LEMMA LinesAre == \A f \in Files : LinesIn(files, f) = Lines(f)
BY DEF LinesIn, Lines

LEMMA removePathRight ==
    ASSUME IndexInv, TypeInv', NEW w \in Procs, NEW f \in Files, removePath(w, f)
    PROVE  IndexInv'
<1> DEFINE r == proc[w]
           rest == [r.plan EXCEPT !.drop = @ \ {f}]
           buf == Lines(f) \ {r.path}
<1>0. TypeInv
  BY DEF IndexInv
<1>1. /\ r.pc = "run" /\ f \in r.plan.drop /\ r.op \in {"Set", "Update"}
      /\ \/ /\ r.path \in Lines(f) /\ clean' = clean
            /\ proc' = [proc EXCEPT ![w] = Rewritten(r, f, rest, buf)]
         \/ r.path \notin Lines(f) /\ Proceed(w, rest)
      /\ UNCHANGED <<files, allTagged, wanted, ops, crashes>>
  BY <1>0, removePathEffect
<1>2. /\ r \in ProcStates /\ PlanOK(r) /\ r.plan \in Plans /\ Fits(r.op, r.plan)
      /\ w \in Busy
  BY <1>0, <1>1, ProcFields DEF PlanOK
<1>3. /\ rest \in Plans /\ Fits(r.op, rest) /\ rest.drop = r.plan.drop \ {f}
      /\ rest.add = r.plan.add /\ rest.tagged = r.plan.tagged
  <2>1. r.op \in {"Set", "Update", "Rebuild"}
    BY <1>1
  <2>2. rest \in Plans /\ Fits(r.op, rest)
    BY <1>2, <2>1, PlanLess, ZenonT(30)
  <2>3. /\ rest.drop = r.plan.drop \ {f}
        /\ rest.add = r.plan.add /\ rest.tagged = r.plan.tagged
    BY <1>2 DEF Plans
  <2> QED
    BY <2>2, <2>3
<1>4. buf \in SUBSET Paths /\ LinesIn(files, f) = Lines(f)
  BY <1>0, LinesTyped, LinesAre
<1> HIDE DEF rest, r
<1>5. CASE proc' = [proc EXCEPT ![w] = Rewritten(r, f, rest, buf)] /\ clean' = clean
  <2> DEFINE x == Rewritten(r, f, rest, buf)
  <2> HIDE DEF buf
  <2>1. /\ x.pc = "create" /\ x.plan = rest /\ x.target = f /\ x.buf = buf
        /\ x.op = r.op /\ x.path = r.path /\ x.alone = r.alone
    BY <1>1, <1>2, <1>3, <1>4, RewrittenType
  <2> HIDE DEF x
  <2>2. r.path \notin buf /\ \A y \in Paths \ {r.path} : y \in buf <=> y \in LinesIn(files, f)
    BY <1>4 DEF buf
  <2>3. ReadsToDrop(r, f, x.plan, x.buf)
    BY <1>1, <1>3, <2>1, <2>2 DEF ReadsToDrop
  <2>4. RightIn(files, allTagged, wanted, clean, r) =>
            RightIn(files, allTagged, wanted, clean, x)
    BY <1>1, <1>2, <2>1, <2>2, <2>3, RewrittenRight
  <2>5. /\ proc' = [proc EXCEPT ![w] = x] /\ clean' = clean
        /\ UNCHANGED <<files, allTagged, wanted>> /\ x.alone = proc[w].alone
    BY <1>1, <1>5, <2>1 DEF x, r
  <2>6. RightIn(files, allTagged, wanted, clean, proc[w]) =>
            RightIn(files', allTagged', wanted', clean', x)
    BY <2>4, <2>5 DEF r
  <2>7. Rests(x) \/ x.alone = proc[w].alone
    BY <2>5
  <2>8. clean' \subseteq clean
    BY <2>5
  <2> QED
    BY <1>2, <2>5, <2>6, <2>7, <2>8, OneSteps
<1>6. CASE r.path \notin Lines(f) /\ Proceed(w, rest)
  <2>1. RightIn(files, allTagged, wanted, clean, r) =>
            RightIn(files, allTagged, wanted, clean, Ran(r, rest))
    BY <1>1, <1>2, <1>3, <1>4, <1>6, SkippedRight
  <2>2. UNCHANGED <<files, allTagged, wanted>>
    BY <1>1
  <2> QED
    BY <1>2, <1>3, <1>6, <2>1, <2>2, ProceedSteps DEF r
<1> QED
  BY <1>1, <1>5, <1>6

LEMMA addPathRight ==
    ASSUME IndexInv, TypeInv', NEW w \in Procs, NEW f \in Files, addPath(w, f)
    PROVE  IndexInv'
<1> DEFINE r == proc[w]
           rest == [r.plan EXCEPT !.add = @ \ {f}]
           buf == Lines(f) \cup {r.path}
           x == Rewritten(r, f, rest, buf)
<1>0. TypeInv
  BY DEF IndexInv
<1>1. /\ r.pc = "run" /\ f \in r.plan.add /\ r.op \in {"Set", "Update"}
      /\ r.plan.drop = {}
      /\ proc' = [proc EXCEPT ![w] = x] /\ clean' = clean
      /\ UNCHANGED <<files, allTagged, wanted, ops, crashes>>
  BY <1>0, addPathEffect DEF AddsNow
<1>2. /\ r \in ProcStates /\ PlanOK(r) /\ r.plan \in Plans /\ Fits(r.op, r.plan)
      /\ w \in Busy
  BY <1>0, <1>1, ProcFields DEF PlanOK
<1>3. /\ rest \in Plans /\ Fits(r.op, rest) /\ rest.drop = {}
      /\ rest.add = r.plan.add \ {f} /\ rest.tagged = r.plan.tagged
  <2>1. r.op \in {"Set", "Update", "Rebuild"}
    BY <1>1
  <2>2. rest \in Plans /\ Fits(r.op, rest)
    BY <1>2, <2>1, PlanLess, ZenonT(30)
  <2>3. /\ rest.drop = r.plan.drop
        /\ rest.add = r.plan.add \ {f} /\ rest.tagged = r.plan.tagged
    BY <1>2 DEF Plans
  <2> QED
    BY <1>1, <2>2, <2>3
<1>4. buf \in SUBSET Paths /\ LinesIn(files, f) = Lines(f)
  BY <1>0, <1>1, <1>2, LinesTyped, LinesAre DEF PlanOK
<1>5. r.path \in buf /\ \A y \in Paths \ {r.path} : y \in buf <=> y \in LinesIn(files, f)
  BY <1>4
<1> HIDE DEF rest, r, buf
<1>6. /\ x.pc = "create" /\ x.plan = rest /\ x.target = f /\ x.buf = buf
      /\ x.op = r.op /\ x.path = r.path /\ x.alone = r.alone
  BY <1>1, <1>2, <1>3, <1>4, RewrittenType
<1> HIDE DEF x
<1>7. ReadsToAdd(r, f, x.plan, x.buf)
  BY <1>1, <1>3, <1>5, <1>6 DEF ReadsToAdd
<1>8. RightIn(files, allTagged, wanted, clean, r) =>
          RightIn(files, allTagged, wanted, clean, x)
  BY <1>1, <1>2, <1>5, <1>6, <1>7, RewrittenRight
<1>9. /\ proc' = [proc EXCEPT ![w] = x] /\ clean' = clean
      /\ UNCHANGED <<files, allTagged, wanted>> /\ x.alone = proc[w].alone
  BY <1>1, <1>6 DEF r
<1>10. RightIn(files, allTagged, wanted, clean, proc[w]) =>
           RightIn(files', allTagged', wanted', clean', x)
  BY <1>8, <1>9 DEF r
<1>11. (Rests(x) \/ x.alone = proc[w].alone) /\ clean' \subseteq clean
  BY <1>9
<1> QED
  BY <1>2, <1>9, <1>10, <1>11, OneSteps

\* A temporary file with the lines to write: whoever lists by-tag/ now sees it, but
\* it is not a left-over one.
LEMMA CreateTempRight ==
    ASSUME IndexInv, TypeInv', NEW w \in Procs, CreateTemp(w)
    PROVE  IndexInv'
<1> DEFINE r == proc[w]
<1>0. TypeInv
  BY DEF IndexInv
<1>1. r.pc = "create" /\ UNCHANGED <<allTagged, wanted, clean, ops, crashes>>
  BY <1>0, CreateTempEffect
<1>2. PICK n \in Temps :
        /\ files[n] = NoFile
        /\ \A v \in Procs : n # proc[v].target /\ n # proc[v].temp
        /\ files' = [files EXCEPT ![n] = proc[w].buf]
        /\ proc' = [proc EXCEPT ![w] = [proc[w] EXCEPT !.pc = "rename", !.temp = n]]
  BY <1>0, CreateTempEffect
<1> DEFINE x == [r EXCEPT !.pc = "rename", !.temp = n]
<1>3. /\ r \in ProcStates /\ r.target \in Files /\ r.buf \in SUBSET Paths /\ w \in Busy
  BY <1>0, <1>1, ProcFields DEF PlanOK
<1>4. /\ x.pc = "rename" /\ x.temp = n /\ x.target = r.target /\ x.op = r.op
      /\ x.plan = r.plan /\ x.path = r.path /\ x.buf = r.buf /\ x.alone = r.alone
  BY <1>3 DEF ProcStates
<1>5. proc' = [proc EXCEPT ![w] = x] /\ n # r.target
  BY <1>2
<1>6. files'[n] = r.buf /\ \A f \in Files : f # n => files'[f] = files[f]
  BY <1>0, <1>2, <1>3 DEF TypeInv, TypeOK, Files
<1> HIDE DEF x, r
<1>7. /\ DropsOf(x) = DropsOf(r) /\ AddsOf(x) = AddsOf(r) /\ TempsOf(r) = {}
      /\ TempsOf(x) = {n} /\ ~Rests(r) /\ ~Rests(x)
  BY <1>1, <1>4 DEF DropsOf, AddsOf, TempsOf, Rests
<1>8. /\ LinesIn(files, n) = {} /\ n \notin Tags /\ Tags \subseteq Files /\ Temps \subseteq Files
      /\ \A f \in Files : f # n => LinesIn(files', f) = LinesIn(files, f)
  BY <1>2, <1>6, IndexAssumption DEF LinesIn, Files
<1>9. \A T, p, D, A : ExactIn(files, T, p, D, A) => ExactIn(files', T, p, D, A)
  BY <1>8 DEF ExactIn
<1>10. \A T, p, all : TaggedIn(files, {}, T, p, all) => TaggedIn(files', {n}, T, p, all)
  BY <1>8 DEF TaggedIn
<1>11. ASSUME RightIn(files, allTagged, wanted, clean, r)
       PROVE  RightIn(files', allTagged, wanted, clean, x)
  <2>1. OthersIn(files', allTagged, wanted, clean, x)
    BY <1>4, <1>7, <1>9, <1>10, <1>11 DEF RightIn, OthersIn
  <2>2. BufferIn(files', x)
    BY <1>1, <1>3, <1>4, <1>5, <1>6, <1>7, <1>8, <1>11 DEF RightIn, BufferIn
  <2>3. SavesIn(files', wanted, clean, x)
    BY <1>4 DEF SavesIn
  <2>4. ASSUME x.op = "Set" \/ x.path \in clean
        PROVE  OwnIn(files', allTagged, wanted[x.path], x)
    <3> DEFINE T == wanted[r.path]
    <3>1. OwnIn(files, allTagged, T, r)
      BY <1>4, <1>7, <1>11, <2>4 DEF RightIn
    <3> HIDE DEF T
    <3>2. ExactIn(files', T, r.path, DropsOf(r), AddsOf(r))
      BY <1>9, <3>1 DEF OwnIn
    <3>3. r.plan.tagged = "none" => TaggedIn(files', {n}, T, r.path, allTagged)
      BY <1>1, <1>7, <1>10, <3>1 DEF OwnIn
    <3>4. OwnIn(files', allTagged, T, x)
      BY <1>1, <1>4, <1>7, <3>1, <3>2, <3>3 DEF OwnIn
    <3> QED
      BY <1>4, <3>4 DEF T
  <2> QED
    BY <2>1, <2>2, <2>3, <2>4 DEF RightIn
<1>12. RightIn(files, allTagged, wanted, clean, proc[w]) =>
           RightIn(files', allTagged', wanted', clean', x)
  BY <1>1, <1>11 DEF r
<1>13. (Rests(x) \/ x.alone = proc[w].alone) /\ clean' \subseteq clean
  BY <1>1, <1>4 DEF r
<1> QED
  BY <1>3, <1>5, <1>12, <1>13, OneSteps

\* The target gets the lines that were read and changed: nothing else was changed
\* meanwhile, as nobody else is busy.
LEMMA RenameRight ==
    ASSUME IndexInv, TypeInv', NEW w \in Procs, Rename(w)
    PROVE  IndexInv'
<1> DEFINE r == proc[w]
           z == Ran(r, r.plan)
<1>0. TypeInv
  BY DEF IndexInv
<1>1. /\ r.pc = "rename" /\ Proceed(w, r.plan) /\ r.op \in {"Set", "Update"}
      /\ r.target \in Files /\ r.temp \in Temps /\ r.temp # r.target
      /\ files[r.temp] \in SUBSET Paths
      /\ files'[r.target] = files[r.temp] /\ files'[r.temp] = NoFile
      /\ \A f \in Files : f # r.target /\ f # r.temp => files'[f] = files[f]
      /\ UNCHANGED <<allTagged, wanted, ops, crashes>>
  BY <1>0, RenameEffect
<1>2. /\ r \in ProcStates /\ r.plan \in Plans /\ Fits(r.op, r.plan) /\ r.path \in Paths
      /\ w \in Busy
  BY <1>0, <1>1, ProcFields DEF PlanOK
<1>3. /\ z.pc = "run" /\ z.plan = r.plan /\ z.op = r.op /\ z.path = r.path /\ ~Rests(z)
      /\ DropsOf(z) = r.plan.drop /\ AddsOf(z) = r.plan.add /\ TempsOf(z) = {}
  BY <1>2, RanType
<1>4. clean \subseteq Paths /\ \A y \in Paths : wanted[y] \subseteq Tags
  BY <1>0 DEF TypeInv, TypeOK
<1> HIDE DEF z, r
<1>5. ~Rests(r) /\ TempsOf(r) = {r.temp}
  BY <1>1 DEF Rests, TempsOf
<1>6. /\ LinesIn(files', r.target) = files[r.temp] /\ LinesIn(files', r.temp) = {}
      /\ r.temp \notin Tags /\ Tags \subseteq Files /\ Temps \subseteq Files
      /\ \A f \in Files : f # r.target /\ f # r.temp => LinesIn(files', f) = LinesIn(files, f)
  BY <1>1, IndexAssumption DEF LinesIn, Files
<1>7. ASSUME RightIn(files, allTagged, wanted, clean, r)
      PROVE  RightIn(files', allTagged, wanted, clean, z)
  <2>1. /\ files[r.temp] = r.buf
        /\ \A y \in Paths \ {r.path} : y \in r.buf <=> y \in LinesIn(files, r.target)
    BY <1>1, <1>5, <1>7 DEF RightIn, BufferIn
  <2>2. ASSUME NEW y \in Paths, y # r.path, NEW f \in Files, f # r.temp
        PROVE  y \in LinesIn(files', f) <=> y \in LinesIn(files, f)
    BY <1>6, <2>1, <2>2
  <2>3. ASSUME NEW y \in clean, y # r.path
        PROVE  /\ ExactIn(files', wanted[y], y, {}, {})
               /\ TaggedIn(files', {}, wanted[y], y, allTagged)
    <3>1. /\ ExactIn(files, wanted[y], y, {}, {}) /\ y \in Paths
          /\ TaggedIn(files, {r.temp}, wanted[y], y, allTagged)
      BY <1>4, <1>5, <1>7, <2>3 DEF RightIn, OthersIn
    <3>2. ExactIn(files', wanted[y], y, {}, {})
      BY <1>6, <2>2, <2>3, <3>1 DEF ExactIn
    <3>3. TaggedIn(files', {}, wanted[y], y, allTagged)
      BY <1>6, <2>2, <2>3, <3>1 DEF TaggedIn
    <3> QED
      BY <3>2, <3>3
  <2>4. OthersIn(files', allTagged, wanted, clean, z)
    BY <1>3, <2>3 DEF OthersIn
  <2>5. BufferIn(files', z) /\ SavesIn(files', wanted, clean, z)
    BY <1>3 DEF BufferIn, SavesIn
  <2>6. ASSUME z.op = "Set" \/ z.path \in clean
        PROVE  OwnIn(files', allTagged, wanted[z.path], z)
    <3> DEFINE T == wanted[r.path]
    <3>1. OwnIn(files, allTagged, T, r) /\ T \subseteq Tags
      BY <1>2, <1>3, <1>4, <1>5, <1>7, <2>6 DEF RightIn
    <3> HIDE DEF T
    <3>2. CASE r.path \in r.buf
      <4>1. /\ DropsOf(r) = {} /\ AddsOf(r) = r.plan.add \cup {r.target}
            /\ r.plan.drop = {} /\ r.target \notin r.plan.add
        BY <1>1, <3>1, <3>2 DEF OwnIn, DropsOf, AddsOf
      <4>2. r.target \in T /\ r.plan.add \subseteq T
        BY <3>1, <4>1 DEF OwnIn
      <4>3. ExactIn(files', T, r.path, {}, r.plan.add)
        BY <1>6, <2>1, <3>1, <3>2, <4>1, <4>2 DEF OwnIn, ExactIn
      <4>4. r.plan.tagged = "none" => TaggedIn(files', {}, T, r.path, allTagged)
        <5>1. r.target \notin Temps
          BY <3>1, <4>2, IndexAssumption
        <5> QED
          BY <1>1, <1>5, <1>6, <3>1, <5>1 DEF OwnIn, TaggedIn
      <4> QED
        BY <1>3, <3>1, <4>1, <4>2, <4>3, <4>4 DEF OwnIn, T
    <3>3. CASE r.path \notin r.buf
      <4>1. DropsOf(r) = r.plan.drop \cup {r.target} /\ AddsOf(r) = r.plan.add
        BY <1>1, <3>3 DEF DropsOf, AddsOf
      <4>2. r.plan.add \subseteq T /\ (r.plan.drop \cup {r.target}) \cap T \subseteq r.plan.add
        BY <3>1, <4>1 DEF OwnIn
      <4>3. ExactIn(files', T, r.path, r.plan.drop, r.plan.add)
        BY <1>6, <2>1, <3>1, <3>3, <4>1, <4>2 DEF OwnIn, ExactIn
      <4>4. r.plan.tagged = "none" => TaggedIn(files', {}, T, r.path, allTagged)
        <5> SUFFICES ASSUME r.plan.tagged = "none"
                     PROVE  TaggedIn(files', {}, T, r.path, allTagged)
          OBVIOUS
        <5>1. r.target \notin Temps
          BY <3>1, <4>1, IndexAssumption DEF OwnIn
        <5> QED
          BY <1>1, <1>5, <1>6, <3>1, <5>1 DEF OwnIn, TaggedIn
      <4>5. r.plan.tagged = "none" => r.plan.drop \subseteq Tags
        BY <3>1, <4>1 DEF OwnIn
      <4> QED
        BY <1>3, <3>1, <4>2, <4>3, <4>4, <4>5 DEF OwnIn, T
    <3> QED
      BY <3>2, <3>3
  <2> QED
    BY <2>4, <2>5, <2>6 DEF RightIn
<1>8. RightIn(files, allTagged, wanted, clean, proc[w]) =>
          RightIn(files', allTagged', wanted', clean, Ran(proc[w], proc[w].plan))
  BY <1>1, <1>7 DEF r, z
<1>9. proc[w].plan \in Plans /\ Fits(proc[w].op, proc[w].plan) /\ Proceed(w, proc[w].plan)
  BY <1>1, <1>2 DEF r
<1> QED
  BY <1>2, <1>8, <1>9, ProceedSteps

\* The list made from by-tag/ is right about a path that the files are right about,
\* unless a temporary file names it.
LEMMA MadeListRight ==
    ASSUME NEW y, NEW T \in SUBSET Tags, ExactIn(files, T, y, {}, {})
    PROVE  TaggedIn(files, {}, T, y, allPaths)
<1> SUFFICES ASSUME \A n \in Temps : y \notin LinesIn(files, n)
             PROVE  y \in allPaths <=> T # {}
  BY DEF TaggedIn
<1>1. \A t \in Tags : y \in Lines(t) <=> t \in T
  BY DEF ExactIn, LinesIn, Lines
<1>2. \A n \in Temps : y \notin Lines(n)
  BY DEF LinesIn, Lines
<1>3. y \in allPaths <=> \E f \in Files : y \in Lines(f)
  BY DEF allPaths
<1> QED
  BY <1>1, <1>2, <1>3 DEF Files

LEMMA ReadTaggedRight ==
    ASSUME IndexInv, TypeInv', NEW w \in Procs, ReadTagged(w)
    PROVE  IndexInv'
<1> DEFINE r == proc[w]
           act == r.plan.tagged
           rest == [r.plan EXCEPT !.tagged = "none"]
           now == TaggedNow(act)
           buf == SavedList(act, r.path)
<1>0. TypeInv
  BY DEF IndexInv
<1>1. /\ r.pc = "run" /\ r.op # "none" /\ r.plan.drop = {}
      /\ act \in {"tag", "untag", "rebuild"}
      /\ act \in {"tag", "untag"} <=> r.op \in {"Set", "Update"}
      /\ allTagged' = IF act = "rebuild" THEN allTagged ELSE now
      /\ now \in SUBSET Paths /\ buf \in SUBSET Paths
      /\ \/ act = "untag" /\ r.path \notin now /\ Proceed(w, rest)
         \/ proc' = [proc EXCEPT ![w] = Saving(r, rest, buf)] /\ clean' = clean
      /\ UNCHANGED <<files, wanted, ops, crashes>>
  BY <1>0, ReadTaggedEffect
<1>2. /\ r \in ProcStates /\ PlanOK(r) /\ r.plan \in Plans /\ Fits(r.op, r.plan)
      /\ w \in Busy
  BY <1>0, <1>1, ProcFields DEF PlanOK
<1>3. /\ rest \in Plans /\ Fits(r.op, rest)
      /\ rest.drop = {} /\ rest.add = r.plan.add /\ rest.tagged = "none"
  <2>1. r.op \in {"Set", "Update", "Rebuild"}
    BY <1>1, <1>2 DEF ProcStates
  <2>2. rest \in Plans /\ Fits(r.op, rest)
    BY <1>2, <2>1, PlanLess
  <2>3. rest.drop = r.plan.drop /\ rest.add = r.plan.add /\ rest.tagged = "none"
    BY <1>2 DEF Plans
  <2> QED
    BY <1>1, <2>2, <2>3
<1>4. clean \subseteq Paths /\ \A y \in Paths : wanted[y] \in SUBSET Tags
  BY <1>0 DEF TypeInv, TypeOK
<1>5. /\ act = "tag" => r.path \in buf
      /\ act = "untag" => r.path \notin buf
      /\ \A y : y # r.path => (y \in buf <=> y \in now)
  BY <1>1 DEF SavedList
<1>6. act = "rebuild" => r.path \notin clean /\ r.op # "Set"
  BY <1>1, <1>2, <1>4, IndexAssumption DEF PlanOK, ProcStates
<1>7. now = allPaths \/ now = allTagged
  BY DEF TaggedNow
<1> HIDE DEF now, buf, rest, r
<1>8. ~Rests(r) /\ DropsOf(r) = {} /\ AddsOf(r) = r.plan.add /\ TempsOf(r) = {}
  BY <1>1 DEF Rests, DropsOf, AddsOf, TempsOf
\* The others in the list that is read, or made.
<1>9. ASSUME RightIn(files, allTagged, wanted, clean, r), NEW y \in clean, y # r.path
      PROVE  /\ ExactIn(files, wanted[y], y, {}, {})
             /\ TaggedIn(files, {}, wanted[y], y, now)
             /\ TaggedIn(files, {}, wanted[y], y, allTagged')
  <2>1. ExactIn(files, wanted[y], y, {}, {}) /\ TaggedIn(files, {}, wanted[y], y, allTagged)
    BY <1>8, <1>9 DEF RightIn, OthersIn
  <2>2. TaggedIn(files, {}, wanted[y], y, allPaths)
    BY <1>4, <1>9, <2>1, MadeListRight
  <2> QED
    BY <1>1, <1>7, <2>1, <2>2
<1>10. CASE proc' = [proc EXCEPT ![w] = Saving(r, rest, buf)] /\ clean' = clean
  <2> DEFINE x == Saving(r, rest, buf)
  <2>1. /\ x.pc = "save" /\ x.plan = rest /\ x.buf = buf
        /\ x.op = r.op /\ x.path = r.path /\ x.alone = r.alone
    BY <1>1, <1>2, <1>3, SavingType
  <2> HIDE DEF x
  <2>2. ~Rests(x) /\ DropsOf(x) = {} /\ AddsOf(x) = r.plan.add /\ TempsOf(x) = {}
    BY <1>3, <2>1 DEF Rests, DropsOf, AddsOf, TempsOf
  <2>3. ASSUME RightIn(files, allTagged, wanted, clean, r)
        PROVE  RightIn(files, allTagged', wanted, clean, x)
    <3>1. OthersIn(files, allTagged', wanted, clean, x)
      BY <1>9, <2>1, <2>2, <2>3 DEF OthersIn
    <3>2. BufferIn(files, x)
      BY <2>1 DEF BufferIn
    <3>3. SavesIn(files, wanted, clean, x)
      <4>1. ASSUME NEW y \in clean, y # r.path PROVE TaggedIn(files, {}, wanted[y], y, buf)
        <5>1. TaggedIn(files, {}, wanted[y], y, now) /\ (y \in buf <=> y \in now)
          BY <1>5, <1>9, <2>3, <4>1
        <5>2. now # NoFile
          BY <1>1, IndexAssumption
        <5> QED
          BY <5>1, <5>2 DEF TaggedIn
      <4> QED
        BY <2>1, <4>1 DEF SavesIn
    <3>4. ASSUME x.op = "Set" \/ x.path \in clean
          PROVE  OwnIn(files, allTagged', wanted[x.path], x)
      <4> DEFINE T == wanted[r.path]
      <4>1. OwnIn(files, allTagged, T, r) /\ act # "rebuild"
        BY <1>6, <1>8, <2>1, <2>3, <3>4 DEF RightIn
      <4> HIDE DEF T
      <4>2. (act = "tag" => T # {}) /\ (act = "untag" => T = {})
        BY <4>1 DEF OwnIn
      <4>3. r.path \in buf <=> T # {}
        BY <1>1, <1>5, <4>1, <4>2
      <4>4. OwnIn(files, allTagged', T, x)
        BY <1>3, <1>8, <2>1, <2>2, <4>1, <4>3 DEF OwnIn
      <4> QED
        BY <2>1, <4>4 DEF T
    <3> QED
      BY <3>1, <3>2, <3>3, <3>4 DEF RightIn
  <2>4. RightIn(files, allTagged, wanted, clean, proc[w]) =>
            RightIn(files', allTagged', wanted', clean', x)
    BY <1>1, <1>10, <2>3 DEF r
  <2>5. (Rests(x) \/ x.alone = proc[w].alone) /\ clean' \subseteq clean
    BY <1>10, <2>1 DEF r
  <2>6. proc' = [proc EXCEPT ![w] = x]
    BY <1>10 DEF x
  <2> QED
    BY <1>2, <2>4, <2>5, <2>6, OneSteps
<1>11. CASE act = "untag" /\ r.path \notin now /\ Proceed(w, rest)
  <2> DEFINE z == Ran(r, rest)
  <2>1. /\ z.pc = "run" /\ z.plan = rest /\ z.op = r.op /\ z.path = r.path /\ ~Rests(z)
        /\ DropsOf(z) = {} /\ AddsOf(z) = r.plan.add /\ TempsOf(z) = {}
    BY <1>2, <1>3, RanType
  <2> HIDE DEF z
  <2>2. ASSUME RightIn(files, allTagged, wanted, clean, r)
        PROVE  RightIn(files, allTagged', wanted, clean, z)
    <3>1. OthersIn(files, allTagged', wanted, clean, z)
      BY <1>9, <2>1, <2>2 DEF OthersIn
    <3>2. BufferIn(files, z) /\ SavesIn(files, wanted, clean, z)
      BY <2>1 DEF BufferIn, SavesIn
    <3>3. ASSUME z.op = "Set" \/ z.path \in clean
          PROVE  OwnIn(files, allTagged', wanted[z.path], z)
      <4> DEFINE T == wanted[r.path]
      <4>1. OwnIn(files, allTagged, T, r)
        BY <1>8, <2>1, <2>2, <3>3 DEF RightIn
      <4> HIDE DEF T
      <4>2. T = {} /\ r.path \notin allTagged'
        BY <1>1, <1>11, <4>1 DEF OwnIn
      <4>3. TaggedIn(files, {}, T, r.path, allTagged')
        BY <4>2 DEF TaggedIn
      <4>4. OwnIn(files, allTagged', T, z)
        BY <1>3, <1>8, <2>1, <4>1, <4>3 DEF OwnIn
      <4> QED
        BY <2>1, <4>4 DEF T
    <3> QED
      BY <3>1, <3>2, <3>3 DEF RightIn
  <2>3. RightIn(files, allTagged, wanted, clean, proc[w]) =>
            RightIn(files', allTagged', wanted', clean, Ran(proc[w], rest))
    BY <1>1, <2>2 DEF r, z
  <2>4. rest \in Plans /\ Fits(proc[w].op, rest) /\ Proceed(w, rest)
    BY <1>3, <1>11 DEF r
  <2> QED
    BY <1>2, <2>3, <2>4, ProceedSteps
<1> QED
  BY <1>1, <1>10, <1>11

LEMMA SaveTaggedRight ==
    ASSUME IndexInv, TypeInv', NEW w \in Procs, SaveTagged(w)
    PROVE  IndexInv'
<1> DEFINE r == proc[w]
           z == Ran(r, r.plan)
<1>1. /\ r.pc = "save" /\ allTagged' = r.buf /\ Proceed(w, r.plan)
      /\ UNCHANGED <<files, wanted, ops, crashes>>
  BY DEF SaveTagged
<1>2. /\ r \in ProcStates /\ r.plan \in Plans /\ Fits(r.op, r.plan) /\ w \in Busy
  BY <1>1, ProcFields DEF PlanOK, IndexInv
<1>3. /\ z.pc = "run" /\ z.plan = r.plan /\ z.op = r.op /\ z.path = r.path /\ ~Rests(z)
      /\ DropsOf(z) = r.plan.drop /\ AddsOf(z) = r.plan.add /\ TempsOf(z) = {}
  BY <1>2, RanType
<1> HIDE DEF z, r
<1>4. ~Rests(r) /\ DropsOf(r) = r.plan.drop /\ AddsOf(r) = r.plan.add /\ TempsOf(r) = {}
  BY <1>1 DEF Rests, DropsOf, AddsOf, TempsOf
<1>5. ASSUME RightIn(files, allTagged, wanted, clean, r)
      PROVE  RightIn(files, r.buf, wanted, clean, z)
  <2>1. OthersIn(files, r.buf, wanted, clean, z)
    BY <1>1, <1>3, <1>4, <1>5 DEF RightIn, OthersIn, SavesIn
  <2>2. BufferIn(files, z) /\ SavesIn(files, wanted, clean, z)
    BY <1>3 DEF BufferIn, SavesIn
  <2>3. ASSUME z.op = "Set" \/ z.path \in clean PROVE OwnIn(files, r.buf, wanted[z.path], z)
    <3> DEFINE T == wanted[r.path]
    <3>1. OwnIn(files, allTagged, T, r)
      BY <1>3, <1>4, <1>5, <2>3 DEF RightIn
    <3> HIDE DEF T
    <3>2. TaggedIn(files, {}, T, r.path, r.buf)
      BY <1>1, <3>1 DEF OwnIn, TaggedIn
    <3>3. OwnIn(files, r.buf, T, z)
      BY <1>3, <1>4, <3>1, <3>2 DEF OwnIn
    <3> QED
      BY <1>3, <3>3 DEF T
  <2> QED
    BY <2>1, <2>2, <2>3 DEF RightIn
<1>6. RightIn(files, allTagged, wanted, clean, proc[w]) =>
          RightIn(files', allTagged', wanted', clean, Ran(proc[w], proc[w].plan))
  BY <1>1, <1>5 DEF r, z
<1>7. proc[w].plan \in Plans /\ Fits(proc[w].op, proc[w].plan) /\ Proceed(w, proc[w].plan)
  BY <1>1, <1>2 DEF r
<1> QED
  BY <1>2, <1>6, <1>7, ProceedSteps

\* A process that dies takes its path with it, and may leave a temporary file.
LEMMA CrashRight ==
    ASSUME IndexInv, TypeInv', NEW w \in Procs, Crash(w)
    PROVE  IndexInv'
<1> DEFINE r == proc[w]
           x == [IdleProc EXCEPT !.pc = "dead"]
<1>1. /\ proc' = [proc EXCEPT ![w] = x] /\ clean' = clean \ {r.path} /\ w \in Busy
      /\ UNCHANGED <<files, allTagged, wanted>>
  BY DEF Crash
<1>2. x.pc = "dead"
  BY DEF IdleProc
<1> HIDE DEF x
<1>3. Rests(x) /\ TempsOf(x) = {}
  BY <1>2 DEF Rests, TempsOf
<1>4. ASSUME RightIn(files, allTagged, wanted, clean, r)
      PROVE  RightIn(files, allTagged, wanted, clean \ {r.path}, x)
  <2>1. OthersIn(files, allTagged, wanted, clean \ {r.path}, x)
    BY <1>3, <1>4 DEF RightIn, OthersIn, TaggedIn
  <2> QED
    BY <1>3, <2>1 DEF RightIn
<1>5. RightIn(files, allTagged, wanted, clean, proc[w]) =>
          RightIn(files', allTagged', wanted', clean', x)
  BY <1>1, <1>4
<1>6. clean' \subseteq clean
  BY <1>1
<1> QED
  BY <1>1, <1>3, <1>5, <1>6, OneSteps

-----------------------------------------------------------------------------
(* Operations that start *)

\* An operation that starts while others run: none of them is alone.
LEMMA BeginOverlaps ==
    ASSUME IndexInv, TypeInv', NEW w, NEW op, NEW p, NEW plan, Opens(w, op, p, plan), Busy # {}
    PROVE  IndexInv'
<1>1. TypeInv
  BY DEF IndexInv
<1>2. clean' = {} /\ \A v \in Procs : v # w => ~Lone(proc'[v])
  BY <1>1, BeginEffect
<1>3. plan = NoPlan => proc'[w] = IdleProc
  BY <1>1, BeginEffect
<1>4. plan # NoPlan => ~Lone(proc'[w])
  BY <1>1, BeginEffect
<1>5. Rests(IdleProc)
  BY DEF IdleProc, Rests
<1>6. \A v \in Procs : Rests(proc'[v]) \/ ~proc'[v].alone
  BY <1>2, <1>3, <1>4, <1>5 DEF Lone
<1> QED
  BY <1>2, <1>6, OverlapAgain

\* How far any process has come with the path p, to have the tags T, that starts a plan.
OwnFrom(p, plan, T) ==
    \A x : x.pc = "run" /\ x.path = p /\ x.plan = plan => OwnIn(files, allTagged, T, x)

\* An operation that starts when nobody is busy.
LEMMA BeginAlone ==
    ASSUME IndexInv, TypeInv', NEW w, NEW op, NEW p, NEW plan, Opens(w, op, p, plan), Busy = {},
           \A y \in Paths : y # p => wanted'[y] = wanted[y],
           plan = NoPlan /\ p \in clean => wanted'[p] = wanted[p],
           op = "Set" \/ p \in clean => OwnFrom(p, plan, wanted'[p])
    PROVE  IndexInv'
<1> DEFINE x == proc'[w]
<1>0. TypeInv /\ w \in Procs
  BY DEF IndexInv, Opens
<1>1. /\ UNCHANGED <<files, allTagged>> /\ clean' = clean
      /\ plan = NoPlan => proc'[w] = IdleProc
      /\ \A v \in Procs : v # w => proc'[v].pc = proc[v].pc
  BY <1>0, BeginEffect
<1>2. plan # NoPlan => x.pc = "run" /\ x.op = op /\ x.path = p /\ x.plan = plan /\ x.alone
  <2>1. plan # NoPlan => Starts(x, op, p, plan) /\ Lone(x)
    BY <1>0, BeginEffect
  <2> QED
    BY <2>1 DEF Starts, Lone
<1>3. IdleProc.pc = "idle"
  BY DEF IdleProc
<1> HIDE DEF x
<1>4. /\ Rests(IdleProc) /\ TempsOf(IdleProc) = {}
      /\ plan # NoPlan => ~Rests(x) /\ TempsOf(x) = {}
  BY <1>2, <1>3 DEF Rests, TempsOf
<1>5. \A v \in Procs : v # w => Rests(proc'[v])
  BY <1>1 DEF Busy, Rests
<1>6. clean \subseteq Paths /\
      \A y \in clean : /\ ExactIn(files, wanted[y], y, {}, {})
                       /\ TaggedIn(files, {}, wanted[y], y, allTagged)
  BY <1>0, QuietIsRight DEF TypeInv, TypeOK
<1>7. RightIn(files, allTagged, wanted', clean, x)
  <2>1. CASE plan = NoPlan
    <3>1. OthersIn(files, allTagged, wanted', clean, IdleProc)
      <4>1. \A y \in clean : wanted'[y] = wanted[y]
        BY <1>6, <2>1
      <4> QED
        BY <1>4, <1>6, <4>1 DEF OthersIn
    <3> QED
      BY <1>1, <1>4, <2>1, <3>1 DEF RightIn, x
  <2>2. CASE plan # NoPlan
    <3>1. OthersIn(files, allTagged, wanted', clean, x)
      BY <1>2, <1>4, <1>6, <2>2 DEF OthersIn
    <3>2. BufferIn(files, x) /\ SavesIn(files, wanted', clean, x)
      BY <1>2, <2>2 DEF BufferIn, SavesIn
    <3>3. x.op = "Set" \/ x.path \in clean => OwnIn(files, allTagged, wanted'[x.path], x)
      BY <1>2, <2>2 DEF OwnFrom
    <3> QED
      BY <2>2, <3>1, <3>2, <3>3 DEF RightIn
  <2> QED
    BY <2>1, <2>2
<1>8. Rests(proc'[w]) \/ proc'[w].alone
  BY <1>1, <1>2, <1>4 DEF x
<1>9. RightIn(files', allTagged', wanted', clean', proc'[w])
  BY <1>1, <1>7 DEF x
<1> QED
  BY <1>0, <1>5, <1>8, <1>9, LoneAgain

\* Set is to clear every file there is, and to add the path to all its tags.
LEMMA SetOwn ==
    ASSUME NEW p \in Paths, NEW tags \in SUBSET Tags
    PROVE  /\ SetPlan(tags) # NoPlan
           /\ OwnFrom(p, SetPlan(tags), tags)
<1> DEFINE plan == SetPlan(tags)
<1>1. /\ plan \in Plans /\ plan.drop = Existing /\ plan.add = tags
      /\ plan.tagged = IF tags = {} THEN "untag" ELSE "tag"
  BY PlansTyped DEF SetPlan, Plan
<1>2. plan # NoPlan
  BY <1>1, NoPlanType
<1> HIDE DEF plan
<1>3. ExactIn(files, tags, p, Existing, tags)
  BY DEF ExactIn, Existing, Files, LinesIn
<1>4. ASSUME NEW x, x.pc = "run", x.path = p, x.plan = plan
      PROVE  OwnIn(files, allTagged, tags, x)
  <2>1. DropsOf(x) = Existing /\ AddsOf(x) = tags
    BY <1>1, <1>4 DEF DropsOf, AddsOf
  <2> QED
    BY <1>1, <1>3, <1>4, <2>1 DEF OwnIn
<1> QED
  BY <1>2, <1>4 DEF OwnFrom, plan

\* Update is to change the files of the tags that change, if the index was right.
LEMMA UpdateOwn ==
    ASSUME NEW p \in Paths, NEW old \in SUBSET Tags, NEW new \in SUBSET Tags,
           ExactIn(files, old, p, {}, {}), TaggedIn(files, {}, old, p, allTagged)
    PROVE  /\ UpdatePlan(old, new) = NoPlan => new = old
           /\ OwnFrom(p, UpdatePlan(old, new), new)
<1> DEFINE plan == UpdatePlan(old, new)
<1>1. /\ plan.drop = old \ new /\ plan.add = new \ old
      /\ plan.tagged = IF old = {} /\ new # {} THEN "tag"
                       ELSE IF old # {} /\ new = {} THEN "untag" ELSE "none"
  BY DEF UpdatePlan, Plan
<1> HIDE DEF plan
<1>2. plan = NoPlan => new = old
  <2> SUFFICES ASSUME plan = NoPlan PROVE new = old
    OBVIOUS
  <2>1. old \ new = {} /\ new \ old = {}
    BY <1>1, NoPlanType
  <2> QED
    BY <2>1
<1>3. ExactIn(files, new, p, old \ new, new \ old)
  BY DEF ExactIn
<1>4. plan.tagged = "none" => TaggedIn(files, {}, new, p, allTagged)
  BY <1>1 DEF TaggedIn
<1>5. ASSUME NEW x, x.pc = "run", x.path = p, x.plan = plan
      PROVE  OwnIn(files, allTagged, new, x)
  <2>1. DropsOf(x) = old \ new /\ AddsOf(x) = new \ old /\ TempsOf(x) = {}
    BY <1>1, <1>5 DEF DropsOf, AddsOf, TempsOf
  <2> QED
    BY <1>1, <1>3, <1>4, <1>5, <2>1 DEF OwnIn
<1> QED
  BY <1>2, <1>5 DEF OwnFrom, plan

LEMMA OperationRight ==
    ASSUME IndexInv, TypeInv', NEW w \in Procs,
           \/ RebuildAllTagged(w)
           \/ \E p \in Paths, tags \in SUBSET Tags : Set(w, p, tags) \/ Update(w, p, tags)
    PROVE  IndexInv'
<1>0. TypeInv /\ wanted \in [Paths -> SUBSET Tags] /\ clean \subseteq Paths
  BY DEF IndexInv, TypeInv, TypeOK
<1>1. CASE RebuildAllTagged(w)
  <2> DEFINE plan == Plan({}, {}, "rebuild")
  <2>1. Begin(w, "Rebuild", NoFile, plan) /\ UNCHANGED wanted
    BY <1>1 DEF RebuildAllTagged
  <2>2. Opens(w, "Rebuild", NoFile, plan)
    BY <2>1, PlansTyped DEF Opens
  <2>3. NoFile \notin clean /\ "Rebuild" # "Set"
    BY <1>0, IndexAssumption
  <2> HIDE DEF plan
  <2>4. CASE Busy # {}
    BY <2>1, <2>2, <2>3, <2>4, BeginOverlaps
  <2>5. CASE Busy = {}
    BY <2>1, <2>2, <2>3, <2>5, BeginAlone
  <2> QED
    BY <2>4, <2>5
<1>2. ASSUME NEW p \in Paths, NEW tags \in SUBSET Tags, Set(w, p, tags)
      PROVE  IndexInv'
  <2> DEFINE plan == SetPlan(tags)
  <2>1. Begin(w, "Set", p, plan) /\ wanted' = [wanted EXCEPT ![p] = tags]
    BY <1>2 DEF Set
  <2>2. Opens(w, "Set", p, plan)
    BY <2>1, PlansTyped DEF Opens
  <2>3. wanted'[p] = tags /\ \A y \in Paths : y # p => wanted'[y] = wanted[y]
    BY <1>0, <2>1
  <2>4. plan # NoPlan /\ OwnFrom(p, plan, wanted'[p])
    BY <2>3, SetOwn
  <2> HIDE DEF plan
  <2>5. CASE Busy # {}
    BY <2>1, <2>2, <2>5, BeginOverlaps
  <2>6. CASE Busy = {}
    BY <2>1, <2>2, <2>3, <2>4, <2>6, BeginAlone
  <2> QED
    BY <2>5, <2>6
<1>3. ASSUME NEW p \in Paths, NEW tags \in SUBSET Tags, Update(w, p, tags)
      PROVE  IndexInv'
  <2> DEFINE plan == UpdatePlan(wanted[p], tags)
  <2>1. Begin(w, "Update", p, plan) /\ wanted' = [wanted EXCEPT ![p] = tags]
    BY <1>3 DEF Update
  <2>2. Opens(w, "Update", p, plan) /\ wanted[p] \in SUBSET Tags
    BY <1>0, <2>1, PlansTyped DEF Opens
  <2>3. wanted'[p] = tags /\ \A y \in Paths : y # p => wanted'[y] = wanted[y]
    BY <1>0, <2>1
  <2>4. CASE Busy # {}
    <3> HIDE DEF plan
    <3> QED
      BY <2>1, <2>2, <2>4, BeginOverlaps
  <2>5. CASE Busy = {}
    <3>1. ASSUME p \in clean
          PROVE  /\ plan = NoPlan => wanted'[p] = wanted[p]
                 /\ OwnFrom(p, plan, wanted'[p])
      <4>1. /\ ExactIn(files, wanted[p], p, {}, {})
            /\ TaggedIn(files, {}, wanted[p], p, allTagged)
        BY <2>5, <3>1, QuietIsRight
      <4> QED
        BY <2>2, <2>3, <4>1, UpdateOwn
    <3> HIDE DEF plan
    <3>2. "Update" # "Set"
      OBVIOUS
    <3> QED
      BY <2>1, <2>2, <2>3, <2>5, <3>1, <3>2, BeginAlone
  <2> QED
    BY <2>4, <2>5
<1> QED
  BY <1>1, <1>2, <1>3

LEMMA InitIndexInv == Init => IndexInv
<1> SUFFICES ASSUME Init PROVE IndexInv
  OBVIOUS
<1>1. TypeInv
  BY InitTypeInv
<1>2. \A w \in Procs : proc[w].pc = "idle"
  BY DEF Init, IdleProc
<1>3. Busy = {}
  BY <1>2 DEF Busy
<1>4. \A x \in Paths : wanted[x] = {} /\ \A t \in Tags : LinesIn(files, t) = {}
  BY DEF Init, LinesIn, Files
<1>5. CleanInv
  BY <1>4 DEF Init, CleanInv, RightAbout, ExactIn, TaggedIn
<1> QED
  BY <1>1, <1>3, <1>5 DEF IndexInv, AloneInv, WorkInv

LEMMA IndexStep == IndexInv /\ [Next]_vars => IndexInv'
<1> SUFFICES ASSUME IndexInv, [Next]_vars PROVE IndexInv'
  OBVIOUS
<1>1. TypeInv'
  BY TypeStep DEF IndexInv
<1>2. CASE UNCHANGED vars
  <2>1. /\ UNCHANGED <<files, allTagged, proc, wanted, clean>>
        /\ Busy' = Busy
    BY <1>2 DEF vars, Busy
  <2>2. LiveTemps' = LiveTemps
    BY <2>1 DEF LiveTemps
  <2>3. AloneInv'
    BY <2>1 DEF IndexInv, AloneInv
  <2>4. CleanInv'
    BY <2>1, <2>2 DEF IndexInv, CleanInv, InFlight, RightAbout
  <2>5. WorkInv'
    BY <2>1 DEF IndexInv, WorkInv
  <2> QED
    BY <1>1, <2>3, <2>4, <2>5 DEF IndexInv
<1>3. ASSUME NEW w \in Procs, Step(w) PROVE IndexInv'
  BY <1>1, <1>3, removePathRight, addPathRight, CreateTempRight, RenameRight, ReadTaggedRight,
     SaveTaggedRight DEF Step
<1>4. ASSUME NEW w \in Procs, Crash(w) PROVE IndexInv'
  BY <1>1, <1>4, CrashRight
<1>5. ASSUME NEW w \in Procs,
             \/ RebuildAllTagged(w)
             \/ \E p \in Paths, tags \in SUBSET Tags : Set(w, p, tags) \/ Update(w, p, tags)
      PROVE  IndexInv'
  BY <1>1, <1>5, OperationRight
<1> QED
  BY <1>2, <1>3, <1>4, <1>5 DEF Next

\* Queries are right about a path, whatever came before, once one Set of it has run
\* without overlapping with another operation, and as long as none overlap.
THEOREM QueriesRight == Spec => []QueryExact
<1>1. Init => IndexInv
  BY InitIndexInv
<1>2. IndexInv /\ [Next]_vars => IndexInv'
  BY IndexStep
<1>3. IndexInv => QueryExact
  <2> SUFFICES ASSUME IndexInv, NEW p \in clean, ~InFlight(p)
               PROVE  /\ \A t \in Tags : p \in Lines(t) <=> t \in wanted[p]
                      /\ allTagged # NoFile /\ (\A n \in Temps : p \notin Lines(n)) =>
                            (p \in allTagged <=> wanted[p] # {})
    BY DEF QueryExact
  <2>1. RightAbout(p)
    BY DEF IndexInv, CleanInv
  <2>2. \A f : LinesIn(files, f) = Lines(f)
    BY DEF LinesIn, Lines
  <2> QED
    BY <2>1, <2>2 DEF RightAbout, ExactIn, TaggedIn
<1> QED
  BY <1>1, <1>2, <1>3, PTL DEF Spec
=============================================================================
