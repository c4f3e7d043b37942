---------------------------- MODULE HotnessRing ----------------------------
(***************************************************************************)
(* The hotness store: a ring of the last Capacity access events on disk    *)
(* (ring.dat), the counters derived from it (raw_counters.json) and the    *)
(* position of the ring (ring.meta.json), updated by several processes     *)
(* under the flock hotness.lock.                                           *)
(*                                                                         *)
(* Two programs write it with separate code: package hotness               *)
(* (tagindex/internal/hotness/store.go, kind "store") and the FUSE mount   *)
(* (weed/mount/weedfs_hotness.go, kind "mount").  The mount's counters     *)
(* have no close fields.                                                   *)
(*                                                                         *)
(* One Record is four steps, one per change of a file.  A process may die, *)
(* or get an I/O error, between any two of them.                           *)
(***************************************************************************)
EXTENDS Integers, FiniteSets

CONSTANTS
    Paths,      \* files whose accesses are recorded
    Events,     \* the events a caller may record
    Capacity,   \* slots of the ring
    Writers,    \* processes that record events
    Kind,       \* Kind[w]: which of the two implementations w runs
    MaxFails,   \* bound on the failures after the ring was written
    NoEvent,    \* the content of a slot that was never written
    NoWriter    \* the lock is free

Ops == {"open", "read", "write", "close"}

Event == [path : Paths, op : Ops, ts : Nat, bytes : Nat]

\* What normalize lets through: only reads and writes carry bytes.
ASSUME EventsAssumption ==
    /\ Events \subseteq Event
    /\ \A e \in Events : e.op \in {"open", "close"} => e.bytes = 0
    /\ NoEvent \notin Events

ASSUME CapacityAssumption == Capacity \in Nat \ {0}

ASSUME WritersAssumption ==
    /\ Kind \in [Writers -> {"store", "mount"}]
    /\ NoWriter \notin Writers

ASSUME FailsAssumption == MaxFails \in Nat

VARIABLES
    ring,       \* ring.dat
    counters,   \* raw_counters.json; a path that is not in it has ZeroCounter
    meta,       \* ring.meta.json
    lock,       \* holder of hotness.lock
    pc,         \* pc[w]: the next step of w's Record
    txn,        \* txn[w]: the event and the values w computed from what it read
    fails       \* failures that left the three files out of step (history)

vars == <<ring, counters, meta, lock, pc, txn, fails>>

-----------------------------------------------------------------------------
(* Data *)

Slots == 0 .. Capacity - 1

Meta == [head : Slots, tail : Slots, size : 0 .. Capacity]

Counter == [count : [Ops -> Nat], bytes : [Ops -> Nat], last : [Ops -> Nat]]

ZeroCounter == [count |-> [o \in Ops |-> 0],
                bytes |-> [o \in Ops |-> 0],
                last  |-> [o \in Ops |-> 0]]

\* A store whose directory is still empty.
EmptyMeta == [head |-> 0, tail |-> 0, size |-> 0]
EmptyCounters == [p \in Paths |-> ZeroCounter]
NoTxn == [event |-> NoEvent, meta |-> EmptyMeta, counters |-> EmptyCounters]

\* The operations an implementation has counters for.
Tracked(k) == IF k = "mount" THEN Ops \ {"close"} ELSE Ops

\* The events an implementation records: the mount turns an event without
\* bytes away, and knows no close.
Accepts(k, e) ==
    k = "mount" => e.op \in Tracked(k) /\ (e.op # "open" => e.bytes > 0)

\* Reading raw_counters.json drops the fields the reader's struct lacks.
LoadCounters(k, cs) ==
    [p \in Paths |->
        [count |-> [o \in Ops |-> IF o \in Tracked(k) THEN cs[p].count[o] ELSE 0],
         bytes |-> [o \in Ops |-> IF o \in Tracked(k) THEN cs[p].bytes[o] ELSE 0],
         last  |-> [o \in Ops |-> IF o \in Tracked(k) THEN cs[p].last[o] ELSE 0]]]

Clamp(n) == IF n < 0 THEN 0 ELSE n

\* clampCounter after adding sign; the time of last use only grows.
applyEvent(k, cs, e, sign) ==
    IF e.op \notin Tracked(k) THEN cs ELSE
    LET c == cs[e.path] IN
    [cs EXCEPT ![e.path] =
        [count |-> [c.count EXCEPT ![e.op] = Clamp(@ + sign)],
         bytes |-> [c.bytes EXCEPT ![e.op] = Clamp(@ + sign * e.bytes)],
         last  |-> [c.last EXCEPT ![e.op] =
                       IF sign > 0 /\ e.ts > @ THEN e.ts ELSE @]]]

isZero(k, c) == \A o \in Tracked(k) : c.count[o] = 0 /\ c.bytes[o] = 0

\* saveCounters leaves out the counters that are zero, their times with them.
Compact(k, cs) == [p \in Paths |-> IF isZero(k, cs[p]) THEN ZeroCounter ELSE cs[p]]

\* Expire with the slot after the head, for validating DriftBounded.
ExpireNextSlot(k, cs) ==
    LET e == ring[(meta.head + 1) % Capacity] IN
    IF meta.size = Capacity /\ e # NoEvent THEN applyEvent(k, cs, e, -1) ELSE cs

\* When the ring is full the event in the slot that is about to be reused
\* leaves the counters.
Expire(k, cs) ==
    IF meta.size = Capacity /\ ring[meta.head] # NoEvent
      THEN applyEvent(k, cs, ring[meta.head], -1)
      ELSE cs

\* Advance with a head that never wraps, for validating TypeOK.
AdvanceUnwrapped(m) ==
    [head |-> m.head + 1,
     tail |-> IF m.size = Capacity THEN (m.tail + 1) % Capacity ELSE m.tail,
     size |-> IF m.size = Capacity THEN m.size ELSE m.size + 1]

\* Advance that forgets the tail, for validating RingShape.
AdvanceHeadOnly(m) ==
    [head |-> (m.head + 1) % Capacity,
     tail |-> m.tail,
     size |-> IF m.size = Capacity THEN m.size ELSE m.size + 1]

Advance(m) ==
    [head |-> (m.head + 1) % Capacity,
     tail |-> IF m.size = Capacity THEN (m.tail + 1) % Capacity ELSE m.tail,
     size |-> IF m.size = Capacity THEN m.size ELSE m.size + 1]

-----------------------------------------------------------------------------
(* Record *)

Init ==
    /\ ring = [i \in Slots |-> NoEvent]
    /\ counters = EmptyCounters
    /\ meta = EmptyMeta
    /\ lock = NoWriter
    /\ pc = [w \in Writers |-> "idle"]
    /\ txn = [w \in Writers |-> NoTxn]
    /\ fails = 0

\* Begin that does not wait for the lock, for validating the refinement.
BeginUnlocked(w, e) ==
    /\ pc[w] = "idle"
    /\ Accepts(Kind[w], e)
    /\ lock' = w
    /\ LET k == Kind[w] IN
       txn' = [txn EXCEPT ![w] =
          [event |-> e,
           meta |-> Advance(meta),
           counters |-> applyEvent(k, Expire(k, LoadCounters(k, counters)), e, 1)]]
    /\ pc' = [pc EXCEPT ![w] = "slot"]
    /\ UNCHANGED <<ring, counters, meta, fails>>

\* Take the lock, load the three files and compute what will be saved.
Begin(w, e) ==
    /\ pc[w] = "idle"
    /\ lock = NoWriter
    /\ Accepts(Kind[w], e)
    /\ lock' = w
    /\ LET k == Kind[w] IN
       txn' = [txn EXCEPT ![w] =
          [event |-> e,
           meta |-> Advance(meta),
           counters |-> applyEvent(k, Expire(k, LoadCounters(k, counters)), e, 1)]]
    /\ pc' = [pc EXCEPT ![w] = "slot"]
    /\ UNCHANGED <<ring, counters, meta, fails>>

\* writeSlot: the slot at the head that was read by Begin.
WriteSlot(w) ==
    /\ pc[w] = "slot"
    /\ ring' = [ring EXCEPT ![meta.head] = txn[w].event]
    /\ pc' = [pc EXCEPT ![w] = "counters"]
    /\ UNCHANGED <<counters, meta, lock, txn, fails>>

SaveCounters(w) ==
    /\ pc[w] = "counters"
    /\ counters' = Compact(Kind[w], txn[w].counters)
    /\ pc' = [pc EXCEPT ![w] = "meta"]
    /\ UNCHANGED <<ring, meta, lock, txn, fails>>

\* The holder leaves Record: the deferred unlock, or the kernel's when it dies.
Leave(w) ==
    /\ lock' = IF lock = w THEN NoWriter ELSE lock
    /\ pc' = [pc EXCEPT ![w] = "idle"]
    /\ txn' = [txn EXCEPT ![w] = NoTxn]

SaveMeta(w) ==
    /\ pc[w] = "meta"
    /\ meta' = txn[w].meta
    /\ Leave(w)
    /\ UNCHANGED <<ring, counters, fails>>

\* The event is larger than a slot, writing it fails, or the process dies:
\* nothing was saved.
Abort(w) ==
    /\ pc[w] = "slot"
    /\ Leave(w)
    /\ UNCHANGED <<ring, counters, meta, fails>>

\* An error or a death between the writes: what was saved stays.
Fail(w) ==
    /\ pc[w] \in {"counters", "meta"}
    /\ fails < MaxFails
    /\ fails' = fails + 1
    /\ Leave(w)
    /\ UNCHANGED <<ring, counters, meta>>

Step(w) ==
    \/ \E e \in Events : Begin(w, e)
    \/ WriteSlot(w)
    \/ SaveCounters(w)
    \/ SaveMeta(w)
    \/ Abort(w)
    \/ Fail(w)

Next == \E w \in Writers : Step(w)

Spec == Init /\ [][Next]_vars
-----------------------------------------------------------------------------
(* Properties *)

\* Type correctness; the position in ring.meta.json always passes the checks
\* of loadMeta, so no later Record is refused with "invalid hotness ring
\* position".
TypeOK ==
    /\ ring \in [Slots -> Events \cup {NoEvent}]
    /\ counters \in [Paths -> Counter]
    /\ meta \in Meta
    /\ lock \in Writers \cup {NoWriter}
    /\ pc \in [Writers -> {"idle", "slot", "counters", "meta"}]
    /\ txn \in [Writers -> [event : Events \cup {NoEvent},
                            meta : Meta,
                            counters : [Paths -> Counter]]]
    /\ fails \in 0 .. MaxFails

\* The slots that the position m says are in use.
Live(m) == IF m.size = Capacity THEN Slots ELSE 0 .. m.size - 1

InWindow(r, m, p, o) ==
    {i \in Live(m) : r[i] # NoEvent /\ r[i].path = p /\ r[i].op = o}

Count(r, m, p, o) == Cardinality(InWindow(r, m, p, o))

\* Every process that writes the store keeps a counter for the operation.
SharedOps == {o \in Ops : \A w \in Writers : o \in Tracked(Kind[w])}

\* Whenever the lock is free, a saved count differs from the number of such
\* events in the ring by at most one for each Record that failed between its
\* writes: the clamp and the subtraction of a slot reused after a failure
\* never let one failure count twice.  An operation the mount has no counter
\* for may be under-counted, never over-counted by more than that.
DriftBounded ==
    lock = NoWriter =>
        \A p \in Paths, o \in Ops :
            /\ counters[p].count[o] <= Count(ring, meta, p, o) + fails
            /\ o \in SharedOps =>
                 Count(ring, meta, p, o) <= counters[p].count[o] + fails

\* The slots in use hold an event each, the head is where the next one goes
\* and, once the ring is full, the oldest event is under the head: the one a
\* Record subtracts.  Failures do not disturb this.
RingShape ==
    /\ \A i \in Live(meta) : ring[i] # NoEvent
    /\ IF meta.size = Capacity THEN meta.tail = meta.head
                               ELSE meta.tail = 0 /\ meta.head = meta.size
-----------------------------------------------------------------------------
(* The inductive invariant behind DriftBounded and RingShape *)

\* A process inside Record holds the lock, and only such a process does.
LockInv == \A w \in Writers : pc[w] # "idle" <=> lock = w

\* What the holder is about to save follows from what is on disk.
TxnInv ==
    \A w \in Writers : pc[w] # "idle" =>
        /\ txn[w].event \in Events
        /\ txn[w].meta = Advance(meta)
        /\ pc[w] \in {"counters", "meta"} => ring[meta.head] = txn[w].event

\* The counters cs are within f of the events that r holds at position m.
Drift(cs, r, m, f) ==
    \A p \in Paths, o \in Ops :
        /\ cs[p].count[o] <= Count(r, m, p, o) + f
        /\ o \in SharedOps => Count(r, m, p, o) <= cs[p].count[o] + f

\* The slot has been written and the counters or the position have not: a
\* failure now costs at most one more.
DriftInv ==
    /\ (\A w \in Writers : pc[w] \in {"idle", "slot"}) =>
          Drift(counters, ring, meta, fails)
    /\ \A w \in Writers :
          /\ pc[w] = "slot" =>
               Drift(txn[w].counters, [ring EXCEPT ![meta.head] = txn[w].event],
                     txn[w].meta, fails)
          /\ pc[w] = "counters" => Drift(txn[w].counters, ring, txn[w].meta, fails)
          /\ pc[w] = "meta" => Drift(counters, ring, txn[w].meta, fails)
          /\ pc[w] \in {"counters", "meta"} => Drift(counters, ring, meta, fails + 1)

IInv == TypeOK /\ LockInv /\ RingShape /\ TxnInv /\ DriftInv
=============================================================================
