------------------------- MODULE HotnessRingProofs -------------------------
(***************************************************************************)
(* Proofs about HotnessRing: types, the shape of the ring, and the bound   *)
(* on the difference between counters and ring, for any number of writers, *)
(* slots, paths, events and failures.                                      *)
(***************************************************************************)
EXTENDS HotnessRing, FiniteSetTheorems, TLAPS

-----------------------------------------------------------------------------
(* Operators *)

\* Advance yields a legal position.
LEMMA AdvanceType ==
    ASSUME NEW m \in Meta
    PROVE  /\ Advance(m) \in Meta
           /\ Advance(m).head = IF m.head + 1 = Capacity THEN 0 ELSE m.head + 1
           /\ Advance(m).tail = IF m.size = Capacity
                                THEN IF m.tail + 1 = Capacity THEN 0 ELSE m.tail + 1
                                ELSE m.tail
           /\ Advance(m).size = IF m.size = Capacity THEN m.size ELSE m.size + 1
  <1>1. Capacity \in Nat /\ Capacity > 0
    BY CapacityAssumption
  <1>2. ASSUME NEW i \in Slots
        PROVE  (i + 1) % Capacity = IF i + 1 = Capacity THEN 0 ELSE i + 1
    BY <1>1, <1>2 DEF Slots
  <1>3. m.head \in Slots /\ m.tail \in Slots /\ m.size \in 0 .. Capacity
    BY DEF Meta
  <1> QED
    BY <1>1, <1>2, <1>3 DEF Advance, Meta, Slots

\* Loading, applying and compacting keep the counters well formed.
LEMMA LoadType ==
    ASSUME NEW k, NEW cs \in [Paths -> Counter]
    PROVE  LoadCounters(k, cs) \in [Paths -> Counter]
  BY DEF LoadCounters, Counter

LEMMA ApplyType ==
    ASSUME NEW k, NEW cs \in [Paths -> Counter], NEW e \in Event, NEW s \in {1, -1}
    PROVE  applyEvent(k, cs, e, s) \in [Paths -> Counter]
  <1>1. CASE e.op \notin Tracked(k)
    BY <1>1 DEF applyEvent
  <1>2. CASE e.op \in Tracked(k)
    <2> DEFINE c == cs[e.path]
               d == [count |-> [c.count EXCEPT ![e.op] = Clamp(@ + s)],
                     bytes |-> [c.bytes EXCEPT ![e.op] = Clamp(@ + s * e.bytes)],
                     last  |-> [c.last EXCEPT ![e.op] =
                                  IF s > 0 /\ e.ts > @ THEN e.ts ELSE @]]
    <2>1. /\ e.path \in Paths /\ e.op \in Ops /\ e.ts \in Nat /\ e.bytes \in Nat
          /\ c \in Counter
      BY DEF Event
    <2>2. s * e.bytes \in Int
      BY <2>1
    <2>3. \A n \in Int : Clamp(n) \in Nat
      BY DEF Clamp
    <2>4. d.count \in [Ops -> Nat]
      BY <2>1, <2>3 DEF Counter
    <2>5. d.bytes \in [Ops -> Nat]
      BY <2>1, <2>2, <2>3 DEF Counter
    <2>6. d.last \in [Ops -> Nat]
      BY <2>1 DEF Counter
    <2>7. d \in Counter
      BY <2>4, <2>5, <2>6 DEF Counter
    <2>8. applyEvent(k, cs, e, s) = [cs EXCEPT ![e.path] = d]
      BY <1>2 DEF applyEvent
    <2> HIDE DEF d, c
    <2> QED
      BY <2>7, <2>8
  <1> QED
    BY <1>1, <1>2

LEMMA CompactType ==
    ASSUME NEW k, NEW cs \in [Paths -> Counter]
    PROVE  Compact(k, cs) \in [Paths -> Counter]
  BY DEF Compact, Counter, ZeroCounter

LEMMA EmptyType ==
    /\ EmptyMeta \in Meta
    /\ EmptyCounters \in [Paths -> Counter]
  BY CapacityAssumption DEF EmptyMeta, EmptyCounters, Meta, Slots, Counter, ZeroCounter

-----------------------------------------------------------------------------
(* Type correctness *)

LEMMA LeaveType ==
    ASSUME TypeOK, NEW w \in Writers, Leave(w)
    PROVE  /\ lock' \in Writers \cup {NoWriter}
           /\ pc' \in [Writers -> {"idle", "slot", "counters", "meta"}]
           /\ txn' \in [Writers -> [event : Events \cup {NoEvent},
                                    meta : Meta,
                                    counters : [Paths -> Counter]]]
  BY EmptyType DEF TypeOK, Leave, NoTxn

LEMMA TypeStep ==
    ASSUME TypeOK, [Next]_vars
    PROVE  TypeOK'
  <1>1. CASE UNCHANGED vars
    BY <1>1 DEF TypeOK, vars
  <1>2. ASSUME NEW w \in Writers, NEW e \in Events, Begin(w, e)
        PROVE  TypeOK'
    <2> DEFINE k == Kind[w]
               c1 == LoadCounters(k, counters)
               c2 == Expire(k, c1)
               c3 == applyEvent(k, c2, e, 1)
    <2>1. c1 \in [Paths -> Counter]
      BY LoadType DEF TypeOK
    <2>2. meta \in Meta /\ meta.head \in Slots
      BY DEF TypeOK, Meta
    <2>3. ring[meta.head] # NoEvent => ring[meta.head] \in Event
      BY <2>2, EventsAssumption DEF TypeOK
    <2>4. c2 \in [Paths -> Counter]
      BY <2>1, <2>3, ApplyType DEF Expire
    <2>5. c3 \in [Paths -> Counter]
      BY <2>4, ApplyType, EventsAssumption
    <2>6. Advance(meta) \in Meta
      BY <2>2, AdvanceType
    <2>7. txn' = [txn EXCEPT ![w] = [event |-> e, meta |-> Advance(meta), counters |-> c3]]
      BY <1>2 DEF Begin
    <2> HIDE DEF c1, c2, c3
    <2> QED
      BY <1>2, <2>5, <2>6, <2>7 DEF TypeOK, Begin
  <1>3. ASSUME NEW w \in Writers, WriteSlot(w)
        PROVE  TypeOK'
    BY <1>3 DEF TypeOK, WriteSlot
  <1>4. ASSUME NEW w \in Writers, SaveCounters(w)
        PROVE  TypeOK'
    <2>1. Compact(Kind[w], txn[w].counters) \in [Paths -> Counter]
      BY CompactType DEF TypeOK
    <2> QED
      BY <1>4, <2>1 DEF TypeOK, SaveCounters
  <1>5. ASSUME NEW w \in Writers, SaveMeta(w)
        PROVE  TypeOK'
    BY <1>5, LeaveType DEF TypeOK, SaveMeta
  <1>6. ASSUME NEW w \in Writers, Abort(w)
        PROVE  TypeOK'
    BY <1>6, LeaveType DEF TypeOK, Abort
  <1>7. ASSUME NEW w \in Writers, Fail(w)
        PROVE  TypeOK'
    BY <1>7, LeaveType, FailsAssumption DEF TypeOK, Fail
  <1> QED
    BY <1>1, <1>2, <1>3, <1>4, <1>5, <1>6, <1>7 DEF Next, Step

\* The files of the hotness store are well formed in every reachable state,
\* whichever implementation wrote them and wherever a Record failed: loadMeta
\* never refuses the position it reads.
THEOREM TypeCorrect == Spec => []TypeOK
  <1>1. Init => TypeOK
    BY EmptyType, FailsAssumption, CapacityAssumption DEF Init, TypeOK, NoTxn
  <1>2. TypeOK /\ [Next]_vars => TypeOK'
    BY TypeStep
  <1> QED
    BY <1>1, <1>2, PTL DEF Spec
-----------------------------------------------------------------------------
(* Counting *)

\* Two finite sets that differ in one element at most.
LEMMA SwapCard ==
    ASSUME NEW S, NEW T, NEW x, IsFiniteSet(S), IsFiniteSet(T), S \ {x} = T \ {x}
    PROVE  /\ Cardinality(S) \in Nat
           /\ Cardinality(T) \in Nat
           /\ x \in S => Cardinality(S) >= 1
           /\ Cardinality(T) = Cardinality(S) - (IF x \in S THEN 1 ELSE 0)
                                              + (IF x \in T THEN 1 ELSE 0)
  <1>1. /\ Cardinality(S) \in Nat
        /\ Cardinality(T) \in Nat
        /\ IsFiniteSet(S \ {x})
        /\ Cardinality(S \ {x}) \in Nat
    BY FS_CardinalityType, FS_RemoveElement
  <1>2. Cardinality(S \ {x}) = IF x \in S THEN Cardinality(S) - 1 ELSE Cardinality(S)
    BY FS_RemoveElement
  <1>3. Cardinality(T \ {x}) = IF x \in T THEN Cardinality(T) - 1 ELSE Cardinality(T)
    BY FS_RemoveElement
  <1> QED
    BY <1>1, <1>2, <1>3

\* A window is a finite set of slots.
LEMMA WindowFinite ==
    ASSUME NEW r, NEW m \in Meta, NEW p, NEW o
    PROVE  IsFiniteSet(InWindow(r, m, p, o)) /\ Count(r, m, p, o) \in Nat
  <1>1. IsFiniteSet(0 .. Capacity)
    BY FS_Interval, CapacityAssumption
  <1>2. InWindow(r, m, p, o) \in SUBSET (0 .. Capacity)
    BY CapacityAssumption DEF InWindow, Live, Slots, Meta
  <1>3. IsFiniteSet(InWindow(r, m, p, o))
    BY <1>1, <1>2, FS_Subset
  <1> QED
    BY <1>3, FS_CardinalityType DEF Count

\* The ring after e was written at the head.
Put(r, m, e) == [r EXCEPT ![m.head] = e]

\* One when the slot's content is an event of path p and operation o.
Hit(ev, p, o) == IF ev # NoEvent /\ ev.path = p /\ ev.op = o THEN 1 ELSE 0

\* One when the event that the next Record overwrites counts for p and o.
Expired(r, m, p, o) == IF m.size = Capacity THEN Hit(r[m.head], p, o) ELSE 0

\* The position m has the shape RingShape requires.
Shape(m) == m.size # Capacity => m.head = m.size

\* Recording e in the slot at the head drops the event that was there if the
\* ring was full, and adds e.
LEMMA RecordCount ==
    ASSUME NEW r \in [Slots -> Events \cup {NoEvent}], NEW m \in Meta, Shape(m),
           NEW e \in Events, NEW p, NEW o
    PROVE  /\ Expired(r, m, p, o) <= Count(r, m, p, o)
           /\ Count(Put(r, m, e), Advance(m), p, o)
                = Count(r, m, p, o) - Expired(r, m, p, o) + Hit(e, p, o)
  <1> DEFINE q == Put(r, m, e)
             S == InWindow(r, m, p, o)
             T == InWindow(q, Advance(m), p, o)
             x == m.head
  <1>1. /\ Capacity \in Nat /\ Capacity > 0
        /\ m.head \in Slots /\ m.size \in 0 .. Capacity
    BY CapacityAssumption DEF Meta
  <1>2. Advance(m) \in Meta
        /\ Advance(m).size = IF m.size = Capacity THEN m.size ELSE m.size + 1
    BY AdvanceType
  <1>3. Live(Advance(m)) = Live(m) \cup {x}
    BY <1>1, <1>2 DEF Live, Slots, Shape
  <1>4. x \in Live(m) <=> m.size = Capacity
    BY <1>1 DEF Live, Slots, Shape
  <1>5. Live(m) \subseteq Slots
    BY <1>1 DEF Live, Slots
  <1>6. q[x] = e /\ \A i \in Slots : i # x => q[i] = r[i]
    BY <1>1 DEF Put
  <1>7. S \ {x} = T \ {x}
    BY <1>3, <1>5, <1>6 DEF InWindow
  <1>8. x \in S <=> (m.size = Capacity /\ Hit(r[x], p, o) = 1)
    BY <1>4 DEF InWindow, Hit
  <1>9. x \in T <=> Hit(e, p, o) = 1
    BY <1>3, <1>6 DEF InWindow, Hit
  <1>10. IsFiniteSet(S) /\ IsFiniteSet(T)
    BY <1>2, WindowFinite
  <1>11. Hit(r[x], p, o) \in {0, 1} /\ Hit(e, p, o) \in {0, 1}
    BY DEF Hit
  <1> HIDE DEF S, T, x, q
  <1>12. /\ Cardinality(S) \in Nat
         /\ x \in S => Cardinality(S) >= 1
         /\ Cardinality(T) = Cardinality(S) - (IF x \in S THEN 1 ELSE 0)
                                            + (IF x \in T THEN 1 ELSE 0)
    BY <1>7, <1>10, SwapCard
  <1>13. Count(r, m, p, o) = Cardinality(S) /\ Count(q, Advance(m), p, o) = Cardinality(T)
    BY DEF Count, S, T
  <1> QED
    BY <1>8, <1>9, <1>11, <1>12, <1>13 DEF x, q, Expired

\* Writing one slot, or advancing the position by one, changes a count by at
\* most one.
LEMMA NearCount ==
    ASSUME NEW r \in [Slots -> Events \cup {NoEvent}], NEW m \in Meta, Shape(m),
           NEW e, NEW p, NEW o
    PROVE  /\ Count(Put(r, m, e), m, p, o) <= Count(r, m, p, o) + 1
           /\ Count(r, m, p, o) <= Count(Put(r, m, e), m, p, o) + 1
           /\ Count(r, Advance(m), p, o) <= Count(r, m, p, o) + 1
           /\ Count(r, m, p, o) <= Count(r, Advance(m), p, o) + 1
  <1> DEFINE q == Put(r, m, e)
             S == InWindow(r, m, p, o)
             T == InWindow(q, m, p, o)
             U == InWindow(r, Advance(m), p, o)
             x == m.head
  <1>1. /\ Capacity \in Nat /\ Capacity > 0
        /\ m.head \in Slots /\ m.size \in 0 .. Capacity
    BY CapacityAssumption DEF Meta
  <1>2. Advance(m) \in Meta
        /\ Advance(m).size = IF m.size = Capacity THEN m.size ELSE m.size + 1
    BY AdvanceType
  <1>3. Live(Advance(m)) = Live(m) \cup {x} /\ Live(m) \subseteq Slots
    BY <1>1, <1>2 DEF Live, Slots, Shape
  <1>4. S \ {x} = T \ {x} /\ S \ {x} = U \ {x}
    BY <1>3 DEF InWindow, Put
  <1>5. IsFiniteSet(S) /\ IsFiniteSet(T) /\ IsFiniteSet(U)
    BY <1>2, WindowFinite
  <1> HIDE DEF S, T, U, x, q
  <1>6. /\ Cardinality(S) \in Nat
        /\ Cardinality(T) = Cardinality(S) - (IF x \in S THEN 1 ELSE 0)
                                           + (IF x \in T THEN 1 ELSE 0)
    BY <1>4, <1>5, SwapCard
  <1>7. Cardinality(U) = Cardinality(S) - (IF x \in S THEN 1 ELSE 0)
                                        + (IF x \in U THEN 1 ELSE 0)
    BY <1>4, <1>5, SwapCard
  <1>8. /\ Count(r, m, p, o) = Cardinality(S)
        /\ Count(q, m, p, o) = Cardinality(T)
        /\ Count(r, Advance(m), p, o) = Cardinality(U)
    BY DEF Count, S, T, U
  <1>9. /\ Cardinality(T) <= Cardinality(S) + 1 /\ Cardinality(S) <= Cardinality(T) + 1
        /\ Cardinality(U) <= Cardinality(S) + 1 /\ Cardinality(S) <= Cardinality(U) + 1
    BY <1>6, <1>7
  <1> QED
    BY <1>8, <1>9 DEF q
-----------------------------------------------------------------------------
(* What the code's steps do to one count *)

LEMMA ApplyCount ==
    ASSUME NEW k, NEW cs \in [Paths -> Counter], NEW e \in Event, NEW s \in {1, -1},
           NEW p \in Paths, NEW o \in Ops
    PROVE  applyEvent(k, cs, e, s)[p].count[o] =
             IF o \in Tracked(k) /\ e.path = p /\ e.op = o
               THEN Clamp(cs[p].count[o] + s)
               ELSE cs[p].count[o]
  <1>1. e.path \in Paths /\ e.op \in Ops /\ cs[p].count \in [Ops -> Nat]
    BY DEF Event, Counter
  <1> QED
    BY <1>1 DEF applyEvent

LEMMA LoadCount ==
    ASSUME NEW k, NEW cs, NEW p \in Paths, NEW o \in Ops
    PROVE  LoadCounters(k, cs)[p].count[o] =
             IF o \in Tracked(k) THEN cs[p].count[o] ELSE 0
  BY DEF LoadCounters

LEMMA CompactCount ==
    ASSUME NEW k, NEW cs \in [Paths -> Counter], NEW p \in Paths, NEW o \in Ops
    PROVE  /\ Compact(k, cs)[p].count[o] <= cs[p].count[o]
           /\ o \in Tracked(k) => Compact(k, cs)[p].count[o] = cs[p].count[o]
  <1>1. cs[p].count[o] \in Nat
    BY DEF Counter
  <1>2. Compact(k, cs)[p] = IF isZero(k, cs[p]) THEN ZeroCounter ELSE cs[p]
    BY DEF Compact
  <1>3. ZeroCounter.count[o] = 0
    BY DEF ZeroCounter
  <1>4. isZero(k, cs[p]) /\ o \in Tracked(k) => cs[p].count[o] = 0
    BY DEF isZero
  <1> QED
    BY <1>1, <1>2, <1>3, <1>4

\* The counters a Record computes are as far from the ring it will leave as
\* the ones it loaded were from the ring it found.
LEMMA BeginDrift ==
    ASSUME TypeOK, RingShape, Drift(counters, ring, meta, fails),
           NEW w \in Writers, NEW e \in Events, Begin(w, e)
    PROVE  Drift(txn'[w].counters, Put(ring, meta, e), Advance(meta), fails)
  <1> DEFINE k == Kind[w]
             c1 == LoadCounters(k, counters)
             c2 == Expire(k, c1)
             c3 == applyEvent(k, c2, e, 1)
             h == ring[meta.head]
  <1>1. /\ counters \in [Paths -> Counter] /\ meta \in Meta /\ meta.head \in Slots
        /\ ring \in [Slots -> Events \cup {NoEvent}] /\ fails \in Nat
    BY FailsAssumption DEF TypeOK, Meta
  <1>2. c1 \in [Paths -> Counter]
    BY <1>1, LoadType
  <1>3. h # NoEvent => h \in Event
    BY <1>1, EventsAssumption
  <1>4. c2 \in [Paths -> Counter]
    BY <1>2, <1>3, ApplyType DEF Expire
  <1>5. txn'[w].counters = c3
    BY DEF Begin, TypeOK
  <1> SUFFICES ASSUME NEW p \in Paths, NEW o \in Ops
               PROVE  /\ c3[p].count[o] <=
                           Count(Put(ring, meta, e), Advance(meta), p, o) + fails
                      /\ o \in SharedOps =>
                           Count(Put(ring, meta, e), Advance(meta), p, o) <=
                             c3[p].count[o] + fails
    BY <1>5 DEF Drift
  <1> DEFINE old == Expired(ring, meta, p, o)
             n == Count(ring, meta, p, o)
             q == Count(Put(ring, meta, e), Advance(meta), p, o)
             c0 == counters[p].count[o]
  <1>6. Shape(meta)
    BY DEF RingShape, Shape
  <1>7. old <= n /\ q = n - old + Hit(e, p, o)
    BY <1>1, <1>6, RecordCount
  <1>8. n \in Nat /\ c0 \in Nat /\ old \in {0, 1} /\ Hit(e, p, o) \in {0, 1}
    BY <1>1, WindowFinite DEF Counter, Hit, Expired
  <1>9. c1[p].count[o] = IF o \in Tracked(k) THEN c0 ELSE 0
    BY LoadCount
  <1>10. c2[p].count[o] = IF o \in Tracked(k) /\ old = 1
                            THEN Clamp(c1[p].count[o] - 1) ELSE c1[p].count[o]
    <2>1. CASE meta.size = Capacity /\ h # NoEvent
      <3>1. c2 = applyEvent(k, c1, h, -1) /\ h \in Event
        BY <1>3, <2>1 DEF Expire
      <3>2. c1[p].count[o] \in Nat
        BY <1>2 DEF Counter
      <3> HIDE DEF c1, c2, h, k
      <3>3. applyEvent(k, c1, h, -1)[p].count[o] =
              IF o \in Tracked(k) /\ h.path = p /\ h.op = o
                THEN Clamp(c1[p].count[o] + -1) ELSE c1[p].count[o]
        BY <1>2, <3>1, ApplyCount
      <3> QED
        BY <2>1, <3>1, <3>2, <3>3 DEF Hit, Expired, h
    <2>2. CASE ~(meta.size = Capacity /\ h # NoEvent)
      BY <2>2 DEF Expire, Hit, Expired
    <2> QED
      BY <2>1, <2>2
  <1>11. c3[p].count[o] = IF o \in Tracked(k) /\ Hit(e, p, o) = 1
                            THEN Clamp(c2[p].count[o] + 1) ELSE c2[p].count[o]
    <2>1. e \in Event /\ e # NoEvent
      BY EventsAssumption
    <2> HIDE DEF c2, k
    <2>2. c3[p].count[o] = IF o \in Tracked(k) /\ e.path = p /\ e.op = o
                             THEN Clamp(c2[p].count[o] + 1) ELSE c2[p].count[o]
      BY <1>4, <2>1, ApplyCount
    <2> HIDE DEF c3
    <2> QED
      BY <2>1, <2>2 DEF Hit
  <1>12. /\ c0 <= n + fails
         /\ o \in SharedOps => n <= c0 + fails /\ o \in Tracked(k)
    BY DEF Drift, SharedOps
  <1> HIDE DEF c1, c2, c3, old, n, q, c0, k
  <1>13. /\ c3[p].count[o] <= q + fails
         /\ o \in SharedOps => q <= c3[p].count[o] + fails
    BY <1>1, <1>7, <1>8, <1>9, <1>10, <1>11, <1>12 DEF Clamp
  <1> QED
    BY <1>13 DEF q
-----------------------------------------------------------------------------
(* The inductive invariant *)

LEMMA IInit == Init => IInv
  <1> SUFFICES ASSUME Init PROVE IInv
    OBVIOUS
  <1>1. TypeOK
    BY EmptyType, FailsAssumption, CapacityAssumption DEF Init, TypeOK, NoTxn
  <1>2. LockInv /\ TxnInv
    BY WritersAssumption DEF Init, LockInv, TxnInv
  <1>3. RingShape
    BY CapacityAssumption DEF Init, RingShape, EmptyMeta, Live
  <1>4. Drift(counters, ring, meta, fails)
    <2> SUFFICES ASSUME NEW p \in Paths, NEW o \in Ops
                 PROVE  /\ counters[p].count[o] <= Count(ring, meta, p, o) + fails
                        /\ Count(ring, meta, p, o) <= counters[p].count[o] + fails
      BY DEF Drift
    <2>1. InWindow(ring, meta, p, o) = {}
      BY CapacityAssumption DEF Init, InWindow, EmptyMeta, Live
    <2>2. Count(ring, meta, p, o) = 0
      BY <2>1, FS_EmptySet DEF Count
    <2> QED
      BY <2>2 DEF Init, EmptyCounters, ZeroCounter
  <1>5. DriftInv
    BY <1>4 DEF Init, DriftInv
  <1> QED
    BY <1>1, <1>2, <1>3, <1>5 DEF IInv

\* The steps that end a Record without saving leave the others' view alone.
LEMMA LeaveInv ==
    ASSUME IInv, NEW w \in Writers, pc[w] # "idle", Leave(w),
           UNCHANGED <<ring, counters, meta>>, fails' \in 0 .. MaxFails,
           Drift(counters, ring, meta, fails')
    PROVE  IInv'
  <1>1. TypeOK'
    BY LeaveType DEF IInv, TypeOK
  <1>2. \A v \in Writers : pc'[v] = "idle"
    BY DEF IInv, LockInv, TypeOK, Leave
  <1>3. LockInv'
    BY <1>2, WritersAssumption DEF IInv, LockInv, Leave
  <1>4. TxnInv' /\ RingShape'
    BY <1>2 DEF IInv, TxnInv, RingShape, Live
  <1>5. Drift(counters, ring, meta, fails)'
    BY DEF Drift, Count, InWindow, Live
  <1>6. DriftInv'
    BY <1>2, <1>5 DEF DriftInv
  <1> QED
    BY <1>1, <1>3, <1>4, <1>6 DEF IInv

LEMMA IStep ==
    ASSUME IInv, [Next]_vars
    PROVE  IInv'
  <1>0. /\ TypeOK /\ LockInv /\ RingShape /\ TxnInv /\ DriftInv
        /\ meta \in Meta /\ meta.head \in Slots /\ Shape(meta) /\ fails \in Nat
        /\ ring \in [Slots -> Events \cup {NoEvent}]
        /\ counters \in [Paths -> Counter]
    BY FailsAssumption DEF IInv, TypeOK, Meta, RingShape, Shape
  <1>1. CASE UNCHANGED vars
    <2>1. TypeOK' /\ LockInv' /\ RingShape' /\ TxnInv'
      BY <1>0, <1>1 DEF vars, TypeOK, LockInv, RingShape, TxnInv, Live, Advance
    <2>2. DriftInv'
      BY <1>0, <1>1 DEF vars, DriftInv, Drift, Count, InWindow, Live
    <2> QED
      BY <2>1, <2>2 DEF IInv
  <1>2. ASSUME NEW w \in Writers, NEW e \in Events, Begin(w, e)
        PROVE  IInv'
    <2>1. TypeOK'
      BY <1>0, <1>2, TypeStep DEF Next, Step
    <2>2. \A v \in Writers : pc[v] = "idle"
      BY <1>0, <1>2, WritersAssumption DEF LockInv, Begin
    <2>3. /\ pc' = [pc EXCEPT ![w] = "slot"] /\ lock' = w
          /\ txn'[w].event = e /\ txn'[w].meta = Advance(meta)
          /\ UNCHANGED <<ring, counters, meta, fails>>
          /\ pc'[w] = "slot" /\ \A v \in Writers \ {w} : pc'[v] = "idle"
      BY <1>0, <1>2, <2>2 DEF Begin, TypeOK
    <2>4. LockInv' /\ RingShape'
      BY <1>0, <2>3 DEF LockInv, RingShape, Live
    <2>5. TxnInv'
      BY <2>3 DEF TxnInv, Advance
    <2>6. Drift(counters, ring, meta, fails)
      BY <1>0, <2>2 DEF DriftInv
    <2>7. Drift(txn'[w].counters, Put(ring, meta, e), Advance(meta), fails)
      BY <1>0, <1>2, <2>6, BeginDrift
    <2>8. DriftInv'
      BY <2>3, <2>6, <2>7 DEF DriftInv, Drift, Count, InWindow, Live, Advance, Put
    <2> QED
      BY <2>1, <2>4, <2>5, <2>8 DEF IInv
  <1>3. ASSUME NEW w \in Writers, WriteSlot(w)
        PROVE  IInv'
    <2> DEFINE e == txn[w].event
    <2>1. TypeOK'
      BY <1>0, <1>3, TypeStep DEF Next, Step
    <2>2. /\ \A v \in Writers \ {w} : pc[v] = "idle" /\ pc'[v] = "idle"
          /\ pc[w] = "slot" /\ pc'[w] = "counters"
          /\ ring' = Put(ring, meta, e)
          /\ e \in Events
          /\ txn[w].meta = Advance(meta)
          /\ UNCHANGED <<counters, meta, lock, txn, fails>>
      BY <1>0, <1>3 DEF WriteSlot, LockInv, TxnInv, TypeOK, Put
    <2>3. LockInv'
      BY <1>0, <2>2 DEF LockInv
    <2>4. RingShape'
      BY <1>0, <2>2, EventsAssumption DEF RingShape, Live, Put, Slots
    <2>5. TxnInv'
      BY <1>0, <2>2 DEF TxnInv, Advance, Put
    <2>6. Drift(txn[w].counters, ring', txn[w].meta, fails)
      BY <1>0, <2>2 DEF DriftInv, Put
    <2>7. Drift(counters, ring, meta, fails)
      BY <1>0, <2>2 DEF DriftInv
    <2>8. Drift(counters, ring', meta, fails + 1)
      <3> SUFFICES ASSUME NEW p \in Paths, NEW o \in Ops
                   PROVE  /\ counters[p].count[o] <= Count(ring', meta, p, o) + (fails + 1)
                          /\ o \in SharedOps =>
                               Count(ring', meta, p, o) <= counters[p].count[o] + (fails + 1)
        BY DEF Drift
      <3>1. /\ Count(Put(ring, meta, e), meta, p, o) <= Count(ring, meta, p, o) + 1
            /\ Count(ring, meta, p, o) <= Count(Put(ring, meta, e), meta, p, o) + 1
        BY <1>0, NearCount
      <3>2. /\ counters[p].count[o] <= Count(ring, meta, p, o) + fails
            /\ o \in SharedOps => Count(ring, meta, p, o) <= counters[p].count[o] + fails
        BY <2>7 DEF Drift
      <3>3. /\ Count(ring, meta, p, o) \in Nat /\ Count(ring', meta, p, o) \in Nat
            /\ counters[p].count[o] \in Nat
        BY <1>0, WindowFinite DEF Counter
      <3> QED
        BY <1>0, <2>2, <3>1, <3>2, <3>3
    <2>9. DriftInv'
      BY <2>2, <2>6, <2>8 DEF DriftInv, Drift, Count, InWindow, Live
    <2> QED
      BY <2>1, <2>3, <2>4, <2>5, <2>9 DEF IInv
  <1>4. ASSUME NEW w \in Writers, SaveCounters(w)
        PROVE  IInv'
    <2> DEFINE m == txn[w].meta
    <2>1. TypeOK'
      BY <1>0, <1>4, TypeStep DEF Next, Step
    <2>2. /\ \A v \in Writers \ {w} : pc[v] = "idle" /\ pc'[v] = "idle"
          /\ pc[w] = "counters" /\ pc'[w] = "meta"
          /\ counters' = Compact(Kind[w], txn[w].counters)
          /\ m = Advance(meta) /\ m \in Meta
          /\ txn[w].counters \in [Paths -> Counter]
          /\ UNCHANGED <<ring, meta, lock, txn, fails>>
      BY <1>0, <1>4 DEF SaveCounters, LockInv, TxnInv, TypeOK
    <2>3. LockInv' /\ RingShape' /\ TxnInv'
      BY <1>0, <2>2 DEF LockInv, RingShape, TxnInv, Live, Advance
    <2>4. Drift(txn[w].counters, ring, m, fails)
      BY <1>0, <2>2 DEF DriftInv
    <2>5. Drift(counters', ring, m, fails)
      <3> SUFFICES ASSUME NEW p \in Paths, NEW o \in Ops
                   PROVE  /\ counters'[p].count[o] <= Count(ring, m, p, o) + fails
                          /\ o \in SharedOps =>
                               Count(ring, m, p, o) <= counters'[p].count[o] + fails
        BY DEF Drift
      <3>1. /\ counters'[p].count[o] <= txn[w].counters[p].count[o]
            /\ o \in Tracked(Kind[w]) =>
                 counters'[p].count[o] = txn[w].counters[p].count[o]
        BY <2>2, CompactCount
      <3>2. /\ txn[w].counters[p].count[o] <= Count(ring, m, p, o) + fails
            /\ o \in SharedOps =>
                 Count(ring, m, p, o) <= txn[w].counters[p].count[o] + fails
        BY <2>4 DEF Drift
      <3>3. /\ Count(ring, m, p, o) \in Nat
            /\ counters'[p].count[o] \in Nat /\ txn[w].counters[p].count[o] \in Nat
        BY <2>1, <2>2, WindowFinite DEF Counter, TypeOK
      <3>4. o \in SharedOps => o \in Tracked(Kind[w])
        BY DEF SharedOps
      <3> HIDE DEF m
      <3> QED
        BY <1>0, <3>1, <3>2, <3>3, <3>4
    <2>6. Drift(counters', ring, meta, fails + 1)
      <3> SUFFICES ASSUME NEW p \in Paths, NEW o \in Ops
                   PROVE  /\ counters'[p].count[o] <= Count(ring, meta, p, o) + (fails + 1)
                          /\ o \in SharedOps =>
                               Count(ring, meta, p, o) <= counters'[p].count[o] + (fails + 1)
        BY DEF Drift
      <3>1. /\ Count(ring, m, p, o) <= Count(ring, meta, p, o) + 1
            /\ Count(ring, meta, p, o) <= Count(ring, m, p, o) + 1
        BY <1>0, <2>2, NearCount
      <3>2. /\ counters'[p].count[o] <= Count(ring, m, p, o) + fails
            /\ o \in SharedOps => Count(ring, m, p, o) <= counters'[p].count[o] + fails
        BY <2>5 DEF Drift
      <3>3. /\ Count(ring, meta, p, o) \in Nat /\ Count(ring, m, p, o) \in Nat
            /\ counters'[p].count[o] \in Nat
        BY <1>0, <2>1, <2>2, WindowFinite DEF Counter, TypeOK
      <3> HIDE DEF m
      <3> QED
        BY <1>0, <3>1, <3>2, <3>3
    <2>7. DriftInv'
      BY <2>2, <2>5, <2>6 DEF DriftInv, Drift, Count, InWindow, Live
    <2> QED
      BY <2>1, <2>3, <2>7 DEF IInv
  <1>5. ASSUME NEW w \in Writers, SaveMeta(w)
        PROVE  IInv'
    <2>1. TypeOK'
      BY <1>0, <1>5, TypeStep DEF Next, Step
    <2>2. /\ \A v \in Writers : pc'[v] = "idle"
          /\ pc[w] = "meta" /\ lock' = NoWriter
          /\ txn[w].meta = Advance(meta) /\ ring[meta.head] = txn[w].event
          /\ txn[w].event \in Events
          /\ meta' = Advance(meta)
          /\ UNCHANGED <<ring, counters, fails>>
      BY <1>0, <1>5 DEF SaveMeta, Leave, LockInv, TxnInv, TypeOK
    <2>3. LockInv' /\ TxnInv'
      BY <2>2, WritersAssumption DEF LockInv, TxnInv
    <2>4. RingShape'
      <3>1. /\ meta'.head = IF meta.head + 1 = Capacity THEN 0 ELSE meta.head + 1
            /\ meta'.tail = IF meta.size = Capacity
                              THEN IF meta.tail + 1 = Capacity THEN 0 ELSE meta.tail + 1
                              ELSE meta.tail
            /\ meta'.size = IF meta.size = Capacity THEN meta.size ELSE meta.size + 1
        BY <1>0, <2>2, AdvanceType
      <3>2. Capacity \in Nat /\ meta.size \in 0 .. Capacity
        BY <1>0, CapacityAssumption DEF Meta
      <3>3. IF meta'.size = Capacity THEN meta'.tail = meta'.head
                                     ELSE meta'.tail = 0 /\ meta'.head = meta'.size
        BY <1>0, <3>1, <3>2 DEF RingShape, Slots
      <3>4. ASSUME NEW i \in Live(meta') PROVE ring[i] # NoEvent
        <4>1. i \in Live(meta) \/ i = meta.head
          BY <1>0, <3>1, <3>2 DEF Live, RingShape, Slots
        <4> QED
          BY <1>0, <2>2, <4>1, EventsAssumption DEF RingShape
      <3> QED
        BY <2>2, <3>3, <3>4 DEF RingShape, Live
    <2>5. Drift(counters, ring, Advance(meta), fails)
      BY <1>0, <2>2 DEF DriftInv
    <2>6. DriftInv'
      BY <2>2, <2>5 DEF DriftInv, Drift, Count, InWindow, Live
    <2> QED
      BY <2>1, <2>3, <2>4, <2>6 DEF IInv
  <1>6. ASSUME NEW w \in Writers, Abort(w)
        PROVE  IInv'
    <2>1. Drift(counters, ring, meta, fails)
      BY <1>0, <1>6 DEF Abort, DriftInv, LockInv
    <2> QED
      BY <1>0, <1>6, <2>1, LeaveInv DEF Abort, TypeOK
  <1>7. ASSUME NEW w \in Writers, Fail(w)
        PROVE  IInv'
    <2>1. Drift(counters, ring, meta, fails + 1)
      BY <1>0, <1>7 DEF Fail, DriftInv
    <2>2. fails' \in 0 .. MaxFails
      BY <1>0, <1>7, FailsAssumption DEF Fail
    <2> QED
      BY <1>7, <2>1, <2>2, LeaveInv DEF Fail
  <1> QED
    BY <1>1, <1>2, <1>3, <1>4, <1>5, <1>6, <1>7 DEF Next, Step

LEMMA Inductive == Spec => []IInv
  BY IInit, IStep, PTL DEF Spec

-----------------------------------------------------------------------------
(* Results *)

\* However many processes record through the two implementations, and wherever
\* their Records fail, a count in raw_counters.json is off by at most one per
\* failure between the writes; with no failure it is exact.
THEOREM DriftIsBounded == Spec => []DriftBounded
  <1>1. IInv => DriftBounded
    BY WritersAssumption DEF IInv, TypeOK, LockInv, DriftInv, Drift, DriftBounded
  <1> QED
    BY <1>1, Inductive, PTL

\* The slots in use are filled and the head points at the oldest event of a
\* full ring, failures included, so a Record always subtracts the oldest.
THEOREM ShapeIsKept == Spec => []RingShape
  <1>1. IInv => RingShape
    BY DEF IInv
  <1> QED
    BY <1>1, Inductive, PTL
=============================================================================
