------------------------- MODULE VolumeVacuumProofs -------------------------
(***************************************************************************)
(* Proofs about vacuum of a volume: whatever the drivers of vacuum do and  *)
(* whenever the server is killed, the files and the map of an open volume  *)
(* give what was acknowledged, and a volume that was left between the two  *)
(* renames is found damaged.                                               *)
(***************************************************************************)
EXTENDS VolumeVacuum, FiniteSetTheorems, SequenceTheorems, WellFoundedInduction, TLAPS

-----------------------------------------------------------------------------
(* Positions *)

\* The largest member of a set of positions is its Latest.
LEMMA LatestIs ==
    ASSUME NEW S \in SUBSET Nat, NEW x \in S, \A y \in S : y <= x
    PROVE  Latest(S) = x
<1>1. \A z \in S : (\A y \in S : y <= z) => z = x
  OBVIOUS
<1>2. S # {}
  OBVIOUS
<1> QED BY <1>1, <1>2 DEF Latest

\* Positions up to n that are some have a latest one.
LEMMA LatestExists ==
    ASSUME NEW n \in Nat, NEW S \in SUBSET (1..n), S # {}
    PROVE  Latest(S) \in S /\ \A y \in S : y <= Latest(S)
<1> DEFINE T == {n - y : y \in S}
<1>1. T \subseteq Nat
  OBVIOUS
<1>7. T # {}
  <2>1. PICK y \in S : TRUE
    OBVIOUS
  <2>2. n - y \in T
    BY <2>1
  <2> QED BY <2>2
<1>2. \E x \in T : \A y \in T : ~(<<y, x>> \in OpToRel(<, Nat))
  <2> HIDE DEF T
  <2> QED BY <1>1, <1>7, NatLessThanWellFounded, WFMin
<1>3. PICK x \in T : \A y \in T : ~(<<y, x>> \in OpToRel(<, Nat))
  BY <1>2
<1>4. \A y \in T : ~(y < x)
  BY <1>1, <1>3 DEF OpToRel
<1>5. PICK m \in S : x = n - m
  OBVIOUS
<1>6. \A y \in S : y <= m
  <2> TAKE y \in S
  <2>1. n - y \in T /\ ~(n - y < n - m)
    BY <1>4, <1>5
  <2> QED BY <2>1
<1>8. Latest(S) = m
  <2>1. S \in SUBSET Nat
    OBVIOUS
  <2> QED BY <2>1, <1>6, LatestIs
<1> QED BY <1>6, <1>8

\* Latest is 0 or a position, and 0 only where there is none.
LEMMA LatestRange ==
    ASSUME NEW n \in Nat, NEW S \in SUBSET (1..n)
    PROVE  /\ Latest(S) \in 0..n
           /\ Latest(S) = 0 <=> S = {}
           /\ S # {} => Latest(S) \in S /\ \A y \in S : y <= Latest(S)
<1>1. CASE S = {}
  <2>1. Latest(S) = 0
    BY <1>1 DEF Latest
  <2> QED BY <1>1, <2>1
<1>2. CASE S # {}
  <2>1. Latest(S) \in S /\ \A y \in S : y <= Latest(S)
    BY <1>2, LatestExists
  <2>2. PICK m : m = Latest(S)
    OBVIOUS
  <2>3. m \in 1..n
    BY <2>1, <2>2
  <2> QED BY <1>2, <2>1, <2>2, <2>3
<1> QED BY <1>1, <1>2

-----------------------------------------------------------------------------
(* Loading an index file *)

Maps == [Keys -> [off : Nat, size : Sizes]]

\* An index entry of a needle that is there, as doLoading tells.
Live(e) == e.off # 0 /\ e.size # "tombstone"

Puts(ix, k) == {i \in DOMAIN ix : ix[i].k = k /\ Live(ix[i])}

Dels(ix, k) == {i \in DOMAIN ix : ix[i].k = k /\ ~Live(ix[i])}

\* The entry of a key is that of the last put, and dead if a deletion is later.
LEMMA LoadedEntry ==
    ASSUME NEW ix, NEW k \in Keys
    PROVE  doLoading(ix)[k] =
              IF Latest(Puts(ix, k)) = 0 THEN NoEntry
              ELSE [off |-> ix[Latest(Puts(ix, k))].off,
                    size |-> IF Latest(Puts(ix, k)) < Latest(Dels(ix, k)) THEN "tombstone"
                             ELSE ix[Latest(Puts(ix, k))].size]
<1>1. Puts(ix, k) = {i \in DOMAIN ix : /\ ix[i].k = k
                                       /\ ix[i].off # 0 /\ ix[i].size # "tombstone"}
  BY DEF Puts, Live
<1>2. Dels(ix, k) = {i \in DOMAIN ix : /\ ix[i].k = k
                                       /\ (ix[i].off = 0 \/ ix[i].size = "tombstone")}
  BY DEF Dels, Live
<1> QED BY <1>1, <1>2 DEF doLoading

\* Positions of puts and of deletions.
LEMMA PutsDels ==
    ASSUME NEW ix \in Seq(IndexEntry), NEW k
    PROVE  Puts(ix, k) \in SUBSET (1..Len(ix)) /\ Dels(ix, k) \in SUBSET (1..Len(ix))
BY LenProperties DEF Puts, Dels

\* The entry of key k comes from the put at p, the last one; q is the last deletion.
LoadedFrom(ix, k, p, q) ==
    /\ p \in 0..Len(ix) /\ q \in 0..Len(ix)
    /\ p = Latest(Puts(ix, k)) /\ q = Latest(Dels(ix, k))
    /\ p = 0 => Puts(ix, k) = {} /\ doLoading(ix)[k] = NoEntry
    /\ p # 0 => /\ p \in Puts(ix, k)
                /\ doLoading(ix)[k] = [off |-> ix[p].off,
                                       size |-> IF p < q THEN "tombstone" ELSE ix[p].size]
    /\ \A i \in Puts(ix, k) : i <= p
    /\ \A i \in Dels(ix, k) : i <= q
    /\ q # 0 => q \in Dels(ix, k)

\* The entry of a key, by the last put and the last deletion.
LEMMA LoadedBy ==
    ASSUME NEW ix \in Seq(IndexEntry), NEW k \in Keys
    PROVE  \E p, q : LoadedFrom(ix, k, p, q)
<1>1. Len(ix) \in Nat
  BY LenProperties
<1>2. PICK p : p = Latest(Puts(ix, k))
  OBVIOUS
<1>3. PICK q : q = Latest(Dels(ix, k))
  OBVIOUS
<1>4. /\ p \in 0..Len(ix)
      /\ p = 0 <=> Puts(ix, k) = {}
      /\ Puts(ix, k) # {} => p \in Puts(ix, k) /\ \A y \in Puts(ix, k) : y <= p
  BY <1>1, <1>2, PutsDels, LatestRange
<1>5. /\ q \in 0..Len(ix)
      /\ q = 0 <=> Dels(ix, k) = {}
      /\ Dels(ix, k) # {} => q \in Dels(ix, k) /\ \A y \in Dels(ix, k) : y <= q
  BY <1>1, <1>3, PutsDels, LatestRange
<1>6. doLoading(ix)[k] =
              IF p = 0 THEN NoEntry
              ELSE [off |-> ix[p].off,
                    size |-> IF p < q THEN "tombstone" ELSE ix[p].size]
  BY <1>2, <1>3, LoadedEntry
<1>7. LoadedFrom(ix, k, p, q)
  BY <1>2, <1>3, <1>4, <1>5, <1>6 DEF LoadedFrom
<1> QED BY <1>7

\* A loaded map is a map, and an entry of it that is not dead has an offset.
LEMMA LoadedType ==
    ASSUME NEW ix \in Seq(IndexEntry)
    PROVE  /\ doLoading(ix) \in Maps
           /\ \A k \in Keys : doLoading(ix)[k].size # "tombstone" => doLoading(ix)[k].off # 0
<1>1. \A k \in Keys : /\ doLoading(ix)[k] \in [off : Nat, size : Sizes]
                      /\ doLoading(ix)[k].size # "tombstone" => doLoading(ix)[k].off # 0
  <2> TAKE k \in Keys
  <2>1. PICK p, q : LoadedFrom(ix, k, p, q)
    BY LoadedBy
  <2>2. CASE p = 0
    BY <2>1, <2>2 DEF NoEntry, Sizes, LoadedFrom
  <2>3. CASE p # 0
    <3>1. p \in DOMAIN ix /\ Live(ix[p])
      BY <2>1, <2>3 DEF Puts, LoadedFrom
    <3>2. ix[p] \in IndexEntry
      BY <3>1, LenProperties
    <3>3. ix[p].off \in Nat /\ ix[p].size \in Sizes /\ ix[p].off # 0
      BY <3>1, <3>2 DEF IndexEntry, Live
    <3> QED BY <2>1, <2>3, <3>3 DEF Sizes, LoadedFrom
  <2> QED BY <2>2, <2>3
<1>2. DOMAIN doLoading(ix) = Keys /\ doLoading(ix) = [k \in Keys |-> doLoading(ix)[k]]
  BY DEF doLoading
<1> QED BY <1>1, <1>2 DEF Maps

\* Offsets in a loaded map come from the index file.
LEMMA LoadedBound ==
    ASSUME NEW ix \in Seq(IndexEntry), NEW n \in Nat, \A i \in DOMAIN ix : ix[i].off <= n,
           NEW k \in Keys
    PROVE  doLoading(ix)[k].off <= n
<1>1. PICK p, q : LoadedFrom(ix, k, p, q)
  BY LoadedBy
<1>2. p # 0 => p \in DOMAIN ix
  BY <1>1 DEF Puts, LoadedFrom
<1> QED BY <1>1, <1>2 DEF NoEntry, LoadedFrom

\* The index file jx is ix with more entries at its end.
Extends(ix, jx) ==
    /\ ix \in Seq(IndexEntry) /\ jx \in Seq(IndexEntry) /\ Len(ix) <= Len(jx)
    /\ \A i \in 1..Len(ix) : jx[i] = ix[i]

\* None of the entries that jx has more is about k.
NoneFor(ix, jx, k) == \A i \in Len(ix) + 1 .. Len(jx) : jx[i].k # k

\* The one at m is the only one about k.
OnlyAt(ix, jx, k, m) ==
    /\ m \in Len(ix) + 1 .. Len(jx) /\ jx[m].k = k
    /\ \A i \in Len(ix) + 1 .. Len(jx) : jx[i].k = k => i = m

\* The entry of a key after an entry e about it has been added.
Loaded(old, e) ==
    IF Live(e) THEN [off |-> e.off, size |-> e.size] ELSE [old EXCEPT !.size = "tombstone"]

\* More entries of an index file change nothing of a key they are not about.
LEMMA LoadSame ==
    ASSUME NEW ix, NEW jx, Extends(ix, jx), NEW k \in Keys, NoneFor(ix, jx, k)
    PROVE  doLoading(jx)[k] = doLoading(ix)[k]
<1>1. /\ Len(ix) \in Nat /\ Len(jx) \in Nat /\ Len(ix) <= Len(jx)
      /\ DOMAIN ix = 1..Len(ix) /\ DOMAIN jx = 1..Len(jx)
      /\ ix \in Seq(IndexEntry)
      /\ \A i \in 1..Len(ix) : jx[i] = ix[i]
  BY LenProperties DEF Extends
<1>2. Puts(jx, k) = Puts(ix, k)
  BY <1>1 DEF Puts, NoneFor
<1>3. Dels(jx, k) = Dels(ix, k)
  BY <1>1 DEF Dels, NoneFor
<1>4. PICK p, q : LoadedFrom(ix, k, p, q)
  BY <1>1, LoadedBy
<1>5. doLoading(jx)[k] = IF p = 0 THEN NoEntry
                         ELSE [off |-> jx[p].off,
                               size |-> IF p < q THEN "tombstone" ELSE jx[p].size]
  <2>1. p = Latest(Puts(jx, k)) /\ q = Latest(Dels(jx, k))
    BY <1>2, <1>3, <1>4 DEF LoadedFrom
  <2> QED BY <2>1, LoadedEntry
<1>6. p # 0 => jx[p] = ix[p]
  BY <1>1, <1>4 DEF LoadedFrom
<1> QED BY <1>4, <1>5, <1>6 DEF LoadedFrom

\* One more entry about a key decides.
LEMMA LoadNew ==
    ASSUME NEW ix, NEW jx, Extends(ix, jx), NEW k \in Keys, NEW m, OnlyAt(ix, jx, k, m)
    PROVE  doLoading(jx)[k] = Loaded(doLoading(ix)[k], jx[m])
<1>1. /\ Len(ix) \in Nat /\ Len(jx) \in Nat /\ Len(ix) <= Len(jx)
      /\ DOMAIN ix = 1..Len(ix) /\ DOMAIN jx = 1..Len(jx)
      /\ ix \in Seq(IndexEntry) /\ jx \in Seq(IndexEntry)
      /\ \A i \in 1..Len(ix) : jx[i] = ix[i]
  BY LenProperties DEF Extends
<1>2. /\ Puts(ix, k) \in SUBSET Nat /\ Dels(ix, k) \in SUBSET Nat
      /\ Puts(jx, k) \in SUBSET Nat /\ Dels(jx, k) \in SUBSET Nat
  BY <1>1, PutsDels
<1>3. m \in DOMAIN jx /\ m \notin DOMAIN ix /\ m # 0 /\ m \in Nat /\ jx[m].k = k
  BY <1>1 DEF OnlyAt
<1>4. \A i \in DOMAIN jx : jx[i].k = k => i \in DOMAIN ix \/ i = m
  BY <1>1 DEF OnlyAt
<1>5. \A i \in DOMAIN ix : i \in DOMAIN jx /\ jx[i] = ix[i] /\ i < m
  BY <1>1 DEF OnlyAt
<1>6. PICK p, q : LoadedFrom(ix, k, p, q)
  BY <1>1, LoadedBy
<1>7. CASE Live(jx[m])
  <2>1. Puts(jx, k) = Puts(ix, k) \cup {m}
    BY <1>3, <1>4, <1>5, <1>7 DEF Puts
  <2>2. Dels(jx, k) = Dels(ix, k)
    BY <1>3, <1>4, <1>5, <1>7 DEF Dels
  <2>3. \A i \in Puts(ix, k) : i < m
    BY <1>5 DEF Puts
  <2>4. Latest(Puts(jx, k)) = m
    BY <1>2, <1>3, <2>1, <2>3, LatestIs
  <2>5. q = Latest(Dels(jx, k)) /\ ~(m < q)
    BY <1>1, <1>3, <1>6, <2>2 DEF LoadedFrom
  <2>6. doLoading(jx)[k] = [off |-> jx[m].off, size |-> jx[m].size]
    BY <1>3, <2>4, <2>5, LoadedEntry
  <2> QED BY <1>7, <2>6 DEF Loaded
<1>8. CASE ~Live(jx[m])
  <2>1. Puts(jx, k) = Puts(ix, k)
    BY <1>3, <1>4, <1>5, <1>8 DEF Puts
  <2>2. Dels(jx, k) = Dels(ix, k) \cup {m}
    BY <1>3, <1>4, <1>5, <1>8 DEF Dels
  <2>3. \A i \in Dels(ix, k) : i < m
    BY <1>5 DEF Dels
  <2>4. Latest(Dels(jx, k)) = m
    BY <1>2, <1>3, <2>2, <2>3, LatestIs
  <2>5. doLoading(jx)[k] = IF p = 0 THEN NoEntry
                           ELSE [off |-> jx[p].off,
                                 size |-> IF p < m THEN "tombstone" ELSE jx[p].size]
    <3>1. p = Latest(Puts(jx, k))
      BY <1>6, <2>1 DEF LoadedFrom
    <3> QED BY <2>4, <3>1, LoadedEntry
  <2>6. p # 0 => jx[p] = ix[p] /\ p < m
    BY <1>1, <1>3, <1>6, <1>5 DEF LoadedFrom
  <2>7. CASE p = 0
    <3>1. NoEntry = [NoEntry EXCEPT !.size = "tombstone"]
      BY DEF NoEntry
    <3>2. doLoading(ix)[k] = NoEntry
      BY <1>6, <2>7 DEF LoadedFrom
    <3> QED BY <1>8, <2>5, <2>7, <3>1, <3>2 DEF Loaded
  <2>8. CASE p # 0
    <3>1. doLoading(jx)[k] = [off |-> ix[p].off, size |-> "tombstone"]
      BY <2>5, <2>6, <2>8
    <3>2. doLoading(ix)[k] = [off |-> ix[p].off, size |-> IF p < q THEN "tombstone" ELSE ix[p].size]
      BY <1>6, <2>8 DEF LoadedFrom
    <3>3. [doLoading(ix)[k] EXCEPT !.size = "tombstone"] = [off |-> ix[p].off, size |-> "tombstone"]
      BY <3>2
    <3> QED BY <1>8, <3>1, <3>3 DEF Loaded
  <2> QED BY <2>7, <2>8
<1> QED BY <1>7, <1>8

\* Adding an entry to an index file: it decides for its key, and no other changes.
LEMMA LoadAppend ==
    ASSUME NEW ix \in Seq(IndexEntry), NEW e \in IndexEntry
    PROVE  /\ \A k \in Keys : k # e.k => doLoading(Append(ix, e))[k] = doLoading(ix)[k]
           /\ doLoading(Append(ix, e))[e.k] = Loaded(doLoading(ix)[e.k], e)
<1>1. PICK jx : jx = Append(ix, e)
  OBVIOUS
<1>2. /\ jx \in Seq(IndexEntry) /\ Len(ix) \in Nat /\ Len(jx) = Len(ix) + 1
      /\ \A i \in 1..Len(ix) : jx[i] = ix[i]
      /\ jx[Len(ix) + 1] = e
  BY <1>1, LenProperties
<1>3. e.k \in Keys
  BY DEF IndexEntry
<1>4. Extends(ix, jx)
  BY <1>2 DEF Extends
<1>5. ASSUME NEW k \in Keys, k # e.k
      PROVE  doLoading(jx)[k] = doLoading(ix)[k]
  <2>1. NoneFor(ix, jx, k)
    BY <1>2, <1>5 DEF NoneFor
  <2> QED BY <1>4, <2>1, LoadSame
<1>6. doLoading(jx)[e.k] = Loaded(doLoading(ix)[e.k], e)
  <2>1. PICK m : m = Len(ix) + 1
    OBVIOUS
  <2>2. OnlyAt(ix, jx, e.k, m)
    BY <1>2, <2>1 DEF OnlyAt
  <2>3. doLoading(jx)[e.k] = Loaded(doLoading(ix)[e.k], jx[m])
    BY <1>3, <1>4, <2>2, LoadNew
  <2> QED BY <1>2, <2>1, <2>3
<1> QED BY <1>1, <1>5, <1>6

\* The last entry about a key decides whether its needle is there, and where.
DecidedBy(ix, k, l) ==
    /\ l \in DOMAIN ix /\ ix[l].k = k
    /\ \A i \in DOMAIN ix : ix[i].k = k => i <= l
    /\ Live(ix[l]) => doLoading(ix)[k] = [off |-> ix[l].off, size |-> ix[l].size]
    /\ ~Live(ix[l]) => doLoading(ix)[k].size = "tombstone"

LEMMA LoadedByLast ==
    ASSUME NEW ix \in Seq(IndexEntry), NEW k \in Keys, NEW j \in DOMAIN ix, ix[j].k = k
    PROVE  DecidedBy(ix, k, Latest({i \in DOMAIN ix : ix[i].k = k}))
<1> DEFINE S == {i \in DOMAIN ix : ix[i].k = k}
<1>1. PICK l : l = Latest(S)
  OBVIOUS
<1>2. Len(ix) \in Nat /\ DOMAIN ix = 1..Len(ix)
  BY LenProperties
<1>3. S \in SUBSET (1..Len(ix)) /\ S # {} /\ j \in S
  BY <1>2
<1>4. l \in S /\ \A i \in S : i <= l
  <2> HIDE DEF S
  <2> QED BY <1>1, <1>2, <1>3, LatestExists
<1>5. l \in DOMAIN ix /\ ix[l].k = k /\ l \in 1..Len(ix)
  BY <1>2, <1>3, <1>4
<1>6. Puts(ix, k) \subseteq S /\ Dels(ix, k) \subseteq S
  BY DEF Puts, Dels
<1>7. PICK p, q : LoadedFrom(ix, k, p, q)
  BY LoadedBy
<1>8. ASSUME Live(ix[l])
      PROVE  doLoading(ix)[k] = [off |-> ix[l].off, size |-> ix[l].size]
  <2>1. l \in Puts(ix, k)
    BY <1>5, <1>8 DEF Puts
  <2>2. p # 0 /\ l <= p /\ p \in Puts(ix, k)
    BY <1>7, <2>1, <1>5 DEF LoadedFrom
  <2>3. p <= l
    BY <1>4, <1>6, <2>2
  <2>4. p = l
    BY <1>5, <1>7, <2>2, <2>3 DEF LoadedFrom
  <2>5. q # 0 => q <= l
    BY <1>4, <1>6, <1>7 DEF LoadedFrom
  <2>6. ~(p < q)
    BY <1>5, <1>7, <2>4, <2>5 DEF LoadedFrom
  <2> QED BY <1>7, <2>2, <2>4, <2>6 DEF LoadedFrom
<1>9. ASSUME ~Live(ix[l])
      PROVE  doLoading(ix)[k].size = "tombstone"
  <2>1. l \in Dels(ix, k) /\ l \notin Puts(ix, k)
    BY <1>5, <1>9 DEF Puts, Dels
  <2>2. CASE p = 0
    BY <1>7, <2>2 DEF NoEntry, LoadedFrom
  <2>3. CASE p # 0
    <3>1. p \in Puts(ix, k) /\ p \in 0..Len(ix) /\ q \in 0..Len(ix) /\ l <= q
      BY <1>7, <2>1, <2>3 DEF LoadedFrom
    <3>2. p <= l /\ p # l
      BY <1>4, <1>6, <2>1, <3>1
    <3>3. p < q
      BY <3>1, <3>2, <1>5
    <3> QED BY <1>7, <2>3, <3>3 DEF LoadedFrom
  <2> QED BY <2>2, <2>3
<1>10. \A i \in DOMAIN ix : ix[i].k = k => i <= l
  BY <1>4
<1>11. DecidedBy(ix, k, l)
  BY <1>5, <1>8, <1>9, <1>10 DEF DecidedBy
<1> QED BY <1>1, <1>11

-----------------------------------------------------------------------------
(* The copies of compaction *)

\* s lists the members of S, each of them once.
Lists(s, S) ==
    /\ s \in [1..Cardinality(S) -> S]
    /\ \A i, j \in 1..Cardinality(S) : s[i] = s[j] => i = j
    /\ \A k \in S : \E i \in 1..Cardinality(S) : s[i] = k

\* Ascending goes through a finite set of keys, each of them once.
LEMMA AscendingLists ==
    ASSUME NEW S \in SUBSET Nat, IsFiniteSet(S)
    PROVE  Cardinality(S) \in Nat /\ Lists(Ascending(S), S)
<1> DEFINE Below(k) == {j \in S : j <= k}
           rank == [k \in S |-> Cardinality(Below(k))]
<1>1. PICK n : n = Cardinality(S)
  OBVIOUS
<1>2. n \in Nat
  BY <1>1, FS_CardinalityType
<1>3. ASSUME NEW k \in S
      PROVE  IsFiniteSet(Below(k)) /\ rank[k] = Cardinality(Below(k)) /\ rank[k] \in 1..n
  <2>1. Below(k) \in SUBSET S /\ k \in Below(k)
    OBVIOUS
  <2>2. IsFiniteSet(Below(k)) /\ Cardinality(Below(k)) <= n
    <3> HIDE DEF Below
    <3> QED BY <1>1, <2>1, FS_Subset
  <2>3. Cardinality(Below(k)) \in Nat /\ Cardinality(Below(k)) # 0
    <3> HIDE DEF Below
    <3>1. Below(k) # {}
      BY <2>1
    <3> QED BY <2>2, <3>1, FS_CardinalityType, FS_EmptySet
  <2>4. rank[k] = Cardinality(Below(k))
    OBVIOUS
  <2> HIDE DEF Below, rank
  <2> QED BY <1>2, <2>2, <2>3, <2>4
<1>4. ASSUME NEW k \in S, NEW l \in S, k < l
      PROVE  rank[k] # rank[l]
  <2>0. k \in Nat /\ l \in Nat /\ \A j \in S : j \in Nat
    OBVIOUS
  <2>3. \A j \in Below(k) : j \in Below(l)
    BY <1>4, <2>0
  <2>1. Below(k) \in SUBSET Below(l) /\ l \in Below(l) /\ l \notin Below(k)
    <3>1. l \in Below(l) /\ l \notin Below(k)
      BY <1>4, <2>0
    <3> HIDE DEF Below
    <3> QED BY <2>3, <3>1
  <2>2. Cardinality(Below(l)) # Cardinality(Below(k))
    <3> HIDE DEF Below
    <3> QED BY <1>3, <2>1, FS_Subset
  <2> HIDE DEF Below, rank
  <2> QED BY <1>3, <2>2
<1>5. rank \in [S -> 1..n]
  <2>1. rank = [k \in S |-> rank[k]]
    OBVIOUS
  <2> HIDE DEF Below, rank
  <2> QED BY <1>3, <2>1
<1>6. \A k, l \in S : rank[k] = rank[l] => k = l
  <2> SUFFICES ASSUME NEW k \in S, NEW l \in S, k # l
               PROVE  rank[k] # rank[l]
    OBVIOUS
  <2>1. k < l \/ l < k
    OBVIOUS
  <2> HIDE DEF Below, rank
  <2> QED BY <1>4, <2>1
<1>7. \A i \in 1..n : \E k \in S : rank[k] = i
  <2>1. rank \in Injection(S, 1..n)
    <3> HIDE DEF Below, rank
    <3> QED BY <1>5, <1>6 DEF Injection, IsInjective
  <2>2. IsFiniteSet(1..n) /\ Cardinality(1..n) = n
    BY <1>2, FS_Interval
  <2>3. rank \in Surjection(S, 1..n)
    <3> HIDE DEF Below, rank
    <3> QED BY <1>1, <2>1, <2>2, FS_Injection
  <2> HIDE DEF Below, rank
  <2> QED BY <2>3 DEF Surjection
<1>8. PICK s : s = Ascending(S)
  OBVIOUS
<1>9. s = [i \in 1..n |-> CHOOSE k \in S : Cardinality(Below(k)) = i]
  BY <1>1, <1>8 DEF Ascending
<1>10. \A i \in 1..n : s[i] \in S /\ rank[s[i]] = i
  <2> TAKE i \in 1..n
  <2>1. PICK k \in S : Cardinality(Below(k)) = i
    BY <1>3, <1>7
  <2>2. s[i] = CHOOSE kk \in S : Cardinality(Below(kk)) = i
    BY <1>9
  <2>3. s[i] \in S /\ Cardinality(Below(s[i])) = i
    <3> HIDE DEF Below, rank
    <3> QED BY <2>1, <2>2
  <2> HIDE DEF Below, rank
  <2> QED BY <1>3, <2>3
<1> HIDE DEF Below, rank
<1>11. s \in [1..n -> S]
  <2>1. s = [i \in 1..n |-> s[i]]
    BY <1>9
  <2> QED BY <1>10, <2>1
<1>12. \A i, j \in 1..n : s[i] = s[j] => i = j
  BY <1>10
<1>13. \A k \in S : \E i \in 1..n : s[i] = k
  <2> TAKE k \in S
  <2>1. rank[k] \in 1..n
    BY <1>3
  <2>2. s[rank[k]] \in S /\ rank[s[rank[k]]] = rank[k]
    BY <1>10, <2>1
  <2>3. s[rank[k]] = k
    BY <1>6, <2>2
  <2> QED BY <2>1, <2>3
<1> QED BY <1>1, <1>2, <1>8, <1>11, <1>12, <1>13 DEF Lists

\* A set of keys is listed in ascending order.
LEMMA AscendingKeys ==
    ASSUME NEW S \in SUBSET Keys
    PROVE  Cardinality(S) \in Nat /\ IsFiniteSet(S) /\ Lists(Ascending(S), S)
<1>1. S \in SUBSET Nat /\ IsFiniteSet(S)
  BY VacuumAssumption, FS_Subset
<1> QED BY <1>1, AscendingLists

\* CopiedNeedles for the needles recs.
NeedlesOf(recs, map) ==
    LET keys == Ascending(LiveKeys(map))
    IN  [i \in DOMAIN keys |-> recs[map[keys[i]].off]]

\* The copied needles are as many as there are live keys, and they are needles.
LEMMA NeedlesType ==
    ASSUME NEW recs \in Seq(Needle), NEW map \in Maps,
           \A k \in LiveKeys(map) : map[k].off \in DOMAIN recs
    PROVE  /\ Cardinality(LiveKeys(map)) \in Nat
           /\ Lists(Ascending(LiveKeys(map)), LiveKeys(map))
           /\ NeedlesOf(recs, map) \in Seq(Needle)
           /\ Len(NeedlesOf(recs, map)) = Cardinality(LiveKeys(map))
           /\ \A i \in 1..Cardinality(LiveKeys(map)) :
                NeedlesOf(recs, map)[i] = recs[map[Ascending(LiveKeys(map))[i]].off]
<1>1. LiveKeys(map) \in SUBSET Keys
  BY DEF LiveKeys
<1>2. PICK n, s : n = Cardinality(LiveKeys(map)) /\ s = Ascending(LiveKeys(map))
  OBVIOUS
<1>3. n \in Nat /\ Lists(s, LiveKeys(map))
  BY <1>1, <1>2, AscendingKeys
<1>4. s \in [1..n -> LiveKeys(map)]
  BY <1>2, <1>3 DEF Lists
<1>5. PICK f : f = NeedlesOf(recs, map)
  OBVIOUS
<1>6. f = [i \in 1..n |-> recs[map[s[i]].off]]
  BY <1>2, <1>4, <1>5 DEF NeedlesOf
<1>7. \A i \in 1..n : recs[map[s[i]].off] \in Needle
  <2> TAKE i \in 1..n
  <2>1. map[s[i]].off \in DOMAIN recs
    BY <1>4
  <2> QED BY <2>1, LenProperties
<1>8. f \in [1..n -> Needle]
  BY <1>6, <1>7
<1>9. f \in Seq(Needle) /\ Len(f) = n
  BY <1>3, <1>8
<1>10. \A i \in 1..n : f[i] = recs[map[s[i]].off]
  BY <1>6
<1> QED BY <1>2, <1>3, <1>5, <1>9, <1>10

\* The index of the copies is an index file.
LEMMA CopiedIndexType ==
    ASSUME NEW recs \in Seq(Needle)
    PROVE  CopiedIndex(recs) \in Seq(IndexEntry)
<1> DEFINE S == {recs[i].k : i \in DOMAIN recs}
           At(k) == Latest({i \in DOMAIN recs : recs[i].k = k})
<1>1. Len(recs) \in Nat /\ DOMAIN recs = 1..Len(recs) /\ \A i \in DOMAIN recs : recs[i] \in Needle
  BY LenProperties
<1>2. S \in SUBSET Keys
  BY <1>1 DEF Needle
<1>3. PICK n, s : n = Cardinality(S) /\ s = Ascending(S)
  OBVIOUS
<1>4. n \in Nat /\ s \in [1..n -> S]
  <2> HIDE DEF S
  <2> QED BY <1>2, <1>3, AscendingKeys DEF Lists
<1>5. \A k \in S : At(k) \in DOMAIN recs
  <2> TAKE k \in S
  <2>1. {i \in DOMAIN recs : recs[i].k = k} # {}
    OBVIOUS
  <2>2. {i \in DOMAIN recs : recs[i].k = k} \in SUBSET (1..Len(recs))
    BY <1>1
  <2>3. At(k) \in {i \in DOMAIN recs : recs[i].k = k}
    BY <1>1, <2>1, <2>2, LatestExists
  <2> QED BY <2>3
<1>6. PICK f : f = CopiedIndex(recs)
  OBVIOUS
<1>7. f = [i \in 1..n |-> [k |-> s[i], off |-> At(s[i]), size |-> SizeOf(recs[At(s[i])].v)]]
  BY <1>3, <1>4, <1>6 DEF CopiedIndex
<1>8. ASSUME NEW i \in 1..n
      PROVE  [k |-> s[i], off |-> At(s[i]), size |-> SizeOf(recs[At(s[i])].v)] \in IndexEntry
  <2>1. s[i] \in S /\ s[i] \in Keys
    BY <1>2, <1>4
  <2>2. At(s[i]) \in Nat
    <3> HIDE DEF At, S
    <3> QED BY <1>1, <1>5, <2>1
  <2>3. SizeOf(recs[At(s[i])].v) \in Sizes
    BY DEF SizeOf, Sizes
  <2> HIDE DEF At
  <2> QED BY <2>1, <2>2, <2>3 DEF IndexEntry
<1>9. f \in [1..n -> IndexEntry]
  <2> HIDE DEF At
  <2> QED BY <1>7, <1>8
<1>10. f \in Seq(IndexEntry)
  BY <1>4, <1>9
<1> QED BY <1>6, <1>10

\* The needle of key s[i] is at position i, for the keys s in order.
LEMMA CopiedIndexIs ==
    ASSUME NEW recs \in Seq(Needle), NEW S \in SUBSET Keys, Len(recs) = Cardinality(S),
           \A i \in 1..Cardinality(S) : recs[i].k = Ascending(S)[i]
    PROVE  CopiedIndex(recs) = [i \in 1..Cardinality(S) |->
              [k |-> Ascending(S)[i], off |-> i, size |-> SizeOf(recs[i].v)]]
<1>1. PICK n, s : n = Cardinality(S) /\ s = Ascending(S)
  OBVIOUS
<1>2. n \in Nat /\ Lists(s, S)
  BY <1>1, AscendingKeys
<1>3. /\ s \in [1..n -> S]
      /\ \A i, j \in 1..n : s[i] = s[j] => i = j
      /\ \A k \in S : \E i \in 1..n : s[i] = k
  BY <1>1, <1>2 DEF Lists
<1>4. DOMAIN recs = 1..n /\ \A i \in 1..n : recs[i].k = s[i]
  BY <1>1, LenProperties
<1>5. {recs[i].k : i \in DOMAIN recs} = S
  <2>1. \A i \in DOMAIN recs : recs[i].k \in S
    BY <1>3, <1>4
  <2>2. \A k \in S : \E i \in DOMAIN recs : recs[i].k = k
    BY <1>3, <1>4
  <2> QED BY <2>1, <2>2
<1>6. \A i \in 1..n : Latest({j \in DOMAIN recs : recs[j].k = s[i]}) = i
  <2> TAKE i \in 1..n
  <2>1. {j \in DOMAIN recs : recs[j].k = s[i]} = {i}
    BY <1>3, <1>4
  <2>2. Latest({i}) = i
    BY LatestIs
  <2> QED BY <2>1, <2>2
<1>7. CopiedIndex(recs) =
          [i \in 1..n |-> [k |-> s[i], off |-> Latest({j \in DOMAIN recs : recs[j].k = s[i]}),
                           size |-> SizeOf(recs[Latest({j \in DOMAIN recs : recs[j].k = s[i]})].v)]]
  <2>1. DOMAIN s = 1..n
    BY <1>3
  <2> QED BY <1>1, <1>5, <2>1 DEF CopiedIndex
<1> QED BY <1>1, <1>6, <1>7

\* Loading the index of copies: the entry of a key says where its needle is.
LEMMA LoadCopied ==
    ASSUME NEW ix \in Seq(IndexEntry), NEW S \in SUBSET Keys, NEW s, Lists(s, S),
           Len(ix) = Cardinality(S),
           \A i \in 1..Len(ix) : ix[i].k = s[i] /\ ix[i].off = i /\ ix[i].size # "tombstone"
    PROVE  /\ \A i \in 1..Len(ix) : doLoading(ix)[s[i]] = [off |-> i, size |-> ix[i].size]
           /\ \A k \in Keys \ S : doLoading(ix)[k] = NoEntry
<1>1. /\ Len(ix) \in Nat /\ DOMAIN ix = 1..Len(ix)
      /\ \A i \in 1..Len(ix) : Live(ix[i])
  BY LenProperties DEF Live
<1>2. /\ s \in [1..Len(ix) -> S]
      /\ \A i, j \in 1..Len(ix) : s[i] = s[j] => i = j
      /\ \A k \in S : \E i \in 1..Len(ix) : s[i] = k
  BY DEF Lists
<1>3. \A k \in Keys : Dels(ix, k) = {} /\ Latest(Dels(ix, k)) = 0
  <2> TAKE k \in Keys
  <2>1. Dels(ix, k) = {}
    BY <1>1 DEF Dels
  <2> QED BY <2>1 DEF Latest
<1>4. ASSUME NEW i \in 1..Len(ix)
      PROVE  doLoading(ix)[s[i]] = [off |-> i, size |-> ix[i].size]
  <2>1. Puts(ix, s[i]) = {i}
    BY <1>1, <1>2 DEF Puts
  <2>2. Latest(Puts(ix, s[i])) = i
    BY <2>1, LatestIs
  <2>3. s[i] \in Keys
    BY <1>2
  <2>4. i # 0 /\ ~(i < 0)
    OBVIOUS
  <2>5. doLoading(ix)[s[i]] = [off |-> ix[i].off, size |-> ix[i].size]
    BY <1>3, <2>2, <2>3, <2>4, LoadedEntry
  <2> QED BY <2>5
<1>5. ASSUME NEW k \in Keys \ S
      PROVE  doLoading(ix)[k] = NoEntry
  <2>1. Puts(ix, k) = {}
    BY <1>1, <1>2 DEF Puts
  <2>2. Latest(Puts(ix, k)) = 0
    BY <2>1 DEF Latest
  <2> QED BY <2>2, LoadedEntry
<1> QED BY <1>4, <1>5

-----------------------------------------------------------------------------
(* What the files give *)

\* Through the index file ix the needles recs give v for key k, and v is the needle
\* of k: not only what readNeedle shows of it.
Holds(recs, ix, k, v) ==
    LET e == doLoading(ix)[k] IN
    IF e.size = "tombstone" THEN v = Missing
    ELSE /\ e.off \in DOMAIN recs
         /\ recs[e.off] = [k |-> k, v |-> v] /\ e.size = SizeOf(v)

\* Every needle an index entry names is in the file, and not before the entry's own
\* position: no entry was written without a needle.
Placed(recs, ix) ==
    /\ Len(ix) <= Len(recs)
    /\ \A i \in DOMAIN ix : ix[i].off <= Len(recs) /\ (ix[i].off = 0 \/ i <= ix[i].off)

\* The files recs and ix give every key what a says.
Good(recs, ix, a) == Placed(recs, ix) /\ \A k \in Keys : Holds(recs, ix, k, a[k])

\* What Holds says is what a reader gets.
LEMMA HoldsReads ==
    ASSUME NEW recs, NEW ix \in Seq(IndexEntry), NEW k \in Keys,
           NEW v \in Content \cup {Missing}, Holds(recs, ix, k, v)
    PROVE  readNeedle(recs, doLoading(ix), k) = v
<1>1. PICK e : e = doLoading(ix)[k]
  OBVIOUS
<1>2. e.size \in Sizes /\ (e.size # "tombstone" => e.off # 0)
  BY <1>1, LoadedType DEF Maps
<1>3. CASE e.size = "tombstone"
  BY <1>1, <1>3 DEF Holds, readNeedle
<1>4. CASE e.size # "tombstone"
  <2>1. e.off \in DOMAIN recs /\ recs[e.off] = [k |-> k, v |-> v] /\ e.size = SizeOf(v)
    BY <1>1, <1>4 DEF Holds
  <2>2. Readable(recs, e) /\ recs[e.off].k = k /\ recs[e.off].v = v
    BY <2>1 DEF Readable
  <2>3. CASE e.size = "zero"
    <3>1. v = Empty
      BY <2>1, <2>3 DEF SizeOf
    <3> QED BY <1>1, <1>2, <1>4, <2>3, <3>1 DEF readNeedle
  <2>4. CASE e.size # "zero"
    BY <1>1, <1>2, <1>4, <2>2, <2>4 DEF readNeedle
  <2> QED BY <2>3, <2>4
<1> QED BY <1>3, <1>4

\* The entries of an index file.
LEMMA EntriesType ==
    ASSUME NEW ix \in Seq(IndexEntry)
    PROVE  /\ Len(ix) \in Nat /\ DOMAIN ix = 1..Len(ix)
           /\ \A i \in DOMAIN ix : /\ ix[i] \in IndexEntry /\ ix[i].k \in Keys
                                   /\ ix[i].off \in Nat /\ ix[i].size \in Sizes
<1>1. /\ Len(ix) \in Nat /\ DOMAIN ix = 1..Len(ix)
      /\ \A i \in DOMAIN ix : ix[i] \in IndexEntry
  BY LenProperties
<1>2. \A e \in IndexEntry : e.k \in Keys /\ e.off \in Nat /\ e.size \in Sizes
  BY DEF IndexEntry
<1> QED BY <1>1, <1>2

\* A file of needles grows at its end.
LEMMA AppendNeedle ==
    ASSUME NEW recs \in Seq(Needle), NEW r \in Needle
    PROVE  /\ Append(recs, r) \in Seq(Needle)
           /\ Len(recs) \in Nat /\ Len(Append(recs, r)) = Len(recs) + 1
           /\ DOMAIN recs = 1..Len(recs) /\ DOMAIN Append(recs, r) = 1..Len(recs) + 1
           /\ \A i \in DOMAIN recs : Append(recs, r)[i] = recs[i]
           /\ Append(recs, r)[Len(recs) + 1] = r
BY LenProperties

\* A needle that no index entry names changes nothing.
LEMMA GoodOrphan ==
    ASSUME NEW recs \in Seq(Needle), NEW r \in Needle, NEW ix \in Seq(IndexEntry),
           NEW a, Good(recs, ix, a)
    PROVE  Good(Append(recs, r), ix, a)
<1>1. PICK c : c = Append(recs, r)
  OBVIOUS
<1>2. /\ Len(recs) \in Nat /\ Len(c) = Len(recs) + 1
      /\ \A i \in DOMAIN recs : i \in DOMAIN c /\ c[i] = recs[i]
  BY <1>1, AppendNeedle
<1>3. Placed(c, ix)
  <2>1. /\ Len(ix) <= Len(recs)
        /\ \A i \in DOMAIN ix : ix[i].off <= Len(recs) /\ (ix[i].off = 0 \/ i <= ix[i].off)
    BY DEF Good, Placed
  <2>2. \A x \in Nat : x <= Len(recs) => x <= Len(c)
    BY <1>2
  <2>3. Len(ix) \in Nat /\ \A i \in DOMAIN ix : ix[i].off \in Nat
    BY EntriesType
  <2> QED BY <2>1, <2>2, <2>3 DEF Placed
<1>4. \A k \in Keys : Holds(c, ix, k, a[k])
  BY <1>2 DEF Good, Holds
<1>5. Good(c, ix, a)
  BY <1>3, <1>4 DEF Good
<1> QED BY <1>1, <1>5

\* A needle and an index entry for it are added, for key e.k.
LEMMA PlacedAppend ==
    ASSUME NEW recs \in Seq(Needle), NEW r \in Needle, NEW ix \in Seq(IndexEntry),
           NEW e \in IndexEntry, e.off = Len(recs) + 1, Placed(recs, ix)
    PROVE  Placed(Append(recs, r), Append(ix, e))
<1>1. PICK c, cx : c = Append(recs, r) /\ cx = Append(ix, e)
  OBVIOUS
<1>2. Len(recs) \in Nat /\ Len(c) = Len(recs) + 1
  BY <1>1, AppendNeedle
<1>3. /\ Len(ix) \in Nat /\ Len(cx) = Len(ix) + 1 /\ DOMAIN cx = 1..Len(ix) + 1
      /\ DOMAIN ix = 1..Len(ix)
      /\ \A i \in 1..Len(ix) : cx[i] = ix[i]
      /\ cx[Len(ix) + 1] = e
  BY <1>1, LenProperties
<1>4. /\ Len(ix) <= Len(recs)
      /\ \A i \in 1..Len(ix) : ix[i].off <= Len(recs) /\ (ix[i].off = 0 \/ i <= ix[i].off)
  BY <1>3 DEF Placed
<1>5. \A i \in 1..Len(ix) : ix[i].off \in Nat
  BY <1>3, EntriesType
<1>6. ASSUME NEW i \in DOMAIN cx
      PROVE  cx[i].off <= Len(c) /\ (cx[i].off = 0 \/ i <= cx[i].off)
  <2>1. CASE i \in 1..Len(ix)
    BY <1>2, <1>3, <1>4, <1>5, <2>1
  <2>2. CASE i = Len(ix) + 1
    BY <1>2, <1>3, <1>4, <2>2
  <2> QED BY <1>3, <2>1, <2>2
<1>7. Placed(c, cx)
  BY <1>2, <1>3, <1>4, <1>6 DEF Placed
<1> QED BY <1>1, <1>7

\* The keys that the new entry is not about keep their needles.
LEMMA HoldsAppend ==
    ASSUME NEW recs \in Seq(Needle), NEW r \in Needle, NEW ix \in Seq(IndexEntry),
           NEW e \in IndexEntry, NEW k \in Keys, k # e.k, NEW v, Holds(recs, ix, k, v)
    PROVE  Holds(Append(recs, r), Append(ix, e), k, v)
<1>1. PICK c, cx : c = Append(recs, r) /\ cx = Append(ix, e)
  OBVIOUS
<1>2. \A i \in DOMAIN recs : i \in DOMAIN c /\ c[i] = recs[i]
  BY <1>1, AppendNeedle
<1>3. doLoading(cx)[k] = doLoading(ix)[k]
  BY <1>1, LoadAppend
<1>4. Holds(c, cx, k, v)
  BY <1>2, <1>3 DEF Holds
<1> QED BY <1>1, <1>4

\* A write: the needle goes to the end of .dat and its entry to the end of .idx.
LEMMA GoodPut ==
    ASSUME NEW recs \in Seq(Needle), NEW ix \in Seq(IndexEntry),
           NEW a \in [Keys -> Content \cup {Missing}], Good(recs, ix, a),
           NEW k \in Keys, NEW v \in Content
    PROVE  Good(Append(recs, [k |-> k, v |-> v]),
                Append(ix, [k |-> k, off |-> Len(recs) + 1, size |-> SizeOf(v)]),
                [a EXCEPT ![k] = v])
<1>1. PICK r, e, b : /\ r = [k |-> k, v |-> v]
                     /\ e = [k |-> k, off |-> Len(recs) + 1, size |-> SizeOf(v)]
                     /\ b = [a EXCEPT ![k] = v]
  OBVIOUS
<1>2. r \in Needle /\ Len(recs) \in Nat
  BY <1>1, LenProperties DEF Needle
<1>3. e \in IndexEntry /\ e.off = Len(recs) + 1 /\ e.k = k /\ e.size = SizeOf(v)
      /\ e.off # 0 /\ e.size # "tombstone"
  BY <1>1, <1>2 DEF IndexEntry, SizeOf, Sizes
<1>4. PICK c, cx : c = Append(recs, r) /\ cx = Append(ix, e)
  OBVIOUS
<1>5. Placed(c, cx)
  BY <1>2, <1>3, <1>4, PlacedAppend DEF Good
<1>6. ASSUME NEW j \in Keys
      PROVE  Holds(c, cx, j, b[j])
  <2>1. CASE j # k
    <3>1. b[j] = a[j] /\ Holds(recs, ix, j, a[j])
      BY <1>1, <2>1 DEF Good
    <3> QED BY <1>2, <1>3, <1>4, <2>1, <3>1, HoldsAppend
  <2>2. CASE j = k
    <3>1. b[j] = v
      BY <1>1, <2>2
    <3>2. doLoading(cx)[k] = [off |-> e.off, size |-> e.size]
      <4>1. doLoading(cx)[e.k] = Loaded(doLoading(ix)[e.k], e)
        BY <1>3, <1>4, LoadAppend
      <4> QED BY <1>3, <4>1 DEF Loaded, Live
    <3>3. Len(recs) + 1 \in DOMAIN c /\ c[Len(recs) + 1] = r
      BY <1>2, <1>4, AppendNeedle
    <3> QED BY <1>1, <1>3, <2>2, <3>1, <3>2, <3>3 DEF Holds
  <2> QED BY <2>1, <2>2
<1>7. Good(c, cx, b)
  BY <1>5, <1>6 DEF Good
<1> QED BY <1>1, <1>4, <1>7

\* A deletion: an empty needle goes to .dat and a tombstone to .idx.
LEMMA GoodDelete ==
    ASSUME NEW recs \in Seq(Needle), NEW ix \in Seq(IndexEntry),
           NEW a \in [Keys -> Content \cup {Missing}], Good(recs, ix, a),
           NEW k \in Keys
    PROVE  Good(Append(recs, [k |-> k, v |-> Empty]),
                Append(ix, [k |-> k, off |-> Len(recs) + 1, size |-> "tombstone"]),
                [a EXCEPT ![k] = Missing])
<1>1. PICK r, e, b : /\ r = [k |-> k, v |-> Empty]
                     /\ e = [k |-> k, off |-> Len(recs) + 1, size |-> "tombstone"]
                     /\ b = [a EXCEPT ![k] = Missing]
  OBVIOUS
<1>2. r \in Needle /\ Len(recs) \in Nat
  BY <1>1, LenProperties DEF Needle, Content
<1>3. e \in IndexEntry /\ e.off = Len(recs) + 1 /\ e.k = k /\ e.size = "tombstone"
  BY <1>1, <1>2 DEF IndexEntry, Sizes
<1>4. PICK c, cx : c = Append(recs, r) /\ cx = Append(ix, e)
  OBVIOUS
<1>5. Placed(c, cx)
  BY <1>2, <1>3, <1>4, PlacedAppend DEF Good
<1>6. ASSUME NEW j \in Keys
      PROVE  Holds(c, cx, j, b[j])
  <2>1. CASE j # k
    <3>1. b[j] = a[j] /\ Holds(recs, ix, j, a[j])
      BY <1>1, <2>1 DEF Good
    <3> QED BY <1>2, <1>3, <1>4, <2>1, <3>1, HoldsAppend
  <2>2. CASE j = k
    <3>1. b[j] = Missing
      BY <1>1, <2>2
    <3>2. doLoading(cx)[k].size = "tombstone"
      <4>1. doLoading(cx)[e.k] = Loaded(doLoading(ix)[e.k], e)
        BY <1>3, <1>4, LoadAppend
      <4>2. doLoading(ix)[k] \in [off : Nat, size : Sizes]
        BY LoadedType DEF Maps
      <4> QED BY <1>3, <4>1, <4>2 DEF Loaded, Live
    <3> QED BY <2>2, <3>1, <3>2 DEF Holds
  <2> QED BY <2>1, <2>2
<1>7. Good(c, cx, b)
  BY <1>5, <1>6 DEF Good
<1> QED BY <1>1, <1>4, <1>7

\* The copies of compaction hold what the files hold, and are not longer.
LEMMA GoodCopies ==
    ASSUME NEW recs \in Seq(Needle), NEW ix \in Seq(IndexEntry), NEW a, Good(recs, ix, a),
           NEW c, c = NeedlesOf(recs, doLoading(ix))
    PROVE  /\ Good(c, CopiedIndex(c), a)
           /\ Len(c) <= Len(recs)
           /\ Len(c) = Cardinality(LiveKeys(doLoading(ix)))
           /\ \A i \in DOMAIN c : c[i].k \in LiveKeys(doLoading(ix))
<1>1. PICK map, S, s, n : /\ map = doLoading(ix) /\ S = LiveKeys(map)
                          /\ s = Ascending(S) /\ n = Cardinality(S)
  OBVIOUS
<1>2. map \in Maps /\ \A k \in Keys : map[k].size # "tombstone" => map[k].off # 0
  BY <1>1, LoadedType
<1>3. S \in SUBSET Keys /\ \A k \in Keys : k \in S <=> map[k].size # "tombstone"
  BY <1>1, <1>2 DEF LiveKeys
<1>4. \A k \in S : /\ map[k].off \in DOMAIN recs
                   /\ recs[map[k].off] = [k |-> k, v |-> a[k]] /\ map[k].size = SizeOf(a[k])
  BY <1>1, <1>3 DEF Good, Holds
<1>5. /\ n \in Nat /\ Lists(s, S) /\ c \in Seq(Needle) /\ Len(c) = n
      /\ \A i \in 1..n : c[i] = recs[map[s[i]].off]
  BY <1>1, <1>2, <1>4, NeedlesType
<1>6. /\ s \in [1..n -> S]
      /\ \A i, j \in 1..n : s[i] = s[j] => i = j
      /\ \A k \in S : \E i \in 1..n : s[i] = k
  <2>1. n = Cardinality(S)
    BY <1>1
  <2> QED BY <1>5, <2>1 DEF Lists
<1>7. \A i \in 1..n : /\ c[i] = [k |-> s[i], v |-> a[s[i]]]
                      /\ s[i] \in S /\ map[s[i]].size = SizeOf(a[s[i]])
  <2> TAKE i \in 1..n
  <2>1. s[i] \in S
    BY <1>6
  <2>2. recs[map[s[i]].off] = [k |-> s[i], v |-> a[s[i]]] /\ map[s[i]].size = SizeOf(a[s[i]])
    BY <1>4, <2>1
  <2> QED BY <1>5, <2>1, <2>2
<1>8. PICK cx : cx = CopiedIndex(c)
  OBVIOUS
<1>9. cx = [i \in 1..n |-> [k |-> s[i], off |-> i, size |-> SizeOf(c[i].v)]]
  <2>1. ASSUME NEW i \in 1..n
        PROVE  c[i].k = s[i]
    <3>1. c[i] = [k |-> s[i], v |-> a[s[i]]]
      BY <1>7
    <3> QED BY <3>1
  <2>2. n = Cardinality(S) /\ s = Ascending(S)
    BY <1>1
  <2>3. Len(c) = Cardinality(S) /\ \A i \in 1..Cardinality(S) : c[i].k = Ascending(S)[i]
    BY <1>5, <2>1, <2>2
  <2>4. CopiedIndex(c) = [i \in 1..Cardinality(S) |->
                            [k |-> Ascending(S)[i], off |-> i, size |-> SizeOf(c[i].v)]]
    BY <1>3, <1>5, <2>3, CopiedIndexIs
  <2> QED BY <1>8, <2>2, <2>4
<1>10. cx \in Seq(IndexEntry)
  BY <1>5, <1>8, CopiedIndexType
<1>11. DOMAIN cx = 1..n /\ Len(cx) = n
  BY <1>5, <1>9, <1>10, LenProperties
<1>12. \A i \in 1..n : cx[i].k = s[i] /\ cx[i].off = i /\ cx[i].size = SizeOf(a[s[i]])
  <2> TAKE i \in 1..n
  <2>1. c[i].v = a[s[i]]
    <3>1. c[i] = [k |-> s[i], v |-> a[s[i]]]
      BY <1>7
    <3> QED BY <3>1
  <2>2. cx[i] = [k |-> s[i], off |-> i, size |-> SizeOf(c[i].v)]
    BY <1>9
  <2> QED BY <2>1, <2>2
<1>13. Placed(c, cx)
  BY <1>5, <1>11, <1>12 DEF Placed
<1>14. /\ \A i \in 1..n : doLoading(cx)[s[i]] = [off |-> i, size |-> SizeOf(a[s[i]])]
       /\ \A k \in Keys \ S : doLoading(cx)[k] = NoEntry
  <2>1. \A i \in 1..Len(cx) : cx[i].k = s[i] /\ cx[i].off = i /\ cx[i].size # "tombstone"
    BY <1>11, <1>12 DEF SizeOf
  <2>2. Len(cx) = Cardinality(S)
    BY <1>1, <1>11
  <2>3. /\ \A i \in 1..Len(cx) : doLoading(cx)[s[i]] = [off |-> i, size |-> cx[i].size]
        /\ \A k \in Keys \ S : doLoading(cx)[k] = NoEntry
    BY <1>3, <1>5, <1>10, <2>1, <2>2, LoadCopied
  <2> QED BY <1>11, <1>12, <2>3
<1>15. ASSUME NEW k \in Keys
       PROVE  Holds(c, cx, k, a[k])
  <2>1. CASE k \in S
    <3>1. PICK i \in 1..n : s[i] = k
      BY <1>6, <2>1
    <3>2. doLoading(cx)[k] = [off |-> i, size |-> SizeOf(a[k])]
      BY <1>14, <3>1
    <3>3. i \in DOMAIN c /\ c[i] = [k |-> k, v |-> a[k]]
      BY <1>5, <1>7, <3>1, LenProperties
    <3>4. SizeOf(a[k]) # "tombstone"
      BY DEF SizeOf
    <3> QED BY <3>2, <3>3, <3>4 DEF Holds
  <2>2. CASE k \notin S
    <3>1. doLoading(cx)[k].size = "tombstone"
      BY <1>14, <2>2 DEF NoEntry
    <3>2. a[k] = Missing
      BY <1>1, <1>3, <2>2 DEF Good, Holds
    <3> QED BY <3>1, <3>2 DEF Holds
  <2> QED BY <2>1, <2>2
<1>16. Good(c, cx, a)
  BY <1>13, <1>15 DEF Good
<1>17. n <= Len(recs)
  <2>1. PICK f : f = [k \in S |-> map[k].off]
    OBVIOUS
  <2>2. Len(recs) \in Nat /\ DOMAIN recs = 1..Len(recs)
    BY LenProperties
  <2>3. \A k \in S : f[k] \in 1..Len(recs) /\ recs[f[k]].k = k
    <3> TAKE k \in S
    <3>1. map[k].off \in DOMAIN recs /\ recs[map[k].off] = [k |-> k, v |-> a[k]]
      BY <1>4
    <3>2. f[k] = map[k].off
      BY <2>1
    <3> QED BY <2>2, <3>1, <3>2
  <2>4. f \in [S -> 1..Len(recs)]
    BY <2>1, <2>3
  <2>5. f \in Injection(S, 1..Len(recs))
    BY <2>3, <2>4 DEF Injection, IsInjective
  <2>6. IsFiniteSet(1..Len(recs)) /\ Cardinality(1..Len(recs)) = Len(recs)
    <3>1. PICK l \in Nat : l = Len(recs)
      BY <2>2
    <3>2. IsFiniteSet(1..l) /\ Cardinality(1..l) = l
      BY FS_Interval
    <3> QED BY <3>1, <3>2
  <2>7. Cardinality(S) <= Cardinality(1..Len(recs))
    BY <2>5, <2>6, FS_Injection
  <2> QED BY <1>1, <2>6, <2>7
<1>18. \A i \in DOMAIN c : c[i].k \in S
  BY <1>5, <1>7, LenProperties
<1> QED BY <1>1, <1>5, <1>8, <1>16, <1>17, <1>18

-----------------------------------------------------------------------------
(* Bringing the copies up to date *)

\* IsUpdate of an entry, and what makeupDiff appends to .cpd with n needles and to
\* .cpx, for the last entries E of the keys in order.
Upd(e) == e.off # 0 /\ e.size = "data"

DiffNeedles(recs, E, order) ==
    [i \in DOMAIN order |-> IF Upd(E[order[i]]) THEN recs[E[order[i]].off]
                                                ELSE [k |-> order[i], v |-> Empty]]

DiffEntries(n, E, order) ==
    [i \in DOMAIN order |-> [k |-> order[i], size |-> E[order[i]].size,
                             off |-> IF Upd(E[order[i]]) THEN n + i ELSE 0]]

\* The needles that changed are in .dat.
Found(recs, ch, E) == \A k \in ch : Upd(E[k]) => E[k].off \in DOMAIN recs

\* The changes E of the keys ch, gone through in order, when .cpd has n needles.
Diff(recs, n, ch, E, order) ==
    /\ recs \in Seq(Needle) /\ n \in Nat /\ ch \in SUBSET Keys /\ E \in [ch -> IndexEntry]
    /\ Found(recs, ch, E) /\ Lists(order, ch)

DiffShape(recs, n, ch, E, order) ==
    /\ Cardinality(ch) \in Nat /\ DOMAIN order = 1..Cardinality(ch)
    /\ DiffNeedles(recs, E, order) \in Seq(Needle)
    /\ Len(DiffNeedles(recs, E, order)) = Cardinality(ch)
    /\ DiffEntries(n, E, order) \in Seq(IndexEntry)
    /\ Len(DiffEntries(n, E, order)) = Cardinality(ch)

\* What is appended are needles and index entries, one of each for every key.
LEMMA DiffType ==
    ASSUME NEW recs, NEW n, NEW ch, NEW E, NEW order, Diff(recs, n, ch, E, order)
    PROVE  DiffShape(recs, n, ch, E, order)
<1>0. recs \in Seq(Needle) /\ n \in Nat /\ ch \in SUBSET Keys /\ E \in [ch -> IndexEntry]
  BY DEF Diff
<1>1. PICK m : m = Cardinality(ch)
  OBVIOUS
<1>2. m \in Nat /\ order \in [1..m -> ch]
  BY <1>0, <1>1, AscendingKeys DEF Lists, Diff
<1>3. PICK dn, dx : dn = DiffNeedles(recs, E, order) /\ dx = DiffEntries(n, E, order)
  OBVIOUS
<1>4. DOMAIN order = 1..m
  BY <1>2
<1>5. ASSUME NEW i \in 1..m
      PROVE  (IF Upd(E[order[i]]) THEN recs[E[order[i]].off] ELSE [k |-> order[i], v |-> Empty]) \in Needle
  <2>1. order[i] \in ch /\ order[i] \in Keys
    BY <1>0, <1>2
  <2>2. Upd(E[order[i]]) => recs[E[order[i]].off] \in Needle
    BY <1>0, <2>1, LenProperties DEF Found, Diff
  <2>3. [k |-> order[i], v |-> Empty] \in Needle
    BY <2>1 DEF Needle, Content
  <2> QED BY <2>2, <2>3
<1>6. dn = [i \in 1..m |-> IF Upd(E[order[i]]) THEN recs[E[order[i]].off]
                                               ELSE [k |-> order[i], v |-> Empty]]
  BY <1>3, <1>4 DEF DiffNeedles
<1>7. dn \in Seq(Needle) /\ Len(dn) = m
  <2>1. dn \in [1..m -> Needle]
    BY <1>5, <1>6
  <2> QED BY <1>2, <2>1
<1>8. ASSUME NEW i \in 1..m
      PROVE  [k |-> order[i], size |-> E[order[i]].size,
              off |-> IF Upd(E[order[i]]) THEN n + i ELSE 0] \in IndexEntry
  <2>1. order[i] \in ch /\ order[i] \in Keys
    BY <1>0, <1>2
  <2>2. E[order[i]] \in IndexEntry
    BY <1>0, <2>1
  <2>3. E[order[i]].size \in Sizes
    BY <2>2 DEF IndexEntry
  <2>4. (IF Upd(E[order[i]]) THEN n + i ELSE 0) \in Nat
    BY <1>0
  <2> QED BY <2>1, <2>3, <2>4 DEF IndexEntry
<1>9. dx = [i \in 1..m |-> [k |-> order[i], size |-> E[order[i]].size,
                            off |-> IF Upd(E[order[i]]) THEN n + i ELSE 0]]
  BY <1>3, <1>4 DEF DiffEntries
<1>10. dx \in Seq(IndexEntry) /\ Len(dx) = m
  <2>1. dx \in [1..m -> IndexEntry]
    BY <1>8, <1>9
  <2> QED BY <1>2, <2>1
<1> QED BY <1>1, <1>2, <1>3, <1>4, <1>7, <1>10 DEF DiffShape

\* The temporary map after makeupDiff, for the map t before it.
DiffEntry(t, n, ch, E, order, k) ==
    IF k \notin ch THEN t[k]
    ELSE IF Upd(E[k]) THEN [off |-> n + CHOOSE i \in DOMAIN order : order[i] = k, size |-> "data"]
    ELSE [t[k] EXCEPT !.size = "tombstone"]

\* Loading .cpx after makeupDiff gives the temporary map that makeupDiff leaves.
LEMMA DiffLoads ==
    ASSUME NEW recs, NEW n, NEW ch, NEW E, NEW order, Diff(recs, n, ch, E, order),
           NEW cx \in Seq(IndexEntry), NEW k \in Keys
    PROVE  doLoading(cx \o DiffEntries(n, E, order))[k] =
              DiffEntry(doLoading(cx), n, ch, E, order, k)
<1>1. PICK m, dx, jx : /\ m = Cardinality(ch) /\ dx = DiffEntries(n, E, order)
                       /\ jx = cx \o dx
  OBVIOUS
<1>2. m \in Nat /\ DOMAIN order = 1..m /\ dx \in Seq(IndexEntry) /\ Len(dx) = m
  <2>1. DiffShape(recs, n, ch, E, order)
    BY DiffType
  <2> QED BY <1>1, <2>1 DEF DiffShape
<1>3. /\ order \in [1..m -> ch]
      /\ \A i, j \in 1..m : order[i] = order[j] => i = j
      /\ \A x \in ch : \E i \in 1..m : order[i] = x
  BY <1>1 DEF Lists, Diff
<1>4. \A i \in 1..m : dx[i] = [k |-> order[i], size |-> E[order[i]].size,
                               off |-> IF Upd(E[order[i]]) THEN n + i ELSE 0]
  BY <1>1, <1>2 DEF DiffEntries
<1>5. /\ jx \in Seq(IndexEntry) /\ Len(cx) \in Nat /\ Len(jx) = Len(cx) + m
      /\ \A i \in 1..Len(cx) + m : jx[i] = IF i <= Len(cx) THEN cx[i] ELSE dx[i - Len(cx)]
  BY <1>1, <1>2, ConcatProperties, LenProperties
<1>6. Extends(cx, jx)
  BY <1>2, <1>5 DEF Extends
<1>7. \A i \in Len(cx) + 1 .. Len(jx) : i - Len(cx) \in 1..m /\ jx[i] = dx[i - Len(cx)]
  BY <1>2, <1>5
<1>8. CASE k \notin ch
  <2>1. NoneFor(cx, jx, k)
    <3> SUFFICES ASSUME NEW i \in Len(cx) + 1 .. Len(jx) PROVE jx[i].k # k
      BY DEF NoneFor
    <3>1. i - Len(cx) \in 1..m /\ jx[i] = dx[i - Len(cx)]
      BY <1>7
    <3>2. jx[i].k = order[i - Len(cx)]
      <4>1. PICK j \in 1..m : j = i - Len(cx)
        BY <3>1
      <4>2. dx[j] = [k |-> order[j], size |-> E[order[j]].size,
                     off |-> IF Upd(E[order[j]]) THEN n + j ELSE 0]
        BY <1>4
      <4>3. dx[j].k = order[j]
        BY <4>2
      <4> QED BY <3>1, <4>1, <4>3
    <3>3. order[i - Len(cx)] \in ch
      BY <1>3, <3>1
    <3> QED BY <1>8, <3>2, <3>3
  <2>2. doLoading(jx)[k] = doLoading(cx)[k]
    BY <1>6, <2>1, LoadSame
  <2> QED BY <1>1, <1>8, <2>2 DEF DiffEntry
<1>9. CASE k \in ch
  <2>1. PICK j \in 1..m : order[j] = k
    BY <1>3, <1>9
  <2>2. (CHOOSE i \in DOMAIN order : order[i] = k) = j
    BY <1>2, <1>3, <2>1
  <2>3. PICK l : l = Len(cx) + j
    OBVIOUS
  <2>4. l \in Len(cx) + 1 .. Len(jx) /\ l - Len(cx) = j
    BY <1>2, <1>5, <2>3
  <2>5. jx[l] = dx[j]
    BY <1>7, <2>4
  <2>6. jx[l] = [k |-> k, size |-> E[k].size, off |-> IF Upd(E[k]) THEN n + j ELSE 0]
    BY <1>4, <2>1, <2>5
  <2>7. OnlyAt(cx, jx, k, l)
    <3>1. jx[l].k = k
      BY <2>6
    <3>2. ASSUME NEW i \in Len(cx) + 1 .. Len(jx), jx[i].k = k
          PROVE  i = l
      <4>1. i - Len(cx) \in 1..m /\ jx[i] = dx[i - Len(cx)]
        BY <1>7
      <4>2. order[i - Len(cx)] = k
        <5>1. PICK x \in 1..m : x = i - Len(cx)
          BY <4>1
        <5>2. dx[x] = [k |-> order[x], size |-> E[order[x]].size,
                       off |-> IF Upd(E[order[x]]) THEN n + x ELSE 0]
          BY <1>4
        <5>3. dx[x].k = order[x]
          BY <5>2
        <5> QED BY <3>2, <4>1, <5>1, <5>3
      <4>3. i - Len(cx) = j
        BY <1>3, <2>1, <4>1, <4>2
      <4> QED BY <1>5, <2>3, <4>3
    <3> QED BY <2>4, <3>1, <3>2 DEF OnlyAt
  <2>8. doLoading(jx)[k] = Loaded(doLoading(cx)[k], jx[l])
    BY <1>6, <2>7, LoadNew
  <2>9. CASE Upd(E[k])
    <3>1. jx[l].off = n + j /\ jx[l].size = "data" /\ n + j # 0
      <4>1. n \in Nat
        BY DEF Diff
      <4> QED BY <2>6, <2>9, <4>1 DEF Upd
    <3>2. doLoading(jx)[k] = [off |-> n + j, size |-> "data"]
      BY <2>8, <3>1 DEF Loaded, Live
    <3> QED BY <1>1, <1>9, <2>2, <2>9, <3>2 DEF DiffEntry
  <2>10. CASE ~Upd(E[k])
    <3>1. jx[l].off = 0
      BY <2>6, <2>10
    <3>2. doLoading(jx)[k] = [doLoading(cx)[k] EXCEPT !.size = "tombstone"]
      BY <2>8, <3>1 DEF Loaded, Live
    <3> QED BY <1>1, <1>9, <2>10, <3>2 DEF DiffEntry
  <2> QED BY <2>9, <2>10
<1> QED BY <1>8, <1>9

\* The last entries E of the keys ch decide about them in ix.
Decide(ix, ch, E) ==
    \A k \in ch : /\ Live(E[k]) => doLoading(ix)[k] = [off |-> E[k].off, size |-> E[k].size]
                  /\ ~Live(E[k]) => doLoading(ix)[k].size = "tombstone"

\* After makeupDiff the copies hold what the files hold, when they did for the keys
\* that have not changed and no write of an empty file was taken for a deletion.
LEMMA GoodDiff ==
    ASSUME NEW recs \in Seq(Needle), NEW ix \in Seq(IndexEntry), NEW a, Good(recs, ix, a),
           NEW c \in Seq(Needle), NEW cx \in Seq(IndexEntry), Placed(c, cx),
           NEW ch \in SUBSET Keys, NEW E \in [ch -> IndexEntry],
           Decide(ix, ch, E), \A k \in ch : E[k].size # "zero",
           \A k \in Keys \ ch : Holds(c, cx, k, a[k]),
           NEW order, Lists(order, ch)
    PROVE  Good(c \o DiffNeedles(recs, E, order), cx \o DiffEntries(Len(c), E, order), a)
<1>1. PICK m, n : m = Cardinality(ch) /\ n = Len(c)
  OBVIOUS
<1>2. n \in Nat /\ DOMAIN c = 1..n /\ Len(cx) \in Nat /\ DOMAIN cx = 1..Len(cx)
  BY <1>1, LenProperties
<1>3. PICK dn, dx, d, jx : /\ dn = DiffNeedles(recs, E, order) /\ dx = DiffEntries(n, E, order)
                           /\ d = c \o dn /\ jx = cx \o dx
  OBVIOUS
<1>4. ASSUME NEW k \in ch
      PROVE  /\ k \in Keys /\ E[k].off \in Nat /\ E[k].size \in Sizes
             /\ Live(E[k]) <=> Upd(E[k])
             /\ Upd(E[k]) => E[k].off \in DOMAIN recs /\ recs[E[k].off] = [k |-> k, v |-> a[k]]
                             /\ SizeOf(a[k]) = "data"
             /\ ~Upd(E[k]) => a[k] = Missing
  <2>1. E[k] \in IndexEntry /\ k \in Keys /\ E[k].size # "zero"
    OBVIOUS
  <2>2. E[k].off \in Nat /\ E[k].size \in Sizes
    BY <2>1 DEF IndexEntry
  <2>3. Live(E[k]) <=> Upd(E[k])
    BY <2>1, <2>2 DEF Live, Upd, Sizes
  <2>4. Holds(recs, ix, k, a[k])
    BY <2>1 DEF Good
  <2>5. ASSUME Upd(E[k])
        PROVE  E[k].off \in DOMAIN recs /\ recs[E[k].off] = [k |-> k, v |-> a[k]]
               /\ SizeOf(a[k]) = "data"
    <3>1. doLoading(ix)[k] = [off |-> E[k].off, size |-> E[k].size]
      BY <2>3, <2>5 DEF Decide
    <3>2. E[k].size = "data"
      BY <2>5 DEF Upd
    <3> QED BY <2>4, <3>1, <3>2 DEF Holds
  <2>6. ASSUME ~Upd(E[k])
        PROVE  a[k] = Missing
    <3>1. doLoading(ix)[k].size = "tombstone"
      BY <2>3, <2>6 DEF Decide
    <3> QED BY <2>4, <3>1 DEF Holds
  <2> QED BY <2>1, <2>2, <2>3, <2>5, <2>6
<1>5. /\ m \in Nat /\ DOMAIN order = 1..m /\ dn \in Seq(Needle) /\ Len(dn) = m
      /\ dx \in Seq(IndexEntry) /\ Len(dx) = m
  <2>1. Found(recs, ch, E)
    BY <1>4 DEF Found
  <2>2. Diff(recs, n, ch, E, order)
    BY <1>2, <2>1 DEF Diff
  <2>3. DiffShape(recs, n, ch, E, order)
    BY <2>2, DiffType
  <2> QED BY <1>1, <1>3, <2>3 DEF DiffShape
<1>6. /\ order \in [1..m -> ch]
      /\ \A i, j \in 1..m : order[i] = order[j] => i = j
      /\ \A x \in ch : \E i \in 1..m : order[i] = x
  BY <1>1 DEF Lists
<1>7. /\ d \in Seq(Needle) /\ Len(d) = n + m /\ DOMAIN d = 1..n + m
      /\ \A i \in 1..n + m : d[i] = IF i <= n THEN c[i] ELSE dn[i - n]
  <2>1. c \o dn \in Seq(Needle) /\ Len(c \o dn) = Len(c) + Len(dn)
        /\ \A i \in 1..Len(c) + Len(dn) : (c \o dn)[i] = IF i <= Len(c) THEN c[i] ELSE dn[i - Len(c)]
    BY <1>5, ConcatProperties
  <2>2. d \in Seq(Needle) /\ Len(d) = n + m
    BY <1>1, <1>3, <1>5, <2>1
  <2> QED BY <1>1, <1>3, <1>5, <2>1, <2>2, LenProperties
<1>8. /\ jx \in Seq(IndexEntry) /\ Len(jx) = Len(cx) + m /\ DOMAIN jx = 1..Len(cx) + m
      /\ \A i \in 1..Len(cx) + m : jx[i] = IF i <= Len(cx) THEN cx[i] ELSE dx[i - Len(cx)]
  <2>1. cx \o dx \in Seq(IndexEntry) /\ Len(cx \o dx) = Len(cx) + Len(dx)
        /\ \A i \in 1..Len(cx) + Len(dx) : (cx \o dx)[i] = IF i <= Len(cx) THEN cx[i] ELSE dx[i - Len(cx)]
    BY <1>5, ConcatProperties
  <2>2. jx \in Seq(IndexEntry) /\ Len(jx) = Len(cx) + m
    BY <1>3, <1>5, <2>1
  <2> QED BY <1>3, <1>5, <2>1, <2>2, LenProperties
<1>9. /\ Len(cx) <= n
      /\ \A i \in 1..Len(cx) : /\ cx[i].off \in Nat /\ cx[i].off <= n
                               /\ cx[i].off = 0 \/ i <= cx[i].off
  BY <1>1, <1>2, EntriesType DEF Placed
<1>10. \A i \in 1..m : dx[i].off = 0 \/ dx[i].off = n + i
  <2> TAKE i \in 1..m
  <2>1. dx[i] = [k |-> order[i], size |-> E[order[i]].size,
                 off |-> IF Upd(E[order[i]]) THEN n + i ELSE 0]
    BY <1>3, <1>5 DEF DiffEntries
  <2> QED BY <2>1
<1>11. Placed(d, jx)
  <2>1. ASSUME NEW i \in 1..Len(cx) + m
        PROVE  jx[i].off <= n + m /\ (jx[i].off = 0 \/ i <= jx[i].off)
    <3>1. CASE i <= Len(cx)
      <4>1. i \in 1..Len(cx) /\ jx[i] = cx[i]
        BY <1>2, <1>5, <1>8, <3>1
      <4> QED BY <1>2, <1>5, <1>9, <4>1
    <3>2. CASE ~(i <= Len(cx))
      <4>1. PICK j : j = i - Len(cx)
        OBVIOUS
      <4>2. j \in 1..m /\ jx[i] = dx[j] /\ i = Len(cx) + j
        BY <1>2, <1>5, <1>8, <3>2, <4>1
      <4>3. dx[j].off = 0 \/ dx[j].off = n + j
        BY <1>10, <4>2
      <4> QED BY <1>2, <1>5, <1>9, <4>2, <4>3
    <3> QED BY <3>1, <3>2
  <2> QED BY <1>2, <1>5, <1>7, <1>8, <1>9, <2>1 DEF Placed
<1>12. ASSUME NEW k \in Keys
       PROVE  Holds(d, jx, k, a[k])
  <2>1. doLoading(jx)[k] = DiffEntry(doLoading(cx), n, ch, E, order, k)
    <3>1. Found(recs, ch, E)
      BY <1>4 DEF Found
    <3>2. Diff(recs, n, ch, E, order)
      BY <1>2, <3>1 DEF Diff
    <3> QED BY <1>3, <3>2, DiffLoads
  <2>2. CASE k \notin ch
    <3>1. doLoading(jx)[k] = doLoading(cx)[k]
      BY <2>1, <2>2 DEF DiffEntry
    <3>2. Holds(c, cx, k, a[k])
      BY <2>2
    <3>3. \A i \in DOMAIN c : i \in DOMAIN d /\ d[i] = c[i]
      BY <1>2, <1>5, <1>7
    <3> QED BY <3>1, <3>2, <3>3 DEF Holds
  <2>3. CASE k \in ch /\ Upd(E[k])
    <3>1. PICK j \in 1..m : order[j] = k
      BY <1>6, <2>3
    <3>2. (CHOOSE i \in DOMAIN order : order[i] = k) = j
      BY <1>5, <1>6, <3>1
    <3>3. doLoading(jx)[k] = [off |-> n + j, size |-> "data"]
      BY <2>1, <2>3, <3>2 DEF DiffEntry
    <3>4. dn[j] = recs[E[k].off]
      BY <1>3, <1>5, <2>3, <3>1 DEF DiffNeedles
    <3>5. n + j \in DOMAIN d /\ d[n + j] = dn[j]
      <4>1. n + j \in 1..n + m /\ ~(n + j <= n) /\ (n + j) - n = j
        BY <1>2, <1>5
      <4> QED BY <1>7, <4>1
    <3>6. d[n + j] = [k |-> k, v |-> a[k]] /\ SizeOf(a[k]) = "data"
      BY <1>4, <2>3, <3>4, <3>5
    <3> QED BY <3>3, <3>5, <3>6 DEF Holds
  <2>4. CASE k \in ch /\ ~Upd(E[k])
    <3>1. doLoading(jx)[k] = [doLoading(cx)[k] EXCEPT !.size = "tombstone"]
      BY <2>1, <2>4 DEF DiffEntry
    <3>2. doLoading(cx)[k] \in [off : Nat, size : Sizes]
      BY LoadedType DEF Maps
    <3>3. doLoading(jx)[k].size = "tombstone"
      BY <3>1, <3>2
    <3>4. a[k] = Missing
      BY <1>4, <2>4
    <3> QED BY <3>3, <3>4 DEF Holds
  <2> QED BY <2>2, <2>3, <2>4
<1>13. Good(d, jx, a)
  BY <1>11, <1>12 DEF Good
<1> QED BY <1>1, <1>3, <1>13

\* An order in which makeupDiff may go through the changed keys lists them.
LEMMA OrderLists ==
    ASSUME NEW ch \in SUBSET Keys, NEW order \in [1..Cardinality(ch) -> ch],
           \A i, j \in DOMAIN order : order[i] = order[j] => i = j
    PROVE  Lists(order, ch)
<1>1. PICK m : m = Cardinality(ch)
  OBVIOUS
<1>2. m \in Nat /\ IsFiniteSet(ch)
  BY <1>1, AscendingKeys
<1>3. order \in [1..m -> ch] /\ DOMAIN order = 1..m
  BY <1>1
<1>4. order \in Injection(1..m, ch)
  BY <1>3 DEF Injection, IsInjective
<1>5. IsFiniteSet(1..m) /\ Cardinality(1..m) = m
  BY <1>2, FS_Interval
<1>6. order \in Surjection(1..m, ch)
  BY <1>1, <1>2, <1>4, <1>5, FS_Injection
<1>7. \A k \in ch : \E i \in 1..m : order[i] = k
  BY <1>6 DEF Surjection
<1> QED BY <1>1, <1>3, <1>7 DEF Lists

-----------------------------------------------------------------------------
(* The inductive invariant: types *)

FileTypes ==
    /\ dat \in [rev : Nat, recs : Seq(Needle)] /\ idx \in Seq(IndexEntry)
    /\ cpd \in Files /\ (cpx = NoFile \/ cpx \in Seq(IndexEntry))

\* The compactions that may be in progress; the index is there when it is to be saved.
Compactions ==
    [pc : {"idle", "copy"}, by : Drivers \cup {NoDriver}]
        \cup [pc : {"index"}, by : Drivers \cup {NoDriver}, ix : Seq(IndexEntry)]

MapTypes ==
    /\ state \in {"up", "down", "closed", "diffed", "half"} /\ readonly \in BOOLEAN
    /\ nm \in Maps \cup {NoMap} /\ tmpNm \in Maps \cup {NoMap}
    /\ state = "up" <=> nm # NoMap
    /\ lastCompact \in [off : Nat, rev : Nat]
    /\ compaction \in Compactions

DriverTypes ==
    /\ committer \in Drivers \cup {NoDriver}
    /\ state \in {"diffed", "half"} <=> committer # NoDriver
    /\ driver \in [Drivers -> {"idle", "compacting", "commit", "committing", "cleanup"}]
    /\ acked \in [Keys -> Content \cup {Missing}]

TypeInv == FileTypes /\ MapTypes /\ DriverTypes

\* The absence of a file, of a map and of a content.
LEMMA Absent ==
    /\ NoFile \notin [rev : Nat, recs : Seq(Needle)] /\ NoFile \notin Seq(IndexEntry)
    /\ NoMap \notin Maps
    /\ Missing \notin Content /\ Broken \notin Content
    /\ NoDriver \notin Drivers
<1>1. [k : Keys, v : Data \cup {Empty}] = Needle /\ Data \cup {Empty} = Content
  BY DEF Needle, Content
<1>2. [k : Keys, off : Nat, size : {"data", "zero", "tombstone"}] = IndexEntry
  BY DEF IndexEntry, Sizes
<1>3. [off : Nat, size : {"data", "zero", "tombstone"}] = [off : Nat, size : Sizes]
  BY DEF Sizes
<1>4. NoFile \notin [rev : Nat, recs : Seq(Needle)] /\ NoFile \notin Seq(IndexEntry)
  BY <1>1, <1>2, AbsenceAssumption
<1>5. NoMap \notin Maps
  BY <1>3, AbsenceAssumption DEF Maps
<1>6. Missing \notin Content /\ Broken \notin Content
  BY <1>1, AbsenceAssumption DEF Missing, Broken
<1> QED BY <1>4, <1>5, <1>6, VacuumAssumption DEF Drivers

\* The parts of the type invariant say what TypeOK says.
LEMMA TypeInvOK == TypeInv => TypeOK
<1> SUFFICES ASSUME TypeInv PROVE TypeOK
  OBVIOUS
<1>1. compaction.pc \in {"idle", "copy", "index"}
  BY DEF TypeInv, MapTypes, Compactions
<1> QED BY <1>1 DEF TypeInv, FileTypes, MapTypes, DriverTypes, TypeOK

\* The volume starts empty.
LEMMA TypeInit == Init => TypeInv
<1> SUFFICES ASSUME Init PROVE TypeInv
  OBVIOUS
<1>1. FileTypes
  BY EmptySeq DEF Init, FileTypes, Files
<1>2. [k \in Keys |-> NoEntry] \in Maps
  BY DEF Maps, NoEntry, Sizes
<1>3. nm # NoMap
  BY <1>2, Absent DEF Init
<1>4. MapTypes
  BY <1>2, <1>3 DEF Init, MapTypes, Compactions
<1>5. DriverTypes
  BY DEF Init, DriverTypes
<1> QED BY <1>1, <1>4, <1>5 DEF TypeInv

\* nm.Put keeps the map a map and the index file an index file.
LEMMA PutType ==
    ASSUME TypeInv, Served, NEW k \in Keys, NEW v \in Content, Put(k, v)
    PROVE  idx' \in Seq(IndexEntry) /\ nm' \in Maps
<1>1. /\ nm \in Maps /\ Len(dat.recs) \in Nat /\ idx \in Seq(IndexEntry)
  BY LenProperties DEF TypeInv, MapTypes, FileTypes, Served
<1>2. SizeOf(v) \in Sizes
  BY DEF SizeOf, Sizes
<1>3. CASE nm[k].off < Len(dat.recs) + 1
  <2>1. /\ nm' = [nm EXCEPT ![k] = [off |-> Len(dat.recs) + 1, size |-> SizeOf(v)]]
        /\ idx' = Append(idx, [k |-> k, off |-> Len(dat.recs) + 1, size |-> SizeOf(v)])
    BY <1>3 DEF Put
  <2>2. [k |-> k, off |-> Len(dat.recs) + 1, size |-> SizeOf(v)] \in IndexEntry
    BY <1>1, <1>2 DEF IndexEntry
  <2>3. [off |-> Len(dat.recs) + 1, size |-> SizeOf(v)] \in [off : Nat, size : Sizes]
    BY <1>1, <1>2
  <2>4. nm' \in Maps
    BY <1>1, <2>1, <2>3 DEF Maps
  <2> QED BY <1>1, <2>1, <2>2, <2>4
<1>4. CASE ~(nm[k].off < Len(dat.recs) + 1)
  BY <1>1, <1>4 DEF Put
<1> QED BY <1>3, <1>4

\* A needle at the end of .dat.
LEMMA DatGrows ==
    ASSUME TypeInv, NEW k \in Keys, NEW v \in Content,
           dat' = [dat EXCEPT !.recs = Append1(@, k, v)]
    PROVE  /\ dat' \in [rev : Nat, recs : Seq(Needle)]
           /\ dat'.rev = dat.rev /\ dat'.recs = Append(dat.recs, [k |-> k, v |-> v])
           /\ [k |-> k, v |-> v] \in Needle
<1>1. [k |-> k, v |-> v] \in Needle
  BY DEF Needle
<1>2. dat \in [rev : Nat, recs : Seq(Needle)]
  BY DEF TypeInv, FileTypes
<1>3. Append(dat.recs, [k |-> k, v |-> v]) \in Seq(Needle)
  BY <1>1, <1>2
<1> QED BY <1>1, <1>2, <1>3 DEF Append1

\* copyDataBasedOnIndexFile writes needles to .cpd, and their index is one.
LEMMA CopyType ==
    ASSUME TypeInv, CopyNeedles
    PROVE  /\ CopiedNeedles(doLoading(idx)) = NeedlesOf(dat.recs, doLoading(idx))
           /\ NeedlesOf(dat.recs, doLoading(idx)) \in Seq(Needle)
           /\ cpd' \in Files
           /\ cpd # NoFile => cpd' # NoFile /\ cpd'.recs = NeedlesOf(dat.recs, doLoading(idx))
           /\ compaction' \in Compactions
           /\ compaction'.pc = "index"
           /\ compaction'.ix = CopiedIndex(NeedlesOf(dat.recs, doLoading(idx)))
<1>1. PICK map, c : map = doLoading(idx) /\ c = NeedlesOf(dat.recs, map)
  OBVIOUS
<1>2. map \in Maps /\ dat.recs \in Seq(Needle)
  BY <1>1, LoadedType DEF TypeInv, FileTypes
<1>3. \A k \in LiveKeys(map) : map[k].off \in DOMAIN dat.recs
  BY <1>1 DEF CopyNeedles, Readable
<1>4. c \in Seq(Needle)
  BY <1>1, <1>2, <1>3, NeedlesType
<1>5. CopiedIndex(c) \in Seq(IndexEntry)
  BY <1>4, CopiedIndexType
<1>6. CopiedNeedles(map) = c
  BY <1>1 DEF CopiedNeedles, NeedlesOf
<1>7. /\ compaction' = [pc |-> "index", by |-> compaction.by, ix |-> CopiedIndex(c)]
      /\ cpd' = IF cpd = NoFile THEN NoFile ELSE [cpd EXCEPT !.recs = c]
  BY <1>1, <1>6 DEF CopyNeedles
<1>8. compaction.by \in Drivers \cup {NoDriver}
  BY DEF TypeInv, MapTypes, Compactions
<1>9. compaction' \in Compactions /\ compaction'.pc = "index" /\ compaction'.ix = CopiedIndex(c)
  BY <1>5, <1>7, <1>8 DEF Compactions
<1>10. cpd # NoFile => /\ cpd' \in [rev : Nat, recs : Seq(Needle)]
                       /\ cpd'.recs = c
  BY <1>4, <1>7 DEF TypeInv, FileTypes, Files
<1>11. cpd' \in Files /\ (cpd # NoFile => cpd' # NoFile /\ cpd'.recs = c)
  BY <1>7, <1>10, Absent DEF Files
<1> QED BY <1>1, <1>4, <1>6, <1>9, <1>11

\* What makeupDiff does, in terms of the last entries E of the changed keys.
DiffDone(order, E) ==
    /\ cpd \in [rev : Nat, recs : Seq(Needle)] /\ cpx \in Seq(IndexEntry) /\ tmpNm \in Maps
    /\ Changed \in SUBSET Keys
    /\ E \in [Changed -> IndexEntry] /\ \A k \in Changed : E[k] = LastEntry(k)
    /\ Diff(dat.recs, Len(cpd.recs), Changed, E, order)
    /\ Decide(idx, Changed, E)
    /\ cpd' = [cpd EXCEPT !.recs = cpd.recs \o DiffNeedles(dat.recs, E, order)]
    /\ cpx' = cpx \o DiffEntries(Len(cpd.recs), E, order)
    /\ tmpNm' = [k \in Keys |-> DiffEntry(tmpNm, Len(cpd.recs), Changed, E, order, k)]

\* The last entry of a changed key is an entry about it, and decides.
LEMMA LastEntryIs ==
    ASSUME TypeInv
    PROVE  /\ Changed \in SUBSET Keys
           /\ \A k \in Changed : /\ LastEntry(k) \in IndexEntry
                                 /\ Live(LastEntry(k)) =>
                                       doLoading(idx)[k] = [off |-> LastEntry(k).off,
                                                            size |-> LastEntry(k).size]
                                 /\ ~Live(LastEntry(k)) => doLoading(idx)[k].size = "tombstone"
<1>1. PICK ix : ix = idx
  OBVIOUS
<1>2. ix \in Seq(IndexEntry)
  BY <1>1 DEF TypeInv, FileTypes
<1>3. \A i \in DOMAIN ix : ix[i] \in IndexEntry /\ ix[i].k \in Keys
  BY <1>2, EntriesType
<1>4. Changed \in SUBSET Keys
  BY <1>1, <1>3 DEF Changed
<1>5. ASSUME NEW k \in Changed
      PROVE  /\ LastEntry(k) \in IndexEntry
             /\ Live(LastEntry(k)) => doLoading(ix)[k] = [off |-> LastEntry(k).off,
                                                          size |-> LastEntry(k).size]
             /\ ~Live(LastEntry(k)) => doLoading(ix)[k].size = "tombstone"
  <2>1. PICK j \in DOMAIN ix : ix[j].k = k
    BY <1>1 DEF Changed
  <2>2. PICK l : l = Latest({i \in DOMAIN ix : ix[i].k = k})
    OBVIOUS
  <2>3. DecidedBy(ix, k, l)
    BY <1>2, <1>4, <2>1, <2>2, LoadedByLast
  <2>4. LastEntry(k) = ix[l]
    BY <1>1, <2>2 DEF LastEntry
  <2> QED BY <1>3, <2>3, <2>4 DEF DecidedBy
<1> QED BY <1>1, <1>4, <1>5

\* CommitDiff appends the changes, as DiffDone says.
LEMMA DiffStep ==
    ASSUME TypeInv, NEW d \in Drivers, NEW order \in Orders, CommitDiff(d, order)
    PROVE  DiffDone(order, [k \in Changed |-> LastEntry(k)])
<1>1. PICK E : E = [k \in Changed |-> LastEntry(k)]
  OBVIOUS
<1>2. PICK ch, n : ch = Changed /\ n = Len(cpd.recs)
  OBVIOUS
<1>3. ch \in SUBSET Keys /\ E \in [ch -> IndexEntry] /\ \A k \in ch : E[k] = LastEntry(k)
  BY <1>1, <1>2, LastEntryIs
<1>4. Decide(idx, ch, E)
  BY <1>2, <1>3, LastEntryIs DEF Decide
<1>5. cpd # NoFile /\ cpx # NoFile /\ tmpNm # NoMap /\ ~DiffRefuses /\ ~DiffIsEmpty
  BY DEF CommitDiff, DiffRefuses
<1>6. /\ cpd \in [rev : Nat, recs : Seq(Needle)] /\ cpx \in Seq(IndexEntry) /\ tmpNm \in Maps
      /\ dat.recs \in Seq(Needle)
  BY <1>5 DEF TypeInv, FileTypes, MapTypes, Files
<1>7. n \in Nat
  BY <1>2, <1>6, LenProperties
<1>8. \A k \in ch : IsUpdate(k) <=> Upd(E[k])
  BY <1>3 DEF IsUpdate, Upd
<1>9. Found(dat.recs, ch, E)
  BY <1>2, <1>3, <1>5, <1>8 DEF Found, DiffRefuses
<1>10. Lists(order, ch)
  <2>1. /\ order \in [1..Cardinality(ch) -> ch]
        /\ \A i, j \in DOMAIN order : order[i] = order[j] => i = j
    BY <1>2 DEF Orders
  <2> QED BY <1>3, <2>1, OrderLists
<1>11. Diff(dat.recs, n, ch, E, order)
  BY <1>3, <1>6, <1>7, <1>9, <1>10 DEF Diff
<1>12. \A i \in DOMAIN order : order[i] \in ch
  BY <1>2 DEF Orders
<1>13. DiffNeedles(dat.recs, E, order) =
         [i \in DOMAIN order |-> IF IsUpdate(order[i]) THEN dat.recs[LastEntry(order[i]).off]
                                                       ELSE [k |-> order[i], v |-> Empty]]
  BY <1>3, <1>8, <1>12 DEF DiffNeedles
<1>14. DiffEntries(n, E, order) =
         [i \in DOMAIN order |-> [k |-> order[i], size |-> LastEntry(order[i]).size,
                                  off |-> IF IsUpdate(order[i]) THEN Len(cpd.recs) + i ELSE 0]]
  BY <1>2, <1>3, <1>8, <1>12 DEF DiffEntries
<1>15. cpd' = [cpd EXCEPT !.recs = cpd.recs \o DiffNeedles(dat.recs, E, order)]
  BY <1>13 DEF CommitDiff
<1>16. cpx' = cpx \o DiffEntries(n, E, order)
  BY <1>14 DEF CommitDiff
<1>17. tmpNm' = [k \in Keys |-> DiffEntry(tmpNm, n, ch, E, order, k)]
  <2>1. tmpNm' = [k \in Keys |->
                    IF k \notin ch THEN tmpNm[k]
                    ELSE IF IsUpdate(k)
                         THEN [off |-> n + CHOOSE i \in DOMAIN order : order[i] = k,
                               size |-> "data"]
                         ELSE [tmpNm[k] EXCEPT !.size = "tombstone"]]
    BY <1>2 DEF CommitDiff
  <2>2. \A k \in Keys :
           DiffEntry(tmpNm, n, ch, E, order, k) =
                    IF k \notin ch THEN tmpNm[k]
                    ELSE IF IsUpdate(k)
                         THEN [off |-> n + CHOOSE i \in DOMAIN order : order[i] = k,
                               size |-> "data"]
                         ELSE [tmpNm[k] EXCEPT !.size = "tombstone"]
    BY <1>8 DEF DiffEntry
  <2> QED BY <2>1, <2>2
<1>18. DiffDone(order, E)
  BY <1>2, <1>3, <1>4, <1>6, <1>11, <1>15, <1>16, <1>17 DEF DiffDone
<1> QED BY <1>1, <1>18

\* What makeupDiff leaves are files and a map.
LEMMA DiffDoneType ==
    ASSUME NEW order, NEW E, DiffDone(order, E), TypeInv
    PROVE  cpd' \in [rev : Nat, recs : Seq(Needle)] /\ cpx' \in Seq(IndexEntry) /\ tmpNm' \in Maps
<1>1. PICK ch, n : ch = Changed /\ n = Len(cpd.recs)
  OBVIOUS
<1>2. Diff(dat.recs, n, ch, E, order)
  BY <1>1 DEF DiffDone
<1>3. DiffShape(dat.recs, n, ch, E, order)
  BY <1>2, DiffType
<1>4. /\ cpd \in [rev : Nat, recs : Seq(Needle)] /\ cpx \in Seq(IndexEntry) /\ tmpNm \in Maps
      /\ cpd' = [cpd EXCEPT !.recs = cpd.recs \o DiffNeedles(dat.recs, E, order)]
      /\ cpx' = cpx \o DiffEntries(n, E, order)
      /\ tmpNm' = [k \in Keys |-> DiffEntry(tmpNm, n, ch, E, order, k)]
  BY <1>1 DEF DiffDone
<1>5. cpd.recs \o DiffNeedles(dat.recs, E, order) \in Seq(Needle)
  BY <1>3, <1>4, ConcatProperties DEF DiffShape
<1>6. cpx' \in Seq(IndexEntry)
  BY <1>3, <1>4, ConcatProperties DEF DiffShape
<1>7. ASSUME NEW k \in Keys
      PROVE  DiffEntry(tmpNm, n, ch, E, order, k) \in [off : Nat, size : Sizes]
  <2>1. tmpNm[k] \in [off : Nat, size : Sizes]
    BY <1>4 DEF Maps
  <2>2. n \in Nat /\ Lists(order, ch)
    BY <1>2 DEF Diff
  <2>3. ASSUME k \in ch
        PROVE  n + (CHOOSE i \in DOMAIN order : order[i] = k) \in Nat
    <3>1. \E i \in DOMAIN order : order[i] = k
      BY <2>2, <2>3 DEF Lists
    <3>2. (CHOOSE i \in DOMAIN order : order[i] = k) \in DOMAIN order
      BY <3>1
    <3>3. \A i \in DOMAIN order : i \in Nat
      BY <1>3 DEF DiffShape
    <3> QED BY <2>2, <3>2, <3>3
  <2>4. CASE k \notin ch
    BY <2>1, <2>4 DEF DiffEntry
  <2>5. CASE k \in ch /\ Upd(E[k])
    BY <2>3, <2>5 DEF DiffEntry, Sizes
  <2>6. CASE k \in ch /\ ~Upd(E[k])
    BY <2>1, <2>6 DEF DiffEntry, Sizes
  <2> QED BY <2>4, <2>5, <2>6
<1>8. tmpNm' \in Maps
  BY <1>4, <1>7 DEF Maps
<1> QED BY <1>4, <1>5, <1>6, <1>8

\* Steps that leave all files alone, as far as files are concerned.
KeepsFiles ==
    \/ \E k \in Keys, v \in Content : WriteUnchanged(k, v)
    \/ Crash \/ Restart \/ CompactFails
    \/ \E d \in Drivers : \/ CompactTimesOut(d) \/ CallFails(d) \/ CommitSkipped(d)
                          \/ CommitEmptyDiff(d) \/ CommitPanics(d)

\* The files stay files.
LEMMA FileTypesStep ==
    ASSUME TypeInv, [Next]_vars
    PROVE  FileTypes'
<1> USE DEF FileTypes
<1>0. /\ dat \in [rev : Nat, recs : Seq(Needle)] /\ idx \in Seq(IndexEntry)
      /\ cpd \in Files /\ (cpx = NoFile \/ cpx \in Seq(IndexEntry))
  BY DEF TypeInv
<1>1. ASSUME UNCHANGED files PROVE FileTypes'
  BY <1>0, <1>1 DEF files
<1>2. ASSUME KeepsFiles PROVE FileTypes'
  <2>1. UNCHANGED files
    BY <1>2 DEF KeepsFiles, WriteUnchanged, Crash, Restart, CompactFails, CompactTimesOut, CallFails,
                CommitSkipped, CommitEmptyDiff, CommitPanics
  <2> QED BY <1>1, <2>1
<1>3. ASSUME NEW k \in Keys, NEW v \in Content, syncWrite(k, v) PROVE FileTypes'
  <2>1. idx' \in Seq(IndexEntry)
    BY <1>3, PutType DEF syncWrite, doWriteRequest, CanAppend
  <2>2. dat' \in [rev : Nat, recs : Seq(Needle)]
    BY <1>3, DatGrows DEF syncWrite
  <2> QED BY <1>0, <1>3, <2>1, <2>2 DEF syncWrite
<1>4. ASSUME NEW k \in Keys, NEW v \in Content, SyncFails(k, v) PROVE FileTypes'
  <2>1. idx' \in Seq(IndexEntry)
    BY <1>4, PutType DEF SyncFails, doWriteRequest, CanAppend
  <2> QED BY <1>0, <1>4, <2>1 DEF SyncFails
<1>5. ASSUME NEW k \in Keys, NEW v \in Content, CrashInWrite(k, v) PROVE FileTypes'
  <2>1. dat' \in [rev : Nat, recs : Seq(Needle)]
    BY <1>5, DatGrows DEF CrashInWrite
  <2> QED BY <1>0, <1>5, <2>1 DEF CrashInWrite
<1>6. ASSUME NEW k \in Keys, syncDelete(k) PROVE FileTypes'
  <2>1. Empty \in Content
    BY DEF Content
  <2>2. dat' \in [rev : Nat, recs : Seq(Needle)]
    BY <1>6, <2>1, DatGrows DEF syncDelete
  <2>3. Len(dat.recs) + 1 \in Nat
    BY <1>0, LenProperties
  <2>4. [k |-> k, off |-> Len(dat.recs) + 1, size |-> "tombstone"] \in IndexEntry
    BY <2>3 DEF IndexEntry, Sizes
  <2>5. idx' \in Seq(IndexEntry)
    BY <1>0, <1>6, <2>4 DEF syncDelete
  <2> QED BY <1>0, <1>6, <2>2, <2>5 DEF syncDelete
<1>7. ASSUME CopyNeedles PROVE FileTypes'
  BY <1>0, <1>7, CopyType DEF CopyNeedles
<1>8. ASSUME SaveToIdx PROVE FileTypes'
  <2>1. compaction.ix \in Seq(IndexEntry)
    BY <1>8 DEF SaveToIdx, TypeInv, MapTypes, Compactions
  <2> QED BY <1>0, <1>8, <2>1 DEF SaveToIdx
<1>9. ASSUME RenameDat PROVE FileTypes'
  <2>1. CASE cpd = NoFile
    BY <1>1, <1>9, <2>1 DEF RenameDat, CommitFails
  <2>2. CASE cpd # NoFile
    BY <1>0, <1>9, <2>2 DEF RenameDat, Files
  <2> QED BY <2>1, <2>2
<1>10. ASSUME RenameIdx PROVE FileTypes'
  <2>1. CASE cpx = NoFile
    BY <1>1, <1>10, <2>1 DEF RenameIdx, CommitFails
  <2>2. CASE cpx # NoFile
    BY <1>0, <1>10, <2>2 DEF RenameIdx
  <2> QED BY <2>1, <2>2
<1>11. ASSUME NEW d \in Drivers, CompactVolume(d) PROVE FileTypes'
  <2>1. cpd' \in Files
    <3>1. PICK z : z = <<>>
      OBVIOUS
    <3>2. dat.rev + 1 \in Nat /\ z \in Seq(Needle)
      BY <1>0, <3>1, EmptySeq
    <3>3. cpd' = cpd \/ cpd' = [rev |-> dat.rev + 1, recs |-> z]
      BY <1>11, <3>1 DEF CompactVolume
    <3>4. [rev |-> dat.rev + 1, recs |-> z] \in [rev : Nat, recs : Seq(Needle)]
      BY <3>2
    <3> QED BY <1>0, <3>3, <3>4 DEF Files
  <2> QED BY <1>0, <1>11, <2>1 DEF CompactVolume
<1>12. ASSUME NEW d \in Drivers, cleanupCompact(d) PROVE FileTypes'
  BY <1>0, <1>12 DEF cleanupCompact, Files
<1>13. ASSUME NEW d \in Drivers, CommitAbandoned(d) PROVE FileTypes'
  <2>1. dat' = dat /\ idx' = idx /\ cpd' = NoFile /\ (cpx' = cpx \/ cpx' = NoFile)
    BY <1>13 DEF CommitAbandoned
  <2> QED BY <1>0, <2>1 DEF Files
<1>14. ASSUME NEW d \in Drivers, NEW order \in Orders, CommitDiff(d, order) PROVE FileTypes'
  <2>1. cpd' \in [rev : Nat, recs : Seq(Needle)] /\ cpx' \in Seq(IndexEntry)
    BY <1>14, DiffStep, DiffDoneType
  <2> QED BY <1>0, <1>14, <2>1 DEF CommitDiff, Files
<1>15. CASE UNCHANGED vars
  BY <1>1, <1>15 DEF vars
<1> QED BY <1>2, <1>3, <1>4, <1>5, <1>6, <1>7, <1>8, <1>9, <1>10, <1>11, <1>12, <1>13, <1>14, <1>15
     DEF Next, KeepsFiles

\* What is loaded at the end of a commit is a map.
LEMMA LoadType ==
    ASSUME TypeInv, NEW recs, NEW ix \in Seq(IndexEntry), Load(recs, ix)
    PROVE  /\ state' = "up" /\ readonly' \in BOOLEAN
           /\ nm' \in Maps /\ tmpNm' \in Maps \cup {NoMap}
<1>1. PICK ro : ro = (readonly \/ ~CheckVolumeDataIntegrity(recs, ix))
  OBVIOUS
<1>2. doLoading(ix) \in Maps
  BY LoadedType
<1>3. tmpNm \in Maps \cup {NoMap}
  BY DEF TypeInv, MapTypes
<1>4. /\ state' = "up" /\ readonly' = ro
      /\ nm' = IF ro \/ tmpNm = NoMap THEN doLoading(ix) ELSE tmpNm
      /\ tmpNm' = IF ro THEN tmpNm ELSE NoMap
  BY <1>1 DEF Load
<1>5. ro \in BOOLEAN
  BY <1>1
<1> QED BY <1>2, <1>3, <1>4, <1>5

\* The index of a compaction that is about to be saved.
LEMMA CompactionIs ==
    ASSUME TypeInv
    PROVE  /\ compaction.pc \in {"idle", "copy", "index"}
           /\ compaction.by \in Drivers \cup {NoDriver}
           /\ compaction.pc = "index" => compaction.ix \in Seq(IndexEntry)
           /\ [compaction EXCEPT !.by = NoDriver] \in Compactions
           /\ [compaction EXCEPT !.by = NoDriver].pc = compaction.pc
           /\ compaction.pc = "index" => [compaction EXCEPT !.by = NoDriver].ix = compaction.ix
BY DEF TypeInv, MapTypes, Compactions

\* The volume is open exactly when it has a map.
LEMMA MapTypesStep ==
    ASSUME TypeInv, [Next]_vars
    PROVE  MapTypes'
<1> USE DEF MapTypes
<1>0. /\ state \in {"up", "down", "closed", "diffed", "half"} /\ readonly \in BOOLEAN
      /\ nm \in Maps \cup {NoMap} /\ tmpNm \in Maps \cup {NoMap}
      /\ state = "up" <=> nm # NoMap
      /\ lastCompact \in [off : Nat, rev : Nat]
      /\ compaction \in Compactions
  BY DEF TypeInv
<1>F. /\ dat \in [rev : Nat, recs : Seq(Needle)] /\ idx \in Seq(IndexEntry)
      /\ cpx = NoFile \/ cpx \in Seq(IndexEntry)
  BY DEF TypeInv, FileTypes
<1>Z. [pc |-> "idle", by |-> NoDriver] \in Compactions
  BY DEF Compactions
<1>M. \A x : x \in Maps => x # NoMap
  BY Absent
<1>1. ASSUME UNCHANGED <<state, readonly, nm, tmpNm, lastCompact, compaction>> PROVE MapTypes'
  BY <1>0, <1>1
<1>2. ASSUME Killed, UNCHANGED <<readonly, lastCompact>> PROVE MapTypes'
  BY <1>0, <1>2, <1>Z DEF Killed
<1>3. ASSUME NEW k \in Keys, NEW v \in Content, WriteUnchanged(k, v) PROVE MapTypes'
  BY <1>1, <1>3 DEF WriteUnchanged, memory
<1>4. ASSUME NEW k \in Keys, NEW v \in Content, syncWrite(k, v) PROVE MapTypes'
  <2>1. nm' \in Maps /\ state = "up"
    BY <1>4, PutType DEF syncWrite, doWriteRequest, CanAppend, Served
  <2> QED BY <1>0, <1>4, <1>M, <2>1 DEF syncWrite
<1>5. ASSUME NEW k \in Keys, NEW v \in Content, SyncFails(k, v) PROVE MapTypes'
  <2>1. nm' \in Maps /\ state = "up"
    BY <1>5, PutType DEF SyncFails, doWriteRequest, CanAppend, Served
  <2> QED BY <1>0, <1>5, <1>M, <2>1 DEF SyncFails
<1>6. ASSUME NEW k \in Keys, NEW v \in Content, CrashInWrite(k, v) PROVE MapTypes'
  BY <1>2, <1>6 DEF CrashInWrite
<1>7. ASSUME NEW k \in Keys, syncDelete(k) PROVE MapTypes'
  <2>1. state = "up" /\ nm \in Maps
    BY <1>0, <1>7 DEF syncDelete, Served
  <2>2. nm' = [nm EXCEPT ![k].size = "tombstone"]
    BY <1>7 DEF syncDelete
  <2>3. nm' \in Maps
    BY <2>1, <2>2 DEF Maps, Sizes
  <2> QED BY <1>0, <1>7, <1>M, <2>1, <2>3 DEF syncDelete
<1>8. ASSUME Crash PROVE MapTypes'
  BY <1>2, <1>8 DEF Crash
<1>9. ASSUME Restart PROVE MapTypes'
  <2>1. doLoading(idx) \in Maps
    BY <1>F, LoadedType
  <2>2. readonly' \in BOOLEAN
    BY <1>9 DEF Restart
  <2> QED BY <1>0, <1>9, <1>M, <2>1, <2>2 DEF Restart
<1>10. ASSUME CopyNeedles PROVE MapTypes'
  BY <1>0, <1>10, CopyType DEF CopyNeedles, memory
<1>11. ASSUME SaveToIdx PROVE MapTypes'
  <2>1. doLoading(compaction.ix) \in Maps
    BY <1>11, CompactionIs, LoadedType DEF SaveToIdx
  <2> QED BY <1>0, <1>11, <1>Z, <2>1 DEF SaveToIdx, CompactionEnds
<1>12. ASSUME CompactFails PROVE MapTypes'
  BY <1>0, <1>12, <1>Z DEF CompactFails, CompactionEnds, memory
<1>13. ASSUME RenameDat PROVE MapTypes'
  <2>1. nm' = nm /\ tmpNm' = tmpNm /\ readonly' = readonly /\ lastCompact' = lastCompact
        /\ compaction' = compaction /\ state = "diffed" /\ state' \in {"closed", "half"}
    BY <1>13 DEF RenameDat, CommitFails
  <2> QED BY <1>0, <2>1
<1>14. ASSUME RenameIdx PROVE MapTypes'
  <2>1. CASE cpx = NoFile
    BY <1>0, <1>14, <2>1 DEF RenameIdx, CommitFails
  <2>2. CASE cpx # NoFile
    <3>1. Load(dat.recs, cpx) /\ lastCompact' = lastCompact /\ compaction' = compaction
      BY <1>14, <2>2 DEF RenameIdx
    <3>2. /\ state' = "up" /\ readonly' \in BOOLEAN
          /\ nm' \in Maps /\ tmpNm' \in Maps \cup {NoMap}
      BY <1>F, <2>2, <3>1, LoadType
    <3> QED BY <1>0, <1>M, <3>1, <3>2
  <2> QED BY <2>1, <2>2
<1>15. ASSUME NEW d \in Drivers, CompactVolume(d) PROVE MapTypes'
  <2>1. compaction' \in Compactions
    BY <1>0, <1>15 DEF CompactVolume, Compactions
  <2>2. lastCompact' \in [off : Nat, rev : Nat]
    <3>1. Len(idx) \in Nat /\ dat.rev \in Nat
      BY <1>F, LenProperties
    <3>2. lastCompact' = lastCompact \/ lastCompact' = [off |-> Len(idx), rev |-> dat.rev]
      BY <1>15 DEF CompactVolume
    <3> QED BY <1>0, <3>1, <3>2
  <2> QED BY <1>0, <1>15, <2>1, <2>2 DEF CompactVolume
<1>16. ASSUME NEW d \in Drivers, CompactTimesOut(d) PROVE MapTypes'
  BY <1>0, <1>16, CompactionIs DEF CompactTimesOut, memory
<1>17. ASSUME NEW d \in Drivers, cleanupCompact(d) PROVE MapTypes'
  BY <1>1, <1>17 DEF cleanupCompact, memory
<1>18. ASSUME NEW d \in Drivers, CallFails(d) PROVE MapTypes'
  BY <1>1, <1>18 DEF CallFails, memory
<1>19. ASSUME NEW d \in Drivers, CommitSkipped(d) PROVE MapTypes'
  BY <1>1, <1>19 DEF CommitSkipped, memory
<1>20. ASSUME NEW d \in Drivers, CommitEmptyDiff(d) PROVE MapTypes'
  BY <1>0, <1>20 DEF CommitEmptyDiff
<1>21. ASSUME NEW d \in Drivers, CommitPanics(d) PROVE MapTypes'
  BY <1>2, <1>21 DEF CommitPanics
<1>22. ASSUME NEW d \in Drivers, CommitAbandoned(d) PROVE MapTypes'
  <2>0. lastCompact' = lastCompact /\ compaction' = compaction
    BY <1>22 DEF CommitAbandoned
  <2>1. CASE cpd = NoFile \/ cpx = NoFile
    BY <1>0, <1>22, <2>0, <2>1 DEF CommitAbandoned
  <2>2. CASE ~(cpd = NoFile \/ cpx = NoFile)
    <3>1. Load(dat.recs, idx)
      BY <1>22, <2>2 DEF CommitAbandoned
    <3>2. /\ state' = "up" /\ readonly' \in BOOLEAN
          /\ nm' \in Maps /\ tmpNm' \in Maps \cup {NoMap}
      BY <1>F, <3>1, LoadType
    <3> QED BY <1>0, <1>M, <2>0, <3>2
  <2> QED BY <2>1, <2>2
<1>23. ASSUME NEW d \in Drivers, NEW order \in Orders, CommitDiff(d, order) PROVE MapTypes'
  <2>1. tmpNm' \in Maps
    BY <1>23, DiffStep, DiffDoneType
  <2> QED BY <1>0, <1>23, <2>1 DEF CommitDiff
<1>24. CASE UNCHANGED vars
  BY <1>1, <1>24 DEF vars, memory
<1> QED BY <1>3, <1>4, <1>5, <1>6, <1>7, <1>8, <1>9, <1>10, <1>11, <1>12, <1>13, <1>14, <1>15, <1>16,
        <1>17, <1>18, <1>19, <1>20, <1>21, <1>22, <1>23, <1>24 DEF Next

\* The states of a driver.
Calls == {"idle", "compacting", "commit", "committing", "cleanup"}

\* A driver goes to its next call.
LEMMA DriverMoves ==
    ASSUME NEW dr \in [Drivers -> Calls], NEW d, NEW next \in Calls
    PROVE  [dr EXCEPT ![d] = next] \in [Drivers -> Calls]
OBVIOUS

\* What a driver does after a failure or a commit is one of its calls.
LEMMA AfterCalls ==
    ASSUME NEW d
    PROVE  AfterFailure(d) \in {"cleanup", "idle"} /\ AfterCommit(d) \in {"cleanup", "idle"}
           /\ AfterFailure(d) \in Calls /\ AfterCommit(d) \in Calls
BY DEF AfterFailure, AfterCommit, Calls

\* The commit that is going on is that of a driver.
LEMMA DriverTypesStep ==
    ASSUME TypeInv, [Next]_vars
    PROVE  DriverTypes'
<1> DEFINE D == /\ committer \in Drivers \cup {NoDriver}
                /\ state \in {"diffed", "half"} <=> committer # NoDriver
                /\ driver \in [Drivers -> Calls]
           A == acked \in [Keys -> Content \cup {Missing}]
<1>0. D /\ A
  BY DEF TypeInv, DriverTypes, Calls
<1>S. D' /\ A' => DriverTypes'
  BY DEF DriverTypes, Calls
<1>N. NoDriver \notin Drivers
  BY Absent
<1>K. ASSUME Killed PROVE D'
  <2>1. ASSUME NEW d \in Drivers
        PROVE  (CASE driver[d] = "compacting" -> AfterFailure(d)
                  [] driver[d] = "committing" -> "idle"
                  [] OTHER -> driver[d]) \in Calls
    <3>1. driver[d] \in Calls /\ AfterFailure(d) \in Calls /\ "idle" \in Calls
      BY <1>0, AfterCalls DEF Calls
    <3> QED BY <3>1
  <2>2. driver' \in [Drivers -> Calls]
    BY <1>K, <2>1 DEF Killed
  <2> QED BY <1>K, <2>2 DEF Killed
<1>1. ASSUME UNCHANGED <<committer, driver>>, state' = state PROVE D'
  BY <1>0, <1>1
<1>2. ASSUME NEW d, NEW next \in Calls, driver' = [driver EXCEPT ![d] = next],
             committer' = committer, state' = state
      PROVE  D'
  BY <1>0, <1>2, DriverMoves
<1>3. ASSUME NEW d, NEW next \in Calls, CommitReturns(d, next), state' \in {"up", "closed"}
      PROVE  D'
  <2>1. driver' \in [Drivers -> Calls]
    BY <1>0, <1>3, DriverMoves DEF CommitReturns
  <2> QED BY <1>3, <2>1 DEF CommitReturns
<1>4. ASSUME NEW d \in Drivers, driver' = [driver EXCEPT ![d] = "committing"], committer' = d,
             state' = "diffed"
      PROVE  D'
  <2>1. driver' \in [Drivers -> Calls]
    BY <1>0, <1>4, DriverMoves DEF Calls
  <2> QED BY <1>4, <1>N, <2>1
<1>5. ASSUME UNCHANGED acked PROVE A'
  BY <1>0, <1>5
<1> HIDE DEF D
<1>6. ASSUME NEW k \in Keys, NEW v \in Content, WriteUnchanged(k, v) PROVE D' /\ A'
  <2>1. acked' = [acked EXCEPT ![k] = v] /\ UNCHANGED <<committer, driver>> /\ state' = state
    BY <1>6 DEF WriteUnchanged
  <2>2. A'
    BY <1>0, <2>1
  <2> QED BY <1>1, <2>1, <2>2
<1>7. ASSUME NEW k \in Keys, NEW v \in Content, syncWrite(k, v) PROVE D' /\ A'
  <2>1. acked' = [acked EXCEPT ![k] = v] /\ UNCHANGED <<committer, driver>> /\ state' = state
    BY <1>7 DEF syncWrite
  <2>2. A'
    BY <1>0, <2>1
  <2> QED BY <1>1, <2>1, <2>2
<1>8. ASSUME NEW k \in Keys, NEW v \in Content, SyncFails(k, v) PROVE D' /\ A'
  BY <1>1, <1>5, <1>8 DEF SyncFails
<1>9. ASSUME NEW k \in Keys, NEW v \in Content, CrashInWrite(k, v) PROVE D' /\ A'
  BY <1>K, <1>5, <1>9 DEF CrashInWrite
<1>10. ASSUME NEW k \in Keys, syncDelete(k) PROVE D' /\ A'
  <2>1. acked' = [acked EXCEPT ![k] = Missing] /\ UNCHANGED <<committer, driver>> /\ state' = state
    BY <1>10 DEF syncDelete
  <2>2. A'
    BY <1>0, <2>1
  <2> QED BY <1>1, <2>1, <2>2
<1>11. ASSUME Crash PROVE D' /\ A'
  BY <1>K, <1>5, <1>11 DEF Crash
<1>12. ASSUME Restart PROVE D' /\ A'
  <2>1. D'
    BY <1>0, <1>12 DEF Restart, D
  <2> QED BY <1>5, <1>12, <2>1 DEF Restart
<1>13. ASSUME CopyNeedles PROVE D' /\ A'
  BY <1>1, <1>5, <1>13 DEF CopyNeedles
<1>14. ASSUME NEW next \in Calls, CompactionEnds(next), UNCHANGED <<committer, acked>>, state' = state
       PROVE  D' /\ A'
  <2>1. driver' = driver \/ driver' = [driver EXCEPT ![compaction.by] = next]
    BY <1>14 DEF CompactionEnds
  <2> QED BY <1>1, <1>2, <1>5, <1>14, <2>1
<1>15. ASSUME SaveToIdx PROVE D' /\ A'
  <2>1. "commit" \in Calls
    BY DEF Calls
  <2> QED BY <1>14, <1>15, <2>1 DEF SaveToIdx
<1>16. ASSUME CompactFails PROVE D' /\ A'
  BY <1>14, <1>16, AfterCalls DEF CompactFails
<1>17. ASSUME RenameDat PROVE D' /\ A'
  <2>1. acked' = acked /\ state = "diffed"
    BY <1>17 DEF RenameDat
  <2>2. CASE cpd = NoFile
    <3>1. CommitReturns(committer, "idle") /\ state' = "closed" /\ "idle" \in Calls
      BY <1>17, <2>2 DEF RenameDat, CommitFails, Calls
    <3> QED BY <1>3, <1>5, <2>1, <3>1
  <2>3. CASE cpd # NoFile
    <3>1. UNCHANGED <<committer, driver>> /\ state' = "half"
      BY <1>17, <2>3 DEF RenameDat
    <3>2. D'
      BY <1>0, <2>1, <3>1 DEF D
    <3> QED BY <1>5, <2>1, <3>2
  <2> QED BY <2>2, <2>3
<1>18. ASSUME RenameIdx PROVE D' /\ A'
  <2>1. acked' = acked
    BY <1>18 DEF RenameIdx
  <2>2. CASE cpx = NoFile
    <3>1. CommitReturns(committer, "idle") /\ state' = "closed" /\ "idle" \in Calls
      BY <1>18, <2>2 DEF RenameIdx, CommitFails, Calls
    <3> QED BY <1>3, <1>5, <2>1, <3>1
  <2>3. CASE cpx # NoFile
    <3>1. CommitReturns(committer, AfterCommit(committer)) /\ state' = "up"
      BY <1>18, <2>3 DEF RenameIdx, Load
    <3> QED BY <1>3, <1>5, <2>1, <3>1, AfterCalls
  <2> QED BY <2>2, <2>3
<1>19. ASSUME NEW d \in Drivers, CompactVolume(d) PROVE D' /\ A'
  <2>1. \E next \in {"commit", "compacting"} : driver' = [driver EXCEPT ![d] = next]
    BY <1>19 DEF CompactVolume
  <2>2. {"commit", "compacting"} \subseteq Calls
    BY DEF Calls
  <2> QED BY <1>2, <1>5, <1>19, <2>1, <2>2 DEF CompactVolume
<1>20. ASSUME NEW d \in Drivers, CompactTimesOut(d) PROVE D' /\ A'
  BY <1>2, <1>5, <1>20, AfterCalls DEF CompactTimesOut
<1>21. ASSUME NEW d \in Drivers, cleanupCompact(d) PROVE D' /\ A'
  <2>1. "idle" \in Calls
    BY DEF Calls
  <2> QED BY <1>2, <1>5, <1>21, <2>1 DEF cleanupCompact
<1>22. ASSUME NEW d \in Drivers, CallFails(d) PROVE D' /\ A'
  <2>1. "idle" \in Calls
    BY DEF Calls
  <2> QED BY <1>2, <1>5, <1>22, <2>1 DEF CallFails
<1>23. ASSUME NEW d \in Drivers, CommitSkipped(d) PROVE D' /\ A'
  BY <1>2, <1>5, <1>23, AfterCalls DEF CommitSkipped
<1>24. ASSUME NEW d \in Drivers, CommitEmptyDiff(d) PROVE D' /\ A'
  BY <1>4, <1>5, <1>24 DEF CommitEmptyDiff
<1>25. ASSUME NEW d \in Drivers, CommitPanics(d) PROVE D' /\ A'
  BY <1>K, <1>5, <1>25 DEF CommitPanics
<1>26. ASSUME NEW d \in Drivers, CommitAbandoned(d) PROVE D' /\ A'
  <2>1. acked' = acked
    BY <1>26 DEF CommitAbandoned
  <2>2. \E next \in {"idle", AfterCommit(d)} : CommitReturns(d, next)
    BY <1>26 DEF CommitAbandoned
  <2>3. {"idle", AfterCommit(d)} \subseteq Calls
    BY AfterCalls DEF Calls
  <2>4. state' \in {"up", "closed"}
    BY <1>26 DEF CommitAbandoned, Load
  <2> QED BY <1>3, <1>5, <2>1, <2>2, <2>3, <2>4
<1>27. ASSUME NEW d \in Drivers, NEW order \in Orders, CommitDiff(d, order) PROVE D' /\ A'
  BY <1>4, <1>5, <1>27 DEF CommitDiff
<1>28. ASSUME UNCHANGED vars PROVE D' /\ A'
  BY <1>1, <1>5, <1>28 DEF vars
<1> HIDE DEF A
<1>29. D' /\ A'
  BY <1>6, <1>7, <1>8, <1>9, <1>10, <1>11, <1>12, <1>13, <1>15, <1>16, <1>17, <1>18, <1>19, <1>20,
     <1>21, <1>22, <1>23, <1>24, <1>25, <1>26, <1>27, <1>28 DEF Next
<1> QED BY <1>S, <1>29

\* Every step keeps the types.
LEMMA TypeStep == TypeInv /\ [Next]_vars => TypeInv'
BY FileTypesStep, MapTypesStep, DriverTypesStep DEF TypeInv

\* TypeOK holds of every behaviour of the volume, whatever the keys, the contents,
\* the drivers and the bounds are: files and maps are well formed, the volume is
\* open exactly when it has a needle map, and a commit is going on exactly when a
\* driver waits for one.
THEOREM TypeCorrect == Spec => []TypeOK
<1>1. Spec => []TypeInv
  BY TypeInit, TypeStep, PTL DEF Spec
<1> QED BY <1>1, TypeInvOK, PTL

-----------------------------------------------------------------------------
(* The inductive invariant: which files and maps there are *)

\* A compaction goes on only in an open volume and has noted where .idx ended; the
\* temporary map is gone after a kill; and while there is a .cpd, .idx is not empty
\* and not shorter than it was when the compaction began.
Phases ==
    /\ Compacting => state = "up" /\ lastCompact.off > 0
    /\ state = "down" => tmpNm = NoMap
    /\ tmpNm # NoMap => lastCompact.off > 0
    /\ state = "half" => cpd = NoFile /\ Len(idx) > 0
    /\ cpd # NoFile => Len(idx) > 0 /\ lastCompact.off <= Len(idx)

\* Initially there is no compaction.
LEMMA PhasesInit == Init => Phases
BY DEF Init, Phases, Compacting

\* What the type invariant says of lengths and offsets.
LEMMA Lengths ==
    ASSUME TypeInv
    PROVE  /\ Len(idx) \in Nat /\ Len(dat.recs) \in Nat /\ lastCompact.off \in Nat
           /\ Len(idx) = 0 <=> idx = <<>>
           /\ cpd # NoFile => Len(cpd.recs) \in Nat /\ cpd \in [rev : Nat, recs : Seq(Needle)]
           /\ cpx # NoFile => cpx \in Seq(IndexEntry)
<1>1. Len(idx) \in Nat /\ Len(dat.recs) \in Nat /\ lastCompact.off \in Nat
  BY LenProperties DEF TypeInv, FileTypes, MapTypes
<1>2. idx \in Seq(IndexEntry)
  BY DEF TypeInv, FileTypes
<1>3. Len(idx) = 0 <=> idx = <<>>
  BY <1>2, EmptySeq, LenProperties
<1>4. cpd # NoFile => cpd \in [rev : Nat, recs : Seq(Needle)]
  BY DEF TypeInv, FileTypes, Files
<1>5. cpd # NoFile => Len(cpd.recs) \in Nat
  BY <1>4, LenProperties
<1> QED BY <1>1, <1>3, <1>4, <1>5 DEF TypeInv, FileTypes

\* A write or a deletion may add an index entry, and takes none away.
LEMMA PutLonger ==
    ASSUME TypeInv, NEW k, NEW v, Put(k, v)
    PROVE  Len(idx') >= Len(idx)
<1>1. idx \in Seq(IndexEntry) /\ Len(idx) \in Nat
  BY Lengths DEF TypeInv, FileTypes
<1>2. PICK e : idx' = Append(idx, e) \/ idx' = idx
  BY DEF Put
<1>3. Len(Append(idx, e)) = Len(idx) + 1
  BY <1>1, LenProperties
<1> QED BY <1>1, <1>2, <1>3

\* Every step keeps the phases.
LEMMA PhasesStep ==
    ASSUME TypeInv, Phases, [Next]_vars
    PROVE  Phases'
<1> USE DEF Phases, Compacting
<1>0. /\ Len(idx) \in Nat /\ lastCompact.off \in Nat
  BY Lengths
<1>1. ASSUME UNCHANGED <<compaction, state, lastCompact, tmpNm, cpd, idx>> PROVE Phases'
  BY <1>1
<1>2. ASSUME Killed, UNCHANGED <<lastCompact, cpd, idx>> PROVE Phases'
  BY <1>2 DEF Killed
<1>3. ASSUME NEW k \in Keys, NEW v \in Content, WriteUnchanged(k, v) PROVE Phases'
  BY <1>1, <1>3 DEF WriteUnchanged, memory, files
<1>4. ASSUME NEW k \in Keys, NEW v \in Content, syncWrite(k, v) \/ SyncFails(k, v) PROVE Phases'
  <2>1. Len(idx') >= Len(idx)
    BY <1>4, PutLonger DEF syncWrite, SyncFails, doWriteRequest
  <2>2. Len(idx') \in Nat
    BY FileTypesStep, LenProperties DEF FileTypes
  <2>3. UNCHANGED <<compaction, state, lastCompact, tmpNm, cpd>>
    BY <1>4 DEF syncWrite, SyncFails
  <2> QED BY <1>0, <2>1, <2>2, <2>3
<1>5. ASSUME NEW k \in Keys, NEW v \in Content, CrashInWrite(k, v) PROVE Phases'
  BY <1>2, <1>5 DEF CrashInWrite
<1>6. ASSUME NEW k \in Keys, syncDelete(k) PROVE Phases'
  <2>1. PICK e : idx' = Append(idx, e)
    BY <1>6 DEF syncDelete
  <2>2. Len(idx') = Len(idx) + 1
    BY <2>1, LenProperties DEF TypeInv, FileTypes
  <2>3. UNCHANGED <<compaction, state, lastCompact, tmpNm, cpd>>
    BY <1>6 DEF syncDelete
  <2> QED BY <1>0, <2>2, <2>3
<1>7. ASSUME Crash PROVE Phases'
  BY <1>2, <1>7 DEF Crash, files
<1>8. ASSUME Restart PROVE Phases'
  BY <1>0, <1>8 DEF Restart, files
<1>9. ASSUME CopyNeedles PROVE Phases'
  <2>1. compaction.pc = "copy" /\ UNCHANGED <<state, lastCompact, tmpNm, idx>>
    BY <1>9 DEF CopyNeedles, memory
  <2>2. cpd = NoFile => cpd' = NoFile
    BY <1>9 DEF CopyNeedles
  <2> QED BY <1>0, <2>1, <2>2
<1>10. ASSUME SaveToIdx PROVE Phases'
  BY <1>0, <1>10 DEF SaveToIdx, CompactionEnds
<1>11. ASSUME CompactFails PROVE Phases'
  BY <1>0, <1>11 DEF CompactFails, CompactionEnds, files, memory
<1>12. ASSUME RenameDat PROVE Phases'
  <2>1. CASE cpd = NoFile
    BY <1>0, <1>12, <2>1 DEF RenameDat, CommitFails, files
  <2>2. CASE cpd # NoFile
    BY <1>0, <1>12, <2>2 DEF RenameDat
  <2> QED BY <2>1, <2>2
<1>13. ASSUME RenameIdx PROVE Phases'
  <2>1. CASE cpx = NoFile
    BY <1>0, <1>13, <2>1 DEF RenameIdx, CommitFails, files
  <2>2. CASE cpx # NoFile
    <3>1. state' = "up" /\ tmpNm' \in {tmpNm, NoMap} /\ cpd' = cpd /\ state = "half"
          /\ UNCHANGED <<lastCompact, compaction>>
      BY <1>13, <2>2 DEF RenameIdx, Load
    <3> QED BY <3>1
  <2> QED BY <2>1, <2>2
<1>14. ASSUME NEW d \in Drivers, CompactVolume(d) PROVE Phases'
  <2>1. Len(idx) > 0
    <3>1. PICK S : S = {k \in Keys : nm[k].size # "tombstone"}
      OBVIOUS
    <3>2. Cardinality(S) \in Nat
      BY <3>1, AscendingKeys
    <3>3. Cardinality(S) < Len(idx)
      BY <1>14, <3>1 DEF CompactVolume, garbageLevel
    <3> QED BY <1>0, <3>2, <3>3
  <2>2. state = "up" /\ UNCHANGED <<state, idx, tmpNm>>
    BY <1>14 DEF CompactVolume, Served
  <2>3. CASE Compacting
    BY <1>14, <2>2, <2>3 DEF CompactVolume
  <2>4. CASE ~Compacting
    <3>1. lastCompact' = [off |-> Len(idx), rev |-> dat.rev]
      BY <1>14, <2>4 DEF CompactVolume
    <3> QED BY <1>0, <2>1, <2>2, <3>1
  <2> QED BY <2>3, <2>4
<1>15. ASSUME NEW d \in Drivers, CompactTimesOut(d) PROVE Phases'
  BY <1>0, <1>15, CompactionIs DEF CompactTimesOut, memory, files
<1>16. ASSUME NEW d \in Drivers, cleanupCompact(d) PROVE Phases'
  BY <1>0, <1>16 DEF cleanupCompact, memory
<1>17. ASSUME NEW d \in Drivers, CallFails(d) \/ CommitSkipped(d) PROVE Phases'
  BY <1>1, <1>17 DEF CallFails, CommitSkipped, memory, files
<1>18. ASSUME NEW d \in Drivers, CommitEmptyDiff(d) PROVE Phases'
  BY <1>0, <1>18 DEF CommitEmptyDiff, CanCommit, files
<1>19. ASSUME NEW d \in Drivers, CommitPanics(d) PROVE Phases'
  BY <1>2, <1>19 DEF CommitPanics, files
<1>20. ASSUME NEW d \in Drivers, CommitAbandoned(d) PROVE Phases'
  <2>1. /\ state' \in {"up", "closed"} /\ ~Compacting
        /\ UNCHANGED <<lastCompact, compaction>> /\ cpd' = NoFile
    BY <1>20 DEF CommitAbandoned, CanCommit, Load
  <2>2. tmpNm' \in {tmpNm, NoMap}
    BY <1>20 DEF CommitAbandoned, Load
  <2> QED BY <2>1, <2>2
<1>21. ASSUME NEW d \in Drivers, NEW order \in Orders, CommitDiff(d, order) PROVE Phases'
  <2>1. cpd # NoFile /\ tmpNm # NoMap /\ ~Compacting
    BY <1>21 DEF CommitDiff, DiffRefuses, CanCommit
  <2>2. state' = "diffed" /\ UNCHANGED <<idx, lastCompact, compaction>>
    BY <1>21 DEF CommitDiff
  <2> QED BY <1>0, <2>1, <2>2
<1>22. CASE UNCHANGED vars
  BY <1>1, <1>22 DEF vars, memory, files
<1> QED BY <1>3, <1>4, <1>5, <1>6, <1>7, <1>8, <1>9, <1>10, <1>11, <1>12, <1>13, <1>14, <1>15, <1>16,
        <1>17, <1>18, <1>19, <1>20, <1>21, <1>22 DEF Next

-----------------------------------------------------------------------------
(* The inductive invariant: what the files hold *)

\* A volume with these needles and the .idx from before the compaction would be
\* taken for damaged, when nothing was written since and .idx ends in an entry that
\* the check looks at.
Detectable(recs) ==
    DiffIsEmpty /\ idx[Len(idx)].off # 0 => ~CheckVolumeDataIntegrity(recs, idx)

\* recs and ix are copies of the files as they were at some time since the
\* compaction began: they hold every key that has not changed since.
Copies(recs, ix) ==
    /\ Placed(recs, ix) /\ Len(recs) <= Len(dat.recs)
    /\ \A k \in Keys \ Changed : Holds(recs, ix, k, acked[k])
    /\ faults = {} => Detectable(recs)

\* The temporary map, when there is one, is that of .cpx.
MapOfCopies == tmpNm = NoMap \/ tmpNm = doLoading(cpx)

\* The .dat and .idx that are there hold what was acknowledged, except between the
\* two renames.
FilesHold == state # "half" => Good(dat.recs, idx, acked)

\* The needle map names no needle past the end of .dat: nm.Put takes every write.
MapInRange == state = "up" => \A k \in Keys : nm[k].off <= Len(dat.recs)

\* Without a fault the needle map is that of .idx.
MapOfFiles == state = "up" /\ faults = {} => nm = doLoading(idx)

\* There is something to leave out of the copies, when nothing was written yet.
GarbageToDrop ==
    compaction.pc = "copy" /\ faults = {} /\ cpd # NoFile /\ DiffIsEmpty =>
        Cardinality(LiveKeys(doLoading(idx))) < Len(idx)

\* The copies between the writing of .cpd and that of .cpx.
CopiesMade == compaction.pc = "index" /\ cpd # NoFile => Copies(cpd.recs, compaction.ix)

\* A driver may commit the copies of a compaction of this process.
Ready ==
    /\ ~Compacting /\ state \in {"up", "closed"} /\ cpd # NoFile /\ lastCompact.off > 0
    /\ \E d \in Drivers : driver[d] = "commit"

CopiesReady == Ready => cpx # NoFile /\ Copies(cpd.recs, cpx) /\ MapOfCopies

\* After makeupDiff the copies hold everything.
CopiesComplete ==
    state = "diffed" /\ cpd # NoFile =>
        /\ cpx # NoFile /\ Good(cpd.recs, cpx, acked) /\ MapOfCopies
        /\ faults = {} => Detectable(cpd.recs)

\* Between the two renames the new .dat goes with .cpx.
HalfRenamed ==
    state = "half" =>
        /\ cpx # NoFile => Good(dat.recs, cpx, acked) /\ MapOfCopies
        /\ faults = {} => Detectable(dat.recs)

Parts ==
    /\ FilesHold /\ MapInRange /\ MapOfFiles /\ GarbageToDrop
    /\ CopiesMade /\ CopiesReady /\ CopiesComplete /\ HalfRenamed

\* What the files hold, as long as nothing has happened that loses a write.
Sound == faults \subseteq {"wrongmap"} => Parts

\* The volume that was stopped between the two renames stays as it is: it is
\* damaged for the check, and so never compacted or written to again.
TornStays ==
    faults = {"torn"} =>
        /\ cpd = NoFile /\ ~Compacting /\ state # "half"
        /\ ~CheckVolumeDataIntegrity(dat.recs, idx)
        /\ state = "up" => readonly

\* Needles that a compaction leaves something out of are too few for the old .idx:
\* its last entry names a needle past their end, or is that of a deletion, and then
\* the last needle is not that of the key deleted.
LEMMA CopiesDetected ==
    ASSUME NEW recs \in Seq(Needle), NEW ix \in Seq(IndexEntry), NEW a, Good(recs, ix, a),
           NEW c, c = NeedlesOf(recs, doLoading(ix)), Cardinality(LiveKeys(doLoading(ix))) < Len(ix),
           Len(ix) > 0, ix[Len(ix)].off # 0
    PROVE  ~CheckVolumeDataIntegrity(c, ix)
<1>1. /\ Len(c) = Cardinality(LiveKeys(doLoading(ix)))
      /\ \A i \in DOMAIN c : c[i].k \in LiveKeys(doLoading(ix))
  BY GoodCopies
<1>2. PICK n, e : n = Len(ix) /\ e = ix[n]
  OBVIOUS
<1>3. n \in Nat /\ n \in DOMAIN ix /\ e.off \in Nat /\ e.k \in Keys /\ \A i \in DOMAIN ix : i <= n
  BY <1>2, EntriesType
<1>4. n <= e.off
  BY <1>2, <1>3 DEF Good, Placed
<1>5. ix # <<>>
  BY <1>2, <1>3
<1>6. PICK map : map = doLoading(ix)
  OBVIOUS
<1>7. map \in Maps /\ LiveKeys(map) \in SUBSET Keys
  BY <1>6, LoadedType DEF LiveKeys
<1>8. Cardinality(LiveKeys(map)) \in Nat
  BY <1>7, AscendingKeys
<1>9. Len(c) \in Nat /\ Len(c) < n
  BY <1>1, <1>2, <1>6, <1>8
<1>10. e.off # Len(c)
  BY <1>3, <1>4, <1>9
<1>11. ASSUME e.size = "tombstone", c # <<>>, c[Len(c)] = [k |-> e.k, v |-> Empty]
       PROVE  FALSE
  <2>1. PICK l : l = Latest({i \in DOMAIN ix : ix[i].k = e.k})
    OBVIOUS
  <2>2. DecidedBy(ix, e.k, l)
    BY <1>2, <1>3, <2>1, LoadedByLast
  <2>3. l = n
    <3>1. l \in DOMAIN ix /\ n <= l
      BY <1>2, <1>3, <2>2 DEF DecidedBy
    <3> QED BY <1>2, <1>3, <3>1, EntriesType
  <2>4. map[e.k].size = "tombstone"
    BY <1>2, <1>6, <1>11, <2>2, <2>3 DEF DecidedBy, Live
  <2>5. e.k \notin LiveKeys(map)
    BY <2>4 DEF LiveKeys
  <2>6. c \in Seq(Needle)
    <3>1. \A k \in LiveKeys(map) : map[k].off \in DOMAIN recs
      BY <1>6 DEF Good, Holds, LiveKeys
    <3> QED BY <1>6, <1>7, <3>1, NeedlesType
  <2>7. Len(c) \in DOMAIN c
    BY <1>9, <1>11, <2>6, EmptySeq, LenProperties
  <2>8. c[Len(c)].k = e.k
    BY <1>11
  <2> QED BY <1>1, <1>6, <2>5, <2>7, <2>8
<1> QED BY <1>2, <1>5, <1>10, <1>11 DEF CheckVolumeDataIntegrity

\* A step that changes no file and no map, and leaves a compaction as it is or ends
\* it without making the copies ready.
LEMMA PartsFrame ==
    ASSUME Parts, UNCHANGED <<dat, idx, cpd, cpx, state, nm, tmpNm, lastCompact, acked>>,
           faults' = {} => faults = {}, Ready' => Ready,
           \/ compaction'.pc = "idle"
           \/ /\ compaction'.pc = compaction.pc
              /\ compaction.pc = "index" => compaction'.ix = compaction.ix
    PROVE  Parts'
<1> USE DEF Parts
<1>1. FilesHold' /\ MapInRange' /\ MapOfFiles'
  BY DEF FilesHold, MapInRange, MapOfFiles
<1>2. GarbageToDrop'
  BY DEF GarbageToDrop, DiffIsEmpty
<1>3. CopiesMade'
  BY DEF CopiesMade, Copies, Detectable, DiffIsEmpty, Changed
<1>4. CopiesReady'
  BY DEF CopiesReady, Copies, Detectable, DiffIsEmpty, Changed, MapOfCopies
<1>5. CopiesComplete' /\ HalfRenamed'
  BY DEF CopiesComplete, HalfRenamed, Detectable, DiffIsEmpty, MapOfCopies
<1> QED BY <1>1, <1>2, <1>3, <1>4, <1>5

\* A step that leaves the volume without a compaction, a .cpd and a renaming.
LEMMA PartsAtRest ==
    ASSUME ~Compacting', state' \notin {"diffed", "half"}, cpd' = NoFile \/ state' = "down",
           FilesHold', MapInRange', MapOfFiles'
    PROVE  Parts'
BY DEF Parts, GarbageToDrop, CopiesMade, CopiesReady, CopiesComplete, HalfRenamed, Ready, Compacting

\* No fault is ever forgotten.
LEMMA FaultsGrow ==
    ASSUME [Next]_vars
    PROVE  faults \subseteq faults'
<1>1. CASE UNCHANGED vars
  BY <1>1 DEF vars
<1>2. CASE Next
  <2>1. ASSUME NEW k \in Keys, NEW v \in Content,
               WriteUnchanged(k, v) \/ syncWrite(k, v) \/ SyncFails(k, v) \/ CrashInWrite(k, v)
        PROVE  faults \subseteq faults'
    BY <2>1 DEF WriteUnchanged, syncWrite, SyncFails, CrashInWrite
  <2>2. ASSUME NEW k \in Keys, syncDelete(k) PROVE faults \subseteq faults'
    BY <2>2 DEF syncDelete
  <2>3. ASSUME Crash \/ Restart \/ CopyNeedles \/ SaveToIdx \/ CompactFails PROVE faults \subseteq faults'
    BY <2>3 DEF Crash, Restart, CopyNeedles, SaveToIdx, CompactFails
  <2>4. ASSUME RenameDat \/ RenameIdx PROVE faults \subseteq faults'
    BY <2>4 DEF RenameDat, RenameIdx
  <2>5. ASSUME NEW d \in Drivers, CompactVolume(d) \/ CompactTimesOut(d) \/ cleanupCompact(d) \/ CallFails(d)
        PROVE  faults \subseteq faults'
    BY <2>5 DEF CompactVolume, CompactTimesOut, cleanupCompact, CallFails
  <2>6. ASSUME NEW d \in Drivers,
               CommitSkipped(d) \/ CommitEmptyDiff(d) \/ CommitPanics(d) \/ CommitAbandoned(d)
        PROVE  faults \subseteq faults'
    BY <2>6 DEF CommitSkipped, CommitEmptyDiff, CommitPanics, CommitAbandoned
  <2>7. ASSUME NEW d \in Drivers, NEW order \in Orders, CommitDiff(d, order) PROVE faults \subseteq faults'
    BY <2>7 DEF CommitDiff
  <2> QED BY <1>2, <2>1, <2>2, <2>3, <2>4, <2>5, <2>6, <2>7 DEF Next
<1> QED BY <1>1, <1>2

\* What a new index entry about k changes: k has changed since any compaction in
\* progress began, no other key has, and there is something for makeupDiff to do.
LEMMA EntryChanges ==
    ASSUME TypeInv, Phases, NEW e \in IndexEntry, idx' = Append(idx, e), lastCompact' = lastCompact,
           cpd # NoFile
    PROVE  /\ Changed \cup {e.k} \subseteq Changed'
           /\ ~DiffIsEmpty'
<1>1. PICK ix, jx, n : ix = idx /\ jx = Append(ix, e) /\ n = lastCompact.off
  OBVIOUS
<1>2. ix \in Seq(IndexEntry) /\ n \in Nat /\ n <= Len(ix)
  BY <1>1, Lengths DEF TypeInv, FileTypes, Phases
<1>3. /\ Len(ix) \in Nat /\ DOMAIN ix = 1..Len(ix)
      /\ Len(jx) = Len(ix) + 1 /\ DOMAIN jx = 1..Len(ix) + 1
      /\ \A i \in 1..Len(ix) : jx[i] = ix[i]
      /\ jx[Len(ix) + 1] = e
  BY <1>1, <1>2, LenProperties
<1>4. Changed = {ix[i].k : i \in {j \in DOMAIN ix : n < j}}
  BY <1>1 DEF Changed
<1>5. Changed' = {jx[i].k : i \in {j \in DOMAIN jx : n < j}}
  BY <1>1 DEF Changed
<1>6. e.k \in Changed'
  BY <1>2, <1>3, <1>5
<1>7. Changed \subseteq Changed'
  BY <1>2, <1>3, <1>4, <1>5
<1>8. ~(Len(jx) <= n)
  BY <1>2, <1>3
<1> QED BY <1>1, <1>6, <1>7, <1>8 DEF DiffIsEmpty

\* A write or a deletion of k that is acknowledged: the copies still hold every
\* key that has not changed.
LEMMA PartsEntry ==
    ASSUME TypeInv, Phases, Parts, state = "up", NEW k \in Keys, NEW w, NEW e \in IndexEntry, e.k = k,
           idx' = Append(idx, e), Len(dat'.recs) = Len(dat.recs) + 1,
           acked' = [acked EXCEPT ![k] = w],
           UNCHANGED <<cpd, cpx, state, tmpNm, lastCompact, compaction, driver, faults>>,
           FilesHold', MapInRange', MapOfFiles'
    PROVE  Parts'
<1> USE DEF Parts
<1>1. cpd # NoFile => Changed \cup {k} \subseteq Changed' /\ ~DiffIsEmpty'
  BY EntryChanges
<1>2. \A c, cx : cpd # NoFile /\ Len(c) \in Nat /\ Copies(c, cx) => Copies(c, cx)'
  <2> TAKE c, cx
  <2> HAVE cpd # NoFile /\ Len(c) \in Nat /\ Copies(c, cx)
  <2>1. \A j \in Keys : j # k => acked'[j] = acked[j]
    BY DEF TypeInv, DriverTypes
  <2>2. Len(c) <= Len(dat'.recs)
    BY Lengths DEF Copies
  <2> QED BY <1>1, <2>1, <2>2 DEF Copies, Detectable
<1>3. GarbageToDrop'
  BY <1>1 DEF GarbageToDrop
<1>4. CopiesMade'
  <2>1. ASSUME compaction.pc = "index", cpd # NoFile PROVE Copies(cpd.recs, compaction.ix)'
    <3>1. PICK c, cx : c = cpd.recs /\ cx = compaction.ix
      OBVIOUS
    <3>2. Copies(c, cx)'
      BY <1>2, <2>1, <3>1, Lengths DEF CopiesMade
    <3>3. c = cpd'.recs /\ cx = compaction'.ix
      BY <3>1
    <3> QED BY <3>2, <3>3 DEF Copies, Detectable
  <2> QED BY <2>1 DEF CopiesMade
<1>5. CopiesReady'
  <2>1. ASSUME Ready PROVE cpx # NoFile /\ Copies(cpd.recs, cpx)' /\ MapOfCopies
    <3>1. PICK c, cx : c = cpd.recs /\ cx = cpx
      OBVIOUS
    <3>2. Copies(c, cx)'
      BY <1>2, <2>1, <3>1, Lengths DEF CopiesReady, Ready
    <3>3. c = cpd'.recs /\ cx = cpx'
      BY <3>1
    <3>4. Copies(cpd.recs, cpx)'
      BY <3>2, <3>3 DEF Copies, Detectable
    <3> QED BY <2>1, <3>4 DEF CopiesReady
  <2>2. Ready' => Ready
    BY DEF Ready, Compacting
  <2> QED BY <2>1, <2>2 DEF CopiesReady, MapOfCopies
<1>6. CopiesComplete' /\ HalfRenamed'
  BY DEF CopiesComplete, HalfRenamed
<1> QED BY <1>3, <1>4, <1>5, <1>6

\* A write that is taken: .dat and .idx grow together.
LEMMA PartsWrite ==
    ASSUME TypeInv, Phases, Parts, NEW k \in Keys, NEW v \in Content, syncWrite(k, v)
    PROVE  Parts'
<1>1. PICK recs, ix, a, e : /\ recs = dat.recs /\ ix = idx /\ a = acked
                            /\ e = [k |-> k, off |-> Len(recs) + 1, size |-> SizeOf(v)]
  OBVIOUS
<1>2. /\ recs \in Seq(Needle) /\ ix \in Seq(IndexEntry) /\ a \in [Keys -> Content \cup {Missing}]
      /\ Len(recs) \in Nat
  BY <1>1, Lengths DEF TypeInv, FileTypes, DriverTypes
<1>3. state = "up" /\ nm \in Maps
  BY DEF syncWrite, doWriteRequest, CanAppend, Served, TypeInv, MapTypes
<1>4. nm[k].off < Len(recs) + 1
  <2>1. nm[k].off \in Nat /\ nm[k].off <= Len(recs)
    BY <1>1, <1>3 DEF Parts, MapInRange, Maps
  <2> QED BY <1>2, <2>1
<1>5. /\ nm' = [nm EXCEPT ![k] = [off |-> Len(recs) + 1, size |-> SizeOf(v)]]
      /\ idx' = Append(ix, e)
  BY <1>1, <1>4 DEF syncWrite, doWriteRequest, Put
<1>6. dat'.recs = Append(recs, [k |-> k, v |-> v]) /\ [k |-> k, v |-> v] \in Needle
  BY <1>1, DatGrows DEF syncWrite
<1>7. e \in IndexEntry /\ e.k = k
  BY <1>1, <1>2 DEF IndexEntry, Sizes, SizeOf
<1>8. Good(recs, ix, a)
  BY <1>1, <1>3 DEF Parts, FilesHold
<1>9. Good(Append(recs, [k |-> k, v |-> v]), Append(ix, e), [a EXCEPT ![k] = v])
  BY <1>1, <1>2, <1>8, GoodPut
<1>10. acked' = [a EXCEPT ![k] = v]
  BY <1>1 DEF syncWrite
<1>11. FilesHold'
  BY <1>5, <1>6, <1>9, <1>10 DEF FilesHold
<1>12. Len(dat'.recs) = Len(recs) + 1
  BY <1>2, <1>6, AppendNeedle
<1>13. MapInRange'
  <2>1. \A j \in Keys : nm[j].off \in Nat /\ nm[j].off <= Len(recs)
    BY <1>1, <1>3 DEF Parts, MapInRange, Maps
  <2>2. \A j \in Keys : nm'[j].off <= Len(recs) + 1
    BY <1>2, <1>3, <1>5, <2>1 DEF Maps
  <2> QED BY <1>12, <2>2 DEF MapInRange
<1>14. MapOfFiles'
  <2>1. ASSUME faults = {} PROVE nm' = doLoading(Append(ix, e))
    <3>1. nm = doLoading(ix)
      BY <1>1, <1>3, <2>1 DEF Parts, MapOfFiles
    <3>2. /\ \A j \in Keys : j # k => doLoading(Append(ix, e))[j] = doLoading(ix)[j]
          /\ doLoading(Append(ix, e))[k] = Loaded(doLoading(ix)[k], e)
      BY <1>2, <1>7, LoadAppend
    <3>3. Live(e)
      BY <1>1, <1>2 DEF Live, SizeOf
    <3>4. doLoading(Append(ix, e))[k] = [off |-> Len(recs) + 1, size |-> SizeOf(v)]
      BY <1>1, <3>2, <3>3 DEF Loaded
    <3>5. doLoading(Append(ix, e)) \in Maps
      <4>1. Append(ix, e) \in Seq(IndexEntry)
        BY <1>2, <1>7
      <4> QED BY <4>1, LoadedType
    <3> QED BY <1>3, <1>5, <3>1, <3>2, <3>4, <3>5 DEF Maps
  <2> QED BY <1>5, <2>1 DEF MapOfFiles, syncWrite
<1>15. UNCHANGED <<cpd, cpx, state, tmpNm, lastCompact, compaction, driver, faults>>
  BY DEF syncWrite
<1>16. Len(dat'.recs) = Len(dat.recs) + 1 /\ idx' = Append(idx, e) /\ acked' = [acked EXCEPT ![k] = v]
  BY <1>1, <1>5, <1>10, <1>12
<1> QED BY <1>3, <1>7, <1>11, <1>13, <1>14, <1>15, <1>16, PartsEntry

\* A deletion that is taken.
LEMMA PartsDelete ==
    ASSUME TypeInv, Phases, Parts, NEW k \in Keys, syncDelete(k)
    PROVE  Parts'
<1>1. PICK recs, ix, a, e : /\ recs = dat.recs /\ ix = idx /\ a = acked
                            /\ e = [k |-> k, off |-> Len(recs) + 1, size |-> "tombstone"]
  OBVIOUS
<1>2. /\ recs \in Seq(Needle) /\ ix \in Seq(IndexEntry) /\ a \in [Keys -> Content \cup {Missing}]
      /\ Len(recs) \in Nat
  BY <1>1, Lengths DEF TypeInv, FileTypes, DriverTypes
<1>3. state = "up" /\ nm \in Maps
  BY DEF syncDelete, Served, TypeInv, MapTypes
<1>4. nm' = [nm EXCEPT ![k].size = "tombstone"] /\ idx' = Append(ix, e)
  BY <1>1 DEF syncDelete
<1>5. Empty \in Content
  BY DEF Content
<1>6. dat'.recs = Append(recs, [k |-> k, v |-> Empty]) /\ [k |-> k, v |-> Empty] \in Needle
  BY <1>1, <1>5, DatGrows DEF syncDelete
<1>7. e \in IndexEntry /\ e.k = k
  BY <1>1, <1>2 DEF IndexEntry, Sizes
<1>8. Good(recs, ix, a)
  BY <1>1, <1>3 DEF Parts, FilesHold
<1>9. Good(Append(recs, [k |-> k, v |-> Empty]), Append(ix, e), [a EXCEPT ![k] = Missing])
  BY <1>1, <1>2, <1>8, GoodDelete
<1>10. acked' = [a EXCEPT ![k] = Missing]
  BY <1>1 DEF syncDelete
<1>11. FilesHold'
  BY <1>4, <1>6, <1>9, <1>10 DEF FilesHold
<1>12. Len(dat'.recs) = Len(recs) + 1
  BY <1>2, <1>6, AppendNeedle
<1>13. MapInRange'
  <2>1. \A j \in Keys : nm[j].off \in Nat /\ nm[j].off <= Len(recs)
    BY <1>1, <1>3 DEF Parts, MapInRange, Maps
  <2>2. \A j \in Keys : nm'[j].off = nm[j].off
    BY <1>3, <1>4 DEF Maps
  <2>3. \A j \in Keys : nm'[j].off <= Len(recs) + 1
    BY <1>2, <2>1, <2>2
  <2> QED BY <1>12, <2>3 DEF MapInRange
<1>14. MapOfFiles'
  <2>1. ASSUME faults = {} PROVE nm' = doLoading(Append(ix, e))
    <3>1. nm = doLoading(ix)
      BY <1>1, <1>3, <2>1 DEF Parts, MapOfFiles
    <3>2. /\ \A j \in Keys : j # k => doLoading(Append(ix, e))[j] = doLoading(ix)[j]
          /\ doLoading(Append(ix, e))[k] = Loaded(doLoading(ix)[k], e)
      BY <1>2, <1>7, LoadAppend
    <3>3. ~Live(e)
      BY <1>1 DEF Live
    <3>4. doLoading(Append(ix, e))[k] = [doLoading(ix)[k] EXCEPT !.size = "tombstone"]
      BY <3>2, <3>3 DEF Loaded
    <3>5. doLoading(Append(ix, e)) \in Maps
      <4>1. Append(ix, e) \in Seq(IndexEntry)
        BY <1>2, <1>7
      <4> QED BY <4>1, LoadedType
    <3> QED BY <1>3, <1>4, <3>1, <3>2, <3>4, <3>5 DEF Maps
  <2> QED BY <1>4, <2>1 DEF MapOfFiles, syncDelete
<1>15. UNCHANGED <<cpd, cpx, state, tmpNm, lastCompact, compaction, driver, faults>>
  BY DEF syncDelete
<1>16. Len(dat'.recs) = Len(dat.recs) + 1 /\ idx' = Append(idx, e) /\ acked' = [acked EXCEPT ![k] = Missing]
  BY <1>1, <1>4, <1>10, <1>12
<1> QED BY <1>3, <1>7, <1>11, <1>13, <1>14, <1>15, <1>16, PartsEntry

\* A write that finds its content there already changes nothing, as long as it asks
\* the map of the files.
LEMMA PartsUnchanged ==
    ASSUME TypeInv, Parts, NEW k \in Keys, NEW v \in Content, WriteUnchanged(k, v),
           faults' \subseteq {"wrongmap"}
    PROVE  Parts'
<1>1. PICK e : e = nm[k]
  OBVIOUS
<1>2. state = "up" /\ nm \in Maps
  BY DEF WriteUnchanged, Served, TypeInv, MapTypes
<1>3. nm = doLoading(idx) /\ faults' = faults
  BY DEF WriteUnchanged
<1>4. e.size = "data" /\ dat.recs[e.off] = [k |-> k, v |-> v]
  BY <1>1 DEF WriteUnchanged, isFileUnchanged
<1>5. Good(dat.recs, idx, acked)
  BY <1>2 DEF Parts, FilesHold
<1>6. Holds(dat.recs, idx, k, acked[k])
  BY <1>5 DEF Good
<1>7. dat.recs[e.off] = [k |-> k, v |-> acked[k]]
  BY <1>1, <1>3, <1>4, <1>6 DEF Holds
<1>8. acked[k] = v
  <2>1. [k |-> k, v |-> v].v = [k |-> k, v |-> acked[k]].v
    BY <1>4, <1>7
  <2> QED BY <2>1
<1>9. acked' = acked
  BY <1>8 DEF WriteUnchanged, TypeInv, DriverTypes
<1>10. UNCHANGED <<dat, idx, cpd, cpx, state, nm, tmpNm, lastCompact, compaction, driver>>
  BY DEF WriteUnchanged, files, memory
<1>11. Ready' => Ready
  BY <1>10 DEF Ready, Compacting
<1> QED BY <1>3, <1>9, <1>10, <1>11, PartsFrame

\* The server is killed when no rename is going on.
LEMMA PartsKilled ==
    ASSUME TypeInv, Parts, Killed, state # "half", UNCHANGED <<idx, acked>>,
           \/ dat' = dat
           \/ \E k \in Keys, v \in Content : dat' = [dat EXCEPT !.recs = Append1(@, k, v)]
    PROVE  Parts'
<1>1. Good(dat.recs, idx, acked)
  BY DEF Parts, FilesHold
<1>2. Good(dat.recs, idx, acked)'
  <2>1. CASE dat' = dat
    BY <1>1, <2>1
  <2>2. ASSUME NEW k \in Keys, NEW v \in Content, dat' = [dat EXCEPT !.recs = Append1(@, k, v)]
        PROVE  Good(dat.recs, idx, acked)'
    <3>1. PICK r : r = [k |-> k, v |-> v]
      OBVIOUS
    <3>2. dat'.recs = Append(dat.recs, r) /\ r \in Needle
      BY <2>2, <3>1, DatGrows
    <3>3. PICK recs, ix, a : recs = dat.recs /\ ix = idx /\ a = acked
      OBVIOUS
    <3>4. recs \in Seq(Needle) /\ ix \in Seq(IndexEntry)
      BY <3>3 DEF TypeInv, FileTypes
    <3>5. Good(Append(recs, r), ix, a)
      BY <1>1, <3>2, <3>3, <3>4, GoodOrphan
    <3> QED BY <3>2, <3>3, <3>5
  <2> QED BY <2>1, <2>2
<1>3. FilesHold' /\ MapInRange' /\ MapOfFiles'
  BY <1>2 DEF FilesHold, MapInRange, MapOfFiles, Killed
<1>4. ~Compacting'
  BY DEF Killed, Compacting
<1> QED BY <1>3, <1>4, PartsAtRest DEF Killed

\* The volume is loaded again: the map is that of .idx.
LEMMA PartsRestart ==
    ASSUME TypeInv, Phases, Parts, Restart
    PROVE  Parts'
<1>1. PICK recs, ix : recs = dat.recs /\ ix = idx
  OBVIOUS
<1>2. /\ UNCHANGED <<dat, idx, cpd, cpx, acked, compaction, driver, faults>>
      /\ state = "down" /\ state' = "up" /\ nm' = doLoading(idx)
      /\ lastCompact' = [off |-> 0, rev |-> 0]
  BY DEF Restart, files
<1>3. Good(recs, ix, acked)
  BY <1>1, <1>2 DEF Parts, FilesHold
<1>4. ix \in Seq(IndexEntry) /\ Len(recs) \in Nat
  BY <1>1, Lengths DEF TypeInv, FileTypes
<1>5. \A k \in Keys : doLoading(ix)[k].off <= Len(recs)
  BY <1>3, <1>4, LoadedBound DEF Good, Placed
<1>6. FilesHold' /\ MapInRange' /\ MapOfFiles'
  BY <1>1, <1>2, <1>3, <1>5 DEF FilesHold, MapInRange, MapOfFiles
<1>7. ~Compacting /\ ~Compacting'
  BY <1>2 DEF Phases, Compacting
<1>8. ~Ready'
  BY <1>2 DEF Ready
<1> QED BY <1>2, <1>6, <1>7, <1>8 DEF Parts, GarbageToDrop, CopiesMade, CopiesReady, CopiesComplete,
        HalfRenamed, Compacting

\* A compaction begins: some entry of .idx is no longer alive.
LEMMA PartsCompact ==
    ASSUME TypeInv, Parts, NEW d \in Drivers, CompactVolume(d)
    PROVE  Parts'
<1>1. /\ UNCHANGED <<dat, idx, cpx, state, nm, tmpNm, acked, faults>>
      /\ state = "up" /\ nm \in Maps
  BY DEF CompactVolume, Served, TypeInv, MapTypes
<1>2. CASE Compacting
  <2>1. UNCHANGED <<cpd, lastCompact, compaction>>
    BY <1>2 DEF CompactVolume
  <2>2. ~Ready'
    BY <1>2, <2>1 DEF Ready, Compacting
  <2> QED BY <1>1, <2>1, <2>2, PartsFrame
<1>3. CASE ~Compacting
  <2>1. compaction' = [pc |-> "copy", by |-> d]
    BY <1>3 DEF CompactVolume
  <2>2. compaction'.pc = "copy"
    BY <2>1
  <2>3. FilesHold' /\ MapInRange' /\ MapOfFiles'
    BY <1>1 DEF Parts, FilesHold, MapInRange, MapOfFiles
  <2>4. GarbageToDrop'
    <3>1. ASSUME faults = {} PROVE Cardinality(LiveKeys(doLoading(idx))) < Len(idx)
      <4>1. nm = doLoading(idx)
        BY <1>1, <3>1 DEF Parts, MapOfFiles
      <4>2. \A k \in Keys : nm[k].size # "tombstone" => nm[k].off # 0
        BY <4>1, LoadedType DEF TypeInv, FileTypes
      <4>3. {k \in Keys : nm[k].size # "tombstone"} = LiveKeys(nm)
        BY <4>2 DEF LiveKeys
      <4> QED BY <4>1, <4>3 DEF CompactVolume, garbageLevel
    <3>2. PICK ix : ix = idx
      OBVIOUS
    <3>3. faults = {} => Cardinality(LiveKeys(doLoading(ix))) < Len(ix)
      BY <3>1, <3>2
    <3>4. ix = idx'
      BY <1>1, <3>2
    <3> QED BY <1>1, <3>3, <3>4 DEF GarbageToDrop
  <2> QED BY <1>1, <2>2, <2>3, <2>4
          DEF Parts, CopiesMade, CopiesReady, CopiesComplete, HalfRenamed, Ready, Compacting
<1> QED BY <1>2, <1>3

\* The live needles are copied: the copies hold what the files hold, and would not
\* pass for the needles of the old .idx.
LEMMA PartsCopy ==
    ASSUME TypeInv, Phases, Parts, CopyNeedles
    PROVE  Parts'
<1>1. PICK recs, ix, a, c : /\ recs = dat.recs /\ ix = idx /\ a = acked
                            /\ c = NeedlesOf(recs, doLoading(ix))
  OBVIOUS
<1>2. /\ recs \in Seq(Needle) /\ ix \in Seq(IndexEntry)
  BY <1>1 DEF TypeInv, FileTypes
<1>3. /\ UNCHANGED <<dat, idx, cpx, state, nm, tmpNm, lastCompact, driver, acked, faults>>
      /\ compaction.pc = "copy" /\ (cpd = NoFile => cpd' = NoFile)
  BY DEF CopyNeedles, memory
<1>4. /\ compaction'.pc = "index" /\ compaction'.ix = CopiedIndex(c)
      /\ cpd # NoFile => cpd'.recs = c
  BY <1>1, CopyType
<1>5. state = "up"
  BY <1>3 DEF Phases, Compacting
<1>6. Good(recs, ix, a)
  BY <1>1, <1>5 DEF Parts, FilesHold
<1>7. Good(c, CopiedIndex(c), a) /\ Len(c) <= Len(recs)
  BY <1>1, <1>2, <1>6, GoodCopies
<1>8. ASSUME cpd # NoFile, faults = {}, DiffIsEmpty, ix[Len(ix)].off # 0
      PROVE  ~CheckVolumeDataIntegrity(c, ix)
  <2>1. Cardinality(LiveKeys(doLoading(ix))) < Len(ix)
    BY <1>1, <1>3, <1>8 DEF Parts, GarbageToDrop
  <2>2. Len(ix) > 0
    BY <1>1, <1>8 DEF Phases
  <2> QED BY <1>1, <1>2, <1>6, <1>8, <2>1, <2>2, CopiesDetected
<1>9. CopiesMade'
  <2>1. ASSUME cpd # NoFile PROVE Copies(c, CopiedIndex(c))'
    <3>1. Placed(c, CopiedIndex(c)) /\ Len(c) <= Len(dat'.recs)
      BY <1>1, <1>3, <1>7 DEF Good
    <3>2. \A k \in Keys : Holds(c, CopiedIndex(c), k, acked'[k])
      BY <1>1, <1>3, <1>7 DEF Good
    <3>3. faults' = {} => Detectable(c)'
      BY <1>1, <1>3, <1>8, <2>1 DEF Detectable, DiffIsEmpty
    <3> QED BY <3>1, <3>2, <3>3 DEF Copies
  <2>2. ASSUME cpd' # NoFile PROVE Copies(cpd.recs, compaction.ix)'
    <3>1. Copies(c, CopiedIndex(c))'
      BY <1>3, <2>1, <2>2
    <3>2. cpd'.recs = c /\ compaction'.ix = CopiedIndex(c)
      BY <1>3, <1>4, <2>2
    <3> QED BY <3>1, <3>2 DEF Copies, Detectable
  <2> QED BY <2>2 DEF CopiesMade
<1>10. FilesHold' /\ MapInRange' /\ MapOfFiles'
  BY <1>3 DEF Parts, FilesHold, MapInRange, MapOfFiles
<1> QED BY <1>3, <1>4, <1>5, <1>9, <1>10
        DEF Parts, GarbageToDrop, CopiesReady, CopiesComplete, HalfRenamed, Ready, Compacting

\* The index of the copies is saved, and they may be committed.
LEMMA PartsSave ==
    ASSUME TypeInv, Phases, Parts, SaveToIdx
    PROVE  Parts'
<1>1. /\ UNCHANGED <<dat, idx, cpd, state, nm, lastCompact, acked, faults>>
      /\ compaction.pc = "index" /\ cpx' = compaction.ix /\ tmpNm' = doLoading(compaction.ix)
      /\ compaction' = [pc |-> "idle", by |-> NoDriver]
  BY DEF SaveToIdx, CompactionEnds
<1>2. state = "up"
  BY <1>1 DEF Phases, Compacting
<1>3. FilesHold' /\ MapInRange' /\ MapOfFiles'
  BY <1>1 DEF Parts, FilesHold, MapInRange, MapOfFiles
<1>4. CopiesReady'
  <2>1. ASSUME cpd # NoFile PROVE cpx' # NoFile /\ Copies(cpd.recs, cpx)' /\ MapOfCopies'
    <3>1. Copies(cpd.recs, compaction.ix)
      BY <1>1, <2>1 DEF Parts, CopiesMade
    <3>2. Copies(cpd.recs, cpx)'
      BY <1>1, <3>1 DEF Copies, Detectable, DiffIsEmpty, Changed
    <3>3. cpx' # NoFile
      BY <1>1, CompactionIs, Absent
    <3>4. MapOfCopies'
      BY <1>1 DEF MapOfCopies
    <3> QED BY <3>2, <3>3, <3>4
  <2> QED BY <1>1, <2>1 DEF CopiesReady, Ready
<1>5. compaction'.pc = "idle"
  BY <1>1
<1> QED BY <1>1, <1>2, <1>3, <1>4, <1>5 DEF Parts, GarbageToDrop, CopiesMade, CopiesComplete, HalfRenamed

\* A compaction that fails leaves copies that nobody commits, or clobbers those of
\* an earlier one.
LEMMA PartsCompactFails ==
    ASSUME TypeInv, Parts, CompactFails, faults' \subseteq {"wrongmap"}
    PROVE  Parts'
<1>1. UNCHANGED <<dat, idx, cpd, cpx, state, nm, tmpNm, lastCompact, acked>>
  BY DEF CompactFails, files, memory
<1>2. /\ faults' = faults
      /\ ~ \E d \in Drivers : driver[d] = "commit"
  BY DEF CompactFails
<1>3. compaction'.pc = "idle"
  BY DEF CompactFails, CompactionEnds
<1>4. ~ \E d \in Drivers : driver'[d] = "commit"
  <2>1. driver' = driver \/ driver' = [driver EXCEPT ![compaction.by] = AfterFailure(compaction.by)]
    BY DEF CompactFails, CompactionEnds
  <2>2. AfterFailure(compaction.by) # "commit"
    BY DEF AfterFailure
  <2>3. driver \in [Drivers -> Calls]
    BY DEF TypeInv, DriverTypes, Calls
  <2> QED BY <1>2, <2>1, <2>2, <2>3
<1>5. ~Ready'
  BY <1>4 DEF Ready
<1> QED BY <1>1, <1>2, <1>3, <1>5, PartsFrame

\* Steps of a driver alone: it stops waiting, finds the server down, or commits
\* while another compaction goes on.
LEMMA PartsDriver ==
    ASSUME TypeInv, Parts, NEW d \in Drivers, CompactTimesOut(d) \/ CallFails(d) \/ CommitSkipped(d)
    PROVE  Parts'
<1>1. UNCHANGED <<dat, idx, cpd, cpx, state, nm, tmpNm, lastCompact, acked, faults>>
  BY DEF CompactTimesOut, CallFails, CommitSkipped, files, memory
<1>2. PICK next : driver' = [driver EXCEPT ![d] = next] /\ next # "commit"
  BY AfterCalls DEF CompactTimesOut, CallFails, CommitSkipped
<1>3. compaction' = compaction \/ compaction' = [compaction EXCEPT !.by = NoDriver]
  BY DEF CompactTimesOut, CallFails, CommitSkipped
<1>4. /\ compaction'.pc = compaction.pc
      /\ compaction.pc = "index" => compaction'.ix = compaction.ix
  BY <1>3, CompactionIs
<1>5. \A b \in Drivers : driver'[b] = "commit" => driver[b] = "commit"
  <2>1. driver \in [Drivers -> Calls]
    BY DEF TypeInv, DriverTypes, Calls
  <2> QED BY <1>2, <2>1
<1>6. Ready' => Ready
  BY <1>1, <1>4, <1>5 DEF Ready, Compacting
<1> QED BY <1>1, <1>4, <1>6, PartsFrame

\* The copies are removed, whatever goes on.
LEMMA PartsCleanup ==
    ASSUME Parts, NEW d \in Drivers, cleanupCompact(d)
    PROVE  Parts'
<1>1. /\ UNCHANGED <<dat, idx, state, nm, lastCompact, acked, faults>>
      /\ cpd' = NoFile /\ cpx' = NoFile
  BY DEF cleanupCompact, memory
<1>2. FilesHold' /\ MapInRange' /\ MapOfFiles'
  BY <1>1 DEF Parts, FilesHold, MapInRange, MapOfFiles
<1>3. HalfRenamed'
  BY <1>1 DEF Parts, HalfRenamed, Detectable, DiffIsEmpty
<1> QED BY <1>1, <1>2, <1>3 DEF Parts, GarbageToDrop, CopiesMade, CopiesReady, CopiesComplete, Ready

\* What a driver may commit: with the copies of this process, or none, or with
\* copies that are older than the process.
LEMMA CommitIsReady ==
    ASSUME Parts, NEW d \in Drivers, CanCommit(d), cpd # NoFile, lastCompact.off > 0
    PROVE  cpx # NoFile /\ Copies(cpd.recs, cpx) /\ MapOfCopies
BY DEF Parts, CopiesReady, Ready, CanCommit

\* A commit with nothing to make up: no key has changed.
LEMMA PartsEmptyDiff ==
    ASSUME TypeInv, Phases, Parts, NEW d \in Drivers, CommitEmptyDiff(d)
    PROVE  Parts'
<1>1. /\ UNCHANGED <<dat, idx, cpd, cpx, tmpNm, lastCompact, compaction, acked, faults>>
      /\ state' = "diffed" /\ CanCommit(d) /\ DiffIsEmpty
  BY DEF CommitEmptyDiff, files
<1>2. FilesHold' /\ MapInRange' /\ MapOfFiles'
  BY <1>1 DEF Parts, FilesHold, MapInRange, MapOfFiles, CanCommit
<1>3. CopiesComplete'
  <2>1. ASSUME cpd # NoFile
        PROVE  cpx # NoFile /\ Good(cpd.recs, cpx, acked) /\ MapOfCopies
               /\ (faults = {} => Detectable(cpd.recs))
    <3>1. lastCompact.off > 0
      BY <1>1, <2>1, Lengths DEF Phases, DiffIsEmpty
    <3>2. cpx # NoFile /\ Copies(cpd.recs, cpx) /\ MapOfCopies
      BY <1>1, <2>1, <3>1, CommitIsReady
    <3>3. Changed = {}
      <4>1. \A i \in DOMAIN idx : ~(lastCompact.off < i)
        BY <1>1, Lengths, EntriesType DEF DiffIsEmpty, TypeInv, FileTypes
      <4> QED BY <4>1 DEF Changed
    <3> QED BY <3>2, <3>3 DEF Copies, Good
  <2> QED BY <1>1, <2>1 DEF CopiesComplete, MapOfCopies, Detectable, DiffIsEmpty
<1>4. compaction'.pc = "idle"
  BY <1>1 DEF CanCommit, Compacting
<1> QED BY <1>1, <1>2, <1>3, <1>4 DEF Parts, GarbageToDrop, CopiesMade, CopiesReady, HalfRenamed, Ready

\* A commit that makes up what has changed: the copies then hold everything.
LEMMA PartsDiff ==
    ASSUME TypeInv, Phases, Parts, NEW d \in Drivers, NEW order \in Orders, CommitDiff(d, order),
           faults' \subseteq {"wrongmap"}
    PROVE  Parts'
<1>1. /\ UNCHANGED <<dat, idx, lastCompact, compaction, acked>>
      /\ state' = "diffed" /\ CanCommit(d) /\ ~DiffIsEmpty /\ cpd # NoFile /\ tmpNm # NoMap
  BY DEF CommitDiff, DiffRefuses
<1>2. /\ faults' = faults
      /\ \A k \in Changed : LastEntry(k).size # "zero"
  BY DEF CommitDiff
<1>3. PICK E : E = [k \in Changed |-> LastEntry(k)]
  OBVIOUS
<1>4. DiffDone(order, E)
  BY <1>3, DiffStep
<1>5. PICK recs, ix, a, c, cx, ch, tm : /\ recs = dat.recs /\ ix = idx /\ a = acked
                                        /\ c = cpd.recs /\ cx = cpx /\ ch = Changed /\ tm = tmpNm
  OBVIOUS
<1>6. /\ recs \in Seq(Needle) /\ ix \in Seq(IndexEntry)
      /\ c \in Seq(Needle) /\ cx \in Seq(IndexEntry) /\ tm \in Maps
      /\ ch \in SUBSET Keys /\ E \in [ch -> IndexEntry] /\ \A k \in ch : E[k] = LastEntry(k)
      /\ Diff(recs, Len(c), ch, E, order) /\ Decide(ix, ch, E)
  BY <1>4, <1>5 DEF DiffDone, TypeInv, FileTypes
<1>7. lastCompact.off > 0
  BY <1>1 DEF Phases
<1>8. cpx # NoFile /\ Copies(cpd.recs, cpx) /\ MapOfCopies
  BY <1>1, <1>7, CommitIsReady
<1>9. Good(recs, ix, a)
  BY <1>1, <1>5 DEF Parts, FilesHold, CanCommit
<1>10. Placed(c, cx) /\ \A k \in Keys \ ch : Holds(c, cx, k, a[k])
  BY <1>5, <1>8 DEF Copies
<1>11. Lists(order, ch)
  BY <1>6 DEF Diff
<1>12. \A k \in ch : E[k].size # "zero"
  BY <1>2, <1>5, <1>6
<1>13. Good(c \o DiffNeedles(recs, E, order), cx \o DiffEntries(Len(c), E, order), a)
  BY <1>6, <1>9, <1>10, <1>11, <1>12, GoodDiff
<1>14. /\ cpd' = [cpd EXCEPT !.recs = c \o DiffNeedles(recs, E, order)]
       /\ cpx' = cx \o DiffEntries(Len(c), E, order)
       /\ tmpNm' = [k \in Keys |-> DiffEntry(tm, Len(c), ch, E, order, k)]
  BY <1>4, <1>5 DEF DiffDone
<1>15. cpd'.recs = c \o DiffNeedles(recs, E, order)
  BY <1>1, <1>14, Lengths
<1>16. Good(cpd.recs, cpx, acked)'
  BY <1>1, <1>5, <1>13, <1>14, <1>15
<1>17. PICK jx : jx = cx \o DiffEntries(Len(c), E, order)
  OBVIOUS
<1>18. tmpNm' = doLoading(jx)
  <2>1. tm = doLoading(cx)
    BY <1>1, <1>5, <1>8 DEF MapOfCopies
  <2>2. \A k \in Keys : doLoading(jx)[k] = DiffEntry(tm, Len(c), ch, E, order, k)
    BY <1>6, <1>17, <2>1, DiffLoads
  <2>3. jx \in Seq(IndexEntry)
    BY <1>4, <1>14, <1>17, DiffDoneType
  <2>4. doLoading(jx) \in Maps
    BY <2>3, LoadedType
  <2> QED BY <1>14, <2>2, <2>4 DEF Maps
<1>19. cpx' # NoFile /\ MapOfCopies'
  <2>1. cpx' \in Seq(IndexEntry)
    BY <1>4, DiffDoneType
  <2> QED BY <1>14, <1>17, <1>18, <2>1, Absent DEF MapOfCopies
<1>20. CopiesComplete'
  BY <1>1, <1>16, <1>19 DEF CopiesComplete, Detectable, DiffIsEmpty
<1>21. FilesHold' /\ MapInRange' /\ MapOfFiles'
  BY <1>1 DEF Parts, FilesHold, MapInRange, MapOfFiles, CanCommit
<1>22. compaction'.pc = "idle"
  BY <1>1 DEF CanCommit, Compacting
<1> QED BY <1>1, <1>20, <1>21, <1>22 DEF Parts, GarbageToDrop, CopiesMade, CopiesReady, HalfRenamed, Ready

\* A commit that gives up: the files are as they were, and the temporary map, if it
\* becomes the needle map, names no needle past their end.
LEMMA PartsAbandoned ==
    ASSUME TypeInv, Phases, Parts, NEW d \in Drivers, CommitAbandoned(d)
    PROVE  Parts'
<1>1. /\ UNCHANGED <<dat, idx, lastCompact, compaction, acked>>
      /\ CanCommit(d) /\ cpd' = NoFile
  BY DEF CommitAbandoned
<1>2. ~Compacting' /\ state \in {"up", "closed"}
  BY <1>1 DEF CanCommit, Compacting
<1>3. Good(dat.recs, idx, acked)
  BY <1>2 DEF Parts, FilesHold
<1>4. FilesHold'
  BY <1>1, <1>3 DEF FilesHold
<1>5. CASE cpd = NoFile \/ cpx = NoFile
  <2>1. state' = "closed"
    BY <1>5 DEF CommitAbandoned
  <2>2. MapInRange' /\ MapOfFiles'
    BY <2>1 DEF MapInRange, MapOfFiles
  <2> QED BY <1>1, <1>2, <1>4, <2>1, <2>2, PartsAtRest
<1>6. CASE ~(cpd = NoFile \/ cpx = NoFile)
  <2>1. Load(dat.recs, idx) /\ faults' = IF tmpNm = NoMap THEN faults ELSE faults \cup {"wrongmap"}
    BY <1>6 DEF CommitAbandoned
  <2>2. /\ state' = "up" /\ nm' \in {doLoading(idx), tmpNm}
        /\ tmpNm = NoMap => nm' = doLoading(idx)
    BY <2>1 DEF Load
  <2>3. PICK recs, ix, cx : recs = dat.recs /\ ix = idx /\ cx = cpx
    OBVIOUS
  <2>4. recs \in Seq(Needle) /\ Len(recs) \in Nat /\ ix \in Seq(IndexEntry) /\ cx \in Seq(IndexEntry)
    BY <1>6, <2>3, Lengths DEF TypeInv, FileTypes
  <2>5. \A k \in Keys : doLoading(ix)[k].off <= Len(recs)
    BY <1>3, <2>3, <2>4, LoadedBound DEF Good, Placed
  <2>6. ASSUME tmpNm # NoMap PROVE \A k \in Keys : tmpNm[k].off <= Len(recs)
    <3>1. lastCompact.off > 0
      BY <2>6 DEF Phases
    <3>2. Copies(cpd.recs, cpx) /\ MapOfCopies
      BY <1>1, <1>6, <3>1, CommitIsReady
    <3>3. \A i \in DOMAIN cx : cx[i].off <= Len(recs)
      <4>1. \A i \in DOMAIN cx : cx[i].off \in Nat
        BY <2>4, EntriesType
      <4>2. \A i \in DOMAIN cx : cx[i].off <= Len(cpd.recs)
        BY <2>3, <3>2 DEF Copies, Placed
      <4>3. Len(cpd.recs) <= Len(recs) /\ Len(cpd.recs) \in Nat
        BY <1>6, <2>3, <3>2, Lengths DEF Copies
      <4> QED BY <2>4, <4>1, <4>2, <4>3
    <3>4. \A k \in Keys : doLoading(cx)[k].off <= Len(recs)
      BY <2>4, <3>3, LoadedBound
    <3> QED BY <2>3, <2>6, <3>2, <3>4 DEF MapOfCopies
  <2>7. MapInRange'
    BY <1>1, <2>2, <2>3, <2>5, <2>6 DEF MapInRange
  <2>8. MapOfFiles'
    BY <1>1, <2>1, <2>2 DEF MapOfFiles
  <2> QED BY <1>1, <1>2, <1>4, <2>2, <2>7, <2>8, PartsAtRest
<1> QED BY <1>5, <1>6

\* The copy of .dat becomes the .dat.
LEMMA PartsRenameDat ==
    ASSUME TypeInv, Phases, Parts, RenameDat
    PROVE  Parts'
<1>1. state = "diffed" /\ UNCHANGED <<idx, cpx, tmpNm, lastCompact, compaction, acked, faults>>
  BY DEF RenameDat, CommitFails, files
<1>2. ~Compacting'
  BY <1>1 DEF Phases, Compacting
<1>3. CASE cpd = NoFile
  <2>1. state' = "closed" /\ dat' = dat /\ cpd' = NoFile
    BY <1>3 DEF RenameDat, CommitFails, files
  <2>2. FilesHold' /\ MapInRange' /\ MapOfFiles'
    BY <1>1, <2>1 DEF Parts, FilesHold, MapInRange, MapOfFiles
  <2> QED BY <1>2, <2>1, <2>2, PartsAtRest
<1>4. CASE cpd # NoFile
  <2>1. state' = "half" /\ dat' = cpd /\ cpd' = NoFile
    BY <1>4 DEF RenameDat
  <2>2. /\ Good(cpd.recs, cpx, acked) /\ MapOfCopies
        /\ faults = {} => Detectable(cpd.recs)
    BY <1>1, <1>4 DEF Parts, CopiesComplete
  <2>3. HalfRenamed'
    BY <1>1, <2>1, <2>2 DEF HalfRenamed, MapOfCopies, Detectable, DiffIsEmpty
  <2> QED BY <1>2, <2>1, <2>3 DEF Parts, FilesHold, MapInRange, MapOfFiles, GarbageToDrop, CopiesMade,
             CopiesReady, CopiesComplete, Ready
<1> QED BY <1>3, <1>4

\* The copy of .idx becomes the .idx, and the volume is loaded.
LEMMA PartsRenameIdx ==
    ASSUME TypeInv, Phases, Parts, RenameIdx, faults' \subseteq {"wrongmap"}
    PROVE  Parts'
<1>1. state = "half" /\ UNCHANGED <<lastCompact, compaction, acked>>
  BY DEF RenameIdx
<1>2. cpx # NoFile
  <2>1. cpx = NoFile => Torn \in faults'
    BY DEF RenameIdx
  <2>2. Torn \in {"torn", "torn, unseen"}
    BY DEF Torn
  <2> QED BY <2>1, <2>2
<1>3. /\ idx' = cpx /\ UNCHANGED <<dat, cpd, faults>>
      /\ Load(dat.recs, cpx)
  BY <1>2 DEF RenameIdx
<1>4. Good(dat.recs, cpx, acked) /\ MapOfCopies
  BY <1>1, <1>2 DEF Parts, HalfRenamed
<1>5. state' = "up" /\ nm' = doLoading(cpx)
  BY <1>3, <1>4 DEF Load, MapOfCopies
<1>6. ~Compacting' /\ cpd' = NoFile
  BY <1>1, <1>3 DEF Phases, Compacting
<1>7. FilesHold' /\ MapOfFiles'
  BY <1>1, <1>3, <1>4, <1>5 DEF FilesHold, MapOfFiles
<1>8. MapInRange'
  <2>1. PICK recs, cx : recs = dat.recs /\ cx = cpx
    OBVIOUS
  <2>2. cx \in Seq(IndexEntry) /\ Len(recs) \in Nat
    BY <1>2, <2>1, Lengths
  <2>3. \A k \in Keys : doLoading(cx)[k].off <= Len(recs)
    BY <1>4, <2>1, <2>2, LoadedBound DEF Good, Placed
  <2> QED BY <1>3, <1>5, <2>1, <2>3 DEF MapInRange
<1> QED BY <1>5, <1>6, <1>7, <1>8, PartsAtRest

\* Nothing is there yet.
LEMMA SoundInit == Init => Sound /\ TornStays
<1> SUFFICES ASSUME Init PROVE Sound /\ TornStays
  OBVIOUS
<1>1. idx = <<>> /\ idx \in Seq(IndexEntry) /\ Len(idx) = 0 /\ DOMAIN idx = {}
  BY EmptySeq DEF Init
<1>2. doLoading(idx) = [k \in Keys |-> NoEntry]
  <2>1. \A k \in Keys : doLoading(idx)[k] = NoEntry
    <3> TAKE k \in Keys
    <3>1. PICK ix : ix = idx
      OBVIOUS
    <3>2. Puts(ix, k) = {}
      BY <1>1, <3>1 DEF Puts
    <3>3. Latest(Puts(ix, k)) = 0
      BY <3>2 DEF Latest
    <3> QED BY <3>1, <3>3, LoadedEntry
  <2>2. doLoading(idx) \in Maps
    BY <1>1, LoadedType
  <2> QED BY <2>1, <2>2 DEF Maps
<1>3. dat.recs = <<>> /\ Len(dat.recs) = 0
  BY DEF Init
<1>4. \A k \in Keys : Holds(dat.recs, idx, k, acked[k])
  BY <1>2 DEF Holds, NoEntry, Init
<1>5. FilesHold
  BY <1>1, <1>3, <1>4 DEF FilesHold, Good, Placed
<1>6. MapInRange /\ MapOfFiles
  BY <1>2, <1>3 DEF MapInRange, MapOfFiles, Init, NoEntry
<1>7. state = "up" /\ cpd = NoFile /\ faults = {}
  BY DEF Init
<1> QED BY <1>5, <1>6, <1>7 DEF Sound, Parts, TornStays, GarbageToDrop, CopiesMade, CopiesReady,
        CopiesComplete, HalfRenamed, Ready

\* Every step keeps what the files hold.
LEMMA SoundStep ==
    ASSUME TypeInv, Phases, Sound, [Next]_vars
    PROVE  Sound'
<1> SUFFICES ASSUME faults' \subseteq {"wrongmap"} PROVE Parts'
  BY DEF Sound
<1>1. faults \subseteq faults'
  BY FaultsGrow
<1>2. Parts
  BY <1>1 DEF Sound
<1>3. ASSUME NEW k \in Keys, NEW v \in Content, WriteUnchanged(k, v) PROVE Parts'
  BY <1>2, <1>3, PartsUnchanged
<1>4. ASSUME NEW k \in Keys, NEW v \in Content, syncWrite(k, v) PROVE Parts'
  BY <1>2, <1>4, PartsWrite
<1>5. ASSUME NEW k \in Keys, NEW v \in Content, SyncFails(k, v) PROVE Parts'
  BY <1>5 DEF SyncFails
<1>6. ASSUME NEW k \in Keys, NEW v \in Content, CrashInWrite(k, v) PROVE Parts'
  <2>1. /\ Killed /\ state = "up" /\ UNCHANGED <<idx, acked>>
        /\ dat' = [dat EXCEPT !.recs = Append1(@, k, v)]
    BY <1>6 DEF CrashInWrite, CanAppend, Served
  <2> QED BY <1>2, <2>1, PartsKilled
<1>7. ASSUME NEW k \in Keys, syncDelete(k) PROVE Parts'
  BY <1>2, <1>7, PartsDelete
<1>8. ASSUME Crash PROVE Parts'
  <2>1. /\ Killed /\ UNCHANGED <<dat, idx, acked>>
        /\ state = "half" => Torn \in faults'
    BY <1>8 DEF Crash, files
  <2>2. Torn \in {"torn", "torn, unseen"}
    BY DEF Torn
  <2>3. state # "half"
    BY <2>1, <2>2
  <2> QED BY <1>2, <2>1, <2>3, PartsKilled
<1>9. ASSUME Restart PROVE Parts'
  BY <1>2, <1>9, PartsRestart
<1>10. ASSUME CopyNeedles PROVE Parts'
  BY <1>2, <1>10, PartsCopy
<1>11. ASSUME SaveToIdx PROVE Parts'
  BY <1>2, <1>11, PartsSave
<1>12. ASSUME CompactFails PROVE Parts'
  BY <1>2, <1>12, PartsCompactFails
<1>13. ASSUME RenameDat PROVE Parts'
  BY <1>2, <1>13, PartsRenameDat
<1>14. ASSUME RenameIdx PROVE Parts'
  BY <1>2, <1>14, PartsRenameIdx
<1>15. ASSUME NEW d \in Drivers, CompactVolume(d) PROVE Parts'
  BY <1>2, <1>15, PartsCompact
<1>16. ASSUME NEW d \in Drivers, CompactTimesOut(d) \/ CallFails(d) \/ CommitSkipped(d) PROVE Parts'
  BY <1>2, <1>16, PartsDriver
<1>17. ASSUME NEW d \in Drivers, cleanupCompact(d) PROVE Parts'
  BY <1>2, <1>17, PartsCleanup
<1>18. ASSUME NEW d \in Drivers, CommitEmptyDiff(d) PROVE Parts'
  BY <1>2, <1>18, PartsEmptyDiff
<1>19. ASSUME NEW d \in Drivers, CommitPanics(d) PROVE Parts'
  <2>1. Killed /\ UNCHANGED <<dat, idx, acked>> /\ state # "half"
    BY <1>19 DEF CommitPanics, CanCommit, files
  <2> QED BY <1>2, <2>1, PartsKilled
<1>20. ASSUME NEW d \in Drivers, CommitAbandoned(d) PROVE Parts'
  BY <1>2, <1>20, PartsAbandoned
<1>21. ASSUME NEW d \in Drivers, NEW order \in Orders, CommitDiff(d, order) PROVE Parts'
  BY <1>2, <1>21, PartsDiff
<1>22. CASE UNCHANGED vars
  <2>1. UNCHANGED <<dat, idx, cpd, cpx, state, nm, tmpNm, lastCompact, acked, faults, compaction, driver>>
    BY <1>22 DEF vars, files, memory
  <2>2. Ready' => Ready
    BY <2>1 DEF Ready, Compacting
  <2> QED BY <1>2, <2>1, <2>2, PartsFrame
<1> QED BY <1>3, <1>4, <1>5, <1>6, <1>7, <1>8, <1>9, <1>10, <1>11, <1>12, <1>13, <1>14, <1>15, <1>16,
        <1>17, <1>18, <1>19, <1>20, <1>21, <1>22 DEF Next

\* Between the two renames, a volume whose second rename does not happen is found
\* damaged by the check unless .idx hides it.
LEMMA TornBegins ==
    ASSUME Phases, Sound, TornStays, state = "half", faults' = faults \cup {Torn},
           UNCHANGED <<dat, idx, cpd>>, ~Compacting', state' \in {"down", "closed"}
    PROVE  TornStays'
<1> SUFFICES ASSUME faults' = {"torn"} PROVE TornStays'
  BY DEF TornStays
<1>1. Torn = "torn" /\ faults \subseteq {"torn"}
  OBVIOUS
<1>2. faults = {}
  BY <1>1 DEF TornStays
<1>3. DiffIsEmpty /\ idx[Len(idx)].off # 0
  BY <1>1 DEF Torn
<1>4. ~CheckVolumeDataIntegrity(dat.recs, idx)
  BY <1>2, <1>3 DEF Sound, Parts, HalfRenamed, Detectable
<1>5. ~CheckVolumeDataIntegrity(dat.recs, idx)'
  BY <1>4
<1> QED BY <1>5 DEF TornStays, Phases

\* A step is torn when it stops between the two renames, and only then.
LEMMA TornOnlyThere ==
    ASSUME [Next]_vars, faults' = {"torn"}, ~(state = "half" /\ Crash), ~(RenameIdx /\ cpx = NoFile)
    PROVE  faults' = faults
<1>1. CASE UNCHANGED vars
  BY <1>1 DEF vars
<1>2. CASE Next
  <2>1. ASSUME NEW k \in Keys, NEW v \in Content,
               WriteUnchanged(k, v) \/ syncWrite(k, v) \/ SyncFails(k, v) \/ CrashInWrite(k, v)
        PROVE  faults' = faults
    BY <2>1 DEF WriteUnchanged, syncWrite, SyncFails, CrashInWrite
  <2>2. ASSUME NEW k \in Keys, syncDelete(k) PROVE faults' = faults
    BY <2>2 DEF syncDelete
  <2>3. ASSUME Crash PROVE faults' = faults
    BY <2>3 DEF Crash
  <2>4. ASSUME Restart \/ CopyNeedles \/ SaveToIdx \/ CompactFails PROVE faults' = faults
    BY <2>4 DEF Restart, CopyNeedles, SaveToIdx, CompactFails
  <2>5. ASSUME RenameDat \/ RenameIdx PROVE faults' = faults
    BY <2>5 DEF RenameDat, RenameIdx
  <2>6. ASSUME NEW d \in Drivers, CompactVolume(d) \/ CompactTimesOut(d) \/ cleanupCompact(d) \/ CallFails(d)
        PROVE  faults' = faults
    BY <2>6 DEF CompactVolume, CompactTimesOut, cleanupCompact, CallFails
  <2>7. ASSUME NEW d \in Drivers,
               CommitSkipped(d) \/ CommitEmptyDiff(d) \/ CommitPanics(d) \/ CommitAbandoned(d)
        PROVE  faults' = faults
    BY <2>7 DEF CommitSkipped, CommitEmptyDiff, CommitPanics, CommitAbandoned
  <2>8. ASSUME NEW d \in Drivers, NEW order \in Orders, CommitDiff(d, order) PROVE faults' = faults
    BY <2>8 DEF CommitDiff
  <2> QED BY <1>2, <2>1, <2>2, <2>3, <2>4, <2>5, <2>6, <2>7, <2>8 DEF Next
<1> QED BY <1>1, <1>2

\* Every step leaves a torn volume as it is.
LEMMA TornStep ==
    ASSUME TypeInv, Phases, Sound, TornStays, [Next]_vars
    PROVE  TornStays'
<1>1. CASE state = "half" /\ Crash
  <2>1. /\ faults' = faults \cup {Torn} /\ UNCHANGED <<dat, idx, cpd>> /\ ~Compacting' /\ state' = "down"
    BY <1>1 DEF Crash, Killed, files, Compacting
  <2> QED BY <1>1, <2>1, TornBegins
<1>2. CASE RenameIdx /\ cpx = NoFile
  <2>1. /\ faults' = faults \cup {Torn} /\ UNCHANGED <<dat, idx, cpd, compaction>> /\ state' = "closed"
        /\ state = "half"
    BY <1>2 DEF RenameIdx, CommitFails, files
  <2>2. ~Compacting'
    BY <2>1 DEF Phases, Compacting
  <2> QED BY <2>1, <2>2, TornBegins
<1>3. CASE ~(state = "half" /\ Crash) /\ ~(RenameIdx /\ cpx = NoFile)
  <2> SUFFICES ASSUME faults' = {"torn"} PROVE TornStays'
    BY DEF TornStays
  <2>1. faults = {"torn"}
    BY <1>3, TornOnlyThere
  <2>2. /\ cpd = NoFile /\ ~Compacting /\ state # "half"
        /\ ~CheckVolumeDataIntegrity(dat.recs, idx)
        /\ state = "up" => readonly
    BY <2>1 DEF TornStays
  <2>3. ASSUME UNCHANGED <<dat, idx>>, cpd' = NoFile, ~Compacting', state' # "half",
               state' = "up" => readonly'
        PROVE  TornStays'
    BY <2>2, <2>3 DEF TornStays
  <2>4. ASSUME UNCHANGED <<dat, idx, cpd, state, readonly>>, compaction'.pc = compaction.pc PROVE TornStays'
    BY <2>2, <2>3, <2>4 DEF Compacting
  <2>5. ASSUME Killed, UNCHANGED <<dat, idx, cpd>> PROVE TornStays'
    <3>1. ~Compacting' /\ state' = "down"
      BY <2>5 DEF Killed, Compacting
    <3> QED BY <2>2, <2>3, <2>5, <3>1
  <2>6. ASSUME NEW k \in Keys, NEW v \in Content,
               WriteUnchanged(k, v) \/ syncWrite(k, v) \/ SyncFails(k, v) \/ CrashInWrite(k, v)
        PROVE  TornStays'
    BY <2>2, <2>6 DEF WriteUnchanged, syncWrite, SyncFails, CrashInWrite, doWriteRequest, CanAppend, Served
  <2>7. ASSUME NEW k \in Keys, syncDelete(k) PROVE TornStays'
    BY <2>2, <2>7 DEF syncDelete, Served
  <2>8. ASSUME Crash PROVE TornStays'
    BY <2>5, <2>8 DEF Crash, files
  <2>9. ASSUME Restart PROVE TornStays'
    <3>1. UNCHANGED <<dat, idx, cpd, compaction>> /\ state' = "up" /\ readonly'
      BY <2>2, <2>9 DEF Restart, files
    <3>2. ~Compacting'
      BY <2>2, <3>1 DEF Compacting
    <3> QED BY <2>2, <2>3, <3>1, <3>2
  <2>10. ASSUME CopyNeedles \/ SaveToIdx \/ CompactFails PROVE TornStays'
    BY <2>2, <2>10 DEF CopyNeedles, SaveToIdx, CompactFails, Compacting
  <2>11. ASSUME RenameDat PROVE TornStays'
    <3>1. UNCHANGED <<dat, idx, cpd, compaction>> /\ state' = "closed"
      BY <2>2, <2>11 DEF RenameDat, CommitFails, files
    <3>2. ~Compacting'
      BY <2>2, <3>1 DEF Compacting
    <3> QED BY <2>2, <2>3, <3>1, <3>2
  <2>12. ASSUME RenameIdx PROVE TornStays'
    BY <2>2, <2>12 DEF RenameIdx
  <2>13. ASSUME NEW d \in Drivers, CompactVolume(d) PROVE TornStays'
    BY <2>2, <2>13 DEF CompactVolume, Served
  <2>14. ASSUME NEW d \in Drivers, CompactTimesOut(d) PROVE TornStays'
    BY <2>4, <2>14, CompactionIs DEF CompactTimesOut, files
  <2>15. ASSUME NEW d \in Drivers, cleanupCompact(d) PROVE TornStays'
    BY <2>2, <2>4, <2>15 DEF cleanupCompact
  <2>16. ASSUME NEW d \in Drivers, CallFails(d) \/ CommitSkipped(d) PROVE TornStays'
    BY <2>4, <2>16 DEF CallFails, CommitSkipped, files
  <2>17. ASSUME NEW d \in Drivers, CommitEmptyDiff(d) PROVE TornStays'
    <3>1. UNCHANGED <<dat, idx, cpd, compaction>> /\ state' = "diffed"
      BY <2>17 DEF CommitEmptyDiff, files
    <3>2. ~Compacting'
      BY <2>2, <3>1 DEF Compacting
    <3> QED BY <2>2, <2>3, <3>1, <3>2
  <2>18. ASSUME NEW d \in Drivers, CommitPanics(d) PROVE TornStays'
    BY <2>5, <2>18 DEF CommitPanics, files
  <2>19. ASSUME NEW d \in Drivers, CommitAbandoned(d) PROVE TornStays'
    <3>1. UNCHANGED <<dat, idx, compaction>> /\ cpd' = NoFile /\ state' = "closed"
      BY <2>2, <2>19 DEF CommitAbandoned
    <3>2. ~Compacting'
      BY <2>2, <3>1 DEF Compacting
    <3> QED BY <2>3, <3>1, <3>2
  <2>20. ASSUME NEW d \in Drivers, NEW order \in Orders, CommitDiff(d, order) PROVE TornStays'
    BY <2>2, <2>20 DEF CommitDiff, DiffRefuses
  <2>21. CASE UNCHANGED vars
    BY <2>4, <2>21 DEF vars, files
  <2> QED BY <2>6, <2>7, <2>8, <2>9, <2>10, <2>11, <2>12, <2>13, <2>14, <2>15, <2>16, <2>17, <2>18,
          <2>19, <2>20, <2>21 DEF Next
<1> QED BY <1>1, <1>2, <1>3

\* The inductive invariant.
VolumeInv == TypeInv /\ Phases /\ Sound /\ TornStays

\* VolumeInv holds of every behaviour.
LEMMA Invariant == Spec => []VolumeInv
<1>1. Init => VolumeInv
  BY TypeInit, PhasesInit, SoundInit DEF VolumeInv
<1>2. VolumeInv /\ [Next]_vars => VolumeInv'
  BY TypeStep, PhasesStep, SoundStep, TornStep DEF VolumeInv
<1> QED BY <1>1, <1>2, PTL DEF Spec

\* What the files hold is what a reader of them gets.
LEMMA GoodReads ==
    ASSUME TypeInv, Good(dat.recs, idx, acked)
    PROVE  \A k \in Keys : readNeedle(dat.recs, doLoading(idx), k) = acked[k]
<1> TAKE k \in Keys
<1>1. PICK recs, ix, v : recs = dat.recs /\ ix = idx /\ v = acked[k]
  OBVIOUS
<1>2. ix \in Seq(IndexEntry) /\ v \in Content \cup {Missing}
  BY <1>1 DEF TypeInv, FileTypes, DriverTypes
<1>3. Holds(recs, ix, k, v)
  BY <1>1 DEF Good
<1> QED BY <1>1, <1>2, <1>3, HoldsReads

\* For every set of keys and contents, any number of drivers and of vacuums, kills
\* and writes: as long as nothing has happened that vacuum does not survive, .dat
\* and .idx give every key what was last acknowledged, also when a commit was
\* abandoned and the map in memory is the wrong one.
THEOREM FilesKept == Spec => []FilesKeepAcked
<1>1. VolumeInv => FilesKeepAcked
  BY GoodReads DEF VolumeInv, Sound, Parts, FilesHold, FilesKeepAcked
<1> QED BY <1>1, Invariant, PTL

\* An open volume gives its readers what was last acknowledged, through the needle
\* map in memory, whatever makeupDiff, the renames and restarts have done to it.
THEOREM ReadsKept == Spec => []ReadsLastAcked
<1>1. VolumeInv => ReadsLastAcked
  BY GoodReads DEF VolumeInv, Sound, Parts, FilesHold, MapOfFiles, ReadsLastAcked
<1> QED BY <1>1, Invariant, PTL

\* A volume left with the new .dat and the old .idx is read-only when it is open, as
\* long as nothing was written since the compaction began and .idx does not end in
\* a deletion that makeupDiff wrote.
THEOREM TornReadOnly == Spec => []TornIsReadOnly
<1>1. VolumeInv => TornIsReadOnly
  BY DEF VolumeInv, TornStays, TornIsReadOnly
<1> QED BY <1>1, Invariant, PTL
=============================================================================
