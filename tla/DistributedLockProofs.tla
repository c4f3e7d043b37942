------------------------ MODULE DistributedLockProofs ------------------------
(***************************************************************************)
(* Proofs about DistributedLock, for any filers, clients and lease times:  *)
(* type correctness, and that once the filers have been settled for as     *)
(* long as a holder waits to renew at most one client holds the lock and   *)
(* the filer that the ring names has it on record.                         *)
(***************************************************************************)
EXTENDS DistributedLock, FiniteSetTheorems, FunctionTheorems, TLAPS

-----------------------------------------------------------------------------
(* Numbers, the ring and tokens *)

\* A holder renews before its lease is over.
LEMMA RenewFacts ==
    /\ Renew \in Nat /\ Renew >= 1 /\ TTL - Renew >= 1 /\ TTL \in Nat
    /\ Retry \in Nat /\ Retry >= Renew
BY LockAssumption DEF Renew, Retry

\* In a finite set of numbers every rank below its size is taken: ranks are
\* different for different members, and there are as many.
LEMMA RankTaken ==
    ASSUME NEW S \in SUBSET Nat, IsFiniteSet(S), NEW k \in 0 .. Cardinality(S) - 1
    PROVE  \E s \in S : Cardinality({t \in S : t < s}) = k
<1> DEFINE below(s) == {t \in S : t < s}
           N == 0 .. Cardinality(S) - 1
           rank == [s \in S |-> Cardinality(below(s))]
<1>1. Cardinality(S) \in Nat
  BY FS_CardinalityType
<1>2. ASSUME NEW s \in S
      PROVE  /\ IsFiniteSet(below(s)) /\ Cardinality(below(s)) \in N
  <2>1. below(s) \in SUBSET S /\ below(s) # S
    OBVIOUS
  <2>2. /\ IsFiniteSet(below(s)) /\ Cardinality(below(s)) <= Cardinality(S)
        /\ Cardinality(S) # Cardinality(below(s))
    BY <2>1, FS_Subset
  <2>3. Cardinality(below(s)) \in Nat
    BY <2>2, FS_CardinalityType
  <2> QED
    BY <1>1, <2>2, <2>3
<1>3. ASSUME NEW s \in S, NEW u \in S, s < u
      PROVE  Cardinality(below(s)) < Cardinality(below(u))
  <2>1. /\ \A t \in below(s) : t \in below(u)
        /\ s \in below(u) /\ s \notin below(s)
    <3>1. \A t \in S : t \in Nat
      OBVIOUS
    <3> QED
      BY <1>3, <3>1
  <2>2. /\ Cardinality(below(s)) <= Cardinality(below(u))
        /\ Cardinality(below(u)) # Cardinality(below(s))
    BY <1>2, <2>1, FS_Subset, below(s) \in SUBSET below(u)
  <2>3. Cardinality(below(s)) \in Nat /\ Cardinality(below(u)) \in Nat
    BY <1>2, FS_CardinalityType
  <2> QED
    BY <2>2, <2>3
<1>4. rank \in Injection(S, N)
  <2>1. rank \in [S -> N]
    BY <1>2
  <2>2. ASSUME NEW s \in S, NEW u \in S, rank[s] = rank[u]
        PROVE  s = u
    <3>1. Cardinality(below(s)) \in Nat /\ Cardinality(below(s)) = Cardinality(below(u))
      BY <1>2, <2>2, FS_CardinalityType
    <3>2. s \in Nat /\ u \in Nat
      OBVIOUS
    <3>3. ~(s < u)
      <4> SUFFICES ASSUME s < u PROVE FALSE
        OBVIOUS
      <4>1. Cardinality(below(s)) < Cardinality(below(u))
        BY <1>3
      <4> HIDE DEF below
      <4> QED
        BY <3>1, <4>1
    <3>4. ~(u < s)
      <4> SUFFICES ASSUME u < s PROVE FALSE
        OBVIOUS
      <4>1. Cardinality(below(u)) < Cardinality(below(s))
        BY <1>3
      <4> HIDE DEF below
      <4> QED
        BY <3>1, <4>1
    <3> QED
      BY <3>2, <3>3, <3>4
  <2> QED
    BY <2>1, <2>2 DEF Injection, IsInjective
<1>5. IsFiniteSet(N) /\ Cardinality(N) = Cardinality(S)
  BY <1>1, FS_Interval
<1>6. rank \in Surjection(S, N)
  BY <1>4, <1>5, FS_Injection
<1>7. PICK s \in S : rank[s] = k
  BY <1>6 DEF Surjection
<1> QED
  BY <1>7

\* A finite set of numbers has a least one: the one of rank 0.
LEMMA LeastFound ==
    ASSUME NEW S \in SUBSET Nat, IsFiniteSet(S), S # {}
    PROVE  \E s \in S : \A t \in S : s <= t
<1>1. Cardinality(S) \in Nat /\ Cardinality(S) # 0
  BY FS_CardinalityType, FS_EmptySet
<1>2. 0 \in 0 .. Cardinality(S) - 1
  BY <1>1
<1>3. PICK s \in S : Cardinality({t \in S : t < s}) = 0
  BY <1>2, RankTaken
<1>4. IsFiniteSet({t \in S : t < s})
  <2>1. {t \in S : t < s} \in SUBSET S
    OBVIOUS
  <2> QED
    BY <2>1, FS_Subset
<1>5. {t \in S : t < s} = {}
  BY <1>3, <1>4, FS_EmptySet
<1> QED
  BY <1>5

\* The ring names one of its filers for the key.
LEMMA HashFound ==
    ASSUME NEW servs \in SUBSET Filers
    PROVE  /\ servs # {} => hashKeyToServer(servs) \in servs
           /\ hashKeyToServer(servs) \in Filers \cup {NoFiler}
<1>1. IsFiniteSet(servs) /\ servs \in SUBSET Nat
  BY LockAssumption, FS_Subset
<1>2. CASE servs = {}
  BY <1>2 DEF hashKeyToServer
<1>3. CASE servs # {}
  <2>1. Cardinality(servs) \in Nat /\ Cardinality(servs) # 0
    BY <1>1, <1>3, FS_CardinalityType, FS_EmptySet
  <2>2. KeyHash % Cardinality(servs) \in 0 .. Cardinality(servs) - 1
    BY <2>1, LockAssumption
  <2>3. \E s \in servs : Cardinality({t \in servs : t < s}) = KeyHash % Cardinality(servs)
    BY <1>1, <2>2, RankTaken
  <2>4. hashKeyToServer(servs) \in servs
    BY <1>3, <2>3 DEF hashKeyToServer
  <2> QED
    BY <2>4
<1> QED
  BY <1>2, <1>3

\* The values of a function are no more than its arguments.
LEMMA RangeBound ==
    ASSUME NEW S, IsFiniteSet(S), NEW f, f = [x \in S |-> f[x]]
    PROVE  /\ IsFiniteSet({f[x] : x \in S})
           /\ Cardinality({f[x] : x \in S}) \in Nat
           /\ Cardinality({f[x] : x \in S}) <= Cardinality(S)
<1>1. f \in Surjection(S, {f[x] : x \in S})
  BY DEF Surjection
<1>2. /\ IsFiniteSet({f[x] : x \in S})
      /\ Cardinality({f[x] : x \in S}) <= Cardinality(S)
  BY <1>1, FS_Surjection
<1> QED
  BY <1>2, FS_CardinalityType

\* The cardinality of a union is no more than the sum.
LEMMA UnionBound ==
    ASSUME NEW S, NEW T, IsFiniteSet(S), IsFiniteSet(T)
    PROVE  /\ IsFiniteSet(S \cup T)
           /\ Cardinality(S \cup T) \in Nat
           /\ Cardinality(S \cup T) <= Cardinality(S) + Cardinality(T)
<1>1. IsFiniteSet(S \cap T)
  BY FS_Subset, S \cap T \in SUBSET S
<1>2. /\ Cardinality(S) \in Nat /\ Cardinality(T) \in Nat /\ Cardinality(S \cap T) \in Nat
  BY <1>1, FS_CardinalityType
<1>3. /\ IsFiniteSet(S \cup T)
      /\ Cardinality(S \cup T) = Cardinality(S) + Cardinality(T) - Cardinality(S \cap T)
  BY FS_Union
<1>4. Cardinality(S \cup T) \in Nat
  BY <1>3, FS_CardinalityType
<1> QED
  BY <1>2, <1>3, <1>4

\* There are tokens enough: the one that is made is not in use by another client.
LEMMA FreshFree ==
    ASSUME NEW c \in Clients, NEW f \in Filers
    PROVE  /\ Fresh(c, f) \in Tokens
           /\ \A d \in Clients : d # c => client[d].token # Fresh(c, f)
<1> DEFINE others == Clients \ {c}
           locks == {g \in Filers \ {f} : lock[g] # NoLock}
           moves == {g \in Filers : moving[g] # NoLock}
           held == {client[d].token : d \in others}
           asked == {client[d].call.asked : d \in others}
           kept == {lock[g].token : g \in locks}
           moved == {moving[g].token : g \in moves}
           used == held \cup asked \cup kept \cup moved
           nc == Cardinality(Clients)
           nf == Cardinality(Filers)
<1>1. /\ nc \in Nat /\ nf \in Nat /\ IsFiniteSet(others)
      /\ Cardinality(others) = nc - 1
  BY LockAssumption, FS_CardinalityType, FS_RemoveElement
<1>2. /\ IsFiniteSet(locks) /\ IsFiniteSet(moves)
      /\ Cardinality(locks) <= nf /\ Cardinality(moves) <= nf
      /\ Cardinality(locks) \in Nat /\ Cardinality(moves) \in Nat
  <2>1. locks \in SUBSET Filers /\ moves \in SUBSET Filers
    OBVIOUS
  <2>2. /\ IsFiniteSet(locks) /\ IsFiniteSet(moves)
        /\ Cardinality(locks) <= nf /\ Cardinality(moves) <= nf
    BY <2>1, LockAssumption, FS_Subset
  <2> QED
    BY <2>2, FS_CardinalityType
<1>3. IsFiniteSet(held) /\ Cardinality(held) \in Nat /\ Cardinality(held) <= nc - 1
  <2> DEFINE h == [d \in others |-> client[d].token]
  <2>1. held = {h[d] : d \in others}
    OBVIOUS
  <2>2. h = [d \in others |-> h[d]]
    OBVIOUS
  <2> HIDE DEF h, others, held, nc
  <2> QED
    BY <1>1, <2>1, <2>2, RangeBound
<1>4. IsFiniteSet(asked) /\ Cardinality(asked) \in Nat /\ Cardinality(asked) <= nc - 1
  <2> DEFINE h == [d \in others |-> client[d].call.asked]
  <2>1. asked = {h[d] : d \in others}
    OBVIOUS
  <2>2. h = [d \in others |-> h[d]]
    OBVIOUS
  <2> HIDE DEF h, others, asked, nc
  <2> QED
    BY <1>1, <2>1, <2>2, RangeBound
<1>5. IsFiniteSet(kept) /\ Cardinality(kept) \in Nat /\ Cardinality(kept) <= nf
  <2> DEFINE h == [g \in locks |-> lock[g].token]
  <2>1. kept = {h[g] : g \in locks}
    OBVIOUS
  <2>2. h = [g \in locks |-> h[g]]
    OBVIOUS
  <2> HIDE DEF h, locks, kept, nf
  <2>3. IsFiniteSet(kept) /\ Cardinality(kept) \in Nat
        /\ Cardinality(kept) <= Cardinality(locks)
    BY <1>2, <2>1, <2>2, RangeBound
  <2> QED
    BY <1>1, <1>2, <2>3
<1>6. IsFiniteSet(moved) /\ Cardinality(moved) \in Nat /\ Cardinality(moved) <= nf
  <2> DEFINE h == [g \in moves |-> moving[g].token]
  <2>1. moved = {h[g] : g \in moves}
    OBVIOUS
  <2>2. h = [g \in moves |-> h[g]]
    OBVIOUS
  <2> HIDE DEF h, moves, moved, nf
  <2>3. IsFiniteSet(moved) /\ Cardinality(moved) \in Nat
        /\ Cardinality(moved) <= Cardinality(moves)
    BY <1>2, <2>1, <2>2, RangeBound
  <2> QED
    BY <1>1, <1>2, <2>3
<1> DEFINE free == Tokens \ used
<1>7. /\ \A d \in Clients : d # c => client[d].token \in used
      /\ Fresh(c, f) = CHOOSE t \in free : \A u \in free : t <= u
  BY DEF Fresh
<1>8. free # {}
  <2> HIDE DEF held, asked, kept, moved
  <2>1. /\ IsFiniteSet(held \cup asked) /\ Cardinality(held \cup asked) \in Nat
        /\ Cardinality(held \cup asked) <= 2 * (nc - 1)
    <3>1. /\ IsFiniteSet(held \cup asked) /\ Cardinality(held \cup asked) \in Nat
          /\ Cardinality(held \cup asked) <= Cardinality(held) + Cardinality(asked)
      BY <1>3, <1>4, UnionBound
    <3> QED
      BY <1>1, <1>3, <1>4, <3>1
  <2>2. /\ IsFiniteSet(kept \cup moved) /\ Cardinality(kept \cup moved) \in Nat
        /\ Cardinality(kept \cup moved) <= 2 * nf
    <3>1. /\ IsFiniteSet(kept \cup moved) /\ Cardinality(kept \cup moved) \in Nat
          /\ Cardinality(kept \cup moved) <= Cardinality(kept) + Cardinality(moved)
      BY <1>5, <1>6, UnionBound
    <3> QED
      BY <1>1, <1>5, <1>6, <3>1
  <2>3. /\ IsFiniteSet(used) /\ Cardinality(used) \in Nat
        /\ Cardinality(used) <= 2 * (nc - 1) + 2 * nf
    <3>1. used = (held \cup asked) \cup (kept \cup moved)
      OBVIOUS
    <3>2. /\ IsFiniteSet(used) /\ Cardinality(used) \in Nat
          /\ Cardinality(used) <= Cardinality(held \cup asked) + Cardinality(kept \cup moved)
      BY <2>1, <2>2, <3>1, UnionBound
    <3> QED
      BY <1>1, <2>1, <2>2, <3>2
  <2>4. /\ IsFiniteSet(Tokens) /\ Cardinality(Tokens) = 2 * (nc + nf)
    <3>1. 2 * (nc + nf) \in Nat
      BY <1>1
    <3> QED
      BY <3>1, FS_Interval DEF Tokens
  <2> HIDE DEF used, nc, nf
  <2> SUFFICES ASSUME Tokens \in SUBSET used PROVE FALSE
    BY DEF free
  <2>5. Cardinality(Tokens) <= Cardinality(used)
    BY <2>3, FS_Subset
  <2> QED
    BY <1>1, <2>3, <2>4, <2>5
<1>9. /\ free \in SUBSET Nat /\ IsFiniteSet(free) /\ free \in SUBSET Tokens
      /\ \A t \in used : t \notin free
  <2>1. IsFiniteSet(Tokens) /\ Tokens \in SUBSET Nat
    <3>1. 2 * (nc + nf) \in Nat
      BY <1>1
    <3> QED
      BY <3>1, FS_Interval DEF Tokens
  <2>2. free \in SUBSET Tokens
    OBVIOUS
  <2>3. IsFiniteSet(free)
    BY <2>1, <2>2, FS_Subset
  <2> QED
    BY <2>1, <2>2, <2>3
<1> HIDE DEF used, free
<1>10. \E t \in free : \A u \in free : t <= u
  BY <1>8, <1>9, LeastFound
<1>11. Fresh(c, f) \in free
  BY <1>7, <1>10
<1> QED
  BY <1>7, <1>9, <1>11

-----------------------------------------------------------------------------
(* The inductive invariant *)

\* No two clients have the same token.
TokensApart ==
    \A c, d \in Clients :
        c # d /\ client[c].token = client[d].token => client[c].token = NoToken

\* The lock l is the one that client c got last, and outlives its wait to renew.
Backs(l, c) ==
    /\ l # NoLock /\ l.token = client[c].token
    /\ l.left >= client[c].timer + (TTL - Renew)

\* A holder waits for renewInterval at most.  It has called since the filers settled,
\* and the filer that the ring names keeps its lock, or it will call within what is
\* left of renewInterval since then.
HoldersRenew ==
    \A c \in Holders :
        /\ client[c].timer <= Renew
        /\ \/ up # {} /\ Backs(lock[hashKeyToServer(up)], c)
           \/ client[c].timer + calm <= Renew

\* The time that is counted is time in which everything is settled.
CalmMeansSettled ==
    /\ calm \in 0 .. Renew + 1
    /\ calm > 0 => Settled

LockInv == TypeOK /\ TokensApart /\ CalmMeansSettled /\ HoldersRenew

-----------------------------------------------------------------------------
(* What a call leaves behind *)

CallType == [at : Filers, isMoved : BOOLEAN, asked : Tokens \cup {NoToken}]

\* The loop of c has ended its call with this token, locked or not.
Returned(c, token, ok) ==
    /\ client' \in [Clients -> LiveLocks]
    /\ \A d \in Clients : d # c => client'[d] = client[d]
    /\ client'[c].token = token /\ client'[c].isLocked = ok
    /\ client'[c].timer = (IF ok THEN Renew ELSE Retry)
    /\ client'[c].cancelled = client[c].cancelled
    /\ client'[c].call = NoCall

LEMMA WaitsReturns ==
    ASSUME TypeOK, NEW c \in Clients, NEW token \in Tokens \cup {NoToken},
           NEW host \in Filers, NEW failures \in 0 .. 2, NEW ok \in BOOLEAN,
           Waits(c, token, host, failures, ok)
    PROVE  Returned(c, token, ok)
<1> DEFINE timer == IF ok THEN Renew ELSE Retry
           x == [client[c] EXCEPT !.token = token, !.host = host, !.failures = failures,
                                  !.isLocked = ok, !.timer = timer, !.call = NoCall]
<1>1. timer \in 0 .. Retry
  BY RenewFacts
<1>2. client[c] \in LiveLocks
  BY DEF TypeOK
<1>3. NoCall \in Calls
  BY DEF Calls
<1>4. x \in LiveLocks
  <2> HIDE DEF timer
  <2> QED
    BY <1>1, <1>2, <1>3 DEF LiveLocks
<1>5. /\ x.token = token /\ x.isLocked = ok /\ x.timer = timer /\ x.call = NoCall
      /\ x.cancelled = client[c].cancelled
  BY <1>2 DEF LiveLocks
<1>6. client' = [client EXCEPT ![c] = x]
  BY DEF Waits, TypeOK
<1> HIDE DEF x
<1>7. client' \in [Clients -> LiveLocks]
  BY <1>4, <1>6 DEF TypeOK
<1>8. client'[c] = x /\ \A d \in Clients : d # c => client'[d] = client[d]
  BY <1>6 DEF TypeOK
<1> QED
  BY <1>5, <1>7, <1>8 DEF Returned

LEMMA UnansweredReturns ==
    ASSUME TypeOK, NEW c \in Clients, Unanswered(c)
    PROVE  Returned(c, NoToken, FALSE)
<1> DEFINE away == client[c].host # Seed[c]
           lost == away /\ client[c].failures + 1 >= 3
           host == IF lost THEN Seed[c] ELSE client[c].host
           failures == IF lost THEN 0
                       ELSE IF away THEN client[c].failures + 1 ELSE client[c].failures
<1>1. Waits(c, NoToken, host, failures, FALSE)
  BY DEF Unanswered
<1>2. client[c].host \in Filers /\ client[c].failures \in 0 .. 2 /\ Seed[c] \in Filers
  BY LockAssumption DEF TypeOK, LiveLocks
<1>3. host \in Filers /\ failures \in 0 .. 2
  BY <1>2
<1> HIDE DEF host, failures
<1> QED
  BY <1>1, <1>3, WaitsReturns

LEMMA AnsweredReturns ==
    ASSUME TypeOK, NEW c \in Clients, NEW call \in CallType,
           NEW token \in Tokens \cup {NoToken}, NEW ok \in BOOLEAN,
           Answered(c, call, token, ok)
    PROVE  /\ Returned(c, token, ok) \/ Returned(c, NoToken, FALSE)
           /\ client[c].host \in up => Returned(c, token, ok)
<1> DEFINE host == IF call.isMoved THEN call.at ELSE client[c].host
<1>1. client[c].host \in Filers /\ host \in Filers
  BY DEF TypeOK, LiveLocks, CallType
<1>2. CASE client[c].host \in up
  <2>1. Waits(c, token, host, 0, ok)
    BY <1>2 DEF Answered
  <2> HIDE DEF host
  <2>2. Returned(c, token, ok)
    BY <1>1, <2>1, 0 \in 0 .. 2, WaitsReturns
  <2> QED
    BY <2>2
<1>3. CASE client[c].host \notin up
  BY <1>3, UnansweredReturns DEF Answered
<1> QED
  BY <1>2, <1>3

\* A call, forwarded or not, goes to a filer.
LEMMA ForwardedType ==
    ASSUME TypeOK, NEW call \in CallType
    PROVE  Forwarded(call) \in CallType
<1> DEFINE to == hashKeyToServer(ring[call.at])
<1>1. to \in Filers \cup {NoFiler}
  BY HashFound DEF TypeOK, CallType
<1>2. CASE Answers(call.at) /\ ~call.isMoved /\ to \notin {call.at, NoFiler}
  <2>1. Forwarded(call) = [call EXCEPT !.at = to, !.isMoved = TRUE]
    BY <1>2 DEF Forwarded
  <2> HIDE DEF to
  <2> QED
    BY <1>1, <1>2, <2>1 DEF CallType
<1>3. CASE ~(Answers(call.at) /\ ~call.isMoved /\ to \notin {call.at, NoFiler})
  BY <1>3 DEF Forwarded
<1> QED
  BY <1>2, <1>3

LEMMA CallTyped ==
    ASSUME TypeOK, NEW c \in Clients
    PROVE  Call(c) \in CallType /\ Forwarded(Call(c)) \in CallType
<1>1. Call(c) \in CallType
  BY DEF Call, Stalled, TypeOK, LiveLocks, Calls, CallType
<1> QED
  BY <1>1, ForwardedType

LEMMA LockTyped ==
    ASSUME TypeOK, NEW c \in Clients, NEW f \in Filers
    PROVE  [token |-> Fresh(c, f), left |-> TTL] \in Locks
<1>1. Fresh(c, f) \in Tokens
  BY FreshFree
<1> QED
  BY <1>1, RenewFacts DEF Locks

-----------------------------------------------------------------------------
(* Type correctness *)

\* The part of TypeOK about the filers, the master and the rings.
GroupType ==
    /\ up \subseteq Filers /\ starting \subseteq Filers \ up /\ members \subseteq Filers
    /\ inbox \in [Filers -> Seq(Filers \X BOOLEAN)]
    /\ \A f \in Filers : inbox[f] # << >> => f \in up \cap members
    /\ ring \in [Filers -> SUBSET Filers]

LockType == lock \in [Filers -> Locks] /\ moving \in [Filers -> Locks]

ClientType == client \in [Clients -> LiveLocks]

LEMMA TypeParts == TypeOK <=> GroupType /\ LockType /\ ClientType
BY DEF TypeOK, GroupType, LockType, ClientType

LEMMA InitType == Init => TypeOK
<1> SUFFICES ASSUME Init PROVE TypeOK
  OBVIOUS
<1>1. GroupType
  BY LockAssumption DEF Init, GroupType
<1>2. LockType
  BY DEF Init, LockType, Locks
<1>3. ASSUME NEW c \in Clients PROVE NewLiveLock(c) \in LiveLocks
  BY LockAssumption, RenewFacts DEF NewLiveLock, LiveLocks, Calls
<1>4. ClientType
  BY <1>3 DEF Init, ClientType
<1> QED
  BY <1>1, <1>2, <1>4, TypeParts

LEMMA GroupFrame == GroupType /\ UNCHANGED group => GroupType'
BY DEF GroupType, group

\* A filer that goes takes its locks, its ring and its messages with it.
LEMMA GoneType ==
    ASSUME TypeOK, NEW f \in Filers, Gone(f)
    PROVE  GroupType' /\ LockType'
<1>1. GroupType'
  <2>1. up' \subseteq Filers /\ starting' \subseteq Filers \ up' /\ members' \subseteq Filers
    BY DEF Gone, TypeOK
  <2>2. inbox' = [inbox EXCEPT ![f] = << >>] /\ << >> \in Seq(Filers \X BOOLEAN)
    BY DEF Gone
  <2>3. inbox' \in [Filers -> Seq(Filers \X BOOLEAN)]
    BY <2>2 DEF TypeOK
  <2>4. \A g \in Filers : inbox'[g] # << >> => g \in up' \cap members'
    BY <2>2 DEF Gone, TypeOK
  <2>5. ring' \in [Filers -> SUBSET Filers]
    BY DEF Gone, TypeOK
  <2> QED
    BY <2>1, <2>3, <2>4, <2>5 DEF GroupType
<1>2. LockType'
  BY DEF Gone, TypeOK, LockType, Locks
<1> QED
  BY <1>1, <1>2

\* A broadcast goes to filers that serve and are members.
LEMMA BroadcastType ==
    ASSUME TypeOK, NEW now \in SUBSET Filers, NEW g \in Filers, NEW isAdd \in BOOLEAN,
           Broadcast(now, g, isAdd), up' = up
    PROVE  /\ members' \subseteq Filers
           /\ inbox' \in [Filers -> Seq(Filers \X BOOLEAN)]
           /\ \A f \in Filers : inbox'[f] # << >> => f \in up' \cap members'
<1>1. members' = now
  BY DEF Broadcast
<1> DEFINE new(f) == IF f \notin now THEN << >>
                     ELSE IF f \in up THEN Append(inbox[f], <<g, isAdd>>) ELSE inbox[f]
<1>2. inbox' = [f \in Filers |-> new(f)]
  BY DEF Broadcast
<1>3. ASSUME NEW f \in Filers
      PROVE  /\ new(f) \in Seq(Filers \X BOOLEAN)
             /\ new(f) # << >> => f \in up \cap now
  <2>1. <<g, isAdd>> \in Filers \X BOOLEAN /\ inbox[f] \in Seq(Filers \X BOOLEAN)
    BY DEF TypeOK
  <2>2. Append(inbox[f], <<g, isAdd>>) \in Seq(Filers \X BOOLEAN)
    BY <2>1
  <2>3. inbox[f] # << >> => f \in up
    BY DEF TypeOK
  <2> QED
    BY <2>1, <2>2, <2>3
<1> HIDE DEF new
<1> QED
  BY <1>1, <1>2, <1>3

\* Every call of a client keeps the types.
LEMMA CallStepType ==
    ASSUME TypeOK, NEW c \in Clients, ClientStep(c) \/ LoseReply(c) \/ Stall(c)
    PROVE  TypeOK'
<1> DEFINE call == Forwarded(Call(c))
<1>1. call \in CallType /\ Call(c) \in CallType
  BY CallTyped
<1>2. Fresh(c, call.at) \in Tokens /\ [token |-> Fresh(c, call.at), left |-> TTL] \in Locks
  BY <1>1, FreshFree, LockTyped DEF CallType
<1>3. UNCHANGED group
  BY DEF ClientStep, LockHere, LockNowhere, ConnectionFails, LoseReply, Stall, servers
<1>4. GroupType'
  BY <1>3, GroupFrame, TypeParts
<1>5. LockType'
  <2> DEFINE new == [token |-> Fresh(c, call.at), left |-> TTL]
  <2>1. moving' = moving /\ (lock' = lock \/ lock' = [lock EXCEPT ![call.at] = new])
    BY DEF ClientStep, LockHere, LockNowhere, ConnectionFails, LoseReply, Stall, servers
  <2>2. call.at \in Filers
    BY <1>1 DEF CallType
  <2>3. new \in Locks
    BY <1>2
  <2> HIDE DEF call, new
  <2>4. lock \in [Filers -> Locks] /\ moving \in [Filers -> Locks]
    BY TypeParts DEF LockType
  <2>5. lock' \in [Filers -> Locks]
    BY <2>1, <2>2, <2>3, <2>4
  <2> QED
    BY <2>1, <2>4, <2>5 DEF LockType
<1>6. ClientType'
  <2> HIDE DEF call
  <2>1. CASE LockHere(c)
    <3>1. \/ Answered(c, call, Fresh(c, call.at), TRUE)
          \/ Answered(c, call, NoToken, FALSE)
      BY <2>1 DEF LockHere, call
    <3>2. \E token, ok : Returned(c, token, ok)
      BY <1>1, <1>2, <3>1, AnsweredReturns
    <3> QED
      BY <3>2 DEF Returned, ClientType
  <2>2. CASE LockNowhere(c)
    <3>1. Answered(c, call, NoToken, TRUE)
      BY <2>2 DEF LockNowhere, call
    <3>2. \E token, ok : Returned(c, token, ok)
      BY <1>1, <3>1, AnsweredReturns
    <3> QED
      BY <3>2 DEF Returned, ClientType
  <2>3. CASE ConnectionFails(c)
    <3>1. Answered(c, call, NoToken, FALSE) \/ Unanswered(c)
      BY <2>3 DEF ConnectionFails, call
    <3>2. \E token, ok : Returned(c, token, ok)
      BY <1>1, <3>1, AnsweredReturns, UnansweredReturns
    <3> QED
      BY <3>2 DEF Returned, ClientType
  <2>4. CASE LoseReply(c)
    <3>1. Returned(c, NoToken, FALSE)
      BY <2>4, UnansweredReturns DEF LoseReply
    <3> QED
      BY <3>1 DEF Returned, ClientType
  <2>5. CASE Stall(c)
    <3>1. PICK k \in {Call(c), call} : client' = [client EXCEPT ![c].call = k]
      BY <2>5 DEF Stall, call
    <3>2. k \in Calls
      BY <1>1, <3>1 DEF Calls, CallType
    <3>3. [client[c] EXCEPT !.call = k] \in LiveLocks
      BY <3>2 DEF TypeOK, LiveLocks
    <3> QED
      BY <3>1, <3>3 DEF TypeOK, ClientType
  <2> QED
    BY <2>1, <2>2, <2>3, <2>4, <2>5 DEF ClientStep
<1> QED
  BY <1>4, <1>5, <1>6 DEF TypeOK, GroupType, LockType, ClientType

\* What Unlock leaves at the filer it reaches: the lock as it was, or none.
LEMMA UnlockedIs ==
    ASSUME NEW f, NEW token
    PROVE  Unlocked(f, token) \in {lock[f], NoLock}
BY DEF Unlocked

\* The filer an Unlock goes to.
LEMMA UnlockReaches ==
    ASSUME TypeOK, NEW host \in Filers
    PROVE  Forwarded([NoCall EXCEPT !.at = host]) \in CallType
<1>1. [NoCall EXCEPT !.at = host] \in CallType
  BY DEF NoCall, CallType
<1> QED
  BY <1>1, ForwardedType

LEMMA StopType ==
    ASSUME TypeOK, NEW c \in Clients, Stop(c)
    PROVE  TypeOK'
<1>1. ClientType'
  <2>1. client' = [client EXCEPT ![c].cancelled = TRUE, ![c].isLocked = FALSE]
    BY DEF Stop
  <2>2. [client[c] EXCEPT !.cancelled = TRUE, !.isLocked = FALSE] \in LiveLocks
    BY DEF TypeOK, LiveLocks
  <2> QED
    BY <2>1, <2>2 DEF TypeOK, ClientType
<1> DEFINE host == client[c].host
           call == Forwarded([NoCall EXCEPT !.at = host])
<1>2. host \in Filers
  BY DEF TypeOK, LiveLocks
<1>3. call.at \in Filers
  BY <1>2, UnlockReaches DEF CallType
<1>4. CASE ~client[c].isLocked
  <2>1. UNCHANGED servers
    BY <1>4 DEF Stop
  <2> QED
    BY <1>1, <2>1, GroupFrame, TypeParts
       DEF servers, TypeOK, GroupType, LockType, ClientType
<1>5. CASE client[c].isLocked /\ call.isMoved /\ call.at \notin up
  <2>1. Gone(host)
    BY <1>5 DEF Stop, Unlock
  <2>2. GroupType' /\ LockType'
    BY <1>2, <2>1, GoneType
  <2> QED
    BY <1>1, <2>2 DEF TypeOK, GroupType, LockType, ClientType
<1>6. CASE client[c].isLocked /\ ~(call.isMoved /\ call.at \notin up)
  <2>1. /\ UNCHANGED <<group, moving>>
        /\ \/ lock' = lock
           \/ lock' = [lock EXCEPT ![call.at] = Unlocked(call.at, client[c].token)]
    BY <1>6 DEF Stop, Unlock
  <2>2. LockType'
    <3>1. Unlocked(call.at, client[c].token) \in Locks
      BY <1>3, UnlockedIs DEF TypeOK, Locks
    <3> HIDE DEF call
    <3> QED
      BY <1>3, <2>1, <3>1, SMTT(30) DEF TypeOK, LockType
  <2>3. GroupType'
    BY <2>1, GroupFrame, TypeParts
  <2> QED
    BY <1>1, <2>2, <2>3 DEF TypeOK, GroupType, LockType, ClientType
<1> QED
  BY <1>4, <1>5, <1>6

\* One tick of a lease.
LEMMA AgedType ==
    ASSUME NEW locks \in [Filers -> Locks]
    PROVE  Aged(locks) \in [Filers -> Locks]
<1> SUFFICES ASSUME NEW f \in Filers,
                    ~(locks[f] = NoLock \/ Expired(locks[f]))
             PROVE  [locks[f] EXCEPT !.left = @ - 1] \in Locks
  BY DEF Aged
<1>1. locks[f] \in [token : Tokens, left : -1 .. TTL]
  BY DEF Locks
<1>2. locks[f].left - 1 \in -1 .. TTL
  BY <1>1, RenewFacts DEF Expired
<1> QED
  BY <1>1, <1>2 DEF Locks

LEMMA TickType ==
    ASSUME TypeOK, Tick
    PROVE  TypeOK'
<1>1. GroupType'
  BY GroupFrame, TypeParts DEF Tick
<1>2. LockType'
  BY AgedType DEF Tick, TypeOK, LockType
<1>3. ClientType'
  <2>1. ASSUME NEW c \in Clients, client[c].timer # 0
        PROVE  [client[c] EXCEPT !.timer = @ - 1] \in LiveLocks
    <3>1. client[c] \in LiveLocks
      BY DEF TypeOK
    <3>2. client[c].timer - 1 \in 0 .. Retry
      BY <2>1, <3>1, RenewFacts DEF LiveLocks
    <3> QED
      BY <3>1, <3>2 DEF LiveLocks
  <2>2. client' = [c \in Clients |-> IF client[c].timer = 0 THEN client[c]
                                     ELSE [client[c] EXCEPT !.timer = @ - 1]]
    BY DEF Tick
  <2> QED
    BY <2>1, <2>2 DEF TypeOK, ClientType
<1> QED
  BY <1>1, <1>2, <1>3 DEF TypeOK, GroupType, LockType, ClientType

\* What filers and the master do keeps the types.
LEMMA FilerStepType ==
    ASSUME TypeOK, NEW f \in Filers,
           \/ CleanUp(f) \/ TransferLocks(f) \/ FilerDies(f) \/ FilerStarts(f)
           \/ FilerServes(f) \/ Disconnects(f) \/ Reconnects(f) \/ PeerUpdate(f)
    PROVE  TypeOK'
<1>0. UNCHANGED client
  BY DEF CleanUp, TransferLocks, FilerDies, FilerStarts, FilerServes, Disconnects,
         Reconnects, PeerUpdate
<1>1. ClientType'
  BY <1>0 DEF TypeOK, ClientType
<1>2. CASE CleanUp(f)
  <2>1. GroupType'
    BY <1>2, GroupFrame, TypeParts DEF CleanUp
  <2>2. LockType'
    BY <1>2 DEF CleanUp, TypeOK, LockType, Locks
  <2> QED
    BY <1>1, <2>1, <2>2 DEF TypeOK, GroupType, LockType, ClientType
<1>3. CASE TransferLocks(f)
  <2>1. GroupType'
    BY <1>3, GroupFrame, TypeParts DEF TransferLocks
  <2>2. LockType'
    <3> DEFINE to == hashKeyToServer(ring[f])
    <3>1. moving[f] \in Locks /\ NoLock \in Locks
      BY DEF TypeOK, Locks
    <3>2. lock' = IF to \in up THEN [lock EXCEPT ![to] = moving[f]] ELSE lock
      BY <1>3 DEF TransferLocks
    <3>3. moving' = [moving EXCEPT ![f] = NoLock]
      BY <1>3 DEF TransferLocks
    <3> HIDE DEF to
    <3> QED
      BY <3>1, <3>2, <3>3 DEF TypeOK, LockType
  <2> QED
    BY <1>1, <2>1, <2>2 DEF TypeOK, GroupType, LockType, ClientType
<1>4. CASE FilerDies(f)
  <2>1. GroupType' /\ LockType'
    BY <1>4, GoneType DEF FilerDies
  <2> QED
    BY <1>1, <2>1 DEF TypeOK, GroupType, LockType, ClientType
<1>5. CASE FilerStarts(f)
  <2>1. /\ up' = up /\ starting' = starting \cup {f} /\ f \notin up
        /\ ring' = [ring EXCEPT ![f] = members \cup {f}]
        /\ UNCHANGED <<lock, moving>>
    BY <1>5 DEF FilerStarts
  <2>2. /\ members' \subseteq Filers
        /\ inbox' \in [Filers -> Seq(Filers \X BOOLEAN)]
        /\ \A g \in Filers : inbox'[g] # << >> => g \in up' \cap members'
    <3>1. CASE f \in members
      <4>1. UNCHANGED <<up, members, inbox>>
        BY <1>5, <3>1 DEF FilerStarts
      <4> QED
        BY <4>1 DEF TypeOK
    <3>2. CASE f \notin members
      <4>1. Broadcast(members \cup {f}, f, TRUE)
        BY <1>5, <3>2 DEF FilerStarts
      <4>2. members \cup {f} \in SUBSET Filers
        BY DEF TypeOK
      <4> QED
        BY <2>1, <4>1, <4>2, BroadcastType
    <3> QED
      BY <3>1, <3>2
  <2> QED
    BY <1>1, <2>1, <2>2 DEF TypeOK, ClientType
<1>6. CASE FilerServes(f)
  BY <1>1, <1>6 DEF FilerServes, TypeOK, ClientType
<1>7. CASE Disconnects(f)
  <2>1. /\ Broadcast(members \ {f}, f, FALSE) /\ UNCHANGED <<up, starting, ring, lock, moving>>
    BY <1>7 DEF Disconnects
  <2>2. members \ {f} \in SUBSET Filers
    BY DEF TypeOK
  <2>3. /\ members' \subseteq Filers
        /\ inbox' \in [Filers -> Seq(Filers \X BOOLEAN)]
        /\ \A g \in Filers : inbox'[g] # << >> => g \in up' \cap members'
    BY <2>1, <2>2, BroadcastType
  <2> QED
    BY <1>1, <2>1, <2>3 DEF TypeOK, ClientType
<1>8. CASE Reconnects(f)
  <2>1. /\ Broadcast(members \cup {f}, f, TRUE) /\ UNCHANGED <<up, starting, ring, lock, moving>>
    BY <1>8 DEF Reconnects
  <2>2. members \cup {f} \in SUBSET Filers
    BY DEF TypeOK
  <2>3. /\ members' \subseteq Filers
        /\ inbox' \in [Filers -> Seq(Filers \X BOOLEAN)]
        /\ \A g \in Filers : inbox'[g] # << >> => g \in up' \cap members'
    BY <2>1, <2>2, BroadcastType
  <2> QED
    BY <1>1, <2>1, <2>3 DEF TypeOK, ClientType
<1>9. CASE PeerUpdate(f)
  <2> DEFINE m == Head(inbox[f])
             servs == IF m[2] THEN ring[f] \cup {m[1]} ELSE ring[f] \ {m[1]}
  <2>1. /\ inbox[f] \in Seq(Filers \X BOOLEAN) /\ inbox[f] # << >>
        /\ UNCHANGED <<up, starting, members>>
    BY <1>9 DEF PeerUpdate, TypeOK
  <2>2. m \in Filers \X BOOLEAN /\ Tail(inbox[f]) \in Seq(Filers \X BOOLEAN)
    BY <2>1
  <2>3. servs \in SUBSET Filers
    BY <2>2 DEF TypeOK
  <2>4. /\ inbox' = [inbox EXCEPT ![f] = Tail(inbox[f])]
        /\ ring' = [ring EXCEPT ![f] = servs]
        /\ lock' = lock \/ lock' = [lock EXCEPT ![f] = NoLock]
        /\ moving' = moving \/ moving' = [moving EXCEPT ![f] = lock[f]]
    BY <1>9 DEF PeerUpdate, TypeOK
  <2> HIDE DEF servs, m
  <2>5. GroupType'
    BY <2>1, <2>2, <2>3, <2>4 DEF TypeOK, GroupType
  <2>6. LockType'
    BY <2>4 DEF TypeOK, LockType, Locks
  <2> QED
    BY <1>1, <2>5, <2>6 DEF TypeOK, GroupType, LockType, ClientType
<1> QED
  BY <1>2, <1>3, <1>4, <1>5, <1>6, <1>7, <1>8, <1>9

LEMMA TypeStep == TypeOK /\ [Next]_vars => TypeOK'
<1> SUFFICES ASSUME TypeOK, [Next]_vars PROVE TypeOK'
  OBVIOUS
<1>1. CASE UNCHANGED vars
  BY <1>1 DEF vars, servers, group, TypeOK
<1>2. CASE Tick
  BY <1>2, TickType
<1>3. ASSUME NEW c \in Clients, ClientStep(c) \/ LoseReply(c) \/ Stall(c) \/ Stop(c)
      PROVE  TypeOK'
  BY <1>3, CallStepType, StopType
<1>4. ASSUME NEW f \in Filers,
             \/ CleanUp(f) \/ TransferLocks(f) \/ FilerDies(f) \/ FilerStarts(f)
             \/ FilerServes(f) \/ Disconnects(f) \/ Reconnects(f) \/ PeerUpdate(f)
      PROVE  TypeOK'
  BY <1>4, FilerStepType
<1> QED
  BY <1>1, <1>2, <1>3, <1>4 DEF Next

\* Type correctness: the tables of the filers and the locks of the clients keep their
\* form, tokens do not run out, and calls go to filers.
THEOREM TypeCorrect == Spec => []TypeOK
<1>1. Init => TypeOK
  BY InitType
<1>2. TypeOK /\ [Next]_vars => TypeOK'
  BY TypeStep
<1> QED
  BY <1>1, <1>2, PTL DEF Spec

-----------------------------------------------------------------------------
(* Holders and the lock on record *)

LEMMA InitLockInv == Init => LockInv
<1> SUFFICES ASSUME Init PROVE LockInv
  OBVIOUS
<1>1. TypeOK
  BY InitType
<1>2. \A c \in Clients : client[c].token = NoToken /\ client[c].isLocked = FALSE
  BY DEF Init, NewLiveLock
<1>3. TokensApart
  BY <1>2 DEF TokensApart
<1>4. CalmMeansSettled
  BY RenewFacts DEF CalmMeansSettled, Init
<1>5. HoldersRenew
  BY <1>2 DEF HoldersRenew, Holders
<1> QED
  BY <1>1, <1>3, <1>4, <1>5 DEF LockInv

\* The types of a client's fields.
LEMMA ClientFields ==
    ASSUME TypeOK, NEW c \in Clients
    PROVE  /\ client[c].token \in Tokens \cup {NoToken} /\ client[c].timer \in 0 .. Retry
           /\ client[c].isLocked \in BOOLEAN /\ client[c].cancelled \in BOOLEAN
           /\ client[c].host \in Filers
BY DEF TypeOK, LiveLocks

\* A step that unsettles the system and leaves tokens, timers and holders alone.
LEMMA Unsettles ==
    ASSUME LockInv, TypeOK', calm' = 0,
           \A c \in Clients : /\ client'[c].token = client[c].token
                              /\ client'[c].timer = client[c].timer
                              /\ client'[c].isLocked /\ ~client'[c].cancelled
                                   => client[c].isLocked /\ ~client[c].cancelled
    PROVE  LockInv'
<1>1. TokensApart'
  BY DEF LockInv, TokensApart
<1>2. CalmMeansSettled'
  BY RenewFacts DEF CalmMeansSettled
<1>3. HoldersRenew'
  <2> SUFFICES ASSUME NEW c \in Holders'
               PROVE  client'[c].timer <= Renew /\ client'[c].timer + calm' <= Renew
    BY DEF HoldersRenew
  <2>1. c \in Holders /\ c \in Clients
    BY DEF Holders
  <2>2. client'[c].timer = client[c].timer /\ client[c].timer <= Renew
    BY <2>1 DEF LockInv, HoldersRenew
  <2>3. client[c].timer \in 0 .. Retry
    BY <2>1, ClientFields DEF LockInv
  <2> QED
    BY <2>2, <2>3
<1> QED
  BY <1>1, <1>2, <1>3 DEF LockInv

\* A lock that backs a holder has not expired, and its token is one.
LEMMA BackedUnexpired ==
    ASSUME TypeOK, NEW c \in Clients, NEW l \in Locks, Backs(l, c)
    PROVE  ~Expired(l) /\ l # NoLock /\ client[c].token # NoToken
<1>1. l \in [token : Tokens, left : -1 .. TTL]
  BY DEF Locks, Backs
<1>2. client[c].timer \in 0 .. Retry
  BY ClientFields
<1>3. l.left >= 1
  BY <1>1, <1>2, RenewFacts DEF Backs
<1>4. NoToken \notin Tokens
  BY DEF Tokens, NoToken
<1> QED
  BY <1>1, <1>3, <1>4 DEF Backs, Expired

\* When all is settled, a call that is answered has reached the filer that the ring
\* of all names, and asks with the token its client has.
LEMMA SettledCall ==
    ASSUME TypeOK, Settled, NEW c \in Clients
    PROVE  LET call == Forwarded(Call(c)) IN
           /\ call.asked = client[c].token
           /\ Answers(call.at) => /\ up # {} /\ client[c].host \in up
                                  /\ call.at = hashKeyToServer(up)
                                  /\ hashKeyToServer(ring[call.at]) = call.at
<1> DEFINE host == client[c].host
           k == Call(c)
           to == hashKeyToServer(ring[host])
<1>1. k = [at |-> host, isMoved |-> FALSE, asked |-> client[c].token]
  BY DEF Settled, Call
<1>2. \A f \in up : ring[f] = up
  BY DEF Settled
<1>3. CASE Answers(host) /\ to \notin {host, NoFiler}
  <2>1. Forwarded(k) = [k EXCEPT !.at = to, !.isMoved = TRUE]
    BY <1>1, <1>3 DEF Forwarded
  <2>2. Forwarded(k).at = to /\ Forwarded(k).asked = client[c].token
    <3>1. k \in CallType
      BY CallTyped
    <3> HIDE DEF to, host, k
    <3>2. k.asked = client[c].token
      BY <1>1
    <3>3. LET x == [k EXCEPT !.at = to, !.isMoved = TRUE] IN x.at = to /\ x.asked = k.asked
      BY <3>1 DEF CallType
    <3> QED
      BY <2>1, <3>2, <3>3
  <2>3. host \in up /\ up # {}
    BY <1>3 DEF Answers
  <2>4. to = hashKeyToServer(up)
    BY <1>2, <2>3
  <2>5. Answers(to) => hashKeyToServer(ring[to]) = to
    BY <1>2, <2>4 DEF Answers
  <2> HIDE DEF to, k, host
  <2> QED
    BY <2>2, <2>3, <2>4, <2>5 DEF k, host
<1>4. CASE ~(Answers(host) /\ to \notin {host, NoFiler})
  <2>1. Forwarded(k) = k
    BY <1>1, <1>4 DEF Forwarded
  <2>2. Forwarded(k).at = host /\ Forwarded(k).asked = client[c].token
    BY <1>1, <2>1
  <2>3. ASSUME Answers(host)
        PROVE  up # {} /\ host \in up /\ host = hashKeyToServer(up) /\ to = host
    <3>1. host \in up /\ up # {} /\ ring[host] = up
      BY <1>2, <2>3 DEF Answers
    <3>2. to \in up
      BY <3>1, HashFound DEF TypeOK
    <3>3. NoFiler \notin up
      BY LockAssumption DEF TypeOK, NoFiler
    <3>4. to = host
      BY <1>4, <2>3, <3>2, <3>3
    <3> QED
      BY <3>1, <3>4
  <2> HIDE DEF to, k, host
  <2> QED
    BY <2>2, <2>3 DEF k, host, to
<1> QED
  BY <1>3, <1>4

\* Tokens stay apart when a call returns with no token or with a new one.
LEMMA ReturnedApart ==
    ASSUME LockInv, NEW c \in Clients, NEW token, NEW ok, Returned(c, token, ok),
           token # NoToken => \A d \in Clients : d # c => client[d].token # token
    PROVE  TokensApart'
BY DEF LockInv, TokensApart, Returned

\* What is settled stays so when a call returns.
LEMMA ReturnedSettled ==
    ASSUME LockInv, NEW c \in Clients, NEW token, NEW ok, Returned(c, token, ok),
           UNCHANGED <<group, moving, calm>>
    PROVE  CalmMeansSettled' /\ (calm > 0 => Settled')
<1>1. ASSUME calm > 0 PROVE Settled'
  <2>1. Settled
    BY <1>1 DEF LockInv, CalmMeansSettled
  <2>2. \A d \in Clients : client'[d].call = NoCall
    BY <2>1 DEF Settled, Stalled, Returned
  <2> QED
    BY <2>1, <2>2 DEF Settled, Stalled, group
<1> QED
  BY <1>1 DEF LockInv, CalmMeansSettled

\* A call that returns unlocked keeps the invariant if the locks that back the other
\* holders stay.
LEMMA ReturnsUnlocked ==
    ASSUME LockInv, TypeOK', NEW c \in Clients, Returned(c, NoToken, FALSE),
           UNCHANGED <<group, moving, calm>>,
           \A d \in Clients : /\ d # c /\ calm > 0 /\ up # {}
                              /\ Backs(lock[hashKeyToServer(up)], d)
                              => lock'[hashKeyToServer(up)] = lock[hashKeyToServer(up)]
    PROVE  LockInv'
<1> DEFINE home == hashKeyToServer(up)
<1>1. TokensApart' /\ CalmMeansSettled'
  BY ReturnedApart, ReturnedSettled
<1>2. HoldersRenew'
  <2> SUFFICES ASSUME NEW d \in Holders'
               PROVE  /\ client'[d].timer <= Renew
                      /\ \/ up' # {} /\ Backs(lock[hashKeyToServer(up)], d)'
                         \/ client'[d].timer + calm' <= Renew
    BY DEF HoldersRenew
  <2>1. d \in Clients /\ d # c /\ client'[d] = client[d]
    BY DEF Holders, Returned
  <2>2. d \in Holders
    BY <2>1 DEF Holders
  <2>3. /\ client[d].timer <= Renew
        /\ (up # {} /\ Backs(lock[home], d)) \/ client[d].timer + calm <= Renew
    BY <2>2 DEF LockInv, HoldersRenew
  <2>4. up' = up /\ calm' = calm /\ calm \in Nat /\ client[d].timer \in 0 .. Retry
    BY <2>1, RenewFacts, ClientFields DEF group, LockInv, CalmMeansSettled
  <2>5. CASE client[d].timer + calm <= Renew
    BY <2>1, <2>3, <2>4, <2>5
  <2>6. CASE up # {} /\ Backs(lock[home], d) /\ ~(client[d].timer + calm <= Renew)
    <3>1. calm > 0
      BY <2>3, <2>4, <2>6, RenewFacts
    <3>2. lock'[home] = lock[home]
      BY <2>1, <2>6, <3>1
    <3>3. Backs(lock[hashKeyToServer(up)], d)'
      BY <2>1, <2>4, <2>6, <3>2 DEF Backs
    <3> QED
      BY <2>1, <2>3, <2>4, <2>6, <3>3
  <2> QED
    BY <2>3, <2>5, <2>6
<1> QED
  BY <1>1, <1>2 DEF LockInv

\* When all is settled, a call is granted only if its client is the only one that
\* the lock on record backs.
LEMMA GrantedAlone ==
    ASSUME LockInv, Settled, NEW c \in Clients, NEW d \in Clients, d # c,
           up # {}, Backs(lock[hashKeyToServer(up)], d)
    PROVE  ~Grants(hashKeyToServer(up), client[c].token)
<1> DEFINE l == lock[hashKeyToServer(up)]
<1>1. l \in Locks
  BY HashFound DEF LockInv, TypeOK
<1>2. ~Expired(l) /\ l # NoLock /\ client[d].token # NoToken
  BY <1>1, BackedUnexpired DEF LockInv
<1>3. l.token = client[d].token
  BY DEF Backs
<1>4. client[d].token # client[c].token
  BY <1>2 DEF LockInv, TokensApart
<1> QED
  BY <1>2, <1>3, <1>4 DEF Grants

LEMMA LockHereStep ==
    ASSUME LockInv, TypeOK', NEW c \in Clients, LockHere(c)
    PROVE  LockInv'
<1> DEFINE call == Forwarded(Call(c))
           f == call.at
           new == [token |-> Fresh(c, f), left |-> TTL]
           home == hashKeyToServer(up)
<1>1. call \in CallType /\ f \in Filers /\ TypeOK
  BY CallTyped DEF LockInv, CallType
<1>2. /\ Fresh(c, f) \in Tokens
      /\ \A d \in Clients : d # c => client[d].token # Fresh(c, f)
  BY <1>1, FreshFree
<1>3. UNCHANGED <<group, moving, calm>> /\ Answers(f)
  BY DEF LockHere
<1>4. CASE ~Grants(f, call.asked)
  <2>1. Answered(c, call, NoToken, FALSE) /\ lock' = lock
    BY <1>4 DEF LockHere
  <2>2. Returned(c, NoToken, FALSE)
    BY <1>1, <2>1, AnsweredReturns
  <2> QED
    BY <1>3, <2>1, <2>2, ReturnsUnlocked
<1>5. CASE Grants(f, call.asked)
  <2>1. Answered(c, call, Fresh(c, f), TRUE) /\ lock' = [lock EXCEPT ![f] = new]
    BY <1>5 DEF LockHere
  <2> HIDE DEF call, f
  <2>2. \/ Returned(c, Fresh(c, f), TRUE)
        \/ Returned(c, NoToken, FALSE)
    BY <1>1, <1>2, <2>1, AnsweredReturns
  <2>3. ASSUME NEW d \in Clients, d # c, calm > 0, up # {}, Backs(lock[home], d)
        PROVE  FALSE
    <3>1. Settled
      BY <2>3 DEF LockInv, CalmMeansSettled
    <3>2. call.asked = client[c].token /\ f = home
      BY <1>1, <1>3, <3>1, SettledCall DEF call, f
    <3> QED
      BY <1>5, <2>3, <3>1, <3>2, GrantedAlone
  <2>4. CASE Returned(c, NoToken, FALSE)
    BY <1>3, <2>3, <2>4, ReturnsUnlocked
  <2>5. CASE Returned(c, Fresh(c, f), TRUE)
    <3>1. TokensApart' /\ CalmMeansSettled'
      BY <1>2, <1>3, <2>5, ReturnedApart, ReturnedSettled
    <3>2. HoldersRenew'
      <4> SUFFICES ASSUME NEW d \in Holders'
                   PROVE  /\ client'[d].timer <= Renew
                          /\ \/ up' # {} /\ Backs(lock[hashKeyToServer(up)], d)'
                             \/ client'[d].timer + calm' <= Renew
        BY DEF HoldersRenew
      <4>0. d \in Clients /\ up' = up /\ calm' = calm /\ calm \in Nat
        BY <1>3, RenewFacts DEF Holders, group, LockInv, CalmMeansSettled
      <4>1. CASE d # c
        <5>1. client'[d] = client[d] /\ d \in Holders
          BY <2>5, <4>0, <4>1 DEF Holders, Returned
        <5>2. client[d].timer <= Renew /\ client[d].timer \in 0 .. Retry
          BY <1>1, <4>0, <5>1, ClientFields DEF LockInv, HoldersRenew
        <5>3. client[d].timer + calm <= Renew
          <6>1. CASE calm = 0
            BY <5>2, <6>1
          <6>2. CASE calm # 0
            BY <2>3, <4>0, <4>1, <5>1, <6>2 DEF LockInv, HoldersRenew
          <6> QED
            BY <6>1, <6>2
        <5> QED
          BY <4>0, <5>1, <5>2, <5>3
      <4>2. CASE d = c
        <5>1. client'[c].timer = Renew /\ client'[c].token = Fresh(c, f)
          BY <2>5 DEF Returned
        <5>2. CASE calm = 0
          BY <4>0, <4>2, <5>1, <5>2, RenewFacts
        <5>3. CASE calm # 0
          <6>1. Settled
            BY <4>0, <5>3 DEF LockInv, CalmMeansSettled
          <6>2. f = home /\ up # {}
            BY <1>1, <1>3, <6>1, SettledCall DEF call, f
          <6>3. lock'[home] = new
            BY <1>1, <2>1, <6>2 DEF TypeOK
          <6>4. new # NoLock /\ new.token = Fresh(c, f) /\ new.left = TTL
            BY <1>2, LockAssumption DEF Tokens
          <6> HIDE DEF new
          <6>5. Backs(lock[hashKeyToServer(up)], c)'
            BY <4>0, <5>1, <6>3, <6>4, RenewFacts DEF Backs
          <6> QED
            BY <4>0, <4>2, <5>1, <6>2, <6>5, RenewFacts
        <5> QED
          BY <5>2, <5>3
      <4> QED
        BY <4>1, <4>2
    <3> QED
      BY <3>1, <3>2 DEF LockInv
  <2> QED
    BY <2>2, <2>4, <2>5
<1> QED
  BY <1>4, <1>5

LEMMA LockNowhereStep ==
    ASSUME LockInv, TypeOK', NEW c \in Clients, LockNowhere(c)
    PROVE  LockInv'
<1> DEFINE call == Forwarded(Call(c))
<1>1. call \in CallType /\ TypeOK
  BY CallTyped DEF LockInv
<1>2. /\ UNCHANGED <<group, moving, calm>> /\ lock' = lock /\ Answers(call.at)
      /\ hashKeyToServer(ring[call.at]) # call.at
      /\ Answered(c, call, NoToken, TRUE)
  BY DEF LockNowhere, servers
<1>3. ~(calm > 0)
  BY <1>1, <1>2, SettledCall DEF LockInv, CalmMeansSettled
<1> HIDE DEF call
<1>4. Returned(c, NoToken, TRUE) \/ Returned(c, NoToken, FALSE)
  BY <1>1, <1>2, AnsweredReturns
<1>5. CASE Returned(c, NoToken, FALSE)
  BY <1>2, <1>5, ReturnsUnlocked
<1>6. CASE Returned(c, NoToken, TRUE)
  <2>1. TokensApart' /\ CalmMeansSettled'
    BY <1>2, <1>6, ReturnedApart, ReturnedSettled
  <2>2. HoldersRenew'
    <3> SUFFICES ASSUME NEW d \in Holders'
                 PROVE  client'[d].timer <= Renew /\ client'[d].timer + calm' <= Renew
      BY DEF HoldersRenew
    <3>1. calm' = 0 /\ d \in Clients
      BY <1>2, <1>3 DEF LockInv, CalmMeansSettled, Holders
    <3>2. CASE d = c
      BY <1>6, <3>1, <3>2, RenewFacts DEF Returned
    <3>3. CASE d # c
      <4>1. client'[d] = client[d] /\ d \in Holders
        BY <1>6, <3>1, <3>3 DEF Holders, Returned
      <4>2. client[d].timer <= Renew /\ client[d].timer \in 0 .. Retry
        BY <1>1, <3>1, <4>1, ClientFields DEF LockInv, HoldersRenew
      <4> QED
        BY <3>1, <4>1, <4>2
    <3> QED
      BY <3>2, <3>3
  <2> QED
    BY <2>1, <2>2 DEF LockInv
<1> QED
  BY <1>4, <1>5, <1>6

LEMMA FailedCallStep ==
    ASSUME LockInv, TypeOK', NEW c \in Clients, ConnectionFails(c) \/ LoseReply(c)
    PROVE  LockInv'
<1> DEFINE call == Forwarded(Call(c))
           home == hashKeyToServer(up)
<1>1. call \in CallType /\ TypeOK
  BY CallTyped DEF LockInv
<1>2. CASE ConnectionFails(c)
  <2>1. /\ UNCHANGED <<group, moving, calm>> /\ lock' = lock
        /\ Answered(c, call, NoToken, FALSE) \/ Unanswered(c)
    BY <1>2 DEF ConnectionFails, servers
  <2> HIDE DEF call
  <2>2. Returned(c, NoToken, FALSE)
    BY <1>1, <2>1, AnsweredReturns, UnansweredReturns
  <2> QED
    BY <2>1, <2>2, ReturnsUnlocked
<1>3. CASE LoseReply(c)
  <2>1. /\ UNCHANGED <<group, moving, calm>> /\ Unanswered(c)
        /\ Answers(call.at) /\ Grants(call.at, call.asked)
    BY <1>3 DEF LoseReply
  <2>2. Returned(c, NoToken, FALSE)
    BY <1>1, <2>1, UnansweredReturns
  <2>3. ASSUME NEW d \in Clients, d # c, calm > 0, up # {}, Backs(lock[home], d)
        PROVE  FALSE
    <3>1. Settled
      BY <2>3 DEF LockInv, CalmMeansSettled
    <3>2. call.asked = client[c].token /\ call.at = home
      BY <1>1, <2>1, <3>1, SettledCall
    <3> HIDE DEF call
    <3> QED
      BY <2>1, <2>3, <3>1, <3>2, GrantedAlone
  <2> QED
    BY <2>1, <2>2, <2>3, ReturnsUnlocked
<1> QED
  BY <1>2, <1>3

\* A step that keeps the clients but for holders that stop, and every lock that backs
\* one that goes on.
LEMMA LocksKept ==
    ASSUME LockInv, TypeOK', UNCHANGED <<group, moving, calm>>,
           \A d \in Clients : /\ client'[d].token = client[d].token
                              /\ client'[d].timer = client[d].timer
                              /\ client'[d].call = client[d].call
                              /\ client'[d].isLocked /\ ~client'[d].cancelled
                                   => client[d].isLocked /\ ~client[d].cancelled,
           \A d \in Holders' : up # {} /\ Backs(lock[hashKeyToServer(up)], d)
                                 => lock'[hashKeyToServer(up)] = lock[hashKeyToServer(up)]
    PROVE  LockInv'
<1>1. TokensApart'
  BY DEF LockInv, TokensApart
<1>2. CalmMeansSettled'
  BY DEF LockInv, CalmMeansSettled, Settled, Stalled, group
<1>3. HoldersRenew'
  <2> SUFFICES ASSUME NEW d \in Holders'
               PROVE  /\ client'[d].timer <= Renew
                      /\ \/ up' # {} /\ Backs(lock[hashKeyToServer(up)], d)'
                         \/ client'[d].timer + calm' <= Renew
    BY DEF HoldersRenew
  <2>1. d \in Clients /\ d \in Holders /\ up' = up
    BY DEF Holders, group
  <2>2. /\ client[d].timer <= Renew
        /\ \/ up # {} /\ Backs(lock[hashKeyToServer(up)], d)
           \/ client[d].timer + calm <= Renew
    BY <2>1 DEF LockInv, HoldersRenew
  <2>3. up # {} /\ Backs(lock[hashKeyToServer(up)], d)
          => Backs(lock[hashKeyToServer(up)], d)'
    BY <2>1 DEF Backs
  <2> QED
    BY <2>1, <2>2, <2>3
<1> QED
  BY <1>1, <1>2, <1>3 DEF LockInv

LEMMA StopStep ==
    ASSUME LockInv, TypeOK', NEW c \in Clients, Stop(c)
    PROVE  LockInv'
<1> DEFINE host == client[c].host
           call == Forwarded([NoCall EXCEPT !.at = host])
           home == hashKeyToServer(up)
<1>1. TypeOK /\ client' = [client EXCEPT ![c].cancelled = TRUE, ![c].isLocked = FALSE]
  BY DEF LockInv, Stop
<1>2. \A d \in Clients : /\ client'[d].token = client[d].token
                         /\ client'[d].timer = client[d].timer
                         /\ client'[d].call = client[d].call
                         /\ client'[d].isLocked /\ ~client'[d].cancelled
                              => client[d].isLocked /\ ~client[d].cancelled
  BY <1>1 DEF TypeOK, LiveLocks
<1>3. c \notin Holders'
  <2>1. client'[c].cancelled = TRUE
    BY <1>1 DEF TypeOK, LiveLocks
  <2> QED
    BY <2>1 DEF Holders
<1>4. CASE ~client[c].isLocked
  <2>1. UNCHANGED <<group, moving, calm>> /\ lock' = lock
    BY <1>4 DEF Stop, servers
  <2> QED
    BY <1>2, <2>1, LocksKept
<1>5. CASE client[c].isLocked /\ call.isMoved /\ call.at \notin up
  <2>1. calm' = 0
    BY <1>5 DEF Stop, Unlock, Gone
  <2> QED
    BY <1>2, <2>1, Unsettles
<1>6. CASE client[c].isLocked /\ ~(call.isMoved /\ call.at \notin up)
  <2>1. /\ UNCHANGED <<group, moving, calm>>
        /\ \/ lock' = lock
           \/ lock' = [lock EXCEPT ![call.at] = Unlocked(call.at, client[c].token)]
    BY <1>6 DEF Stop, Unlock
  <2>2. call.at \in Filers
    BY <1>1, ClientFields, UnlockReaches DEF CallType
  <2> HIDE DEF call
  <2>3. ASSUME NEW d \in Holders', up # {}, Backs(lock[home], d)
        PROVE  lock'[home] = lock[home]
    <3>1. d \in Clients /\ d # c
      BY <1>3 DEF Holders
    <3>2. home \in Filers /\ lock[home] \in Locks
      BY <1>1, <2>3, HashFound DEF TypeOK
    <3>3. ~Expired(lock[home]) /\ client[d].token # NoToken
      BY <1>1, <2>3, <3>1, <3>2, BackedUnexpired
    <3>4. lock[home].token # client[c].token
      BY <2>3, <3>1, <3>3 DEF LockInv, TokensApart, Backs
    <3>5. Unlocked(home, client[c].token) = lock[home]
      BY <3>3, <3>4 DEF Unlocked
    <3> QED
      BY <1>1, <2>1, <2>2, <3>2, <3>5 DEF TypeOK
  <2> QED
    BY <1>2, <2>1, <2>3, LocksKept
<1> QED
  BY <1>4, <1>5, <1>6

LEMMA CleanUpStep ==
    ASSUME LockInv, TypeOK', NEW f \in Filers, CleanUp(f)
    PROVE  LockInv'
<1> DEFINE home == hashKeyToServer(up)
<1>1. /\ UNCHANGED <<group, moving, calm>> /\ client' = client
      /\ Expired(lock[f]) /\ lock' = [lock EXCEPT ![f] = NoLock] /\ TypeOK
  BY DEF CleanUp, LockInv
<1>2. ASSUME NEW d \in Holders', up # {}, Backs(lock[home], d)
      PROVE  lock'[home] = lock[home]
  <2>1. d \in Clients
    BY DEF Holders
  <2>2. home \in Filers /\ lock[home] \in Locks
    BY <1>1, <1>2, HashFound DEF TypeOK
  <2>3. ~Expired(lock[home])
    BY <1>1, <1>2, <2>1, <2>2, BackedUnexpired
  <2> QED
    BY <1>1, <2>2, <2>3 DEF TypeOK
<1> QED
  BY <1>1, <1>2, LocksKept

LEMMA TickStep ==
    ASSUME LockInv, TypeOK', Tick
    PROVE  LockInv'
<1> DEFINE home == hashKeyToServer(up)
<1>1. /\ TypeOK /\ calm \in 0 .. Renew + 1 /\ (calm > 0 => Settled) /\ UNCHANGED group
      /\ lock' = Aged(lock) /\ moving' = Aged(moving)
      /\ calm' = (IF Settled /\ calm <= Renew THEN calm + 1 ELSE calm)
      /\ \A c \in Clients : ~Due(c)
  BY DEF Tick, LockInv, CalmMeansSettled
<1>2. ASSUME NEW c \in Clients
      PROVE  /\ client'[c].token = client[c].token /\ client'[c].call = client[c].call
             /\ client'[c].isLocked = client[c].isLocked
             /\ client'[c].cancelled = client[c].cancelled
             /\ client'[c].timer = (IF client[c].timer = 0 THEN 0 ELSE client[c].timer - 1)
             /\ client[c].timer \in 0 .. Retry
  <2>1. client'[c] = IF client[c].timer = 0 THEN client[c]
                     ELSE [client[c] EXCEPT !.timer = @ - 1]
    BY DEF Tick
  <2>2. client[c] \in LiveLocks
    BY <1>1 DEF TypeOK
  <2> QED
    BY <2>1, <2>2 DEF LiveLocks
<1>3. TokensApart'
  BY <1>2 DEF LockInv, TokensApart
<1>4. Settled => Settled'
  <2> SUFFICES ASSUME Settled PROVE Settled'
    OBVIOUS
  <2>1. \A f \in up : moving'[f] = NoLock
    BY <1>1 DEF Settled, Aged, TypeOK
  <2>2. \A c \in Clients : client'[c].call = NoCall
    BY <1>2 DEF Settled, Stalled
  <2> QED
    BY <1>1, <2>1, <2>2 DEF Settled, Stalled, group
<1>5. CalmMeansSettled'
  BY <1>1, <1>4, RenewFacts DEF CalmMeansSettled
<1>6. HoldersRenew'
  <2> SUFFICES ASSUME NEW d \in Holders'
               PROVE  /\ client'[d].timer <= Renew
                      /\ \/ up' # {} /\ Backs(lock[hashKeyToServer(up)], d)'
                         \/ client'[d].timer + calm' <= Renew
    BY DEF HoldersRenew
  <2>1. d \in Clients /\ d \in Holders /\ up' = up
    BY <1>1, <1>2 DEF Holders, group
  <2>2. /\ client[d].timer <= Renew
        /\ \/ up # {} /\ Backs(lock[home], d)
           \/ client[d].timer + calm <= Renew
    BY <2>1 DEF LockInv, HoldersRenew
  <2>3. client[d].timer \in 0 .. Retry
    BY <1>2, <2>1
  <2>4. CASE ~Settled
    BY <1>1, <1>2, <2>1, <2>2, <2>3, <2>4, RenewFacts
  <2>5. CASE Settled
    <3>1. client[d].timer # 0
      BY <1>1, <2>1, <2>5 DEF Settled, Due, Holders
    <3>2. client'[d].timer = client[d].timer - 1
      BY <1>2, <2>1, <3>1
    <3>3. CASE client[d].timer + calm <= Renew
      BY <1>1, <2>2, <2>3, <3>2, <3>3, RenewFacts
    <3>4. CASE up # {} /\ Backs(lock[home], d)
      <4>1. home \in Filers /\ lock[home] \in Locks
        BY <1>1, <3>4, HashFound DEF TypeOK
      <4>2. lock[home] # NoLock /\ ~Expired(lock[home])
        BY <1>1, <2>1, <3>4, <4>1, BackedUnexpired
      <4>3. lock'[home] = [lock[home] EXCEPT !.left = @ - 1]
        BY <1>1, <4>1, <4>2 DEF Aged
      <4>4. lock[home] \in [token : Tokens, left : -1 .. TTL]
        BY <4>1, <4>2 DEF Locks
      <4>5. /\ lock'[home].token = lock[home].token
            /\ lock'[home].left = lock[home].left - 1
            /\ lock'[home] \in [token : Nat, left : Int]
        <5> HIDE DEF home
        <5> QED
          BY <4>3, <4>4 DEF Tokens
      <4>6. lock'[home] # NoLock
        BY <4>5, LockAssumption
      <4>7. lock[home].left \in Int /\ lock[home].left >= client[d].timer + (TTL - Renew)
            /\ lock[home].token = client[d].token
        BY <3>4, <4>4 DEF Backs
      <4>8. client'[d].token = client[d].token
        BY <1>2, <2>1
      <4>9. lock'[home].left >= client'[d].timer + (TTL - Renew)
        BY <2>3, <3>2, <4>5, <4>7, RenewFacts
      <4>10. Backs(lock[hashKeyToServer(up)], d)'
        BY <2>1, <4>5, <4>6, <4>7, <4>8, <4>9 DEF Backs
      <4>11. client'[d].timer <= Renew
        BY <2>2, <2>3, <3>2, RenewFacts
      <4> QED
        BY <2>1, <3>4, <4>10, <4>11
    <3> QED
      BY <2>2, <3>3, <3>4
  <2> QED
    BY <2>4, <2>5
<1> QED
  BY <1>3, <1>5, <1>6 DEF LockInv

LEMMA FilerStepInv ==
    ASSUME LockInv, TypeOK', NEW f \in Filers,
           \/ TransferLocks(f) \/ FilerDies(f) \/ FilerStarts(f)
           \/ FilerServes(f) \/ Disconnects(f) \/ Reconnects(f) \/ PeerUpdate(f)
    PROVE  LockInv'
<1>1. UNCHANGED client
  BY DEF TransferLocks, FilerDies, FilerStarts, FilerServes, Disconnects, Reconnects, PeerUpdate
<1>2. calm' = 0
  BY DEF TransferLocks, FilerDies, Gone, FilerStarts, Broadcast, FilerServes, Disconnects,
         Reconnects, PeerUpdate
<1> QED
  BY <1>1, <1>2, Unsettles

LEMMA StallStep ==
    ASSUME LockInv, TypeOK', NEW c \in Clients, Stall(c)
    PROVE  LockInv'
<1>1. PICK k : client' = [client EXCEPT ![c].call = k]
  BY DEF Stall
<1>2. \A d \in Clients : /\ client'[d].token = client[d].token
                         /\ client'[d].timer = client[d].timer
                         /\ client'[d].isLocked = client[d].isLocked
                         /\ client'[d].cancelled = client[d].cancelled
  BY <1>1 DEF LockInv, TypeOK, LiveLocks
<1>3. calm' = 0
  BY DEF Stall
<1> QED
  BY <1>2, <1>3, Unsettles

LEMMA LockInvStep == LockInv /\ [Next]_vars => LockInv'
<1> SUFFICES ASSUME LockInv, [Next]_vars PROVE LockInv'
  OBVIOUS
<1>0. TypeOK'
  BY TypeStep DEF LockInv
<1>1. CASE UNCHANGED vars
  BY <1>1 DEF vars, servers, group, LockInv, TypeOK, TokensApart, CalmMeansSettled, Settled,
              Stalled, HoldersRenew, Holders, Backs
<1>2. CASE Tick
  BY <1>0, <1>2, TickStep
<1>3. ASSUME NEW c \in Clients, ClientStep(c) \/ LoseReply(c) \/ Stall(c) \/ Stop(c)
      PROVE  LockInv'
  BY <1>0, <1>3, LockHereStep, LockNowhereStep, FailedCallStep, StallStep, StopStep
     DEF ClientStep
<1>4. ASSUME NEW f \in Filers,
             \/ CleanUp(f) \/ TransferLocks(f) \/ FilerDies(f) \/ FilerStarts(f)
             \/ FilerServes(f) \/ Disconnects(f) \/ Reconnects(f) \/ PeerUpdate(f)
      PROVE  LockInv'
  BY <1>0, <1>4, CleanUpStep, FilerStepInv
<1> QED
  BY <1>1, <1>2, <1>3, <1>4 DEF Next

\* After renewInterval of calm every holder is backed by the one lock on record.
LEMMA LockInvExclusive == LockInv => ExclusiveWhenSettled
<1> SUFFICES ASSUME LockInv, calm > Renew PROVE
       /\ Cardinality(Holders) <= 1
       /\ \A c \in Holders :
            LET l == lock[hashKeyToServer(up)] IN
            l # NoLock /\ ~Expired(l) /\ l.token = client[c].token
  BY DEF ExclusiveWhenSettled
<1> DEFINE home == hashKeyToServer(up)
<1>0. TypeOK
  BY DEF LockInv
<1>1. ASSUME NEW c \in Holders PROVE up # {} /\ Backs(lock[home], c) /\ c \in Clients
  <2>1. c \in Clients
    BY DEF Holders
  <2>2. client[c].timer \in 0 .. Retry /\ calm \in 0 .. Renew + 1
    BY <1>0, <2>1, ClientFields DEF LockInv, CalmMeansSettled
  <2>3. ~(client[c].timer + calm <= Renew)
    BY <2>2, RenewFacts
  <2> QED
    BY <2>1, <2>3 DEF LockInv, HoldersRenew
<1>2. ASSUME NEW c \in Holders
      PROVE  /\ lock[home] # NoLock /\ ~Expired(lock[home])
             /\ lock[home].token = client[c].token /\ client[c].token # NoToken
  <2>1. lock[home] \in Locks
    BY <1>0, <1>1, HashFound DEF TypeOK
  <2> QED
    BY <1>0, <1>1, <2>1, BackedUnexpired DEF Backs
<1>3. ASSUME NEW c \in Holders, NEW d \in Holders PROVE c = d
  BY <1>1, <1>2 DEF LockInv, TokensApart
<1>4. Cardinality(Holders) <= 1
  <2>1. CASE Holders = {}
    BY <2>1, FS_EmptySet
  <2>2. CASE Holders # {}
    <3>1. PICK c : Holders = {c}
      BY <1>3, <2>2
    <3> QED
      BY <3>1, FS_Singleton
  <2> QED
    BY <2>1, <2>2
<1> QED
  BY <1>2, <1>4

\* Mutual exclusion after calm: once the filers, their rings and the calls have been
\* settled for longer than renewInterval, at most one client takes itself for the
\* holder (IsLocked), and the filer that the ring names keeps an unexpired lock with
\* its token, whatever LockWithTimeout granted and TransferLocks moved before.
THEOREM OneHolderWhenSettled == Spec => []ExclusiveWhenSettled
<1>1. Init => LockInv
  BY InitLockInv
<1>2. LockInv /\ [Next]_vars => LockInv'
  BY LockInvStep
<1>3. LockInv => ExclusiveWhenSettled
  BY LockInvExclusive
<1> QED
  BY <1>1, <1>2, <1>3, PTL DEF Spec
=============================================================================
