--------------------------- MODULE DistributedLock ---------------------------
(***************************************************************************)
(* The distributed lock manager of the filers (weed/cluster/lock_manager,  *)
(* weed/server/filer_grpc_server_dlm.go) and the long-lived locks of its   *)
(* clients (weed/cluster/lock_client.go): the S3 metrics leader, the       *)
(* balancer of the message queue, the Kafka coordinator.  The ring of      *)
(* filers, which each filer learns from the master in its own time, says   *)
(* which filer keeps a lock; a filer asked for another one's lock forwards *)
(* the request once; a change of the ring moves the locks.  A lock is a    *)
(* lease that its holder renews, each time for a new token.                *)
(*                                                                         *)
(* The model is of one key: keys do not interact.  Time passes in ticks;   *)
(* a lease is kept as the time it has left.  A call takes no time unless   *)
(* it stalls, and a client that is due makes its call before time passes.  *)
(* The filers' clocks agree.  A token (a uuid) is a number no one has.     *)
(***************************************************************************)
EXTENDS Integers, FiniteSets, Sequences

CONSTANTS
    Filers,       \* numbers: the ring is sorted
    Clients,
    KeyHash,      \* HashStringToLong of the key
    Seed,         \* Seed[c]: the filer that client c was started with
    FirstFilers,  \* the filers that are up in the beginning
    TTL,          \* lockTTL
    MaxEvents,    \* bound on filers that start, die or lose the master, on replies
                  \* that are lost, calls that stall and clients that stop
    NoLock        \* no lock is kept

\* renewInterval, and the pause after a failed attempt.
Renew == TTL \div 2
Retry == 5 * Renew

ASSUME LockAssumption ==
    /\ Filers \subseteq Nat /\ IsFiniteSet(Filers)
    /\ FirstFilers \subseteq Filers /\ FirstFilers # {}
    /\ IsFiniteSet(Clients)
    /\ KeyHash \in Nat
    /\ Seed \in [Clients -> Filers]
    /\ TTL \in Nat /\ TTL >= 2
    /\ MaxEvents \in Nat
    /\ NoLock \notin [token : Nat, left : Int]

VARIABLES
    up,           \* filers that serve
    starting,     \* filers that have asked the master for their peers
    members,      \* filers the master is connected to
    inbox,        \* inbox[f]: the master's messages to f: <<filer, isAdd>>
    ring,         \* ring[f]: the latest snapshot of f's LockRing
    lock,         \* lock[f]: what f's LockManager keeps for the key
    moving,       \* moving[f]: a lock that f is about to transfer
    client,       \* client[c]: the LiveLock of c and the call it makes
    calm,         \* ticks since filers, rings and calls were last unsettled (history)
    missed,       \* a filer that runs was not told of a change (history)
    events

group == <<up, starting, members, inbox, ring>>
servers == <<group, lock, moving>>
vars == <<servers, client, calm, missed, events>>

-----------------------------------------------------------------------------

NoToken == 0
Tokens == 1 .. 2 * (Cardinality(Clients) + Cardinality(Filers))
NoFiler == -1
NoCall == [at |-> NoFiler, isMoved |-> FALSE, asked |-> NoToken]

\* uuid.New for a call of c that is granted at f: a token that nobody will have but
\* c and f, whose old ones are replaced.
Fresh(c, f) ==
    LET others == Clients \ {c}
        used == {client[d].token : d \in others} \cup {client[d].call.asked : d \in others}
                \cup {lock[g].token : g \in {g \in Filers \ {f} : lock[g] # NoLock}}
                \cup {moving[g].token : g \in {g \in Filers : moving[g] # NoLock}}
    IN  CHOOSE t \in Tokens \ used : \A u \in Tokens \ used : t <= u

\* hashKeyToServer: the server at the place of the key's hash in the sorted list.
hashKeyToServer(servs) ==
    IF servs = {} THEN NoFiler
    ELSE CHOOSE s \in servs : Cardinality({t \in servs : t < s}) = KeyHash % Cardinality(servs)

Expired(l) == l.left < 0

\* A LiveLock as it is started: it attempts to lock at once.
NewLiveLock(c) ==
    [token |-> NoToken, host |-> Seed[c], isLocked |-> FALSE, failures |-> 0, timer |-> 0,
     cancelled |-> FALSE, call |-> NoCall]

Init ==
    /\ up = FirstFilers /\ starting = {} /\ members = FirstFilers
    /\ inbox = [f \in Filers |-> << >>]
    /\ ring = [f \in Filers |-> IF f \in FirstFilers THEN FirstFilers ELSE {}]
    /\ lock = [f \in Filers |-> NoLock]
    /\ moving = [f \in Filers |-> NoLock]
    /\ client = [c \in Clients |-> NewLiveLock(c)]
    /\ calm = 0 /\ missed = FALSE /\ events = 0

-----------------------------------------------------------------------------
(* LockManager *)

\* for validating ExclusiveWhenSettled: a caller without a token gets a lock that is kept.
GrantsNew(f, token) ==
    token = NoToken \/ (lock[f] # NoLock /\ ~Expired(lock[f]) /\ lock[f].token = token)

\* Whether Lock grants: there is no lock or it has expired, and the caller comes
\* without a token, or the caller has the token of the lock.
Grants(f, token) ==
    IF lock[f] = NoLock \/ Expired(lock[f]) THEN token = NoToken ELSE lock[f].token = token

\* Unlock removes an expired lock and one whose token the caller has.
Unlocked(f, token) ==
    IF lock[f] # NoLock /\ (Expired(lock[f]) \/ lock[f].token = token) THEN NoLock ELSE lock[f]

\* CleanUp, once a minute.
CleanUp(f) ==
    /\ lock[f] # NoLock /\ Expired(lock[f])
    /\ lock' = [lock EXCEPT ![f] = NoLock]
    /\ UNCHANGED <<group, moving, client, calm, missed, events>>

-----------------------------------------------------------------------------
(* The client's loop *)

Stalled(c) == client[c].call # NoCall
Due(c) == ~Stalled(c) /\ client[c].timer = 0 /\ ~client[c].cancelled

\* The call that c makes, to the filer it knows of, or that goes on after a stall.
Call(c) ==
    IF Stalled(c) THEN client[c].call
    ELSE [at |-> client[c].host, isMoved |-> FALSE, asked |-> client[c].token]

\* A filer that runs and does not hold its ring for a transfer answers.
Answers(f) == f \in up /\ moving[f] = NoLock

\* DistributedLock sends a call that comes from a client to the filer that its ring
\* names.
Forwarded(call) ==
    LET to == hashKeyToServer(ring[call.at]) IN
    IF Answers(call.at) /\ ~call.isMoved /\ to \notin {call.at, NoFiler}
    THEN [call EXCEPT !.at = to, !.isMoved = TRUE] ELSE call

\* The loop has an answer or an error: it waits for renewInterval while it is locked,
\* five times as long if not.
Waits(c, token, host, failures, ok) ==
    client' = [client EXCEPT ![c].token = token, ![c].host = host, ![c].failures = failures,
                             ![c].isLocked = ok, ![c].timer = IF ok THEN Renew ELSE Retry,
                             ![c].call = NoCall]

\* for validating TypeOK: the failures are counted on.
UnansweredCountsOn(c) ==
    LET away == client[c].host # Seed[c]
        lost == away /\ client[c].failures + 1 >= 3
    IN  Waits(c, NoToken, IF lost THEN Seed[c] ELSE client[c].host,
              IF away THEN client[c].failures + 1 ELSE client[c].failures, FALSE)

\* for validating SomeoneLocks: the client stays with the filer that moved its lock.
UnansweredStays(c) == Waits(c, NoToken, client[c].host, client[c].failures, FALSE)

\* No answer came: after three times the client goes back to its seed filer.
Unanswered(c) ==
    LET away == client[c].host # Seed[c]
        lost == away /\ client[c].failures + 1 >= 3
    IN  Waits(c, NoToken, IF lost THEN Seed[c] ELSE client[c].host,
              IF lost THEN 0 ELSE IF away THEN client[c].failures + 1 ELSE client[c].failures,
              FALSE)

\* An answer came, through the filer that was called: its token is kept, and without
\* an error message the client takes the key for locked, with or without a token.
Answered(c, call, token, ok) ==
    IF client[c].host \in up
    THEN Waits(c, token, IF call.isMoved THEN call.at ELSE client[c].host, 0, ok)
    ELSE Unanswered(c)

\* LockWithTimeout on the filer that its own ring names.
LockHere(c) ==
    LET call == Forwarded(Call(c))  f == call.at IN
    /\ Due(c) \/ Stalled(c)
    /\ Answers(f) /\ hashKeyToServer(ring[f]) = f
    /\ IF Grants(f, call.asked)
       THEN /\ lock' = [lock EXCEPT ![f] = [token |-> Fresh(c, f), left |-> TTL]]
            /\ Answered(c, call, Fresh(c, f), TRUE)
       ELSE Answered(c, call, NoToken, FALSE) /\ UNCHANGED lock
    /\ UNCHANGED <<group, moving, calm, missed, events>>

\* A request that would have to be forwarded again, or that meets an empty ring, is
\* answered with neither a token nor an error.
LockNowhere(c) ==
    LET call == Forwarded(Call(c)) IN
    /\ Due(c) \/ Stalled(c)
    /\ Answers(call.at) /\ hashKeyToServer(ring[call.at]) # call.at
    /\ Answered(c, call, NoToken, TRUE)
    /\ UNCHANGED <<servers, calm, missed, events>>

\* A filer is down: the client gets an error, or an answer with the error that the
\* filer met which forwarded the request.
ConnectionFails(c) ==
    LET call == Forwarded(Call(c)) IN
    /\ Due(c) \/ Stalled(c)
    /\ call.at \notin up
    /\ IF call.isMoved THEN Answered(c, call, NoToken, FALSE) ELSE Unanswered(c)
    /\ UNCHANGED <<servers, calm, missed, events>>

\* The filer has done its part, and the answer is lost.
LoseReply(c) ==
    LET call == Forwarded(Call(c))  f == call.at IN
    /\ events < MaxEvents /\ events' = events + 1
    /\ Due(c) \/ Stalled(c)
    /\ Answers(f) /\ hashKeyToServer(ring[f]) = f /\ Grants(f, call.asked)
    /\ lock' = [lock EXCEPT ![f] = [token |-> Fresh(c, f), left |-> TTL]]
    /\ Unanswered(c)
    /\ UNCHANGED <<group, moving, calm, missed>>

\* A call has no deadline: it stalls before the first or the second filer sees it,
\* and time passes until it goes on.
Stall(c) ==
    /\ events < MaxEvents /\ events' = events + 1
    /\ Due(c)
    /\ \E call \in {Call(c), Forwarded(Call(c))} : client' = [client EXCEPT ![c].call = call]
    /\ calm' = 0
    /\ UNCHANGED <<servers, missed>>

\* The process of f is gone, with the locks it keeps; the master notices later.
Gone(f) ==
    /\ up' = up \ {f}
    /\ lock' = [lock EXCEPT ![f] = NoLock] /\ moving' = [moving EXCEPT ![f] = NoLock]
    /\ ring' = [ring EXCEPT ![f] = {}] /\ inbox' = [inbox EXCEPT ![f] = << >>]
    /\ calm' = 0
    /\ UNCHANGED <<starting, members, missed>>

\* DistributedUnlock.  A request that is forwarded to a filer that does not serve has
\* no response: the filer that forwards it panics over it.
Unlock(host, token) ==
    LET call == Forwarded([NoCall EXCEPT !.at = host])
        there == Answers(call.at) /\ hashKeyToServer(ring[call.at]) = call.at
    IN  IF call.isMoved /\ call.at \notin up THEN Gone(host)
        ELSE /\ lock' = IF there THEN [lock EXCEPT ![call.at] = Unlocked(call.at, token)] ELSE lock
             /\ UNCHANGED <<group, moving, calm, missed>>

\* Stop: the loop is told to end and a lock that is held is released, with the
\* token known now, while a call of the loop may be on its way.
Stop(c) ==
    /\ ~client[c].cancelled
    /\ events < MaxEvents /\ events' = events + 1
    /\ client' = [client EXCEPT ![c].cancelled = TRUE, ![c].isLocked = FALSE]
    /\ IF client[c].isLocked THEN Unlock(client[c].host, client[c].token)
       ELSE UNCHANGED <<servers, calm, missed>>

-----------------------------------------------------------------------------
(* Filers and rings *)

\* broadcastToClients, when the group is now `now`: the filers that serve and are
\* connected will get the message; one that is starting drops it, and the messages
\* of a broken connection are gone.
Broadcast(now, g, isAdd) ==
    /\ members' = now
    /\ inbox' = [f \in Filers |-> IF f \notin now THEN << >>
                                  ELSE IF f \in up THEN Append(inbox[f], <<g, isAdd>>)
                                  ELSE inbox[f]]
    /\ missed' = (\/ missed \/ up \ (now \cup {g}) # {} \/ starting \ {g} # {}
                  \/ \E f \in up \ now : inbox[f] # << >>)
    /\ calm' = 0

\* AddServer and RemoveServer take a snapshot, unless nothing changes, and with it
\* OnDlmChangeSnapshot takes out a lock that is now another filer's.
PeerUpdate(f) ==
    /\ f \in up /\ moving[f] = NoLock /\ inbox[f] # << >>
    /\ inbox' = [inbox EXCEPT ![f] = Tail(@)]
    /\ LET g == Head(inbox[f])[1]
           servs == IF Head(inbox[f])[2] THEN ring[f] \cup {g} ELSE ring[f] \ {g}
           gone == servs # ring[f] /\ lock[f] # NoLock
                   /\ (Expired(lock[f]) \/ hashKeyToServer(servs) # f)
       IN  /\ ring' = [ring EXCEPT ![f] = servs]
           /\ lock' = IF gone THEN [lock EXCEPT ![f] = NoLock] ELSE lock
           /\ moving' = IF gone /\ ~Expired(lock[f]) THEN [moving EXCEPT ![f] = lock[f]]
                        ELSE moving
    /\ calm' = 0
    /\ UNCHANGED <<up, starting, members, client, missed, events>>

\* TransferLocks: InsertLock at the target puts the lock there whatever it has.  A
\* transfer that fails is not tried again.
TransferLocks(f) ==
    LET to == hashKeyToServer(ring[f]) IN
    /\ f \in up /\ moving[f] # NoLock
    /\ lock' = IF to \in up THEN [lock EXCEPT ![to] = moving[f]] ELSE lock
    /\ moving' = [moving EXCEPT ![f] = NoLock]
    /\ calm' = 0
    /\ UNCHANGED <<group, client, missed, events>>

FilerDies(f) ==
    /\ f \in up /\ events < MaxEvents
    /\ events' = events + 1
    /\ Gone(f)
    /\ UNCHANGED client

\* A filer that starts connects to the master, which broadcasts it unless it takes it
\* for connected still, and asks for the list of its peers.
FilerStarts(f) ==
    /\ f \notin up \cup starting /\ events < MaxEvents
    /\ events' = events + 1
    /\ starting' = starting \cup {f}
    /\ ring' = [ring EXCEPT ![f] = members \cup {f}]
    /\ IF f \in members THEN calm' = 0 /\ UNCHANGED <<members, inbox, missed>>
       ELSE Broadcast(members \cup {f}, f, TRUE)
    /\ UNCHANGED <<up, lock, moving, client>>

\* AggregateFromPeers has taken the list for the first snapshot, and the filer serves.
FilerServes(f) ==
    /\ f \in starting
    /\ starting' = starting \ {f} /\ up' = up \cup {f}
    /\ calm' = 0
    /\ UNCHANGED <<members, inbox, ring, lock, moving, client, missed, events>>

\* The stream of KeepConnected ends: the filer is gone, or only the connection.
Disconnects(f) ==
    /\ f \in members \ starting
    /\ f \in up => events < MaxEvents
    /\ events' = IF f \in up THEN events + 1 ELSE events
    /\ Broadcast(members \ {f}, f, FALSE)
    /\ UNCHANGED <<up, starting, ring, lock, moving, client>>

\* for validating RingsAgree: nobody is told that a filer is back.
ReconnectsSilently(f) ==
    /\ f \in up \ members
    /\ members' = members \cup {f} /\ calm' = 0
    /\ UNCHANGED <<up, starting, inbox, ring, lock, moving, client, missed, events>>

\* The filer connects to the master again, and is broadcast; it does not ask for the
\* list of its peers again.
Reconnects(f) ==
    /\ f \in up \ members
    /\ Broadcast(members \cup {f}, f, TRUE)
    /\ UNCHANGED <<up, starting, ring, lock, moving, client, events>>

\* Every filer that runs has the ring of the filers that run, and no call stalls.
Settled ==
    /\ members = up /\ starting = {}
    /\ \A f \in up : ring[f] = up /\ moving[f] = NoLock
    /\ \A c \in Clients : ~Stalled(c)

Aged(locks) ==
    [f \in Filers |-> IF locks[f] = NoLock \/ Expired(locks[f]) THEN locks[f]
                      ELSE [locks[f] EXCEPT !.left = @ - 1]]

\* Time passes once the clients that are due have made their calls.
Tick ==
    /\ \A c \in Clients : ~Due(c)
    /\ client' = [c \in Clients |-> IF client[c].timer = 0 THEN client[c]
                                    ELSE [client[c] EXCEPT !.timer = @ - 1]]
    /\ lock' = Aged(lock) /\ moving' = Aged(moving)
    /\ calm' = IF Settled /\ calm <= Renew THEN calm + 1 ELSE calm
    /\ UNCHANGED <<group, missed, events>>

-----------------------------------------------------------------------------

ClientStep(c) == LockHere(c) \/ LockNowhere(c) \/ ConnectionFails(c)

Next ==
    \/ \E c \in Clients : ClientStep(c) \/ LoseReply(c) \/ Stall(c) \/ Stop(c)
    \/ \E f \in Filers : \/ CleanUp(f) \/ TransferLocks(f) \/ FilerDies(f) \/ FilerStarts(f)
                         \/ FilerServes(f) \/ Disconnects(f) \/ Reconnects(f) \/ PeerUpdate(f)
    \/ Tick

\* Clients, transfers, the master's updates and the clock go on.
Fairness ==
    /\ WF_vars(Tick)
    /\ \A c \in Clients : WF_vars(ClientStep(c))
    /\ \A f \in Filers : /\ WF_vars(TransferLocks(f)) /\ WF_vars(PeerUpdate(f))
                         /\ WF_vars(FilerServes(f)) /\ WF_vars(Reconnects(f))
                         /\ WF_vars(f \notin up /\ Disconnects(f))

Spec == Init /\ [][Next]_vars /\ Fairness

-----------------------------------------------------------------------------
(* Properties *)

Locks == [token : Tokens, left : -1 .. TTL] \cup {NoLock}

Calls == [at : Filers, isMoved : BOOLEAN, asked : Tokens \cup {NoToken}] \cup {NoCall}

LiveLocks ==
    [token : Tokens \cup {NoToken}, host : Filers, isLocked : BOOLEAN, failures : 0 .. 2,
     timer : 0 .. Retry, cancelled : BOOLEAN, call : Calls]

\* Type invariant of the filers' tables and of the clients' locks.
TypeOK ==
    /\ up \subseteq Filers /\ starting \subseteq Filers \ up /\ members \subseteq Filers
    /\ inbox \in [Filers -> Seq(Filers \X BOOLEAN)]
    /\ \A f \in Filers : inbox[f] # << >> => f \in up \cap members
    /\ ring \in [Filers -> SUBSET Filers]
    /\ lock \in [Filers -> Locks] /\ moving \in [Filers -> Locks]
    /\ client \in [Clients -> LiveLocks]

\* The clients that IsLocked tells they have the lock.
Holders == {c \in Clients : client[c].isLocked /\ ~client[c].cancelled}

\* Once filers and rings have been settled for as long as a holder waits to renew,
\* at most one client takes itself for the holder, and the filer that the ring
\* names keeps an unexpired lock with its token: whatever locks were lost, moved
\* or granted twice before, clients find out when they renew.
ExclusiveWhenSettled ==
    calm > Renew =>
        /\ Cardinality(Holders) <= 1
        /\ \A c \in Holders :
            LET l == lock[hashKeyToServer(up)] IN
            l # NoLock /\ ~Expired(l) /\ l.token = client[c].token

\* A lock is not lost for good: again and again some client holds it, as long as a
\* client runs whose seed filer, the only one it goes back to, is up, and no filer
\* has missed a change of the ring: the master never tells it again, and it forwards
\* every request to a filer that is gone.
SomeoneLocks ==
    []<>(\/ Holders # {} \/ missed
         \/ \A c \in Clients : client[c].cancelled \/ Seed[c] \notin up)

\* Filers that the master has told of every change come to agree on the ring.
RingsAgree == []<>(missed \/ \A f \in up : ring[f] = up)
=============================================================================
