--------------------------- MODULE HotnessWindow ---------------------------
(***************************************************************************)
(* What the hotness store promises: the last Capacity recorded events, and *)
(* for each path and operation how many of them there are, the bytes they  *)
(* moved and a time of last use that is forgotten once the path has no     *)
(* event left.  Recording an event is one step.                            *)
(***************************************************************************)
EXTENDS Naturals, Sequences, FiniteSets, FiniteSetsExt

CONSTANTS Paths, Ops, Events, Capacity

VARIABLES
    window,     \* the last events, oldest first
    tally       \* tally[p]: counts, bytes and times of last use

Of(win, p) == {i \in DOMAIN win : win[i].path = p}

OfOp(win, p, o) == {i \in Of(win, p) : win[i].op = o}

Slide(e) ==
    IF Len(window) = Capacity THEN Append(Tail(window), e) ELSE Append(window, e)

LastUse(win, p, o, e) ==
    IF Of(win, p) = {} THEN 0
    ELSE IF e.path = p /\ e.op = o /\ e.ts > tally[p].last[o] THEN e.ts
    ELSE tally[p].last[o]

Init ==
    /\ window = << >>
    /\ tally = [p \in Paths |-> [count |-> [o \in Ops |-> 0],
                                 bytes |-> [o \in Ops |-> 0],
                                 last  |-> [o \in Ops |-> 0]]]

Record(e) ==
    /\ window' = Slide(e)
    /\ tally' = [p \in Paths |->
         [count |-> [o \in Ops |-> Cardinality(OfOp(window', p, o))],
          bytes |-> [o \in Ops |->
                       MapThenSumSet(LAMBDA i : window'[i].bytes, OfOp(window', p, o))],
          last  |-> [o \in Ops |-> LastUse(window', p, o, e)]]]

Next == \E e \in Events : Record(e)

Spec == Init /\ [][Next]_<<window, tally>>
=============================================================================
