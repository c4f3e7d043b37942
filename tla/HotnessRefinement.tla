------------------------- MODULE HotnessRefinement -------------------------
(***************************************************************************)
(* HotnessRing implements HotnessWindow as long as no Record fails between *)
(* its writes.  A Record takes effect when its slot is written: from then  *)
(* on the position and the counters that count are the ones the lock's     *)
(* holder is about to save.                                                *)
(***************************************************************************)
EXTENDS HotnessRing, Sequences

Committed == lock # NoWriter /\ pc[lock] \in {"counters", "meta"}

EffectiveMeta == IF Committed THEN txn[lock].meta ELSE meta

EffectiveCounters ==
    IF Committed THEN Compact(Kind[lock], txn[lock].counters) ELSE counters

InOrder ==
    [i \in 1 .. EffectiveMeta.size |-> ring[(EffectiveMeta.tail + i - 1) % Capacity]]

Abstract == INSTANCE HotnessWindow WITH window <- InOrder, tally <- EffectiveCounters

\* Without failures, concurrent Records through the two implementations look
\* like a sliding window of events with exact counts, bytes and times of last
\* use, each Record one indivisible step.
ImplementsWindow == Abstract!Spec
=============================================================================
