------------------------------- MODULE EventLog -------------------------------
(***************************************************************************)
(* What an event store promises its writers (EventStore.append in          *)
(* fastx_database/events/store.py): each aggregate has one log, an append  *)
(* adds a whole batch to its end, and an append that states the version it *)
(* expects happens only if that is the version the log has.                *)
(***************************************************************************)
EXTENDS Integers, Sequences

CONSTANTS
  Aggregates,
  Expected(_)      \* the version the append of an entry stated, or Unstated

Unstated == -1

VARIABLE log       \* aggregate -> the sequence of its entries

Init == log = [a \in Aggregates |-> <<>>]

Extend(a, batch) ==
  /\ \A i \in DOMAIN batch : Expected(batch[i]) \in {Unstated, Len(log[a])}
  /\ log' = [log EXCEPT ![a] = @ \o batch]

\* The entries a step adds to the log of an aggregate.
Added(a) == SubSeq(log'[a], Len(log[a]) + 1, Len(log'[a]))

Next == \E a \in Aggregates : Extend(a, Added(a))

Spec == Init /\ [][Next]_log
=============================================================================
