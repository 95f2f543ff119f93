--------------------------- MODULE TopologicalSort ---------------------------
(* Kahn's algorithm with a first-in first-out queue, as the migration registry *)
(* and the seeder each write it.  A node is queued when the last of its        *)
(* dependencies is taken from the queue; nodes that are freed together keep    *)
(* the order in which they were given.                                         *)
EXTENDS Integers, Sequences, SequencesExt

\* The nodes that are in S, in order.
Those(nodes, S) ==
    LET kept[n \in 0..Len(nodes)] ==
          IF n = 0 THEN <<>>
          ELSE IF nodes[n] \in S THEN Append(kept[n - 1], nodes[n]) ELSE kept[n - 1]
    IN  kept[Len(nodes)]

Free(nodes, deps) ==
    [ordered |-> <<>>,
     queue |-> Those(nodes, {m \in ToSet(nodes) : deps[m] = {}})]

Pop(nodes, deps, s) ==
    LET node == Head(s.queue)
        done == Append(s.ordered, node)
        freed == {m \in ToSet(nodes) : node \in deps[m] /\ deps[m] \subseteq ToSet(done)}
    IN  IF s.queue = <<>> THEN s
        ELSE [ordered |-> done, queue |-> Tail(s.queue) \o Those(nodes, freed)]

\* after[n] holds the one state after n rounds (a set, so that TLC computes it
\* once).  When the queue is empty nothing changes; with a circle some nodes are
\* missing.
Kahn(nodes, deps) ==
    LET after[n \in 0..Len(nodes)] ==
          IF n = 0 THEN {Free(nodes, deps)}
          ELSE {Pop(nodes, deps, s) : s \in after[n - 1]}
    IN  (CHOOSE s \in after[Len(nodes)] : TRUE).ordered
=============================================================================
