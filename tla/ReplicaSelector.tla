--------------------------- MODULE ReplicaSelector ---------------------------
(***************************************************************************)
(* The replica selection strategies of fastx_database/read_replicas.py,    *)
(* shared by every RoutingSession of one ReplicaSessionFactory, and the    *)
(* connection pools of the replicas they choose among.  A session that has *)
(* been given a replica checks a connection out of its pool, keeps it, one *)
(* per engine, until its transaction ends, and meanwhile may be sent to    *)
(* another replica by its next SELECT.                                     *)
(***************************************************************************)
EXTENDS Integers, FiniteSets

CONSTANTS
  Sessions,     \* sessions, each driven by its own thread
  NumReplicas,  \* length of the list of replica engines
  Strategies,   \* the strategies a factory may be built with
  Capacity,     \* connections a replica's pool can hand out
  MaxLead       \* bound: count of selections a replica can be ahead by

Strategy == {"round_robin", "random", "least_connections"}

Replicas == 0 .. NumReplicas - 1
None == -1
Nobody == "nobody"

ASSUME SelectorAssumption ==
  /\ NumReplicas \in Nat \ {0}
  /\ Strategies \subseteq Strategy
  /\ Capacity \in Nat \ {0} /\ MaxLead \in Nat \ {0}
  /\ Nobody \notin Sessions

VARIABLES
  strategy,  \* the factory's strategy
  index,     \* _index of the round robin, modulo NumReplicas
  lock,      \* the session inside the round robin's lock, or Nobody
  pc,        \* session -> "idle", "locked" or "connecting"
  chosen,    \* session -> the replica its SELECT is sent to, or None
  held,      \* session -> replicas it holds a connection to
  lead       \* replica -> SELECTs it was chosen for beyond the least chosen

vars == <<strategy, index, lock, pc, chosen, held, lead>>

TypeOK ==
  /\ strategy \in Strategies
  /\ index \in Replicas
  /\ lock \in Sessions \union {Nobody}
  /\ pc \in [Sessions -> {"idle", "locked", "connecting"}]
  /\ chosen \in [Sessions -> Replicas \union {None}]
  /\ held \in [Sessions -> SUBSET Replicas]
  /\ lead \in [Replicas -> 0 .. MaxLead]

Init ==
  /\ strategy \in Strategies
  /\ index = 0
  /\ lock = Nobody
  /\ pc = [s \in Sessions |-> "idle"]
  /\ chosen = [s \in Sessions |-> None]
  /\ held = [s \in Sessions |-> {}]
  /\ lead = [r \in Replicas |-> 0]

-----------------------------------------------------------------------------
(* pool.checkedout() *)
CheckedOut(r) == Cardinality({s \in Sessions : r \in held[s]})

\* r is chosen once more: counted relative to the replica chosen least, and no
\* further than MaxLead.
Chosen(r) ==
  IF \A q \in Replicas \ {r} : lead[q] > 0
  THEN [q \in Replicas |-> IF q = r THEN lead[r] ELSE lead[q] - 1]
  ELSE [lead EXCEPT ![r] = IF @ < MaxLead THEN @ + 1 ELSE @]

Choose(s, r) ==
  /\ chosen' = [chosen EXCEPT ![s] = r]
  /\ lead' = Chosen(r)

\* Mutant: the round robin is not locked.
EnterUnlocked(s) ==
  /\ strategy = "round_robin"
  /\ pc[s] = "idle"
  /\ pc' = [pc EXCEPT ![s] = "locked"]
  /\ UNCHANGED <<strategy, index, lock, chosen, held, lead>>

\* _RoundRobinSelector.select takes the lock.
Enter(s) ==
  /\ strategy = "round_robin"
  /\ pc[s] = "idle" /\ lock = Nobody
  /\ lock' = s
  /\ pc' = [pc EXCEPT ![s] = "locked"]
  /\ UNCHANGED <<strategy, index, chosen, held, lead>>

\* It reads the engine at the index ...
Read(s) ==
  /\ pc[s] = "locked" /\ chosen[s] = None
  /\ Choose(s, index)
  /\ UNCHANGED <<strategy, index, lock, pc, held>>

\* Mutant: the index is neither wrapped here nor taken modulo on reading.
AdvanceUnwrapped(s) ==
  /\ pc[s] = "locked" /\ chosen[s] # None
  /\ index' = index + 1
  /\ lock' = Nobody
  /\ pc' = [pc EXCEPT ![s] = "connecting"]
  /\ UNCHANGED <<strategy, chosen, held, lead>>

\* ... advances the index and leaves the lock.
Advance(s) ==
  /\ pc[s] = "locked" /\ chosen[s] # None
  /\ index' = (index + 1) % NumReplicas
  /\ lock' = Nobody
  /\ pc' = [pc EXCEPT ![s] = "connecting"]
  /\ UNCHANGED <<strategy, chosen, held, lead>>

\* _RandomSelector.select: any replica.
SelectRandom(s) ==
  /\ strategy = "random" /\ pc[s] = "idle"
  /\ \E r \in Replicas : Choose(s, r)
  /\ pc' = [pc EXCEPT ![s] = "connecting"]
  /\ UNCHANGED <<strategy, index, lock, held>>

\* _LeastConnectionsSelector.select: min() returns the first of the least, so
\* equal replicas do not take turns, as the docstring says they do.
SelectLeast(s) ==
  /\ strategy = "least_connections" /\ pc[s] = "idle"
  /\ \E r \in Replicas :
       /\ \A q \in Replicas : CheckedOut(r) <= CheckedOut(q)
       /\ \A q \in 0 .. r - 1 : CheckedOut(r) < CheckedOut(q)
       /\ Choose(s, r)
  /\ pc' = [pc EXCEPT ![s] = "connecting"]
  /\ UNCHANGED <<strategy, index, lock, held>>

\* The session's transaction reuses the connection it holds to the engine, or
\* checks one out of its pool if the pool has one left.
Connect(s) ==
  /\ pc[s] = "connecting"
  /\ chosen[s] \in held[s] \/ CheckedOut(chosen[s]) < Capacity
  /\ held' = [held EXCEPT ![s] = @ \union {chosen[s]}]
  /\ chosen' = [chosen EXCEPT ![s] = None]
  /\ pc' = [pc EXCEPT ![s] = "idle"]
  /\ UNCHANGED <<strategy, index, lock, lead>>

\* Mutant: a session that already holds a connection waits without a timeout.
PoolTimeoutUnlessHolding(s) ==
  /\ pc[s] = "connecting" /\ held[s] = {}
  /\ CheckedOut(chosen[s]) >= Capacity
  /\ chosen' = [chosen EXCEPT ![s] = None]
  /\ pc' = [pc EXCEPT ![s] = "idle"]
  /\ UNCHANGED <<strategy, index, lock, held, lead>>

\* The pool stays empty for pool_timeout: the SELECT raises TimeoutError.
PoolTimeout(s) ==
  /\ pc[s] = "connecting"
  /\ chosen[s] \notin held[s] /\ CheckedOut(chosen[s]) >= Capacity
  /\ chosen' = [chosen EXCEPT ![s] = None]
  /\ pc' = [pc EXCEPT ![s] = "idle"]
  /\ UNCHANGED <<strategy, index, lock, held, lead>>

\* commit(), rollback() or close() gives every connection back.
Release(s) ==
  /\ pc[s] = "idle" /\ held[s] # {}
  /\ held' = [held EXCEPT ![s] = {}]
  /\ UNCHANGED <<strategy, index, lock, pc, chosen, lead>>

Next ==
  \E s \in Sessions :
    \/ Enter(s) \/ Read(s) \/ Advance(s)
    \/ SelectRandom(s) \/ SelectLeast(s)
    \/ Connect(s) \/ PoolTimeout(s) \/ Release(s)

\* select() runs to its end once entered, and a pool answers a waiting session
\* with a connection or, after pool_timeout, an error.  Callers owe nothing:
\* they need neither read again nor end their transactions.
Fairness ==
  \A s \in Sessions : WF_vars(Read(s)) /\ WF_vars(Advance(s))
                      /\ WF_vars(Connect(s) \/ PoolTimeout(s))

Spec == Init /\ [][Next]_vars
FairSpec == Spec /\ Fairness

-----------------------------------------------------------------------------
(* Properties *)

\* The round robin spreads the SELECTs of all sessions and threads evenly: no
\* replica is ever two ahead of another, however the threads interleave.
RoundRobinBalanced ==
  strategy = "round_robin" =>
    \A q, r \in Replicas : lead[q] <= lead[r] + 1

\* Sessions that hold a connection to one replica and wait for another's do
\* not wait for each other forever: each SELECT gets a connection or an error.
SelectCompletes ==
  \A s \in Sessions : pc[s] = "connecting" ~> pc[s] = "idle"
==============================================================================
