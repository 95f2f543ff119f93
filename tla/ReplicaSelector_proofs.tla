------------------------ MODULE ReplicaSelector_proofs ------------------------
(***************************************************************************)
(* Proofs about ReplicaSelector, for any number of sessions, replicas and  *)
(* connections: the type invariant, and that the round robin is even.      *)
(***************************************************************************)
EXTENDS ReplicaSelector, TLAPS

\* One session at a time is inside the lock; a session has a replica from its
\* choice until it is connected.
LockInv ==
  \A s \in Sessions :
    /\ pc[s] = "locked" <=> lock = s
    /\ pc[s] = "connecting" => chosen[s] # None
    /\ pc[s] = "idle" => chosen[s] = None

TypedLocked == TypeOK /\ LockInv

\* The replicas that have had their turn in this lap of the round robin: those
\* below the index, and the one that has been read at it.
Turn == IF lock # Nobody /\ chosen[lock] # None THEN index + 1 ELSE index

\* They are one ahead of the others, and nothing is when the lap is complete.
LapInv ==
  strategy = "round_robin" =>
    \A r \in Replicas : lead[r] = IF Turn < NumReplicas /\ r < Turn THEN 1 ELSE 0

LEMMA ChosenType ==
  ASSUME TypeOK, NEW r \in Replicas
  PROVE  Chosen(r) \in [Replicas -> 0 .. MaxLead]
<1>1. MaxLead \in Nat \ {0} /\ lead \in [Replicas -> 0 .. MaxLead]
  BY SelectorAssumption DEF TypeOK
<1>2. CASE \A q \in Replicas \ {r} : lead[q] > 0
  <2>1. \A q \in Replicas :
          (IF q = r THEN lead[r] ELSE lead[q] - 1) \in 0 .. MaxLead
    BY <1>1, <1>2
  <2> QED
    BY <1>2, <2>1 DEF Chosen
<1>3. CASE ~ \A q \in Replicas \ {r} : lead[q] > 0
  BY <1>1, <1>3 DEF Chosen
<1> QED
  BY <1>2, <1>3

-----------------------------------------------------------------------------
(* Type correctness and the lock *)

LEMMA InitTypedLocked == Init => TypedLocked
BY SelectorAssumption DEF Init, TypedLocked, TypeOK, LockInv, Replicas

LEMMA NextTypedLocked == TypedLocked /\ [Next]_vars => TypedLocked'
<1> SUFFICES ASSUME TypedLocked, [Next]_vars PROVE TypedLocked'
  OBVIOUS
<1> USE SelectorAssumption DEF TypedLocked
<1>0. \A r \in Replicas : r # None
  BY DEF Replicas, None
<1>1. ASSUME NEW s \in Sessions, Enter(s) PROVE TypedLocked'
  BY <1>1 DEF Enter, TypeOK, LockInv
<1>2. ASSUME NEW s \in Sessions, Read(s) PROVE TypedLocked'
  <2>1. index \in Replicas
    BY DEF TypeOK
  <2>2. Chosen(index) \in [Replicas -> 0 .. MaxLead]
    BY <2>1, ChosenType
  <2>3. TypeOK'
    BY <1>2, <2>1, <2>2 DEF Read, Choose, TypeOK
  <2>4. LockInv'
    BY <1>0, <1>2, <2>1 DEF Read, Choose, TypeOK, LockInv
  <2> QED
    BY <2>3, <2>4
<1>3. ASSUME NEW s \in Sessions, Advance(s) PROVE TypedLocked'
  <2>1. (index + 1) % NumReplicas \in Replicas
    BY DEF TypeOK, Replicas
  <2>2. TypeOK'
    BY <1>3, <2>1 DEF Advance, TypeOK
  <2>3. LockInv'
    BY <1>3 DEF Advance, TypeOK, LockInv
  <2> QED
    BY <2>2, <2>3
<1>4. ASSUME NEW s \in Sessions, SelectRandom(s) \/ SelectLeast(s)
      PROVE  TypedLocked'
  <2>1. PICK r \in Replicas : Choose(s, r)
    BY <1>4 DEF SelectRandom, SelectLeast
  <2>2. Chosen(r) \in [Replicas -> 0 .. MaxLead]
    BY ChosenType
  <2>3. /\ pc[s] = "idle" /\ pc' = [pc EXCEPT ![s] = "connecting"]
        /\ UNCHANGED <<strategy, index, lock, held>>
    BY <1>4 DEF SelectRandom, SelectLeast
  <2>4. TypeOK'
    BY <2>1, <2>2, <2>3 DEF Choose, TypeOK
  <2>5. LockInv'
    BY <1>0, <2>1, <2>3 DEF Choose, TypeOK, LockInv
  <2> QED
    BY <2>4, <2>5
<1>5. ASSUME NEW s \in Sessions, Connect(s) \/ PoolTimeout(s)
      PROVE  TypedLocked'
  <2>1. /\ pc[s] = "connecting" /\ pc' = [pc EXCEPT ![s] = "idle"]
        /\ chosen' = [chosen EXCEPT ![s] = None]
        /\ UNCHANGED <<strategy, index, lock, lead>>
    BY <1>5 DEF Connect, PoolTimeout
  <2>2. chosen[s] \in Replicas
    BY <2>1 DEF TypeOK, LockInv
  <2>3. held' \in [Sessions -> SUBSET Replicas]
    BY <1>5, <2>2 DEF Connect, PoolTimeout, TypeOK
  <2>4. TypeOK'
    BY <2>1, <2>3 DEF TypeOK
  <2>5. LockInv'
    BY <2>1 DEF TypeOK, LockInv
  <2> QED
    BY <2>4, <2>5
<1>6. ASSUME NEW s \in Sessions, Release(s) PROVE TypedLocked'
  BY <1>6 DEF Release, TypeOK, LockInv
<1>7. CASE UNCHANGED vars
  BY <1>7 DEF vars, TypeOK, LockInv
<1> QED
  BY <1>1, <1>2, <1>3, <1>4, <1>5, <1>6, <1>7 DEF Next

LEMMA TypedLockedAlways == Spec => []TypedLocked
BY InitTypedLocked, NextTypedLocked, PTL DEF Spec

\* Every variable keeps its type; in particular the index stays inside the list
\* of replicas, and a session is connected only to a replica it was given.
THEOREM TypeCorrect == Spec => []TypeOK
<1>1. TypedLocked => TypeOK
  BY DEF TypedLocked
<1> QED
  BY <1>1, TypedLockedAlways, PTL

-----------------------------------------------------------------------------
(* The round robin is even *)

\* The turn of the replica at the index, by arithmetic on the lead alone.
LEMMA ChosenNext ==
  ASSUME TypeOK, strategy = "round_robin", NEW n \in Replicas,
         \A r \in Replicas : lead[r] = IF r < n THEN 1 ELSE 0
  PROVE  \A r \in Replicas :
           Chosen(n)[r] = IF n + 1 < NumReplicas /\ r < n + 1 THEN 1 ELSE 0
<1> USE SelectorAssumption DEF TypeOK, Replicas
<1>1. (\A q \in Replicas \ {n} : lead[q] > 0) <=> n + 1 = NumReplicas
  <2>1. CASE n + 1 = NumReplicas
    BY <2>1
  <2>2. CASE n + 1 # NumReplicas
    <3>1. n + 1 \in Replicas \ {n}
      BY <2>2
    <3>2. lead[n + 1] = 0
      BY <3>1
    <3> QED
      BY <2>2, <3>1, <3>2
  <2> QED
    BY <2>1, <2>2
<1>2. CASE n + 1 = NumReplicas
  BY <1>1, <1>2 DEF Chosen
<1>3. CASE n + 1 # NumReplicas
  BY <1>1, <1>3 DEF Chosen
<1> QED
  BY <1>2, <1>3

LEMMA NextLap == TypedLocked /\ LapInv /\ [Next]_vars => LapInv'
<1> SUFFICES ASSUME TypedLocked, LapInv, [Next]_vars,
                    strategy' = "round_robin"
             PROVE  \A r \in Replicas :
                      lead'[r] = IF Turn' < NumReplicas /\ r < Turn'
                                 THEN 1 ELSE 0
  BY DEF LapInv
<1> USE SelectorAssumption DEF TypedLocked
<1>0. /\ strategy = "round_robin"
      /\ \A r \in Replicas :
           lead[r] = IF Turn < NumReplicas /\ r < Turn THEN 1 ELSE 0
      /\ index \in Replicas
  <2>1. strategy = "round_robin"
    BY DEF Next, vars, Enter, Read, Advance, SelectRandom, SelectLeast,
           Connect, PoolTimeout, Release
  <2> QED
    BY <2>1 DEF LapInv, TypeOK
<1>1. ASSUME NEW s \in Sessions, Enter(s) PROVE Turn' = Turn /\ lead' = lead
  BY <1>1 DEF Enter, Turn, TypeOK, LockInv
<1>2. ASSUME NEW s \in Sessions, Read(s)
      PROVE  \A r \in Replicas :
               lead'[r] = IF Turn' < NumReplicas /\ r < Turn' THEN 1 ELSE 0
  <2>1. lock = s /\ chosen[s] = None /\ lead' = Chosen(index)
    BY <1>2 DEF Read, Choose, LockInv
  <2>2. Turn = index /\ index < NumReplicas
    BY <1>0, <2>1 DEF Turn, Replicas
  <2>3. Turn' = index + 1
    BY <1>0, <1>2, <2>1 DEF Turn, Read, Choose, TypeOK, Replicas, None
  <2>4. \A r \in Replicas : lead[r] = IF r < index THEN 1 ELSE 0
    BY <1>0, <2>2
  <2> QED
    BY <1>0, <2>1, <2>3, <2>4, ChosenNext
<1>3. ASSUME NEW s \in Sessions, Advance(s)
      PROVE  \A r \in Replicas :
               lead'[r] = IF Turn' < NumReplicas /\ r < Turn' THEN 1 ELSE 0
  <2>1. lock = s /\ chosen[s] # None /\ lead' = lead
    BY <1>3 DEF Advance, LockInv
  <2>2. Turn = index + 1
    BY <2>1 DEF Turn
  <2>3. Turn' = (index + 1) % NumReplicas
    BY <1>3 DEF Advance, Turn
  <2>4. CASE index + 1 = NumReplicas
    <3>1. Turn' = 0
      BY <2>3, <2>4
    <3> QED
      BY <1>0, <2>1, <2>2, <2>4, <3>1 DEF Replicas
  <2>5. CASE index + 1 # NumReplicas
    <3>1. Turn' = index + 1
      BY <1>0, <2>3, <2>5 DEF Replicas
    <3> QED
      BY <1>0, <2>1, <2>2, <3>1
  <2> QED
    BY <2>4, <2>5
<1>4. ASSUME NEW s \in Sessions,
             Connect(s) \/ PoolTimeout(s) \/ Release(s)
      PROVE  Turn' = Turn /\ lead' = lead
  <2>1. /\ UNCHANGED <<index, lock, lead>> /\ pc[s] # "locked"
        /\ \A t \in Sessions \ {s} : chosen'[t] = chosen[t]
    BY <1>4 DEF Connect, PoolTimeout, Release, TypeOK
  <2>2. lock # s
    BY <2>1 DEF LockInv
  <2> QED
    BY <2>1, <2>2 DEF Turn, TypeOK
<1>5. CASE UNCHANGED vars
  BY <1>0, <1>5 DEF vars, Turn
<1>6. ASSUME NEW s \in Sessions, SelectRandom(s) \/ SelectLeast(s)
      PROVE  FALSE
  BY <1>0, <1>6 DEF SelectRandom, SelectLeast
<1> QED
  BY <1>0, <1>1, <1>2, <1>3, <1>4, <1>5, <1>6 DEF Next

\* However many threads share it and however they interleave, the round robin
\* never sends a replica two SELECTs more than another: the even spread that
\* _RoundRobinSelector's lock is for.
THEOREM RoundRobinIsEven == Spec => []RoundRobinBalanced
<1>1. Init => LapInv
  BY SelectorAssumption DEF Init, LapInv, Turn, Replicas
<1>2. TypedLocked /\ LapInv => RoundRobinBalanced
  BY DEF TypedLocked, TypeOK, LapInv, RoundRobinBalanced
<1> QED
  BY <1>1, <1>2, NextLap, TypedLockedAlways, PTL DEF Spec
=============================================================================
