--------------------- MODULE PostgreSQLEventStore_proofs ---------------------
(***************************************************************************)
(* Proofs about PostgreSQLEventStore, for any number of writers,           *)
(* aggregates, appends and retries: with a unique index the rows of an     *)
(* aggregate are numbered without gap or repetition, the table implements  *)
(* EventLog, no two appends start from one stated version, and an append   *)
(* that states its version is applied at most once.                        *)
(***************************************************************************)
EXTENDS PostgreSQLEventStore, TLAPS

LEMMA NoOpType == NoOp \in Ops
BY StoreAssumption DEF NoOp, Ops

LEMMA BatchType ==
  ASSUME TypeOK, NEW w \in Writers
  PROVE  /\ Batch(w) \in Seq(Rows)
         /\ Len(Batch(w)) = staged[w]
         /\ \A i \in 1 .. staged[w] :
              /\ Batch(w)[i].seq = current[w] + i
              /\ Batch(w)[i].writer = w /\ Batch(w)[i].command = commands[w]
              /\ Batch(w)[i].nth = i
              /\ Batch(w)[i].expected = op[w].expected
<1>1. /\ staged[w] \in Nat /\ current[w] \in Nat /\ commands[w] \in Nat
      /\ op[w].expected \in Nat \union {Unstated}
  BY StoreAssumption DEF TypeOK, Ops
<1>2. ASSUME NEW i \in 1 .. staged[w]
      PROVE  [seq |-> current[w] + i, writer |-> w, command |-> commands[w],
              nth |-> i, expected |-> op[w].expected] \in Rows
  BY <1>1 DEF Rows
<1> QED
  BY <1>1, <1>2 DEF Batch

LEMMA LeaveType ==
  ASSUME TypeOK, NEW w \in Writers, NEW next \in {"idle", "retry"},
         Leave(w, next)
  PROVE  /\ pc' \in [Writers -> {"idle", "begin", "inserting", "retry"}]
         /\ op' \in [Writers -> Ops]
         /\ current' \in [Writers -> Nat]
         /\ staged' \in [Writers -> 0 .. MaxBatch]
BY StoreAssumption, NoOpType DEF Leave, TypeOK

LEMMA InitTypeOK == Init => TypeOK
BY StoreAssumption, NoOpType DEF Init, TypeOK

LEMMA NextTypeOK == TypeOK /\ [Next]_vars => TypeOK'
<1> SUFFICES ASSUME TypeOK, [Next]_vars PROVE TypeOK'
  OBVIOUS
<1>1. ASSUME NEW w \in Writers, NEW a \in AggregateIds, Load(w, a) PROVE TypeOK'
  BY <1>1 DEF Load, TypeOK
<1>2. ASSUME NEW w \in Writers, NEW a \in AggregateIds, NEW n \in 1 .. MaxBatch,
             NEW expected \in {Unstated, seen[w][a]}, Begin(w, a, n, expected)
      PROVE  TypeOK'
  <2>1. expected \in Nat \union {Unstated}
    BY DEF TypeOK
  <2>2. [aggregate |-> a, size |-> n, expected |-> expected] \in Ops
    BY <2>1 DEF Ops
  <2>3. commands' \in [Writers -> 0 .. MaxCommands]
    BY <1>2, StoreAssumption DEF Begin, TypeOK
  <2> QED
    BY <1>2, <2>2, <2>3 DEF Begin, TypeOK
<1>3. ASSUME NEW w \in Writers, Count(w) PROVE TypeOK'
  BY <1>3 DEF Count, TypeOK, Ops
<1>4. ASSUME NEW w \in Writers, Conflict(w) PROVE TypeOK'
  BY <1>4, LeaveType DEF Conflict, TypeOK
<1>5. ASSUME NEW w \in Writers, Insert(w) PROVE TypeOK'
  <2>1. staged[w] + 1 \in 0 .. MaxBatch
    BY <1>5, StoreAssumption DEF Insert, TypeOK, Ops
  <2> QED
    BY <1>5, <2>1 DEF Insert, TypeOK
<1>6. ASSUME NEW w \in Writers, InsertFails(w) PROVE TypeOK'
  BY <1>6, LeaveType DEF InsertFails, TypeOK
<1>7. ASSUME NEW w \in Writers, NEW outcome \in {"idle", "retry"},
             Commit(w, outcome)
      PROVE  TypeOK'
  <2>1. table' \in [AggregateIds -> Seq(Rows)]
    BY <1>7, BatchType DEF Commit, TypeOK, Ops
  <2> QED
    BY <1>7, <2>1, LeaveType DEF Commit, TypeOK
<1>8. ASSUME NEW w \in Writers, Disconnect(w) PROVE TypeOK'
  BY <1>8, LeaveType DEF Disconnect, TypeOK
<1>9. ASSUME NEW w \in Writers, Retry(w) PROVE TypeOK'
  BY <1>9 DEF Retry, TypeOK
<1>10. ASSUME NEW w \in Writers, GiveUp(w) PROVE TypeOK'
  BY <1>10, LeaveType DEF GiveUp, TypeOK
<1>11. CASE UNCHANGED vars
  BY <1>11 DEF vars, TypeOK
<1> QED
  BY <1>1, <1>2, <1>3, <1>4, <1>5, <1>6, <1>7, <1>8, <1>9, <1>10, <1>11
     DEF Next, Step

\* Every variable keeps its type through interleavings, lost connections and
\* retries.
THEOREM TypeCorrect == Spec => []TypeOK
BY InitTypeOK, NextTypeOK, PTL DEF Spec

-----------------------------------------------------------------------------
(* The numbering *)

Numbering == NumberingInv /\ SequenceNumbersGapFree

LEMMA InitNumbering == Init => Numbering
BY DEF Init, Numbering, NumberingInv, SequenceNumbersGapFree

\* Without a gap, the committed numbers of an aggregate are 1 .. its count.
LEMMA CommittedNumbers ==
  ASSUME TypeOK, SequenceNumbersGapFree, NEW a \in AggregateIds, NEW n \in Nat
  PROVE  Committed(a, n) <=> n \in 1 .. Len(table[a])
<1>1. table[a] \in Seq(Rows)
  BY DEF TypeOK
<1>2. DOMAIN table[a] = 1 .. Len(table[a])
  BY <1>1
<1> QED
  BY <1>2 DEF Committed, SequenceNumbersGapFree

\* An INSERT that succeeds is numbered next to the committed rows, and finds
\* no other transaction with a row of its aggregate.
LEMMA InsertIsNext ==
  ASSUME TypeOK, Numbering, UniqueIndex, NEW w \in Writers, Insert(w)
  PROVE  /\ current[w] = Len(table[op[w].aggregate])
         /\ \A v \in Writers \ {w} :
              staged[v] > 0 => op[v].aggregate # op[w].aggregate
<1> DEFINE a == op[w].aggregate
<1>1. /\ a \in AggregateIds /\ current[w] \in Nat /\ staged[w] \in Nat
      /\ pc[w] = "inserting" /\ Len(table[a]) \in Nat
  BY DEF TypeOK, Ops, Insert
<1>2. /\ current[w] <= Len(table[a])
      /\ staged[w] > 0 => current[w] = Len(table[a])
  BY <1>1 DEF Numbering, NumberingInv
<1>3. ~Committed(a, NextSeq(w)) /\ NextSeq(w) \in Nat
  BY <1>1 DEF Insert, NextSeq
<1>4. NextSeq(w) \notin 1 .. Len(table[a])
  BY <1>1, <1>3, CommittedNumbers DEF Numbering
<1>5. current[w] = Len(table[a])
  BY <1>1, <1>2, <1>4 DEF NextSeq
<1>6. ASSUME NEW v \in Writers \ {w}, staged[v] > 0, op[v].aggregate = a
      PROVE  FALSE
  <2>1. staged[v] \in Nat /\ current[v] \in Nat
    BY DEF TypeOK
  <2>2. pc[v] = "inserting"
    BY <1>6 DEF Numbering, NumberingInv
  <2>3. current[v] = Len(table[a])
    BY <1>6, <2>2 DEF Numbering, NumberingInv
  <2>4. CASE staged[w] = 0
    <3>1. NextSeq(w) = current[v] + 1
      BY <1>1, <1>5, <2>3, <2>4 DEF NextSeq
    <3>2. NextSeq(w) \in current[v] + 1 .. current[v] + staged[v]
      BY <1>6, <2>1, <3>1
    <3>3. Stages(v, a, NextSeq(w))
      BY <1>6, <2>2, <3>2 DEF Stages
    <3> QED
      BY <3>3 DEF Insert, Blocked
  <2>5. CASE staged[w] > 0
    BY <1>6, <2>5 DEF Numbering, NumberingInv
  <2> QED
    BY <1>1, <2>4, <2>5
<1> QED
  BY <1>5, <1>6

LEMMA LenOfConcat ==
  ASSUME NEW s \in Seq(Rows), NEW t \in Seq(Rows)
  PROVE  Len(s \o t) = Len(s) + Len(t)
OBVIOUS

\* A COMMIT appends the next numbers to a log no other transaction has rows of.
LEMMA CommitExtends ==
  ASSUME TypeOK, Numbering, NEW w \in Writers,
         NEW outcome \in {"idle", "retry"}, Commit(w, outcome)
  PROVE  LET a == op[w].aggregate
         IN  /\ a \in AggregateIds
             /\ current[w] = Len(table[a])
             /\ op[w].expected \in {Unstated, Len(table[a])}
             /\ table' = [table EXCEPT ![a] = table[a] \o Batch(w)]
             /\ Len(table'[a]) = Len(table[a]) + staged[w]
             /\ \A v \in Writers \ {w} :
                  op[v].aggregate = a => staged[v] = 0
<1> DEFINE a == op[w].aggregate
<1>1. /\ a \in AggregateIds /\ current[w] \in Nat /\ staged[w] \in Nat \ {0}
      /\ pc[w] = "inserting" /\ table[a] \in Seq(Rows)
  BY DEF TypeOK, Ops, Commit
<1>2. current[w] = Len(table[a]) /\ op[w].expected \in {Unstated, current[w]}
  BY <1>1 DEF Numbering, NumberingInv
<1>3. table' = [table EXCEPT ![a] = table[a] \o Batch(w)]
  BY DEF Commit
<1>4. table'[a] = table[a] \o Batch(w)
  BY <1>1, <1>3 DEF TypeOK
<1>5. Len(table'[a]) = Len(table[a]) + staged[w]
  <2>1. Batch(w) \in Seq(Rows) /\ Len(Batch(w)) = staged[w]
    BY BatchType
  <2>2. Len(table[a] \o Batch(w)) = Len(table[a]) + Len(Batch(w))
    BY <1>1, <2>1, LenOfConcat
  <2> QED
    BY <1>4, <2>1, <2>2
<1>6. ASSUME NEW v \in Writers \ {w}, op[v].aggregate = a
      PROVE  staged[v] = 0
  <2>1. ~(staged[v] > 0)
    BY <1>1, <1>6 DEF Numbering, NumberingInv
  <2> QED
    BY <2>1 DEF TypeOK
<1> QED
  BY <1>1, <1>2, <1>3, <1>5, <1>6

LEMMA CommitGapFree ==
  ASSUME TypeOK, Numbering, NEW w \in Writers,
         NEW outcome \in {"idle", "retry"}, Commit(w, outcome)
  PROVE  SequenceNumbersGapFree'
<1> DEFINE a == op[w].aggregate
<1>1. /\ a \in AggregateIds /\ current[w] = Len(table[a])
      /\ table' = [table EXCEPT ![a] = table[a] \o Batch(w)]
  BY CommitExtends
<1>2. /\ table \in [AggregateIds -> Seq(Rows)] /\ Batch(w) \in Seq(Rows)
      /\ staged[w] \in Nat /\ Len(Batch(w)) = staged[w]
  BY BatchType DEF TypeOK
<1>3. ASSUME NEW i \in 1 .. Len(table[a]) + staged[w]
      PROVE  (table[a] \o Batch(w))[i].seq = i
  <2>1. CASE i \in 1 .. Len(table[a])
    BY <1>1, <1>2, <2>1 DEF Numbering, SequenceNumbersGapFree
  <2>2. CASE i \notin 1 .. Len(table[a])
    <3>1. i - Len(table[a]) \in 1 .. staged[w]
      BY <1>1, <1>2, <2>2
    <3>2. (table[a] \o Batch(w))[i] = Batch(w)[i - Len(table[a])]
      BY <1>1, <1>2, <2>2, <3>1
    <3> QED
      BY <1>1, <1>2, <3>1, <3>2, BatchType
  <2> QED
    BY <2>1, <2>2
<1>4. DOMAIN (table[a] \o Batch(w)) = 1 .. Len(table[a]) + staged[w]
  BY <1>1, <1>2
<1> QED
  BY <1>1, <1>2, <1>3, <1>4 DEF Numbering, SequenceNumbersGapFree

\* Leaving append() without a COMMIT gives up what was inserted.
LEMMA LeaveNumbering ==
  ASSUME TypeOK, Numbering, NEW w \in Writers, NEW next \in {"idle", "retry"},
         Leave(w, next), UNCHANGED table
  PROVE  Numbering'
<1>1. /\ staged'[w] = 0 /\ pc'[w] # "inserting"
      /\ \A v \in Writers \ {w} :
           /\ staged'[v] = staged[v] /\ pc'[v] = pc[v]
           /\ op'[v] = op[v] /\ current'[v] = current[v]
  BY DEF Leave, TypeOK
<1>2. \A v \in Writers :
        /\ pc'[v] # "inserting" => staged'[v] = 0
        /\ pc'[v] = "inserting" =>
             /\ op'[v].expected \in {Unstated, current'[v]}
             /\ current'[v] <= Len(table'[op'[v].aggregate])
             /\ staged'[v] > 0 => current'[v] = Len(table'[op'[v].aggregate])
  BY <1>1 DEF Numbering, NumberingInv
<1>3. \A u, v \in Writers :
        u # v /\ staged'[u] > 0 /\ staged'[v] > 0
          => op'[u].aggregate # op'[v].aggregate
  BY <1>1 DEF Numbering, NumberingInv
<1>4. SequenceNumbersGapFree'
  BY DEF Numbering, SequenceNumbersGapFree
<1> QED
  BY <1>2, <1>3, <1>4 DEF Numbering, NumberingInv

LEMMA NextNumbering ==
  ASSUME TypeOK, Numbering, UniqueIndex, [Next]_vars
  PROVE  Numbering'
<1> USE DEF Numbering, NumberingInv
<1>1. ASSUME NEW w \in Writers, NEW a \in AggregateIds, Load(w, a)
      PROVE  Numbering'
  BY <1>1 DEF Load, SequenceNumbersGapFree
<1>2. ASSUME NEW w \in Writers, NEW a \in AggregateIds, NEW n \in 1 .. MaxBatch,
             NEW expected \in {Unstated, seen[w][a]}, Begin(w, a, n, expected)
      PROVE  Numbering'
  <2>1. staged'[w] = 0 /\ UNCHANGED <<table, staged, current>>
    BY <1>2 DEF Begin
  <2>2. \A v \in Writers \ {w} : op'[v] = op[v] /\ pc'[v] = pc[v]
    BY <1>2 DEF Begin, TypeOK
  <2>3. pc'[w] = "begin"
    BY <1>2 DEF Begin, TypeOK
  <2> QED
    BY <2>1, <2>2, <2>3 DEF SequenceNumbersGapFree
<1>3. ASSUME NEW w \in Writers, Count(w) PROVE Numbering'
  <2> DEFINE a == op[w].aggregate
  <2>1. /\ staged[w] = 0 /\ UNCHANGED <<table, staged, op>>
        /\ current'[w] = Len(table[a]) /\ pc'[w] = "inserting"
        /\ op[w].expected \in {Unstated, Len(table[a])}
    BY <1>3 DEF Count, Accepts, TypeOK
  <2>2. \A v \in Writers \ {w} : current'[v] = current[v] /\ pc'[v] = pc[v]
    BY <1>3 DEF Count, TypeOK
  <2>3. Len(table[a]) \in Nat
    BY DEF TypeOK, Ops
  <2> QED
    BY <2>1, <2>2, <2>3 DEF SequenceNumbersGapFree
<1>4. ASSUME NEW w \in Writers, Conflict(w) PROVE Numbering'
  BY <1>4, LeaveNumbering DEF Conflict
<1>5. ASSUME NEW w \in Writers, Insert(w) PROVE Numbering'
  <2>1. /\ current[w] = Len(table[op[w].aggregate])
        /\ \A v \in Writers \ {w} :
             staged[v] > 0 => op[v].aggregate # op[w].aggregate
    BY <1>5, InsertIsNext
  <2>2. UNCHANGED <<table, pc, op, current>> /\ pc[w] = "inserting"
    BY <1>5 DEF Insert
  <2>3. \A v \in Writers \ {w} : staged'[v] = staged[v]
    BY <1>5 DEF Insert, TypeOK
  <2> QED
    BY <2>1, <2>2, <2>3 DEF SequenceNumbersGapFree
<1>6. ASSUME NEW w \in Writers, InsertFails(w) PROVE Numbering'
  BY <1>6, LeaveNumbering DEF InsertFails
<1>7. ASSUME NEW w \in Writers, NEW outcome \in {"idle", "retry"},
             Commit(w, outcome)
      PROVE  Numbering'
  <2> DEFINE a == op[w].aggregate
  <2>1. /\ a \in AggregateIds
        /\ table' = [table EXCEPT ![a] = table[a] \o Batch(w)]
        /\ Len(table'[a]) = Len(table[a]) + staged[w]
        /\ \A v \in Writers \ {w} : op[v].aggregate = a => staged[v] = 0
    BY <1>7, CommitExtends
  <2>2. /\ staged'[w] = 0 /\ pc'[w] # "inserting"
        /\ \A v \in Writers \ {w} :
             /\ staged'[v] = staged[v] /\ pc'[v] = pc[v]
             /\ op'[v] = op[v] /\ current'[v] = current[v]
    BY <1>7 DEF Commit, Leave, TypeOK
  <2>3. ASSUME NEW v \in Writers \ {w}, pc[v] = "inserting"
        PROVE  /\ current[v] <= Len(table'[op[v].aggregate])
               /\ staged[v] > 0 => current[v] = Len(table'[op[v].aggregate])
    <3>1. /\ op[v].aggregate \in AggregateIds /\ current[v] \in Nat
          /\ staged[w] \in Nat /\ Len(table[a]) \in Nat
      BY <2>1 DEF TypeOK, Ops
    <3>2. CASE op[v].aggregate = a
      BY <2>1, <2>3, <3>1, <3>2
    <3>3. CASE op[v].aggregate # a
      <4>1. table'[op[v].aggregate] = table[op[v].aggregate]
        BY <2>1, <3>1, <3>3 DEF TypeOK
      <4> QED
        BY <2>3, <4>1
    <3> QED
      BY <3>2, <3>3
  <2>4. \A v \in Writers :
          /\ pc'[v] # "inserting" => staged'[v] = 0
          /\ pc'[v] = "inserting" =>
               /\ op'[v].expected \in {Unstated, current'[v]}
               /\ current'[v] <= Len(table'[op'[v].aggregate])
               /\ staged'[v] > 0 => current'[v] = Len(table'[op'[v].aggregate])
    BY <2>2, <2>3
  <2>5. \A u, v \in Writers :
          u # v /\ staged'[u] > 0 /\ staged'[v] > 0
            => op'[u].aggregate # op'[v].aggregate
    BY <2>2
  <2>6. SequenceNumbersGapFree'
    BY <1>7, CommitGapFree
  <2> QED
    BY <2>4, <2>5, <2>6
<1>8. ASSUME NEW w \in Writers, Disconnect(w) PROVE Numbering'
  BY <1>8, LeaveNumbering DEF Disconnect
<1>9. ASSUME NEW w \in Writers, Retry(w) PROVE Numbering'
  <2>1. UNCHANGED <<table, op, current, staged>> /\ staged[w] = 0
    BY <1>9 DEF Retry
  <2>2. \A v \in Writers \ {w} : pc'[v] = pc[v]
    BY <1>9 DEF Retry, TypeOK
  <2>3. pc'[w] = "begin"
    BY <1>9 DEF Retry, TypeOK
  <2> QED
    BY <2>1, <2>2, <2>3 DEF SequenceNumbersGapFree
<1>10. ASSUME NEW w \in Writers, GiveUp(w) PROVE Numbering'
  BY <1>10, LeaveNumbering DEF GiveUp
<1>11. CASE UNCHANGED vars
  BY <1>11 DEF vars, SequenceNumbersGapFree
<1> QED
  BY <1>1, <1>2, <1>3, <1>4, <1>5, <1>6, <1>7, <1>8, <1>9, <1>10, <1>11
     DEF Next, Step

LEMMA NumberingAlways == UniqueIndex => (Spec => []Numbering)
<1> SUFFICES ASSUME UniqueIndex PROVE Spec => []Numbering
  OBVIOUS
<1>1. TypeOK /\ Numbering /\ [Next]_vars => Numbering'
  BY NextNumbering
<1> QED
  BY <1>1, InitNumbering, TypeCorrect, PTL DEF Spec

\* With a unique index, the rows of every aggregate are numbered 1, 2, 3, ...
\* however the COUNTs and INSERTs of any number of writers interleave, fail
\* and are repeated.  Without the index two writers number from one count.
THEOREM GapFree ==
  ASSUME UniqueIndex
  PROVE  Spec => []SequenceNumbersGapFree
<1>1. Numbering => SequenceNumbersGapFree
  BY DEF Numbering
<1> QED
  BY <1>1, NumberingAlways, PTL
-----------------------------------------------------------------------------
(* The table implements the log *)

LEMMA SubSeqOfConcat ==
  ASSUME NEW s \in Seq(Rows), NEW t \in Seq(Rows)
  PROVE  SubSeq(s \o t, Len(s) + 1, Len(s \o t)) = t
<1>1. /\ Len(s) \in Nat /\ Len(t) \in Nat /\ Len(s \o t) = Len(s) + Len(t)
      /\ s \o t \in Seq(Rows)
  OBVIOUS
<1> DEFINE u == SubSeq(s \o t, Len(s) + 1, Len(s \o t))
<1>2. u \in Seq(Rows) /\ Len(u) = Len(t)
  BY <1>1
<1>3. ASSUME NEW i \in 1 .. Len(t) PROVE u[i] = t[i]
  BY <1>1, <1>2
<1> QED
  BY <1>1, <1>2, <1>3

LEMMA CommitImplements ==
  ASSUME TypeOK, Numbering, NEW w \in Writers,
         NEW outcome \in {"idle", "retry"}, Commit(w, outcome)
  PROVE  Log!Next
<1> DEFINE a == op[w].aggregate
<1>1. /\ a \in AggregateIds
      /\ op[w].expected \in {Unstated, Len(table[a])}
      /\ table' = [table EXCEPT ![a] = table[a] \o Batch(w)]
  BY CommitExtends
<1>2. /\ table[a] \in Seq(Rows) /\ Batch(w) \in Seq(Rows)
      /\ DOMAIN Batch(w) = 1 .. staged[w]
      /\ table'[a] = table[a] \o Batch(w)
  <2>1. Batch(w) \in Seq(Rows) /\ Len(Batch(w)) = staged[w]
    BY BatchType
  <2> QED
    BY <1>1, <2>1 DEF TypeOK
<1>3. Log!Added(a) = Batch(w)
  BY <1>2, SubSeqOfConcat DEF Log!Added
<1>4. ASSUME NEW i \in DOMAIN Batch(w)
      PROVE  EntryExpected(Batch(w)[i]) \in {Unstated, Len(table[a])}
  BY <1>1, <1>2, BatchType DEF EntryExpected
<1>5. Log!Extend(a, Log!Added(a))
  BY <1>1, <1>3, <1>4 DEF Log!Extend, Log!Unstated, Unstated
<1> QED
  BY <1>1, <1>5 DEF Log!Next

\* Only a COMMIT changes the table.
LEMMA StepImplements ==
  ASSUME TypeOK, Numbering, [Next]_vars
  PROVE  [Log!Next]_table
<1>1. ASSUME NEW w \in Writers, NEW outcome \in {"idle", "retry"},
             Commit(w, outcome)
      PROVE  Log!Next
  BY <1>1, CommitImplements
<1>2. CASE UNCHANGED table
  BY <1>2
<1> QED
  BY <1>1, <1>2
     DEF Next, Step, vars, Load, Begin, Count, Conflict, Insert, InsertFails,
         Disconnect, Retry, GiveUp

\* With a unique index PostgreSQLEventStore is an event log: writers that
\* state the version they expect never overwrite each other, whatever the
\* interleaving of their COUNTs and INSERTs and whatever is lost and retried.
THEOREM Implementation ==
  ASSUME UniqueIndex
  PROVE  Spec => ImplementsEventLog
<1>1. Init => Log!Init
  BY DEF Init, Log!Init
<1>2. TypeOK /\ Numbering /\ [Next]_vars => [Log!Next]_table
  BY StepImplements
<1> QED
  BY <1>1, <1>2, TypeCorrect, NumberingAlways, PTL
     DEF Spec, ImplementsEventLog, Log!Spec

-----------------------------------------------------------------------------
(* The version an append() states *)

\* Every row lies in its batch: the rows of an append() are adjacent, and begin
\* behind the version it stated.
WholeBatches ==
  \A a \in AggregateIds : \A i \in DOMAIN table[a] :
    LET e == table[a][i]
    IN  /\ e.nth \in 1 .. i
        /\ e.expected # Unstated => e.expected = i - e.nth
        /\ \A k \in i - e.nth + 1 .. i :
             table[a][k].writer = e.writer /\ table[a][k].command = e.command

LEMMA RowType ==
  ASSUME TypeOK, NEW a \in AggregateIds, NEW i \in DOMAIN table[a]
  PROVE  /\ i \in 1 .. Len(table[a]) /\ Len(table[a]) \in Nat
         /\ table[a][i] \in Rows
<1>1. table[a] \in Seq(Rows)
  BY DEF TypeOK
<1> QED
  BY <1>1

\* What a COMMIT does to the rows, one by one.
LEMMA CommitRows ==
  ASSUME TypeOK, Numbering, NEW w \in Writers,
         NEW outcome \in {"idle", "retry"}, Commit(w, outcome)
  PROVE  LET a == op[w].aggregate
             n == Len(table[a])
         IN  /\ a \in AggregateIds /\ n \in Nat /\ DOMAIN table[a] = 1 .. n
             /\ op[w].expected \in {Unstated, n}
             /\ \A b \in AggregateIds \ {a} : table'[b] = table[b]
             /\ DOMAIN table'[a] = 1 .. n + staged[w]
             /\ \A i \in 1 .. n : table'[a][i] = table[a][i]
             /\ \A i \in n + 1 .. n + staged[w] :
                  /\ table'[a][i].writer = w
                  /\ table'[a][i].command = commands[w]
                  /\ table'[a][i].nth = i - n
                  /\ table'[a][i].expected = op[w].expected
<1> DEFINE a == op[w].aggregate
           n == Len(table[a])
<1>1. /\ a \in AggregateIds /\ op[w].expected \in {Unstated, n}
      /\ table' = [table EXCEPT ![a] = table[a] \o Batch(w)]
  BY CommitExtends
<1>2. /\ table[a] \in Seq(Rows) /\ Batch(w) \in Seq(Rows)
      /\ Len(Batch(w)) = staged[w] /\ staged[w] \in Nat
      /\ table'[a] = table[a] \o Batch(w)
  BY <1>1, BatchType DEF TypeOK
<1>3. \A b \in AggregateIds \ {a} : table'[b] = table[b]
  BY <1>1 DEF TypeOK
<1>4. /\ n \in Nat /\ DOMAIN table[a] = 1 .. n
      /\ DOMAIN table'[a] = 1 .. n + staged[w]
      /\ \A i \in 1 .. n : table'[a][i] = table[a][i]
  BY <1>2
<1>5. ASSUME NEW i \in n + 1 .. n + staged[w]
      PROVE  /\ table'[a][i].writer = w
             /\ table'[a][i].command = commands[w]
             /\ table'[a][i].nth = i - n
             /\ table'[a][i].expected = op[w].expected
  <2>1. i - n \in 1 .. staged[w]
    BY <1>2, <1>4
  <2>2. table'[a][i] = Batch(w)[i - n]
    BY <1>2, <1>4, <2>1
  <2> QED
    BY <2>1, <2>2, BatchType
<1> QED
  BY <1>1, <1>3, <1>4, <1>5

LEMMA CommitWhole ==
  ASSUME TypeOK, Numbering, WholeBatches, NEW w \in Writers,
         NEW outcome \in {"idle", "retry"}, Commit(w, outcome)
  PROVE  WholeBatches'
<1> DEFINE a == op[w].aggregate
           n == Len(table[a])
           Whole(rows, i) ==
             /\ rows[i].nth \in 1 .. i
             /\ rows[i].expected # Unstated =>
                  rows[i].expected = i - rows[i].nth
             /\ \A k \in i - rows[i].nth + 1 .. i :
                  /\ rows[k].writer = rows[i].writer
                  /\ rows[k].command = rows[i].command
<1>1. /\ a \in AggregateIds /\ n \in Nat /\ DOMAIN table[a] = 1 .. n
      /\ op[w].expected \in {Unstated, n}
      /\ \A b \in AggregateIds \ {a} : table'[b] = table[b]
      /\ DOMAIN table'[a] = 1 .. n + staged[w]
      /\ \A i \in 1 .. n : table'[a][i] = table[a][i]
      /\ \A i \in n + 1 .. n + staged[w] :
           /\ table'[a][i].writer = w
           /\ table'[a][i].command = commands[w]
           /\ table'[a][i].nth = i - n
           /\ table'[a][i].expected = op[w].expected
  BY CommitRows
<1> staged[w] \in Nat
  BY DEF TypeOK
<1>2. \A b \in AggregateIds : \A i \in DOMAIN table[b] : Whole(table[b], i)
  BY DEF WholeBatches
<1> HIDE DEF a, n
<1>3. ASSUME NEW i \in 1 .. n PROVE Whole(table'[a], i)
  <2>1. Whole(table[a], i)
    BY <1>1, <1>2
  <2>2. \A k \in i - table[a][i].nth + 1 .. i : k \in 1 .. n
    BY <1>1, <2>1
  <2> QED
    BY <1>1, <2>1, <2>2
<1>4. ASSUME NEW i \in n + 1 .. n + staged[w] PROVE Whole(table'[a], i)
  <2>1. table'[a][i].nth = i - n /\ i - n \in 1 .. i
    BY <1>1
  <2>2. i - table'[a][i].nth = n
    BY <1>1, <2>1
  <2>3. \A k \in n + 1 .. i : k \in n + 1 .. n + staged[w]
    BY <1>1
  <2> QED
    BY <1>1, <2>1, <2>2, <2>3
<1>5. \A i \in DOMAIN table'[a] : Whole(table'[a], i)
  <2> SUFFICES ASSUME NEW i \in 1 .. n + staged[w] PROVE Whole(table'[a], i)
    BY <1>1
  <2>1. i \in 1 .. n \/ i \in n + 1 .. n + staged[w]
    BY <1>1
  <2> QED
    BY <1>3, <1>4, <2>1
<1>6. \A b \in AggregateIds : \A i \in DOMAIN table'[b] : Whole(table'[b], i)
  <2> SUFFICES ASSUME NEW b \in AggregateIds, NEW i \in DOMAIN table'[b]
               PROVE  Whole(table'[b], i)
    OBVIOUS
  <2>1. CASE b = a
    BY <1>5, <2>1
  <2>2. CASE b # a
    <3>1. table'[b] = table[b]
      BY <1>1, <2>2
    <3> HIDE DEF Whole
    <3> QED
      BY <1>2, <3>1
  <2> QED
    BY <2>1, <2>2
<1> QED
  BY <1>6 DEF WholeBatches

\* Only a COMMIT changes the table.
LEMMA TableUnchanged ==
  ASSUME [Next]_vars
  PROVE  \/ UNCHANGED table
         \/ \E w \in Writers, outcome \in {"idle", "retry"} : Commit(w, outcome)
BY DEF Next, Step, vars, Load, Begin, Count, Conflict, Insert, InsertFails,
       Disconnect, Retry, GiveUp

LEMMA WholeAlways == UniqueIndex => (Spec => []WholeBatches)
<1> SUFFICES ASSUME UniqueIndex PROVE Spec => []WholeBatches
  OBVIOUS
<1>1. Init => WholeBatches
  BY DEF Init, WholeBatches
<1>2. TypeOK /\ Numbering /\ WholeBatches /\ [Next]_vars => WholeBatches'
  <2> SUFFICES ASSUME TypeOK, Numbering, WholeBatches, [Next]_vars
               PROVE  WholeBatches'
    OBVIOUS
  <2>1. CASE UNCHANGED table
    BY <2>1 DEF WholeBatches
  <2> QED
    BY <2>1, TableUnchanged, CommitWhole
<1> QED
  BY <1>1, <1>2, TypeCorrect, NumberingAlways, PTL DEF Spec

\* With a unique index no two appends are committed from the same stated
\* version of an aggregate, in any interleaving of any number of writers: what
\* ConflictError is for.
THEOREM OneAppendPerVersion ==
  ASSUME UniqueIndex
  PROVE  Spec => []OptimisticConcurrency
<1>1. TypeOK /\ WholeBatches => OptimisticConcurrency
  <2> SUFFICES ASSUME TypeOK, WholeBatches, NEW a \in AggregateIds,
                      NEW i \in DOMAIN table[a], NEW j \in DOMAIN table[a],
                      table[a][i].expected # Unstated,
                      table[a][i].expected = table[a][j].expected
               PROVE  /\ table[a][i].writer = table[a][j].writer
                      /\ table[a][i].command = table[a][j].command
    BY DEF OptimisticConcurrency
  <2>1. DOMAIN table[a] = 1 .. Len(table[a]) /\ Len(table[a]) \in Nat
    BY DEF TypeOK
  <2>2. /\ i \in Nat /\ j \in Nat
        /\ table[a][i].nth \in 1 .. i /\ table[a][j].nth \in 1 .. j
        /\ i - table[a][i].nth = j - table[a][j].nth
    BY <2>1 DEF WholeBatches
  <2>3. i \in j - table[a][j].nth + 1 .. j \/ j \in i - table[a][i].nth + 1 .. i
    BY <2>2
  <2> QED
    BY <2>3 DEF WholeBatches
<1> QED
  BY <1>1, TypeCorrect, WholeAlways, PTL

-----------------------------------------------------------------------------
(* Repeating an append() *)

\* The rows of one append() state what the append() states that is being
\* executed or retried, and are told from those of earlier ones.
CommandsCurrent ==
  \A a \in AggregateIds : \A i \in DOMAIN table[a] :
    LET e == table[a][i]
    IN  /\ e.command <= commands[e.writer]
        /\ e.command = commands[e.writer] /\ pc[e.writer] # "idle"
             => e.expected = op[e.writer].expected

OneExpectation ==
  \A a \in AggregateIds : \A i, j \in DOMAIN table[a] :
    /\ table[a][i].writer = table[a][j].writer
    /\ table[a][i].command = table[a][j].command
    => table[a][i].expected = table[a][j].expected

Repeatable == CommandsCurrent /\ OneExpectation

\* The rows and the number of the current append() are left alone, and what it
\* states as long as it is not over.
LEMMA RepeatableKept ==
  ASSUME TypeOK, Repeatable, UNCHANGED <<table, commands>>,
         \A w \in Writers : pc'[w] # "idle" =>
           pc[w] # "idle" /\ op'[w].expected = op[w].expected
  PROVE  Repeatable'
<1>1. \A a \in AggregateIds : \A i \in DOMAIN table[a] :
        table[a][i].writer \in Writers
  BY RowType DEF Rows
<1>2. CommandsCurrent'
  BY <1>1 DEF Repeatable, CommandsCurrent
<1>3. OneExpectation'
  BY DEF Repeatable, OneExpectation
<1> QED
  BY <1>2, <1>3 DEF Repeatable

\* A writer that begins an append() has no row of it yet.
LEMMA BeginRepeatable ==
  ASSUME TypeOK, Repeatable, NEW w \in Writers, NEW a \in AggregateIds,
         NEW n \in 1 .. MaxBatch, NEW expected, Begin(w, a, n, expected)
  PROVE  Repeatable'
<1>1. /\ UNCHANGED table
      /\ \A v \in Writers : commands[v] \in Nat
      /\ commands'[w] = commands[w] + 1
      /\ \A v \in Writers \ {w} :
           commands'[v] = commands[v] /\ pc'[v] = pc[v] /\ op'[v] = op[v]
  BY StoreAssumption DEF Begin, TypeOK
<1>2. ASSUME NEW e \in Rows, e.command <= commands[e.writer],
             e.command = commands[e.writer] /\ pc[e.writer] # "idle"
               => e.expected = op[e.writer].expected
      PROVE  /\ e.command <= commands'[e.writer]
             /\ e.command = commands'[e.writer] /\ pc'[e.writer] # "idle"
                  => e.expected = op'[e.writer].expected
  <2>1. e.writer \in Writers /\ e.command \in Nat
    BY DEF Rows
  <2>2. CASE e.writer = w
    BY <1>1, <1>2, <2>1, <2>2
  <2>3. CASE e.writer # w
    BY <1>1, <1>2, <2>1, <2>3
  <2> QED
    BY <2>2, <2>3
<1>3. CommandsCurrent'
  BY <1>1, <1>2, RowType DEF Repeatable, CommandsCurrent
<1>4. OneExpectation'
  BY <1>1 DEF Repeatable, OneExpectation
<1> QED
  BY <1>3, <1>4 DEF Repeatable

\* A COMMIT adds rows that state what the rows of the same append() state that
\* an earlier attempt may have left.
LEMMA CommitRepeatable ==
  ASSUME TypeOK, Numbering, Repeatable, NEW w \in Writers,
         NEW outcome \in {"idle", "retry"}, Commit(w, outcome)
  PROVE  Repeatable'
<1> DEFINE a == op[w].aggregate
           n == Len(table[a])
           Current(e) ==
             /\ e.command <= commands[e.writer]
             /\ e.command = commands[e.writer] /\ pc[e.writer] # "idle"
                  => e.expected = op[e.writer].expected
           Mine(e) == /\ e.writer = w /\ e.command = commands[w]
                      /\ e.expected = op[w].expected
<1>1. /\ a \in AggregateIds /\ n \in Nat /\ DOMAIN table[a] = 1 .. n
      /\ \A b \in AggregateIds \ {a} : table'[b] = table[b]
      /\ DOMAIN table'[a] = 1 .. n + staged[w]
      /\ \A i \in 1 .. n : table'[a][i] = table[a][i]
      /\ \A i \in n + 1 .. n + staged[w] : Mine(table'[a][i])
  BY CommitRows
<1> staged[w] \in Nat
  BY DEF TypeOK
<1>2. /\ pc[w] = "inserting" /\ commands' = commands
      /\ pc'[w] # "idle" => op'[w] = op[w]
      /\ \A v \in Writers \ {w} : pc'[v] = pc[v] /\ op'[v] = op[v]
  BY DEF Commit, Leave, TypeOK
<1>3. \A b \in AggregateIds : \A i \in DOMAIN table[b] : Current(table[b][i])
  BY DEF Repeatable, CommandsCurrent
<1>4. \A b \in AggregateIds : \A i \in DOMAIN table[b] :
        table[b][i].writer \in Writers
  BY RowType DEF Rows
<1>5. commands[w] \in Nat
  BY StoreAssumption DEF TypeOK
<1> HIDE DEF a, n
<1>6. ASSUME NEW i \in DOMAIN table'[a]
      PROVE  \/ i \in DOMAIN table[a] /\ table'[a][i] = table[a][i]
             \/ Mine(table'[a][i])
  <2>1. i \in 1 .. n \/ i \in n + 1 .. n + staged[w]
    BY <1>1
  <2> QED
    BY <1>1, <2>1
<1>7. CommandsCurrent'
  <2> SUFFICES ASSUME NEW b \in AggregateIds, NEW i \in DOMAIN table'[b]
               PROVE  LET e == table'[b][i]
                      IN  /\ e.command <= commands'[e.writer]
                          /\ /\ e.command = commands'[e.writer]
                             /\ pc'[e.writer] # "idle"
                             => e.expected = op'[e.writer].expected
    BY DEF CommandsCurrent
  <2>1. CASE i \in DOMAIN table[b] /\ table'[b][i] = table[b][i]
    <3>1. Current(table[b][i]) /\ table[b][i].writer \in Writers
      BY <1>3, <1>4, <2>1
    <3>2. \A v \in Writers :
            pc'[v] # "idle" => pc[v] # "idle" /\ op'[v] = op[v]
      BY <1>2
    <3> QED
      BY <1>2, <2>1, <3>1, <3>2
  <2>2. CASE b = a /\ Mine(table'[a][i])
    BY <1>2, <1>5, <2>2
  <2> QED
    BY <1>1, <1>6, <2>1, <2>2
<1>8. OneExpectation'
  <2> SUFFICES ASSUME NEW b \in AggregateIds,
                      NEW i \in DOMAIN table'[b], NEW j \in DOMAIN table'[b],
                      table'[b][i].writer = table'[b][j].writer,
                      table'[b][i].command = table'[b][j].command
               PROVE  table'[b][i].expected = table'[b][j].expected
    BY DEF OneExpectation
  <2>1. CASE b # a
    BY <1>1, <2>1 DEF Repeatable, OneExpectation
  <2>2. CASE b = a
    <3>1. ASSUME NEW k \in DOMAIN table[a], table[a][k].writer = w,
                 table[a][k].command = commands[w]
          PROVE  table[a][k].expected = op[w].expected
      BY <1>1, <1>2, <1>3, <3>1
    <3>2. CASE Mine(table'[a][i]) /\ Mine(table'[a][j])
      BY <2>2, <3>2
    <3>3. CASE Mine(table'[a][i]) /\ j \in DOMAIN table[a]
                                  /\ table'[a][j] = table[a][j]
      BY <2>2, <3>1, <3>3
    <3>4. CASE Mine(table'[a][j]) /\ i \in DOMAIN table[a]
                                  /\ table'[a][i] = table[a][i]
      BY <2>2, <3>1, <3>4
    <3>5. CASE /\ i \in DOMAIN table[a] /\ table'[a][i] = table[a][i]
               /\ j \in DOMAIN table[a] /\ table'[a][j] = table[a][j]
      <4>1. /\ table[a][i].writer = table[a][j].writer
            /\ table[a][i].command = table[a][j].command
        BY <2>2, <3>5
      <4>2. table[a][i].expected = table[a][j].expected
        BY <1>1, <3>5, <4>1 DEF Repeatable, OneExpectation
      <4> QED
        BY <2>2, <3>5, <4>2
    <3> QED
      BY <1>6, <2>2, <3>2, <3>3, <3>4, <3>5
  <2> QED
    BY <2>1, <2>2
<1> QED
  BY <1>7, <1>8 DEF Repeatable

LEMMA NextRepeatable ==
  ASSUME TypeOK, Numbering, Repeatable, [Next]_vars
  PROVE  Repeatable'
<1>1. ASSUME NEW w \in Writers, NEW outcome \in {"idle", "retry"},
             Commit(w, outcome)
      PROVE  Repeatable'
  BY <1>1, CommitRepeatable
<1>2. ASSUME NEW w \in Writers, NEW a \in AggregateIds, NEW n \in 1 .. MaxBatch,
             NEW expected \in {Unstated, seen[w][a]}, Begin(w, a, n, expected)
      PROVE  Repeatable'
  BY <1>2, BeginRepeatable
<1>3. ASSUME NEW w \in Writers,
             \/ \E a \in AggregateIds : Load(w, a)
             \/ Count(w) \/ Insert(w) \/ Retry(w)
      PROVE  Repeatable'
  <2>1. /\ UNCHANGED <<table, commands, op>>
        /\ \A v \in Writers : pc'[v] # "idle" => pc[v] # "idle"
    BY <1>3 DEF Load, Count, Insert, Retry, TypeOK
  <2> QED
    BY <2>1, RepeatableKept
<1>4. ASSUME NEW w \in Writers,
             Conflict(w) \/ InsertFails(w) \/ Disconnect(w) \/ GiveUp(w)
      PROVE  Repeatable'
  <2>1. /\ UNCHANGED <<table, commands>> /\ pc[w] # "idle"
        /\ Leave(w, "idle") \/ Leave(w, "retry")
    BY <1>4 DEF Conflict, InsertFails, Disconnect, GiveUp
  <2>2. \A v \in Writers : pc'[v] # "idle" => pc[v] # "idle" /\ op'[v] = op[v]
    BY <2>1 DEF Leave, TypeOK
  <2> QED
    BY <2>1, <2>2, RepeatableKept
<1>5. CASE UNCHANGED vars
  BY <1>5, RepeatableKept DEF vars
<1> QED
  BY <1>1, <1>2, <1>3, <1>4, <1>5 DEF Next, Step

\* With a unique index an append() that states the version it expects is
\* applied at most once, however often its connection is lost around COMMIT
\* and the caller repeats it.
THEOREM AppliedOnce ==
  ASSUME UniqueIndex
  PROVE  Spec => []VersionedAppendOnce
<1>1. Init => Repeatable
  BY DEF Init, Repeatable, CommandsCurrent, OneExpectation
<1>2. TypeOK /\ Numbering /\ Repeatable /\ [Next]_vars => Repeatable'
  BY NextRepeatable
<1>3. TypeOK /\ WholeBatches /\ Repeatable => VersionedAppendOnce
  <2> SUFFICES ASSUME TypeOK, WholeBatches, Repeatable, NEW a \in AggregateIds,
                      NEW i \in DOMAIN table[a], NEW j \in DOMAIN table[a],
                      i # j, table[a][i].expected # Unstated,
                      table[a][i].writer = table[a][j].writer,
                      table[a][i].command = table[a][j].command
               PROVE  table[a][i].nth # table[a][j].nth
    BY DEF VersionedAppendOnce
  <2>1. DOMAIN table[a] = 1 .. Len(table[a]) /\ Len(table[a]) \in Nat
    BY DEF TypeOK
  <2>2. table[a][i].expected = table[a][j].expected
    BY DEF Repeatable, OneExpectation
  <2>3. /\ i \in Nat /\ j \in Nat
        /\ table[a][i].nth \in 1 .. i /\ table[a][j].nth \in 1 .. j
        /\ i - table[a][i].nth = j - table[a][j].nth
    BY <2>1, <2>2 DEF WholeBatches
  <2> QED
    BY <2>3
<1> QED
  BY <1>1, <1>2, <1>3, TypeCorrect, NumberingAlways, WholeAlways, PTL DEF Spec
=============================================================================
