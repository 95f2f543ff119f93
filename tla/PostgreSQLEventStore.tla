------------------------- MODULE PostgreSQLEventStore -------------------------
(***************************************************************************)
(* PostgreSQLEventStore of fastx_database/events/store.py: append() runs   *)
(* one READ COMMITTED transaction that counts the rows of the aggregate,   *)
(* compares the count with the expected version, and inserts the events    *)
(* one statement at a time, numbered from the count.  Every statement is   *)
(* awaited, so the transactions of several writers interleave at will, and *)
(* a connection may be lost between any two of them or just after COMMIT.  *)
(*                                                                         *)
(* The table "events" is created outside the repository; UniqueIndex says  *)
(* whether it has a unique index on (aggregate_id, sequence_number).       *)
(***************************************************************************)
EXTENDS Integers, Sequences

CONSTANTS
  Writers,      \* tasks, of one process or of several
  AggregateIds, \* the aggregates whose events it holds
  UniqueIndex,
  Versioned,    \* whether writers always state the version they expect
  MaxCommands,  \* bound: appends per writer
  MaxBatch,     \* bound: events per append
  MaxRows       \* bound: rows of an aggregate beyond which no one retries

ASSUME StoreAssumption ==
  /\ AggregateIds # {}
  /\ UniqueIndex \in BOOLEAN /\ Versioned \in BOOLEAN
  /\ MaxCommands \in Nat /\ MaxBatch \in Nat \ {0} /\ MaxRows \in Nat

Unstated == -1

VARIABLES
  table,     \* aggregate -> its committed rows, in the order of their commits
  pc,        \* writer -> where its append() is
  op,        \* writer -> the append() it is executing or retrying
  current,   \* writer -> current_version, the count its transaction read
  staged,    \* writer -> how many events its transaction has inserted
  seen,      \* writer -> the version of each aggregate it last read
  commands   \* writer -> how many appends it has begun

vars == <<table, pc, op, current, staged, seen, commands>>

Rows == [seq : Nat, writer : Writers, command : Nat, nth : Nat,
         expected : Nat \union {Unstated}]
Ops == [aggregate : AggregateIds, size : 1 .. MaxBatch,
        expected : Nat \union {Unstated}]
NoOp == [aggregate |-> CHOOSE a \in AggregateIds : TRUE, size |-> 1,
         expected |-> Unstated]

\* "retry": the writer lost its connection and does not know the outcome.
TypeOK ==
  /\ table \in [AggregateIds -> Seq(Rows)]
  /\ pc \in [Writers -> {"idle", "begin", "inserting", "retry"}]
  /\ op \in [Writers -> Ops]
  /\ current \in [Writers -> Nat]
  /\ staged \in [Writers -> 0 .. MaxBatch]
  /\ seen \in [Writers -> [AggregateIds -> Nat]]
  /\ commands \in [Writers -> 0 .. MaxCommands]

Init ==
  /\ table = [a \in AggregateIds |-> <<>>]
  /\ pc = [w \in Writers |-> "idle"]
  /\ op = [w \in Writers |-> NoOp]
  /\ current = [w \in Writers |-> 0]
  /\ staged = [w \in Writers |-> 0]
  /\ seen = [w \in Writers |-> [a \in AggregateIds |-> 0]]
  /\ commands = [w \in Writers |-> 0]

-----------------------------------------------------------------------------
(* Reading *)

\* get_events() or get_current_version(): a COUNT of the committed rows.
Load(w, a) ==
  /\ pc[w] = "idle"
  /\ seen' = [seen EXCEPT ![w][a] = Len(table[a])]
  /\ UNCHANGED <<table, pc, op, current, staged, commands>>

-----------------------------------------------------------------------------
(* append() *)

Begin(w, a, n, expected) ==
  /\ pc[w] = "idle" /\ commands[w] < MaxCommands
  /\ Versioned => expected # Unstated
  /\ pc' = [pc EXCEPT ![w] = "begin"]
  /\ op' = [op EXCEPT ![w] = [aggregate |-> a, size |-> n,
                              expected |-> expected]]
  /\ commands' = [commands EXCEPT ![w] = @ + 1]
  /\ UNCHANGED <<table, current, staged, seen>>

\* Mutant: the expected version is never compared with the count.
AcceptsAny(w) == TRUE

\* The comparison that raises ConflictError.
Accepts(w) == op[w].expected \in {Unstated, Len(table[op[w].aggregate])}

\* append() is left: its locals are gone and what it inserted, if it has not
\* been committed, is rolled back.
Leave(w, next) ==
  /\ pc' = [pc EXCEPT ![w] = next]
  /\ op' = IF next = "idle" THEN [op EXCEPT ![w] = NoOp] ELSE op
  /\ current' = [current EXCEPT ![w] = 0]
  /\ staged' = [staged EXCEPT ![w] = 0]

\* SELECT COUNT(*) ...
Count(w) ==
  /\ pc[w] = "begin" /\ Accepts(w)
  /\ current' = [current EXCEPT ![w] = Len(table[op[w].aggregate])]
  /\ pc' = [pc EXCEPT ![w] = "inserting"]
  /\ UNCHANGED <<table, op, staged, seen, commands>>

\* ... or ConflictError.
Conflict(w) ==
  /\ pc[w] = "begin" /\ ~Accepts(w)
  /\ Leave(w, "idle")
  /\ UNCHANGED <<table, seen, commands>>

\* The sequence number of the next event of w's transaction.
NextSeq(w) == current[w] + staged[w] + 1

Committed(a, seq) == \E i \in DOMAIN table[a] : table[a][i].seq = seq

\* w's open transaction holds a row (a, seq).
Stages(w, a, seq) ==
  /\ pc[w] = "inserting" /\ op[w].aggregate = a
  /\ seq \in current[w] + 1 .. current[w] + staged[w]

\* A unique index makes an INSERT wait for the open transaction that has
\* inserted the same key.
Blocked(w) ==
  /\ UniqueIndex
  /\ \E v \in Writers \ {w} : Stages(v, op[w].aggregate, NextSeq(w))

\* Mutant: the loop over the events has no end.
InsertBeyond(w) ==
  /\ pc[w] = "inserting"
  /\ ~Blocked(w)
  /\ ~(UniqueIndex /\ Committed(op[w].aggregate, NextSeq(w)))
  /\ staged' = [staged EXCEPT ![w] = @ + 1]
  /\ UNCHANGED <<table, pc, op, current, seen, commands>>

Insert(w) ==
  /\ pc[w] = "inserting" /\ staged[w] < op[w].size
  /\ ~Blocked(w)
  /\ ~(UniqueIndex /\ Committed(op[w].aggregate, NextSeq(w)))
  /\ staged' = [staged EXCEPT ![w] = @ + 1]
  /\ UNCHANGED <<table, pc, op, current, seen, commands>>

\* Mutant: the error is swallowed and the INSERT tried again.
InsertFailsSwallowed(w) ==
  /\ pc[w] = "inserting" /\ staged[w] < op[w].size
  /\ UniqueIndex /\ Committed(op[w].aggregate, NextSeq(w))
  /\ UNCHANGED vars

\* UniqueViolationError leaves append() and rolls the transaction back.
InsertFails(w) ==
  /\ pc[w] = "inserting" /\ staged[w] < op[w].size
  /\ UniqueIndex /\ Committed(op[w].aggregate, NextSeq(w))
  /\ Leave(w, "idle")
  /\ UNCHANGED <<table, seen, commands>>

\* Mutant: events are numbered from the count itself.
BatchFromCount(w) ==
  [i \in 1 .. staged[w] |->
     [seq |-> current[w] + i - 1, writer |-> w, command |-> commands[w],
      nth |-> i, expected |-> op[w].expected]]

\* The rows the transaction of w has inserted.
Batch(w) ==
  [i \in 1 .. staged[w] |->
     [seq |-> current[w] + i, writer |-> w, command |-> commands[w],
      nth |-> i, expected |-> op[w].expected]]

\* COMMIT, when the last event has been inserted; the writer may lose the
\* connection before it hears of it.
Commit(w, outcome) ==
  /\ pc[w] = "inserting" /\ staged[w] = op[w].size
  /\ table' = [table EXCEPT ![op[w].aggregate] = @ \o Batch(w)]
  /\ Leave(w, outcome)
  /\ UNCHANGED <<seen, commands>>

\* The connection, the task or the process is lost: the database rolls back.
Disconnect(w) ==
  /\ pc[w] \in {"begin", "inserting"}
  /\ Leave(w, "retry")
  /\ UNCHANGED <<table, seen, commands>>

\* The writer repeats the same append(), or gives it up.
Retry(w) ==
  /\ pc[w] = "retry" /\ Len(table[op[w].aggregate]) < MaxRows
  /\ pc' = [pc EXCEPT ![w] = "begin"]
  /\ UNCHANGED <<table, op, current, staged, seen, commands>>

GiveUp(w) ==
  /\ pc[w] = "retry"
  /\ Leave(w, "idle")
  /\ UNCHANGED <<table, seen, commands>>

-----------------------------------------------------------------------------
Step(w) == Count(w) \/ Conflict(w) \/ InsertFails(w) \/ Commit(w, "idle")

Next ==
  \E w \in Writers :
    \/ \E a \in AggregateIds : Load(w, a)
    \/ \E a \in AggregateIds, n \in 1 .. MaxBatch :
         \E expected \in {Unstated, seen[w][a]} : Begin(w, a, n, expected)
    \/ Step(w) \/ Insert(w)
    \/ Commit(w, "retry") \/ Disconnect(w) \/ Retry(w) \/ GiveUp(w)

Spec == Init /\ [][Next]_vars

\* The event loop resumes an append() whose statement has been answered; the
\* database answers every statement, and wakes an INSERT that waits for the row
\* of another transaction each time such a transaction ends.  Writers need not
\* begin, retry or give up.
Fairness == \A w \in Writers : WF_vars(Step(w)) /\ SF_vars(Insert(w))

FairSpec == Spec /\ Fairness

-----------------------------------------------------------------------------
(* Properties *)

\* What makes the numbering hold: a transaction numbers its events from a
\* count that is still the number of rows once it has inserted one, and no two
\* transactions have inserted into the same aggregate.
NumberingInv ==
  /\ \A w \in Writers :
       /\ pc[w] # "inserting" => staged[w] = 0
       /\ pc[w] = "inserting" =>
            /\ op[w].expected \in {Unstated, current[w]}
            /\ current[w] <= Len(table[op[w].aggregate])
            /\ staged[w] > 0 => current[w] = Len(table[op[w].aggregate])
  /\ \A v, w \in Writers :
       v # w /\ staged[v] > 0 /\ staged[w] > 0
         => op[v].aggregate # op[w].aggregate

\* The rows of an aggregate are numbered 1, 2, 3, ...: no number is missing,
\* none is given twice, and the count is the last one.
SequenceNumbersGapFree ==
  \A a \in AggregateIds : \A i \in DOMAIN table[a] : table[a][i].seq = i

\* An append() that states the version it expects and is repeated after its
\* outcome was lost is applied once.
VersionedAppendOnce ==
  \A a \in AggregateIds : \A i, j \in DOMAIN table[a] :
    /\ i # j /\ table[a][i].expected # Unstated
    /\ table[a][i].writer = table[a][j].writer
    /\ table[a][i].command = table[a][j].command
    => table[a][i].nth # table[a][j].nth

\* No two committed appends started from the same version of an aggregate:
\* of two writers that decided on the same state, one loses.
OptimisticConcurrency ==
  \A a \in AggregateIds : \A i, j \in DOMAIN table[a] :
    /\ table[a][i].expected # Unstated
    /\ table[a][i].expected = table[a][j].expected
    => /\ table[a][i].writer = table[a][j].writer
       /\ table[a][i].command = table[a][j].command

\* The version that the append() of a row expected.
EntryExpected(e) == e.expected

Log == INSTANCE EventLog WITH
         Aggregates <- AggregateIds, Expected <- EntryExpected, log <- table

\* The committed rows behave as the log an event store promises: every change
\* of the table adds one whole append() to one aggregate, and one that stated
\* the version it expected found it.
ImplementsEventLog == Log!Spec

\* An append() that waits for another writer's row does not wait forever.
AppendReturns ==
  \A w \in Writers : pc[w] \in {"begin", "inserting"} ~>
                     pc[w] \in {"idle", "retry"}
=============================================================================
