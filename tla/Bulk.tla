-------------------------------- MODULE Bulk --------------------------------
(* bulk.py: BulkOperationsMixin on PostgreSQL.  A call cuts its items into     *)
(* batches and sends one statement per batch (per row for bulk_update) in the  *)
(* session's open transaction; bulk_operation() runs create, update and delete *)
(* one after the other, records a step that raises and goes on.  A statement   *)
(* that fails aborts the transaction: the server refuses every later statement *)
(* and turns COMMIT into ROLLBACK without an error.  The table has an integer  *)
(* primary key, a unique business key and a value.                             *)
EXTENDS Integers, Sequences, FiniteSets, Functions, SequencesExt

CONSTANTS
    Ids,       \* primary keys a caller may name
    Codes,     \* business keys
    Values,
    Stored,    \* the tables an operation may find
    Sizes,     \* batch sizes
    MaxItems,  \* bound on the items of one call
    MaxId      \* bound on the primary keys the database generates

\* The keys that callers name and that tables hold are below the sequence.
\* chunked() refuses sizes below one.
ASSUME BulkAssumption ==
    /\ MaxId \in Nat /\ MaxItems \in 0..MaxId
    /\ Sizes \subseteq Nat \ {0}
    /\ Ids \subseteq 1..MaxId - MaxItems
    /\ \A table \in Stored : DOMAIN table \subseteq 1..MaxId - MaxItems
    /\ Values # {}

VARIABLES
    rows,     \* the table as the session sees it: primary key -> [code, value]
    saved,    \* ... as committed
    aborted,  \* the transaction is in the failed state
    todo,     \* the items every call of the operation has left
    size,     \* batch_size
    count,    \* rows the running call has affected
    result,   \* BulkResult
    asked,    \* the items the caller asked for
    nextId    \* the sequence behind the primary key

bulkVars == <<rows, saved, aborted, todo, size, count, result, asked, nextId>>

Nothing == [create |-> <<>>, update |-> <<>>, delete |-> <<>>, upsert |-> <<>>]
NoResult == [create |-> 0, update |-> 0, delete |-> 0, upsert |-> 0, failed |-> {}]

BulkInit ==
    /\ saved \in Stored /\ rows = saved /\ aborted = FALSE /\ todo = Nothing /\ size \in Sizes
    /\ count = 0 /\ result = NoResult /\ asked = Nothing
    /\ nextId = MaxId - MaxItems + 1
-----------------------------------------------------------------------------
ItemLists(Items) == UNION {[1..n -> Items] : n \in 0..MaxItems}

\* What a statement writes, over what was there.
Over(new, old) ==
    [id \in DOMAIN new \cup DOMAIN old |-> IF id \in DOMAIN new THEN new[id] ELSE old[id]]

Row(c, v) == [code |-> c, value |-> v]
CodesIn(table) == {table[id].code : id \in DOMAIN table}

\* bulk_operation() makes the calls that have items, in this order.
Calls    == <<"create", "update", "delete", "upsert">>
Due(i)   == todo[Calls[i]] # <<>>
Running  == \E i \in 1..4 : Due(i)
Call     == Calls[CHOOSE i \in 1..4 : Due(i) /\ \A j \in 1..i - 1 : ~ Due(j)]

\* chunked(): the next batch of the running call.
Smaller(a, b) == IF a < b THEN a ELSE b
Batch == SubSeq(todo[Call], 1, Smaller(size, Len(todo[Call])))

\* Mutant: a last batch that is short is dropped.
RestIfFull(done) ==
    IF Len(todo[Call]) - Len(done) < size THEN <<>>
    ELSE SubSeq(todo[Call], Len(done) + 1, Len(todo[Call]))

Rest(done) == SubSeq(todo[Call], Len(done) + 1, Len(todo[Call]))

\* Bound: one operation in a behaviour, on any table to begin with.
Ready == asked = Nothing /\ result = NoResult

Start(items) ==
    /\ items # Nothing
    /\ todo' = items /\ asked' = items
    /\ count' = 0 /\ result' = NoResult
    /\ UNCHANGED <<rows, saved, aborted, size, nextId>>

BulkOperation ==
    /\ Ready
    /\ LET some == {CHOOSE v \in Values : TRUE} IN
       \E create \in ItemLists([id : Ids, code : Codes, value : some]),
       update \in ItemLists([id : Ids, value : some] \cup [value : some]),
       delete \in ItemLists(Ids) :
            Start([create |-> create, update |-> update, delete |-> delete,
                   upsert |-> <<>>])

BulkUpsert ==
    /\ Ready
    /\ \E items \in ItemLists([code : Codes, value : Values]) :
         Start([Nothing EXCEPT !.upsert = items])

\* A statement went well: on with the rest of the call, or with the next one.
Succeeds(done, table, affected) ==
    /\ rows' = table
    /\ todo' = [todo EXCEPT ![Call] = Rest(done)]
    /\ IF Rest(done) = <<>>
       THEN result' = [result EXCEPT ![Call] = count + affected] /\ count' = 0
       ELSE count' = count + affected /\ UNCHANGED result
    /\ UNCHANGED <<saved, aborted, size, asked>>

\* Mutant: the server is taken to go on after a failed statement.
RaisesUnaborted(inDatabase) ==
    /\ result' = [result EXCEPT !.failed = @ \cup {Call}]
    /\ todo' = [todo EXCEPT ![Call] = <<>>] /\ count' = 0
    /\ UNCHANGED <<rows, saved, aborted, size, asked>>

\* The call raises: what it counted is dropped, the next call is made.
Raises(inDatabase) ==
    /\ aborted' = (aborted \/ inDatabase)
    /\ result' = [result EXCEPT !.failed = @ \cup {Call}]
    /\ todo' = [todo EXCEPT ![Call] = <<>>] /\ count' = 0
    /\ UNCHANGED <<rows, saved, size, asked>>

\* INSERT ... VALUES (batch) RETURNING.
CreateBatch ==
    /\ Running /\ Call = "create"
    /\ LET ids == {Batch[i].id : i \in DOMAIN Batch}
           codes == {Batch[i].code : i \in DOMAIN Batch}
           inserted == [id \in ids |-> LET item == CHOOSE x \in ToSet(Batch) : x.id = id
                                       IN Row(item.code, item.value)]
       IN IF /\ ~ aborted
             /\ Cardinality(ids) = Len(Batch) /\ Cardinality(codes) = Len(Batch)
             /\ ids \cap DOMAIN rows = {} /\ codes \cap CodesIn(rows) = {}
          THEN Succeeds(Batch, Over(inserted, rows), Len(Batch))
          ELSE Raises(TRUE)
    /\ UNCHANGED nextId

\* UPDATE ... WHERE key = value for one item; an item without the key field is
\* a KeyError in Python, before any statement.
UpdateItem ==
    /\ Running /\ Call = "update"
    /\ LET item == Head(todo.update)
           hit == "id" \in DOMAIN item /\ item.id \in DOMAIN rows
       IN IF "id" \notin DOMAIN item THEN Raises(FALSE)
          ELSE IF aborted THEN Raises(TRUE)
          ELSE Succeeds(<<item>>,
                        IF hit THEN [rows EXCEPT ![item.id].value = item.value] ELSE rows,
                        IF hit THEN 1 ELSE 0)
    /\ UNCHANGED nextId

\* DELETE ... WHERE key IN (batch).
DeleteBatch ==
    /\ Running /\ Call = "delete"
    /\ LET hit == ToSet(Batch) \cap DOMAIN rows
       IN IF aborted THEN Raises(TRUE)
          ELSE Succeeds(Batch, Restrict(rows, DOMAIN rows \ hit), Cardinality(hit))
    /\ UNCHANGED nextId

\* INSERT ... ON CONFLICT (code) DO UPDATE SET every column but the key fields,
\* the primary key too: a row that is already there takes the number the
\* sequence has just given.  One statement may not touch a row twice.
UpsertBatch ==
    /\ Running /\ Call = "upsert"
    /\ nextId + Len(Batch) - 1 <= MaxId
    /\ LET codes == {Batch[i].code : i \in DOMAIN Batch}
           kept == {id \in DOMAIN rows : rows[id].code \notin codes}
           written == [id \in nextId..nextId + Len(Batch) - 1 |->
                         Row(Batch[id - nextId + 1].code, Batch[id - nextId + 1].value)]
       IN IF ~ aborted /\ Cardinality(codes) = Len(Batch)
          THEN Succeeds(Batch, Over(written, Restrict(rows, kept)), Len(Batch))
          ELSE Raises(TRUE)
    /\ nextId' = nextId + Len(Batch)

\* The caller ends the transaction.
Commit ==
    /\ ~ Running /\ asked # Nothing
    /\ saved' = (IF aborted THEN saved ELSE rows)
    /\ rows' = saved'
    /\ aborted' = FALSE /\ asked' = Nothing
    /\ UNCHANGED <<todo, size, count, result, nextId>>

Rollback ==
    /\ ~ Running /\ asked # Nothing
    /\ rows' = saved /\ aborted' = FALSE /\ asked' = Nothing
    /\ UNCHANGED <<saved, todo, size, count, result, nextId>>

BulkNext ==
    \/ BulkOperation \/ BulkUpsert
    \/ CreateBatch \/ UpdateItem \/ DeleteBatch \/ UpsertBatch
    \/ Commit \/ Rollback

BulkSpec == BulkInit /\ [][BulkNext]_bulkVars
-----------------------------------------------------------------------------
\* When every call succeeded the table holds what was asked for: the created
\* rows, all counted, except those deleted again, for every upserted business
\* key one row with the last of its values, and none of the deleted ids.
LastOf(items, code) ==
    items[CHOOSE i \in DOMAIN items : /\ items[i].code = code
                                      /\ \A j \in i + 1..Len(items) : items[j].code # code]

DoneAsAsked ==
    ~ Running /\ asked # Nothing /\ result.failed = {} =>
        /\ ToSet(asked.delete) \cap DOMAIN rows = {}
        /\ {item.id : item \in ToSet(asked.create)} \subseteq
              DOMAIN rows \cup ToSet(asked.delete)
        /\ result.create = Len(asked.create)
        /\ \A item \in ToSet(asked.upsert) :
              {rows[id].value : id \in {k \in DOMAIN rows : rows[k].code = item.code}}
                  = {LastOf(asked.upsert, item.code).value}

\* A commit saves nothing of an operation one of whose statements has failed,
\* although BulkResult still counts the rows of the steps before it.  (An update
\* item without its key fails before any statement and harms nothing.)
NothingOfAFailedOperation ==
    [][asked' = Nothing /\ saved' # saved => result.failed \subseteq {"update"}]_bulkVars

\* "the remaining operations still execute": a delete step works after a create
\* step that failed.
RemainingStepsExecute == "delete" \notin result.failed
=============================================================================
