----------------------------- MODULE Pagination -----------------------------
(* pagination.py: a client walks a list page by page, forwards and backwards   *)
(* with cursors or by page number, while other sessions insert and delete rows *)
(* between its requests.  A row is its primary key and the value of the column *)
(* the list is ordered by; encode_cursor() and decode_cursor() carry that      *)
(* value through the client unchanged.                                         *)
EXTENDS Integers, Sequences, FiniteSets, Functions, SequencesExt

CONSTANTS
    RowIds, OrderValues,
    Unique,     \* the ordering column is unique
    Lists,      \* the tables the client may find
    Limit,      \* page size, at least 1
    MaxWrites,  \* bound on the inserts and deletes
    NULL

\* What the client finds is a finite table, with the index of a unique column
\* behind it; a missing cursor is no value of the column.
ASSUME PaginationAssumption ==
    /\ OrderValues \subseteq Int /\ NULL \notin Int
    /\ Unique \in BOOLEAN /\ Limit \in Nat \ {0}
    /\ \A t \in Lists :
          /\ IsFiniteSet(DOMAIN t) /\ DOMAIN t \subseteq RowIds
          /\ t \in [DOMAIN t -> OrderValues]
          /\ Unique => \A i, j \in DOMAIN t : t[i] = t[j] => i = j

VARIABLES
    table,   \* primary key -> ordering value
    page,    \* the page the client holds: CursorPage or OffsetPage
    number,  \* its page number, or NULL for a cursor page
    walk,    \* the ids it was given since the walk began, in order
    stable,  \* the rows that were there all that time
    quiet,   \* nothing was written since this page was read
    before,  \* the items of the page read before it, if nothing was written then
    writes

pageVars == <<table, page, number, walk, stable, quiet, before, writes>>

PagesInit ==
    /\ table \in Lists
    /\ page = NULL /\ number = NULL /\ walk = <<>> /\ stable = {}
    /\ quiet = TRUE /\ before = NULL /\ writes = 0
-----------------------------------------------------------------------------
\* ORDER BY the column: rows with equal values come in any order.
Ascending(ids) ==
    {s \in SetToSeqs(ids) : \A i, j \in DOMAIN s : i < j => table[s[i]] <= table[s[j]]}

FirstOf(s, n) == SubSeq(s, 1, IF n < Len(s) THEN n ELSE Len(s))

\* Mutant: the row the cursor names comes again.
AfterOrAt(cursor) == {id \in DOMAIN table : cursor = NULL \/ table[id] >= cursor}

\* paginate_cursor(direction="after"): up to one row more than the page holds.
After(cursor) == {id \in DOMAIN table : cursor = NULL \/ table[id] > cursor}

PagesAfter(cursor) ==
    {LET items == FirstOf(s, Limit)
         hasNext == Len(s) > Limit
     IN [items |-> items, hasNext |-> hasNext,
         next |-> IF hasNext THEN table[Last(items)] ELSE NULL,
         prev |-> IF items # <<>> /\ cursor # NULL THEN table[items[1]] ELSE NULL]
     : s \in Ascending(After(cursor))}

\* Mutant: the query for the page before does not run backwards.
PagesBeforeForwards(cursor) ==
    {LET items == FirstOf(s, Limit)
         hasNext == cursor # NULL
     IN [items |-> items, hasNext |-> hasNext,
         next |-> IF items # <<>> /\ hasNext THEN table[Last(items)] ELSE NULL,
         prev |-> IF Len(s) > Limit THEN table[items[1]] ELSE NULL]
     : s \in Ascending({id \in DOMAIN table : cursor = NULL \/ table[id] < cursor})}

\* direction="before": the query runs backwards and the items are reversed;
\* has_next is true whenever there is a cursor.
PagesBefore(cursor) ==
    {LET items == Reverse(FirstOf(Reverse(s), Limit))
         hasNext == cursor # NULL
     IN [items |-> items, hasNext |-> hasNext,
         next |-> IF items # <<>> /\ hasNext THEN table[Last(items)] ELSE NULL,
         prev |-> IF Len(s) > Limit THEN table[items[1]] ELSE NULL]
     : s \in Ascending({id \in DOMAIN table : cursor = NULL \/ table[id] < cursor})}

Begin(p, n) ==
    /\ page' = p /\ number' = n /\ walk' = p.items /\ stable' = DOMAIN table
    /\ before' = NULL /\ quiet' = TRUE
    /\ UNCHANGED <<table, writes>>

Advance(p, n) ==
    /\ page' = p /\ number' = n /\ walk' = walk \o p.items
    /\ before' = (IF quiet THEN page.items ELSE NULL) /\ quiet' = TRUE
    /\ UNCHANGED <<table, stable, writes>>

FirstPage == \E p \in PagesAfter(NULL) : Begin(p, NULL)

NextPage ==
    /\ page # NULL /\ number = NULL /\ page.next # NULL
    /\ \E p \in PagesAfter(page.next) : Advance(p, NULL)

Backwards(p) ==
    /\ page' = p /\ number' = NULL /\ walk' = <<>> /\ stable' = {}
    /\ before' = NULL /\ quiet' = TRUE
    /\ UNCHANGED <<table, writes>>

LastPage == \E p \in PagesBefore(NULL) : Backwards(p)

PreviousPage ==
    /\ page # NULL /\ number = NULL /\ page.prev # NULL
    /\ \E p \in PagesBefore(page.prev) : Backwards(p)

\* Mutant: the offset counts one page too many.
PageNumberFromZero(n) ==
    {LET from == n * Limit
     IN [items |-> FirstOf(SubSeq(s, from + 1, Len(s)), Limit),
         hasNext |-> n * Limit < Cardinality(DOMAIN table),
         next |-> NULL, prev |-> NULL] : s \in Ascending(DOMAIN table)}

\* paginate_offset() over a query the caller has ordered; the number of pages
\* comes from a COUNT sent before.
PageNumber(n) ==
    {LET from == (n - 1) * Limit
     IN [items |-> FirstOf(SubSeq(s, from + 1, Len(s)), Limit),
         hasNext |-> n * Limit < Cardinality(DOMAIN table),
         next |-> NULL, prev |-> NULL] : s \in Ascending(DOMAIN table)}

FirstNumbered == \E p \in PageNumber(1) : Begin(p, 1)

NextNumbered ==
    /\ page # NULL /\ number # NULL /\ page.hasNext
    /\ \E p \in PageNumber(number + 1) : Advance(p, number + 1)

\* Other sessions.
Write(t) ==
    /\ writes < MaxWrites /\ page # NULL
    /\ table' = t /\ writes' = writes + 1
    /\ stable' = stable \cap DOMAIN t /\ quiet' = FALSE
    /\ UNCHANGED <<page, number, walk, before>>

WithRow(id, v) == [k \in DOMAIN table \cup {id} |-> IF k = id THEN v ELSE table[k]]

Insert ==
    \E id \in RowIds \ DOMAIN table, v \in OrderValues :
        (Unique => v \notin Range(table)) /\ Write(WithRow(id, v))
Delete == \E id \in DOMAIN table : Write(Restrict(table, DOMAIN table \ {id}))

PagesNext ==
    \/ FirstPage \/ NextPage \/ LastPage \/ PreviousPage
    \/ FirstNumbered \/ NextNumbered
    \/ Insert \/ Delete

PagesSpec == PagesInit /\ [][PagesNext]_pageVars
-----------------------------------------------------------------------------
Times(id) == Cardinality({i \in DOMAIN walk : walk[i] = id})

\* A forward walk with cursors over a unique column gives the client every row
\* that stayed, exactly once, whatever is inserted or deleted between its pages.
WalkIsComplete ==
    page # NULL /\ number = NULL /\ Unique =>
        \A id \in stable : Times(id) <= 1 /\ (~ page.hasNext => Times(id) = 1)

\* Page numbers do the same only as long as nobody writes.
NumberedWalkIsComplete ==
    page # NULL /\ number # NULL /\ writes = 0 /\ Unique /\ ~ page.hasNext =>
        \A id \in stable : Times(id) = 1

\* Going back from a page shows the page the client came from, if nothing was
\* written in between.
BackIsWhereItCameFrom ==
    [][PreviousPage /\ before # NULL /\ quiet /\ Unique => page'.items = before]_pageVars
=============================================================================
