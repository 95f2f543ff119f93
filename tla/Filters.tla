------------------------------ MODULE Filters ------------------------------
(***************************************************************************)
(* The filters of IRepository (persistence/repositories/abstraction.py): a *)
(* list of (field, operator, value) conditions, joined by AND or by OR, and *)
(* beside them the condition that hides soft-deleted rows.  A condition    *)
(* holds of a row when SQL's three-valued logic makes it true: a comparison *)
(* with NULL is unknown, and a row of which the filter is unknown is not   *)
(* selected.  A pattern of LIKE is the set of the values that it matches.  *)
(***************************************************************************)
EXTENDS Integers, FiniteSets

CONSTANT NULL           \* the value of a column that has none

\* The operators that take one value, a list, a pattern, a pair, nothing.
Comparisons == {"eq", "ne", "lt", "le", "gt", "ge"}
FilterOperator == Comparisons \cup
    {"in", "not_in", "like", "ilike", "is_null", "is_not_null", "between"}

(* SQLAlchemy renders == None and != None as IS NULL and IS NOT NULL, an   *)
(* empty IN as false and an empty NOT IN as true.                          *)
Condition(op, c, v) ==
    \/ op = "eq" /\ c = v
    \/ op = "ne" /\ c # v /\ (v = NULL \/ c # NULL)
    \/ op \in {"lt", "le", "gt", "ge"} /\ c # NULL /\ v # NULL
       /\ \/ op = "lt" /\ c < v
          \/ op = "le" /\ c <= v
          \/ op = "gt" /\ c > v
          \/ op = "ge" /\ c >= v
    \/ op = "in" /\ c # NULL /\ c \in v
    \/ op = "not_in" /\ c \notin v /\ (v = {} \/ (c # NULL /\ NULL \notin v))
    \/ op \in {"like", "ilike"} /\ c # NULL /\ c \in v
    \/ op = "is_null" /\ c = NULL
    \/ op = "is_not_null" /\ c # NULL
    \/ op = "between" /\ c # NULL /\ v[1] <= c /\ c <= v[2]

\* No condition at all selects every row, under AND and under OR alike.
Matches(row, filters, use_or) ==
    \/ filters = {}
    \/ ~use_or /\ \A f \in filters : Condition(f.op, row[f.field], f.value)
    \/ use_or /\ \E f \in filters : Condition(f.op, row[f.field], f.value)

\* The rows that are not soft-deleted, unless the caller includes them.
ActiveNonDeleted(rows, include_deleted) ==
    {r \in rows : include_deleted \/ ~r.is_deleted}

Selected(rows, filters, use_or, include_deleted) ==
    {r \in ActiveNonDeleted(rows, include_deleted) : Matches(r, filters, use_or)}

CountByFilter(rows, filters, use_or, include_deleted) ==
    Cardinality(Selected(rows, filters, use_or, include_deleted))

ExistsByFilter(rows, filters, use_or, include_deleted) ==
    Selected(rows, filters, use_or, include_deleted) # {}
=============================================================================
