----------------------------- MODULE Repository -----------------------------
(***************************************************************************)
(* IRepository over one table, used by several sessions at once, together  *)
(* with the helpers of core/optimistic_lock.py.                            *)
(*                                                                         *)
(* A session keeps an identity map: a SELECT decides in the database which *)
(* row it returns, but an instance that the session already holds keeps    *)
(* the attributes it was loaded with until a commit or a rollback expires  *)
(* it.  A call that changes a row reads it in one step and commits in      *)
(* another; other sessions take steps between them.  The UPDATE that a     *)
(* commit emits names only the columns that differ from the loaded ones,   *)
(* and nothing is emitted when none differs.  With version_id_col it is    *)
(* guarded by the version that was loaded.                                 *)
(***************************************************************************)
EXTENDS Database, Filters, Functions

CONSTANTS Names,        \* values of the one column that is not a flag
          MaxId,        \* bound: rows ever created
          MaxVersion,   \* bound: updates of one row
          Versioned,    \* values of: the mapper has version_id_col
          Cached        \* values of: the repositories have an LRU cache

ASSUME RepositoryAssumption ==
    /\ MaxId \in Nat /\ MaxVersion \in Nat
    /\ Versioned \subseteq BOOLEAN /\ Cached \subseteq BOOLEAN

VARIABLES rows,         \* the committed table, by id
          created,      \* ids handed out (a sequence never repeats one)
          seen,         \* each session's identity map: the loaded attributes
          call,         \* each session's call in progress
          cache,        \* each repository's cache of retrieve_record_by_*
          got,          \* each session's last retrieval
          versioned, cached

vars == <<rows, created, seen, call, cache, got, versioned, cached>>

Ids == 1..MaxId
Row == [id : Ids, name : Names, is_deleted : BOOLEAN, version : Nat]
Fields == {"name", "is_deleted"}
Stated == Nat \cup {NULL}               \* an expected version, or none
Idle == [op |-> "idle"]
Nothing == [x \in {} |-> NULL]          \* a map without entries

\* What callers pass as new_data: one column, or both.
NewData ==
    [{"name"} -> Names] \cup [{"is_deleted"} -> BOOLEAN] \cup
    {[name |-> n, is_deleted |-> FALSE] : n \in Names}

\* What callers pass as filters: an id, a name, nothing.
FilterSets ==
    {{[field |-> "id", op |-> "eq", value |-> i]} : i \in Ids} \cup
    {{[field |-> "name", op |-> "eq", value |-> n]} : n \in Names} \cup {{}}

Init ==
    /\ rows = Nothing
    /\ created = 0
    /\ seen = [s \in Sessions |-> Nothing]
    /\ call = [s \in Sessions |-> Idle]
    /\ cache = [s \in Sessions |-> Nothing]
    /\ got = [s \in Sessions |-> NULL]
    /\ versioned \in Versioned
    /\ cached \in Cached

----------------------------------------------------------------------------
\* The instance a session gets for row i: the one it holds, else a fresh load.
Instance(s, i) == IF i \in DOMAIN seen[s] THEN seen[s][i] ELSE rows[i]
Loaded(s, i) == [j \in DOMAIN seen[s] \cup {i} |-> Instance(s, j)]

\* Mutant: the sessions share one identity map.
ExpireShared(s) == seen' = [t \in Sessions |-> Nothing]

\* commit(), rollback() and close() expire every instance.
Expire(s) == seen' = [seen EXCEPT ![s] = Nothing]

\* query.first() without order_by: any of the rows that match.
First(filters, include_deleted) ==
    {r.id : r \in Selected(Range(rows), filters, FALSE, include_deleted)}

CreateRecord(s) ==
    /\ call[s] = Idle
    /\ created < MaxId
    /\ created' = created + 1
    /\ \E n \in Names :
         rows' = [i \in DOMAIN rows \cup {created'} |->
                    IF i = created' THEN [id |-> i, name |-> n, is_deleted |-> FALSE,
                                          version |-> 0]
                    ELSE rows[i]]
    /\ Expire(s)
    /\ UNCHANGED <<call, cache, got, versioned, cached>>

(* retrieve_record_by_id() and _by_urn(): through the cache when there is  *)
(* one.  Its key is the argument and the flag; a miss that finds no row is *)
(* kept as well, and no write of the repository removes an entry.          *)
Retrieve(s, i, include_deleted) ==
    LET key == <<i, include_deleted>>
        hit == cached /\ key \in DOMAIN cache[s]
        found == i \in First({[field |-> "id", op |-> "eq", value |-> i]}, include_deleted)
        answer == IF hit THEN cache[s][key] ELSE found
    IN  /\ call[s] = Idle
        /\ got' = [got EXCEPT ![s] = [id |-> i, deleted |-> include_deleted,
                                      answer |-> answer, current |-> found]]
        /\ cache' = IF cached /\ ~hit
                    THEN [cache EXCEPT ![s] = [k \in DOMAIN @ \cup {key} |->
                                                 IF k = key THEN found ELSE @[k]]]
                    ELSE cache
        /\ seen' = IF ~hit /\ found THEN [seen EXCEPT ![s] = Loaded(s, i)] ELSE seen
        /\ UNCHANGED <<rows, created, call, versioned, cached>>

(* assert_version_matches(): the caller compares the version that its      *)
(* client states with the instance; a mismatch raises and nothing follows. *)
AssertVersionMatches(instance, expected) ==
    expected = NULL \/ instance.version = expected

(* The first half of update_record() and update_record_by_filter(): the    *)
(* row is read, deleted or not, and new_data is set on the instance.  The  *)
(* caller has checked the stated version against the same instance.        *)
UpdateSelect(s) ==
    \E filters \in FilterSets, data \in NewData, expected \in {NULL} \cup 0..MaxVersion :
        LET chosen == First(filters, TRUE) IN
        /\ call[s] = Idle
        /\ \E i \in chosen :
             /\ AssertVersionMatches(Instance(s, i), expected)
             /\ seen' = [seen EXCEPT ![s] = Loaded(s, i)]
             /\ call' = [call EXCEPT ![s] = [op |-> "update", id |-> i, data |-> data,
                                             expected |-> expected]]
        /\ UNCHANGED <<rows, created, cache, got, versioned, cached>>

(* The first half of delete_record_by_filter(): soft-deleted rows are not  *)
(* found.                                                                  *)
DeleteSelect(s) ==
    \E filters \in FilterSets, hard_delete \in BOOLEAN :
        /\ call[s] = Idle
        /\ \E i \in First(filters, FALSE) :
             /\ seen' = [seen EXCEPT ![s] = Loaded(s, i)]
             /\ call' = [call EXCEPT ![s] =
                           [op |-> IF hard_delete THEN "delete" ELSE "soft_delete",
                            id |-> i, data |-> [is_deleted |-> TRUE],
                            expected |-> NULL]]
        /\ UNCHANGED <<rows, created, cache, got, versioned, cached>>

----------------------------------------------------------------------------
(* The commit.  The columns whose value differs from the loaded one go     *)
(* into the UPDATE; a soft delete also stamps updated_at, so it is never   *)
(* without one.                                                            *)
Changed(c, instance) == {f \in DOMAIN c.data : c.data[f] # instance[f]}
Emits(c, instance) == c.op = "soft_delete" \/ Changed(c, instance) # {}

\* Mutant: the UPDATE is addressed by the primary key alone.
AddressedByKey(c, instance) == c.id \in DOMAIN rows

\* The row an UPDATE or DELETE addresses is there, at the version loaded.
Addressed(c, instance) ==
    /\ c.id \in DOMAIN rows
    /\ versioned => rows[c.id].version = instance.version

\* Mutant: the whole instance is written back.
WrittenWhole(row, c, instance) ==
    [f \in DOMAIN row |->
        IF f \in DOMAIN c.data THEN c.data[f]
        ELSE IF f = "version" /\ versioned THEN row.version + 1
        ELSE instance[f]]

Written(row, c, instance) ==
    [f \in DOMAIN row |->
        IF f \in Changed(c, instance) THEN c.data[f]
        ELSE IF f = "version" /\ versioned THEN row.version + 1
        ELSE row[f]]

Update(s) ==
    LET c == call[s]
        instance == Instance(s, c.id)
    IN  /\ c.op \in {"update", "soft_delete"}
        /\ Emits(c, instance)
        /\ Addressed(c, instance)
        /\ rows[c.id].version < MaxVersion
        /\ rows' = [rows EXCEPT ![c.id] = Written(@, c, instance)]

Delete(s) ==
    /\ call[s].op = "delete"
    /\ Addressed(call[s], Instance(s, call[s].id))
    /\ rows' = Restrict(rows, DOMAIN rows \ {call[s].id})

(* Nothing to write, or StaleDataError (and for a row that has gone before *)
(* an unversioned DELETE, a warning).                                      *)
NoWrite(s) ==
    LET c == call[s]
        instance == Instance(s, c.id)
    IN  /\ \/ c.op \in {"update", "soft_delete"} /\ ~Emits(c, instance)
           \/ ~Addressed(c, instance)
        /\ UNCHANGED rows

CommitCall(s) ==
    /\ call[s] # Idle
    /\ \/ Update(s)
       \/ Delete(s)
       \/ NoWrite(s)
    /\ call' = [call EXCEPT ![s] = Idle]
    /\ Expire(s)
    /\ UNCHANGED <<created, cache, got, versioned, cached>>

\* The caller closes the session and takes a new one with a new repository.
Close(s) ==
    /\ call[s] = Idle
    /\ Expire(s)
    /\ cache' = [cache EXCEPT ![s] = Nothing]
    /\ got' = [got EXCEPT ![s] = NULL]
    /\ UNCHANGED <<rows, created, call, versioned, cached>>

Next ==
    \E s \in Sessions :
        \/ CreateRecord(s)
        \/ \E i \in Ids, include_deleted \in BOOLEAN : Retrieve(s, i, include_deleted)
        \/ UpdateSelect(s)
        \/ DeleteSelect(s)
        \/ CommitCall(s)
        \/ Close(s)

Spec == Init /\ [][Next]_vars

----------------------------------------------------------------------------
TypeOK ==
    /\ created \in 0..MaxId
    /\ DOMAIN rows \subseteq 1..created
    /\ \A i \in DOMAIN rows : rows[i] \in Row /\ rows[i].id = i
    /\ versioned \in BOOLEAN /\ cached \in BOOLEAN
    /\ \A s \in Sessions :
         /\ DOMAIN seen[s] \subseteq 1..created
         /\ \A i \in DOMAIN seen[s] : seen[s][i] \in Row /\ seen[s][i].id = i
         /\ call[s] # Idle => call[s].id \in DOMAIN seen[s]

(* A column of a row changes only to the value that the call which commits *)
(* assigns to it: an update of one column does not write back the others   *)
(* as it once read them, so it neither undoes another session's update nor *)
(* brings a row back that another session has soft-deleted meanwhile.      *)
OnlyAssignedColumnsChange ==
    [][\A i \in DOMAIN rows \cap DOMAIN rows', f \in Fields :
          rows'[i][f] # rows[i][f] =>
            \E s \in Sessions :
               /\ call[s] # Idle /\ call'[s] = Idle /\ call[s].id = i
               /\ f \in DOMAIN call[s].data /\ call[s].data[f] = rows'[i][f]]_vars

(* README.md:52: where the mapper has version_id_col, an update that passed *)
(* assert_version_matches() with a version stated by the client changes    *)
(* the row of that version and no other, although other sessions may       *)
(* commit between the check and the commit.                                *)
StatedVersionHolds ==
    [][\A s \in Sessions :
          (/\ call[s].op = "update" /\ call'[s] = Idle /\ rows' # rows
           /\ versioned /\ call[s].expected # NULL)
            => rows[call[s].id].version = call[s].expected]_vars

(* retrieve_record_by_id() and _by_urn() return "The found record or None  *)
(* if not found": what they answer is what the table holds at that moment. *)
RetrievalIsCurrent ==
    \A s \in Sessions : got[s] # NULL => got[s].answer = got[s].current
=============================================================================
