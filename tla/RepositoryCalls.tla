--------------------------- MODULE RepositoryCalls ---------------------------
(***************************************************************************)
(* The calls of the repositories of the Catalogue, made by clients at once *)
(* on one table.  Every client has a session of its own and starts a call  *)
(* without instances.  A call that reads and then writes takes two steps:  *)
(* the SELECT and the commit; other clients' commits may fall between.     *)
(*                                                                         *)
(* A behaviour follows the rows that carry one value in the columns "by"   *)
(* of a lookup for one record: the same email, the same webhook and event. *)
(* Apart from that a row has a column that calls assign ("a"), whether it  *)
(* was ended (revoked_at, read_at, accepted_at, ... is set) and whether it *)
(* was soft-deleted.                                                       *)
(***************************************************************************)
EXTENDS Catalogue, Integers, Functions

CONSTANTS Callers,      \* the clients
          Values,
          MaxRows,      \* bound: rows ever created
          Tested        \* the repositories of this run

VARIABLES repo,         \* the repository in use
          by,           \* the columns of its lookup whose value is followed
          matching,     \* the rows that carry it, as numbered by their creation
          inserted,     \* how many have been created
          pending,      \* each client's call in progress
          told          \* what each client's last call came to

callVars == <<repo, by, matching, inserted, pending, told>>

Lookup(r) == {q \in r.queries : q.rows = "one"}
NoCall == [op |-> "idle"]

NoCallYet ==
    /\ matching = [i \in {} |-> NoCall]
    /\ inserted = 0
    /\ pending = [c \in Callers |-> NoCall]
    /\ told = [c \in Callers |-> "nothing"]

CallsInit ==
    /\ repo \in Tested
    /\ by \in {q.by : q \in Lookup(repo)} \cup {{"id"}}
    /\ NoCallYet

-----------------------------------------------------------------------------
\* A unique index of the table whose columns the lookup names.
Exact == \E key \in Tables[repo.table].keys : key \subseteq by

(* The rows a query sees.  IS false has a Boolean for its argument: of the *)
(* one-character string of SoftDeleteMixin the statement fails.            *)
Answers(q) == q.of = "active" => Tables[repo.table].flag # "string"
Shown(q) ==
    {i \in DOMAIN matching :
        /\ Answers(q)
        /\ q.of = "active" => ~matching[i].deleted
        /\ q.of = "open"   => ~matching[i].ended}

\* The rows a call can read: those of the lookup it begins with.
Readable == UNION {Shown(q) : q \in {q \in Lookup(repo) : q.by \in {by, {"id"}}}}

Tell(c, what) ==
    /\ pending' = [pending EXCEPT ![c] = NoCall]
    /\ told' = [told EXCEPT ![c] = what]
    /\ UNCHANGED <<repo, by>>

\* Mutant: the table was created without the unique index that its model states.
InsertUnindexed(c, a) ==
    /\ inserted < MaxRows
    /\ inserted' = inserted + 1
    /\ matching' = [i \in DOMAIN matching \cup {inserted'} |->
                      IF i = inserted' THEN [a |-> a, ended |-> FALSE, deleted |-> FALSE]
                      ELSE matching[i]]
    /\ Tell(c, "created")

\* An insert that a unique index refuses raises IntegrityError.
Insert(c, a) ==
    IF Exact /\ matching # <<>> THEN Tell(c, "refused") /\ UNCHANGED <<matching, inserted>>
    ELSE /\ inserted < MaxRows
         /\ inserted' = inserted + 1
         /\ matching' = [i \in DOMAIN matching \cup {inserted'} |->
                           IF i = inserted' THEN [a |-> a, ended |-> FALSE, deleted |-> FALSE]
                           ELSE matching[i]]
         /\ Tell(c, "created")

\* create_record(), create(), add(): no SELECT before the INSERT.
CreateRow(c, a) ==
    /\ pending[c] = NoCall
    /\ "create" \in repo.calls
    /\ by = {"id"} => inserted = 0         \* ids are never handed out twice
    /\ Insert(c, a)

\* revoke_all_for_user(), mark_all_read(): one UPDATE of the rows still open.
EndAll(c) ==
    /\ pending[c] = NoCall
    /\ "end_all" \in repo.calls
    /\ matching' = [i \in DOMAIN matching |-> [matching[i] EXCEPT !.ended = TRUE]]
    /\ Tell(c, "done")
    /\ UNCHANGED inserted

\* The SELECT of the calls that read first.  Nothing found: they are told so.
Select(c, op, a) ==
    /\ pending[c] = NoCall
    /\ op \in repo.calls \ {"create", "end_all"}
    /\ \/ \E i \in Readable :
            /\ op = "set_open" => ~matching[i].ended
            /\ pending' = [pending EXCEPT
                             ![c] = [op |-> op, id |-> i, row |-> matching[i], a |-> a]]
       \/ /\ Readable = {}
          /\ op \in {"get_or_create", "upsert"}
          /\ pending' = [pending EXCEPT ![c] = [op |-> "insert", as |-> op, a |-> a]]
    /\ told' = [told EXCEPT ![c] = "nothing"]
    /\ UNCHANGED <<repo, by, matching, inserted>>

\* What a call sets on the instance it has read.
Assigned(cl) ==
    CASE cl.op \in {"set", "set_open", "upsert"} -> [cl.row EXCEPT !.a = cl.a]
      [] cl.op = "end"         -> [cl.row EXCEPT !.ended = TRUE]
      [] cl.op = "soft_delete" -> [cl.row EXCEPT !.deleted = TRUE]
      [] OTHER                 -> cl.row

\* Mutant: the commit writes every column of the instance.
MergedWhole(row, cl) == Assigned(cl)

\* The UPDATE names the columns that differ from what was read.
Merged(row, cl) ==
    [f \in DOMAIN row |-> IF Assigned(cl)[f] # cl.row[f] THEN Assigned(cl)[f] ELSE row[f]]

CommitInsert(c) ==
    /\ pending[c].op = "insert"
    /\ Insert(c, pending[c].a)

CommitDelete(c) ==
    /\ pending[c].op = "delete"
    /\ matching' = Restrict(matching, DOMAIN matching \ {pending[c].id})
    /\ Tell(c, "done")                    \* a row that has gone is a warning
    /\ UNCHANGED inserted

CommitUpdate(c) ==
    /\ pending[c].op \notin {"idle", "insert", "delete"}
    /\ IF pending[c].id \in DOMAIN matching
       THEN /\ matching' = [matching EXCEPT ![pending[c].id] = Merged(@, pending[c])]
            /\ Tell(c, "done")
       ELSE Tell(c, "stale") /\ UNCHANGED matching
    /\ UNCHANGED inserted

CallsNext ==
    \E c \in Callers :
        \/ \E a \in Values : CreateRow(c, a)
        \/ \E op \in repo.calls, a \in Values : Select(c, op, a)
        \/ EndAll(c)
        \/ CommitInsert(c)
        \/ CommitDelete(c)
        \/ CommitUpdate(c)

CallsSpec == CallsInit /\ [][CallsNext]_callVars

-----------------------------------------------------------------------------
(* Lookups of one record by columns that no unique index backs: two rows   *)
(* can match, and .first() without ORDER BY returns either of them.        *)
Keyless ==
    {<<"healthcare_patient", {"user_id"}>>,
     <<"healthcare_practitioner", {"national_provider_id"}>>,
     <<"industrial_telemetry_sample", {"source_event_id"}>>,
     <<"organization_members", {"organization_id", "user_id"}>>}

\* The calls above, and what a catalogue says of the lookups of one record: a
\* unique index of the table stands behind each but the Keyless.
CallNames == {"create", "end_all", "set", "set_open", "upsert", "get_or_create",
              "end", "soft_delete", "delete"}

CatalogueAssumption ==
    \A r \in Tested :
        /\ r.calls \subseteq CallNames
        /\ \A columns \in {q.by : q \in Lookup(r)} \cup {{"id"}} :
              \/ <<r.table, columns>> \in Keyless
              \/ \E key \in Tables[r.table].keys : key \subseteq columns

(* get_by_...() and find_by_...() of one record have one to return, and    *)
(* a call that inserts what it did not find never leaves two: whatever the *)
(* order of the SELECTs and commits of several clients, one row at most    *)
(* carries the value that the lookup compares, except for the Keyless.     *)
LookupIsExact ==
    <<repo.table, by>> \notin Keyless => \A i, j \in DOMAIN matching : i = j

(* A revoked key or token, an accepted invite, a notification read stays   *)
(* so, and a soft-deleted row stays deleted, although calls that read the  *)
(* row before still commit what they assign afterwards.                    *)
MarksLast ==
    [][\A i \in DOMAIN matching \cap DOMAIN matching' :
          /\ matching[i].ended => matching'[i].ended
          /\ matching[i].deleted => matching'[i].deleted]_callVars

(* Where a repository soft-deletes, no query of it returns the row again   *)
(* (subscription.py:218, "Soft deleted subscription").                     *)
DeletedStaysHidden ==
    "soft_delete" \in repo.calls =>
        \A q \in repo.queries : \A i \in Shown(q) : ~matching[i].deleted

(* webhook.py:257, "Get existing delivery or create pending one": the call *)
(* comes to one of the two.                                                *)
GetOrCreateAnswers ==
    \A c \in Callers : "get_or_create" \in repo.calls => told[c] # "refused"

(* core/soft_delete.py:56, "SQL expression: is_deleted IS false": a query  *)
(* that leaves out soft-deleted rows returns those that are not.           *)
ActiveQueriesAnswer ==
    \A q \in repo.queries :
        q.of = "active" => Shown(q) = {i \in DOMAIN matching : ~matching[i].deleted}
=============================================================================
