----------------------------- MODULE SoftDelete -----------------------------
(***************************************************************************)
(* soft_delete.py: SoftDeleteMixin, the do_orm_execute hook, the methods of *)
(* SoftDeleteRepositoryMixin and cascade_soft_delete(), for a parent model *)
(* and a child model that both use the mixin, as in the module's docstring. *)
(*                                                                         *)
(* The repository flushes and its caller commits.  A call is two steps:    *)
(* the SELECT that finds its rows, and the change of the instances with    *)
(* the flush; another session's steps may come between them.              *)
(***************************************************************************)
EXTENDS Database, Integers, FiniteSets, Functions

CONSTANTS Parents, Children,    \* ids of the rows of the two models, disjoint
          ParentOf,             \* the parent each child is created with
          Retention,            \* older_than, in ticks
          MaxTime,              \* bound: ticks of the clock
          MaxCalls,             \* bound: calls in one transaction
          NoParent              \* parent_id IS NULL

\* Two models, and each child is created with a parent.
SoftDeleteAssumption ==
    /\ Parents \cap Children = {}
    /\ ParentOf \in [Children -> Parents]
    /\ NoParent \notin Parents \cup Children

VARIABLES records,  \* the committed rows: deleted_at (0: NULL) and parent
          txn,      \* each session's flushed, uncommitted writes
          held,     \* each session's identity map: deleted_at as it holds it
          loaded,   \* each session's loaded collections: parent -> children
          request,  \* each session's call between its SELECT and its flush
          calls,    \* the number of calls in each session's transaction
          clock,
          onOwn,    \* history: children restored by a call of their own
          fell      \* history: children that a cascade soft-deleted

softVars == <<records, txn, held, loaded, request, calls, clock, onOwn, fell>>
history == <<onOwn, fell>>

RowIds == Parents \cup Children
Unmarked == 0
Removed(op) == [deleted_at |-> -1, parent |-> NoParent, by |-> op]  \* a flushed DELETE
IsRemoved(row) == row.deleted_at = -1
NoRequest == [op |-> "idle"]
Empty == [x \in {} |-> Unmarked]

SoftInit ==
    /\ records = [i \in RowIds |->
                    [deleted_at |-> Unmarked,
                     parent |-> IF i \in Children THEN ParentOf[i] ELSE NoParent]]
    /\ txn = [s \in Sessions |-> Empty]
    /\ held = [s \in Sessions |-> Empty]
    /\ loaded = [s \in Sessions |-> Empty]
    /\ request = [s \in Sessions |-> NoRequest]
    /\ calls = [s \in Sessions |-> 0]
    /\ clock = 1
    /\ onOwn = {}
    /\ fell = {}

----------------------------------------------------------------------------
\* What session s reads: the committed rows under its own flushed writes.
Stored(s) == DOMAIN records \ {i \in DOMAIN txn[s] : IsRemoved(txn[s][i])}
Seen(s, i) == IF i \in DOMAIN txn[s] THEN txn[s][i] ELSE records[i]

(* The hook on do_orm_execute: a SELECT of a model that uses the mixin sees *)
(* the active rows, unless its execution options ask for all of them or    *)
(* for the deleted ones.  Lazy loads of a collection pass it as well.      *)
Hook(s, option) ==
    {i \in Stored(s) :
        \/ option = "include_deleted"
        \/ option = "only_deleted" /\ Seen(s, i).deleted_at # Unmarked
        \/ option = "none" /\ Seen(s, i).deleted_at = Unmarked}

\* The collection Parent.children, as loaded before or loaded lazily now.
Collection(s, p) ==
    IF p \in DOMAIN loaded[s] THEN loaded[s][p]
    ELSE {c \in Hook(s, "none") : c \in Children /\ Seen(s, c).parent = p}

\* Mutant: the listener walks the collections that are loaded, no others.
CascadeToLoaded(s, targets) ==
    targets \cup UNION {loaded[s][p] : p \in targets \cap DOMAIN loaded[s]}

\* cascade_soft_delete(): setting deleted_at of a parent, to whatever value,
\* sets it on the children in its collection.
Cascade(s, targets) ==
    targets \cup UNION {Collection(s, p) : p \in targets \cap Parents}

\* The instances a session holds after it has loaded those of ids.
Hold(s, ids) ==
    [i \in DOMAIN held[s] \cup ids |->
        IF i \in DOMAIN held[s] THEN held[s][i] ELSE Seen(s, i).deleted_at]

LoadCollections(s, targets) ==
    [p \in DOMAIN loaded[s] \cup (targets \cap Parents) |-> Collection(s, p)]

\* Row locks: what another session has flushed and not committed.
LockedByOthers(s) == UNION {DOMAIN txn[t] : t \in Sessions \ {s}}

Busy(s) == request[s] # NoRequest \/ DOMAIN held[s] # {} \/ DOMAIN txn[s] # {}

----------------------------------------------------------------------------
\* The first step of a call: the SELECT.  Nothing found, nothing done.
Start(s, op, ids) ==
    /\ request[s] = NoRequest /\ calls[s] < MaxCalls
    /\ ids # {}
    /\ calls' = [calls EXCEPT ![s] = @ + 1]
    /\ request' = [request EXCEPT ![s] = [op |-> op, ids |-> ids]]
    /\ held' = [held EXCEPT ![s] = Hold(s, ids)]
    /\ UNCHANGED <<records, txn, loaded, clock, history>>

(* session.get(): an instance in the identity map is returned as it is,    *)
(* soft-deleted or not; otherwise the SELECT goes through the hook.        *)
DeleteRecord(s, i) ==
    /\ i \in Stored(s) /\ i \in DOMAIN held[s] \cup Hook(s, "none")
    /\ Start(s, "soft_delete", {i})

BulkSoftDelete(s, ids) == Start(s, "soft_delete", ids \cap Hook(s, "none"))

ForceDelete(s, i) == Start(s, "delete", {i} \cap Hook(s, "include_deleted"))

Restore(s, i) == Start(s, "restore", {i} \cap Hook(s, "include_deleted"))

\* hard_delete() of an instance: it must be attached to a session.
HardDelete(s, i) == i \in DOMAIN held[s] \cap Stored(s) /\ Start(s, "delete", {i})

(* purge() of one of the two repositories: the rows soft-deleted before    *)
(* the threshold.                                                          *)
Expired(s) ==
    {i \in Hook(s, "include_deleted") :
        /\ Seen(s, i).deleted_at # Unmarked
        /\ Seen(s, i).deleted_at < clock - Retention}

Purge(s, model) == Start(s, "purge", model \cap Expired(s))

\* A listing leaves the instances it returns in the identity map.
List(s, option) ==
    /\ request[s] = NoRequest /\ calls[s] < MaxCalls
    /\ calls' = [calls EXCEPT ![s] = @ + 1]
    /\ Hook(s, option) \ DOMAIN held[s] # {}
    /\ held' = [held EXCEPT ![s] = Hold(s, Hook(s, option))]
    /\ UNCHANGED <<records, txn, loaded, request, clock, history>>

ListDeleted(s) == List(s, "only_deleted")

----------------------------------------------------------------------------
\* Back to a session without a transaction: every instance expires.
Release(s) ==
    /\ txn' = [txn EXCEPT ![s] = Empty]
    /\ held' = [held EXCEPT ![s] = Empty]
    /\ loaded' = [loaded EXCEPT ![s] = Empty]
    /\ request' = [request EXCEPT ![s] = NoRequest]
    /\ calls' = [calls EXCEPT ![s] = 0]

\* A flush writes the rows whose attributes changed; a row that is locked
\* makes it wait, one that has gone makes it raise StaleDataError.
CanFlush(s, ids) == ids \cap LockedByOthers(s) = {} /\ ids \subseteq DOMAIN records

Flush(s, writes) ==
    txn' = [txn EXCEPT ![s] = [i \in DOMAIN writes \cup DOMAIN txn[s] |->
                                 IF i \in DOMAIN writes THEN writes[i] ELSE txn[s][i]]]

(* soft_delete(), restore(), and bulk_soft_delete()'s assignment, with the *)
(* cascade that the assignment sets off, and the flush.                    *)
Assign(s) ==
    LET c == request[s]
        stamp == IF c.op = "restore" THEN Unmarked ELSE clock
        touched == Cascade(s, c.ids)
        holds == Hold(s, touched)
        changed == {i \in touched : holds[i] # stamp}
    IN  /\ c.op \in {"soft_delete", "restore"}
        /\ CanFlush(s, changed)
        /\ Flush(s, [i \in changed |-> [Seen(s, i) EXCEPT !.deleted_at = stamp]])
        /\ held' = [held EXCEPT ![s] = [i \in DOMAIN holds |->
                                          IF i \in touched THEN stamp ELSE holds[i]]]
        /\ loaded' = [loaded EXCEPT ![s] = LoadCollections(s, c.ids)]
        /\ request' = [request EXCEPT ![s] = NoRequest]
        /\ onOwn' = IF c.op = "restore" THEN onOwn \cup (c.ids \cap Children) ELSE onOwn
        /\ fell' = IF c.op = "restore" THEN fell ELSE (fell \cup changed) \ c.ids
        /\ UNCHANGED <<records, calls, clock>>

(* session.delete() and the flush.  The unit of work clears parent_id of   *)
(* the children it finds in the collection - the active ones, for the lazy *)
(* load passes the hook - and the foreign key of the others still refers.  *)
Orphans(s, ids) == (UNION {Collection(s, p) : p \in ids \cap Parents}) \ ids

\* Mutant: the child's foreign key is not declared.
NoneRefers(s, ids) == {}

StillRefer(s, ids) ==
    {c \in (Stored(s) \cap Children) \ (ids \cup Orphans(s, ids)) : Seen(s, c).parent \in ids}

Remove(s) ==
    LET ids == request[s].ids
        written == (ids \cup Orphans(s, ids)) \cap DOMAIN records
    IN  /\ request[s].op \in {"delete", "purge"}
        /\ StillRefer(s, ids) = {}
        /\ CanFlush(s, written)
        /\ Flush(s, [i \in written |-> IF i \in ids THEN Removed(request[s].op)
                                       ELSE [Seen(s, i) EXCEPT !.parent = NoParent]])
        /\ held' = [held EXCEPT ![s] = Restrict(held[s], DOMAIN held[s] \ ids)]
        /\ loaded' = [loaded EXCEPT ![s] = [p \in DOMAIN @ \ ids |-> @[p] \ ids]]
        /\ request' = [request EXCEPT ![s] = NoRequest]
        /\ UNCHANGED <<records, calls, clock, history>>

\* IntegrityError: a soft-deleted child still refers to the parent.
RemoveFails(s) ==
    /\ request[s].op \in {"delete", "purge"}
    /\ StillRefer(s, request[s].ids) # {}
    /\ Release(s)
    /\ UNCHANGED <<records, clock, history>>

Commit(s) ==
    /\ request[s] = NoRequest
    /\ DOMAIN txn[s] # {} \/ DOMAIN held[s] # {}
    /\ records' = [i \in DOMAIN records \ {j \in DOMAIN txn[s] : IsRemoved(txn[s][j])} |->
                     Seen(s, i)]
    /\ Release(s)
    /\ UNCHANGED <<clock, history>>

\* The caller rolls back: after an error (StaleDataError, a deadlock that
\* PostgreSQL breaks), or because it gives up.
Rollback(s) ==
    /\ Busy(s)
    /\ Release(s)
    /\ UNCHANGED <<records, clock, history>>

\* The retention is days and a transaction is not: no tick falls into one.
Tick ==
    /\ \A s \in Sessions : ~Busy(s)
    /\ clock < MaxTime
    /\ clock' = clock + 1
    /\ UNCHANGED <<records, txn, held, loaded, request, calls, history>>

SoftNext ==
    \/ \E s \in Sessions :
         \/ \E i \in RowIds : \/ DeleteRecord(s, i) \/ ForceDelete(s, i)
                           \/ Restore(s, i) \/ HardDelete(s, i)
         \/ \E ids \in (SUBSET Parents) \cup (SUBSET Children) : BulkSoftDelete(s, ids)
         \/ \E model \in {Parents, Children} : Purge(s, model)
         \/ ListDeleted(s) \/ List(s, "none")
         \/ Assign(s) \/ Remove(s) \/ RemoveFails(s)
         \/ Commit(s) \/ Rollback(s)
    \/ Tick

SoftSpec == SoftInit /\ [][SoftNext]_softVars

----------------------------------------------------------------------------
(* What purge() removes has been soft-deleted, as everyone sees it, for    *)
(* longer than the retention at the moment it goes ("Permanently delete    *)
(* records soft-deleted before *older_than* ago"): a row restored between  *)
(* the SELECT and the DELETE is not to be removed.                         *)
PurgedWhenExpired ==
    [][\A s \in Sessions : \A i \in DOMAIN txn[s] \cap (DOMAIN records \ DOMAIN records') :
          IsRemoved(txn[s][i]) /\ txn[s][i].by = "purge" =>
            records[i].deleted_at \in 1..(clock - Retention - 1)]_softVars

(* No child stays active under a soft-deleted parent, whatever was loaded, *)
(* deleted and restored before, unless it was restored by itself.  It takes *)
(* sessions that commit before their third call: one that still holds the  *)
(* parent as active restores it without a write when another session has   *)
(* soft-deleted it, and its children with one.                             *)
CascadeReachesAll ==
    \A c \in Children \cap DOMAIN records :
        LET p == records[c].parent IN
        (p \in DOMAIN records /\ c \notin onOwn /\ records[p].deleted_at # Unmarked)
            => records[c].deleted_at # Unmarked

(* A child that went with its parent is back when the parent is back: the  *)
(* restoring half of cascade_soft_delete().                                *)
RestoredTogether ==
    \A c \in fell \cap DOMAIN records :
        LET p == records[c].parent IN
        (p \in DOMAIN records /\ records[p].deleted_at = Unmarked)
            => records[c].deleted_at = Unmarked

(* A row that is stored refers to a stored row, or to none.                *)
ReferencesHold ==
    \A c \in Children \cap DOMAIN records :
        records[c].parent \in {NoParent} \cup DOMAIN records
=============================================================================
