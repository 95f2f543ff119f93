-------------------------- MODULE SoftDelete_proofs --------------------------
(***************************************************************************)
(* Proofs about SoftDelete, for any parents, children, sessions and        *)
(* retention: no row that is stored refers to a row that is gone, and the  *)
(* cascade reaches every child - with any number of sessions that commit   *)
(* after one call each, and with one session that makes any number of      *)
(* calls.                                                                  *)
(***************************************************************************)
EXTENDS SoftDelete, TLAPS

-----------------------------------------------------------------------------
(* The inductive invariant *)

IsRow(r) == {"deleted_at", "parent"} \subseteq DOMAIN r

RowsTypeOK ==
    /\ DOMAIN records \subseteq RowIds
    /\ \A i \in DOMAIN records :
         /\ IsRow(records[i])
         /\ records[i].deleted_at \in Nat
         /\ records[i].parent \in Parents \cup {NoParent}

\* A write leaves the foreign key as it is or clears it, and a flushed DELETE
\* has none.
WritesTypeOK ==
    /\ DOMAIN txn = Sessions
    /\ clock \in Nat \ {0}
    /\ \A s \in Sessions : \A i \in DOMAIN txn[s] :
         /\ IsRow(txn[s][i])
         /\ txn[s][i].deleted_at \in Nat \cup {-1}
         /\ txn[s][i].parent \in {records[i].parent, NoParent}
         /\ IsRemoved(txn[s][i]) => txn[s][i].parent = NoParent

\* What a transaction has written is locked: it is still there, and no other
\* transaction has written it.
Locked ==
    \A s \in Sessions :
        /\ DOMAIN txn[s] \subseteq DOMAIN records
        /\ \A t \in Sessions \ {s} : DOMAIN txn[s] \cap DOMAIN txn[t] = {}

\* A transaction that removes a parent has written each of its children, which
\* refer to it no longer.
RemovedUnreferenced ==
    \A s \in Sessions : \A p \in DOMAIN txn[s] \cap Parents :
        IsRemoved(txn[s][p]) =>
            \A c \in Children \cap DOMAIN records :
                records[c].parent = p => c \in DOMAIN txn[s] /\ txn[s][c].parent # p

StoreInv ==
    /\ RowsTypeOK
    /\ WritesTypeOK
    /\ Locked
    /\ RemovedUnreferenced
    /\ ReferencesHold

LEMMA EmptyDomain == DOMAIN Empty = {}
BY DEF Empty

LEMMA InitStore ==
    ASSUME SoftDeleteAssumption, SoftInit
    PROVE  StoreInv
<1>1. /\ DOMAIN records = RowIds
      /\ \A i \in RowIds : records[i] = [deleted_at |-> Unmarked,
                                   parent |-> IF i \in Children THEN ParentOf[i] ELSE NoParent]
    BY DEF SoftInit
<1>2. RowsTypeOK
    BY <1>1 DEF RowsTypeOK, IsRow, Unmarked, SoftDeleteAssumption
<1>3. \A s \in Sessions : DOMAIN txn[s] = {}
    BY EmptyDomain DEF SoftInit
<1>4. WritesTypeOK
    BY <1>3 DEF SoftInit, WritesTypeOK
<1>5. Locked /\ RemovedUnreferenced
    BY <1>3 DEF Locked, RemovedUnreferenced
<1>6. ReferencesHold
    <2> SUFFICES ASSUME NEW c \in Children
                 PROVE  records[c].parent \in DOMAIN records
        BY DEF ReferencesHold
    <2> DEFINE parent == IF c \in Children THEN ParentOf[c] ELSE NoParent
    <2>1. records[c] = [deleted_at |-> Unmarked, parent |-> parent]
        BY <1>1 DEF RowIds
    <2>2. records[c].parent = parent
        BY <2>1
    <2> QED
        BY <1>1, <2>2 DEF SoftDeleteAssumption, RowIds
<1> QED
    BY <1>2, <1>4, <1>5, <1>6 DEF StoreInv

-----------------------------------------------------------------------------
(* The steps *)

\* A flush of writes that leave foreign keys as they are or clear them, and
\* that remove a parent with all who refer to it in the session's eyes.
LEMMA FlushStep ==
    ASSUME SoftDeleteAssumption, StoreInv, NEW s \in Sessions, NEW writes,
           Flush(s, writes), UNCHANGED <<records, clock>>,
           CanFlush(s, DOMAIN writes),
           \A i \in DOMAIN writes :
              /\ IsRow(writes[i])
              /\ writes[i].deleted_at \in Nat \cup {-1}
              /\ writes[i].parent \in {Seen(s, i).parent, NoParent}
              /\ IsRemoved(writes[i]) => writes[i].parent = NoParent,
           \A p \in DOMAIN writes \cap Parents : IsRemoved(writes[p]) =>
              \A c \in Children \cap DOMAIN records :
                 Seen(s, c).parent = p => c \in DOMAIN writes /\ writes[c].parent # p
    PROVE  StoreInv'
<1> USE DEF StoreInv
<1> DEFINE W == DOMAIN writes
<1>1. /\ DOMAIN txn' = Sessions
      /\ \A t \in Sessions \ {s} : txn'[t] = txn[t]
      /\ DOMAIN txn'[s] = W \cup DOMAIN txn[s]
      /\ \A i \in W : txn'[s][i] = writes[i]
      /\ \A i \in DOMAIN txn[s] \ W : txn'[s][i] = txn[s][i]
    BY DEF Flush, WritesTypeOK
<1>2. W \subseteq DOMAIN records /\ \A t \in Sessions \ {s} : W \cap DOMAIN txn[t] = {}
    BY DEF CanFlush, LockedByOthers
<1>3. \A i \in W : Seen(s, i).parent \in {records[i].parent, NoParent}
    BY <1>2 DEF Seen, WritesTypeOK
<1>4. RowsTypeOK' /\ ReferencesHold'
    BY DEF RowsTypeOK, ReferencesHold
<1>5. WritesTypeOK'
    <2>1. ASSUME NEW t \in Sessions, NEW i \in DOMAIN txn'[t]
          PROVE  /\ IsRow(txn'[t][i])
                 /\ txn'[t][i].deleted_at \in Nat \cup {-1}
                 /\ txn'[t][i].parent \in {records[i].parent, NoParent}
                 /\ IsRemoved(txn'[t][i]) => txn'[t][i].parent = NoParent
        <3>1. CASE t = s /\ i \in W
            BY <1>1, <1>3, <3>1
        <3>2. CASE t # s \/ i \notin W
            BY <1>1, <3>2 DEF WritesTypeOK
        <3> QED
            BY <3>1, <3>2
    <2> QED
        BY <1>1, <2>1 DEF WritesTypeOK
<1>6. Locked'
    BY <1>1, <1>2 DEF Locked
<1>7. RemovedUnreferenced'
    <2> SUFFICES ASSUME NEW t \in Sessions, NEW p \in DOMAIN txn'[t] \cap Parents,
                        IsRemoved(txn'[t][p]),
                        NEW c \in Children \cap DOMAIN records, records[c].parent = p
                 PROVE  c \in DOMAIN txn'[t] /\ txn'[t][c].parent # p
        BY DEF RemovedUnreferenced
    <2>1. CASE t # s
        BY <1>1, <2>1 DEF RemovedUnreferenced
    <2>2. CASE t = s /\ p \in W
        <3>1. CASE Seen(s, c).parent = p
            BY <1>1, <2>2, <3>1
        <3>2. CASE Seen(s, c).parent # p
            <4>1. c \in DOMAIN txn[s] /\ txn[s][c].parent = NoParent
                BY <3>2 DEF Seen, WritesTypeOK
            <4>2. c \in W => writes[c].parent = NoParent
                BY <4>1 DEF Seen
            <4> QED
                BY <1>1, <2>2, <4>1, <4>2 DEF SoftDeleteAssumption
        <3> QED
            BY <3>1, <3>2
    <2>3. CASE t = s /\ p \notin W
        <3>1. c \in DOMAIN txn[s] /\ txn[s][c].parent # p
            BY <1>1, <2>3 DEF RemovedUnreferenced
        <3>2. c \in W => writes[c].parent # p
            BY <3>1 DEF Seen, SoftDeleteAssumption
        <3> QED
            BY <1>1, <2>3, <3>1, <3>2
    <2> QED
        BY <2>1, <2>2, <2>3
<1> QED
    BY <1>4, <1>5, <1>6, <1>7

\* What an assignment of deleted_at sets, on whom, and what of it is flushed.
Stamp(s) == IF request[s].op = "restore" THEN Unmarked ELSE clock
Touched(s) == Cascade(s, request[s].ids)
Changed(s) == {i \in Touched(s) : Hold(s, Touched(s))[i] # Stamp(s)}
Writes(s) == [i \in Changed(s) |-> [Seen(s, i) EXCEPT !.deleted_at = Stamp(s)]]

LEMMA AssignWrites ==
    ASSUME StoreInv, NEW s \in Sessions, Assign(s)
    PROVE  /\ CanFlush(s, Changed(s))
           /\ Flush(s, Writes(s))
           /\ UNCHANGED <<records, clock>>
           /\ Stamp(s) \in Nat
           /\ DOMAIN Writes(s) = Changed(s)
           /\ \A i \in Changed(s) : /\ IsRow(Writes(s)[i])
                                    /\ Writes(s)[i].deleted_at = Stamp(s)
                                    /\ Writes(s)[i].parent = Seen(s, i).parent
<1>1. /\ CanFlush(s, Changed(s))
      /\ Flush(s, Writes(s))
      /\ UNCHANGED <<records, clock>>
    BY DEF Assign, Changed, Writes, Touched, Stamp
<1>2. Stamp(s) \in Nat
    BY DEF StoreInv, WritesTypeOK, Unmarked, Stamp
<1>3. ASSUME NEW i \in Changed(s)
      PROVE  /\ IsRow(Writes(s)[i])
             /\ Writes(s)[i].deleted_at = Stamp(s)
             /\ Writes(s)[i].parent = Seen(s, i).parent
    <2>1. i \in DOMAIN records
        BY <1>1 DEF CanFlush
    <2>2. IsRow(Seen(s, i))
        BY <2>1 DEF Seen, StoreInv, RowsTypeOK, WritesTypeOK
    <2>3. Writes(s)[i] = [Seen(s, i) EXCEPT !.deleted_at = Stamp(s)]
        BY DEF Writes
    <2> QED
        BY <2>2, <2>3 DEF IsRow
<1> QED
    BY <1>1, <1>2, <1>3 DEF Writes

LEMMA AssignStore ==
    ASSUME SoftDeleteAssumption, StoreInv, NEW s \in Sessions, Assign(s)
    PROVE  StoreInv'
<1>1. \A i \in DOMAIN Writes(s) : ~IsRemoved(Writes(s)[i])
    BY AssignWrites DEF IsRemoved
<1> QED
    BY <1>1, AssignWrites, FlushStep

LEMMA RemoveStore ==
    ASSUME SoftDeleteAssumption, StoreInv, NEW s \in Sessions, Remove(s)
    PROVE  StoreInv'
<1> DEFINE ids == request[s].ids
           op == request[s].op
           written == (ids \cup Orphans(s, ids)) \cap DOMAIN records
           writes == [i \in written |-> IF i \in ids THEN Removed(op)
                                        ELSE [Seen(s, i) EXCEPT !.parent = NoParent]]
<1>1. /\ CanFlush(s, written)
      /\ Flush(s, writes)
      /\ StillRefer(s, ids) = {}
      /\ UNCHANGED <<records, clock>>
    BY DEF Remove, history
<1>2. ASSUME NEW i \in written
      PROVE  /\ IsRow(writes[i])
             /\ writes[i].deleted_at \in Nat \cup {-1}
             /\ writes[i].parent = NoParent
    <2>1. CASE i \in ids
        BY <2>1 DEF Removed, IsRow
    <2>2. CASE i \notin ids
        <3>1. /\ IsRow(Seen(s, i))
              /\ Seen(s, i).deleted_at \in Nat \cup {-1}
            BY DEF Seen, StoreInv, RowsTypeOK, WritesTypeOK
        <3>2. writes[i] = [Seen(s, i) EXCEPT !.parent = NoParent]
            BY <2>2
        <3> HIDE DEF written, writes
        <3> QED
            BY <3>1, <3>2 DEF IsRow
    <2> QED
        BY <2>1, <2>2
<1>3. ASSUME NEW p \in written \cap Parents, IsRemoved(writes[p]),
             NEW c \in Children \cap DOMAIN records, Seen(s, c).parent = p
      PROVE  c \in written /\ writes[c].parent # p
    <2>1. ~IsRemoved(Seen(s, c))
        BY <1>3 DEF Seen, IsRemoved, StoreInv, RowsTypeOK, WritesTypeOK,
                    SoftDeleteAssumption
    <2>2. c \in Stored(s)
        BY <2>1 DEF Stored, Seen
    <2>3. CASE p \in ids
        <3>1. c \in written
            BY <1>1, <1>3, <2>2, <2>3 DEF StillRefer
        <3> QED
            BY <1>2, <1>3, <3>1 DEF SoftDeleteAssumption
    <2>4. CASE p \notin ids
        <3>1. /\ writes[p].deleted_at = Seen(s, p).deleted_at
              /\ IsRow(Seen(s, p))
            <4>1. IsRow(Seen(s, p))
                BY DEF Seen, StoreInv, RowsTypeOK, WritesTypeOK
            <4>2. writes[p] = [Seen(s, p) EXCEPT !.parent = NoParent]
                BY <2>4
            <4> HIDE DEF written, writes
            <4> QED
                BY <4>1, <4>2 DEF IsRow
        <3>2. p \in DOMAIN txn[s] /\ IsRemoved(txn[s][p])
            BY <1>3, <3>1 DEF IsRemoved, Seen, StoreInv, RowsTypeOK
        <3>3. records[c].parent # p
            BY <1>3, <3>2 DEF StoreInv, RemovedUnreferenced, Seen
        <3>4. Seen(s, c).parent # p
            BY <3>3 DEF StoreInv, WritesTypeOK, Seen, SoftDeleteAssumption
        <3> QED
            BY <1>3, <3>4
    <2> QED
        BY <2>3, <2>4
<1>4. DOMAIN writes = written
    OBVIOUS
<1> HIDE DEF written, writes
<1> QED
    BY <1>1, <1>2, <1>3, <1>4, FlushStep

\* The other ways to end a transaction write nothing.
LEMMA ReleaseStore ==
    ASSUME StoreInv, NEW s \in Sessions, Release(s), UNCHANGED <<records, clock>>
    PROVE  StoreInv'
<1>1. /\ DOMAIN txn' = Sessions /\ DOMAIN txn'[s] = {}
      /\ \A t \in Sessions \ {s} : txn'[t] = txn[t]
    BY EmptyDomain DEF Release, StoreInv, WritesTypeOK
<1>2. RowsTypeOK' /\ ReferencesHold'
    BY DEF StoreInv, RowsTypeOK, ReferencesHold
<1>3. WritesTypeOK'
    BY <1>1 DEF StoreInv, WritesTypeOK
<1>4. Locked'
    BY <1>1 DEF StoreInv, Locked
<1>5. RemovedUnreferenced'
    BY <1>1 DEF StoreInv, RemovedUnreferenced
<1> QED
    BY <1>2, <1>3, <1>4, <1>5 DEF StoreInv

LEMMA CommitStore ==
    ASSUME SoftDeleteAssumption, StoreInv, NEW s \in Sessions, Commit(s)
    PROVE  StoreInv'
<1> DEFINE gone == {j \in DOMAIN txn[s] : IsRemoved(txn[s][j])}
<1>1. /\ DOMAIN records' = DOMAIN records \ gone
      /\ \A i \in DOMAIN records' : records'[i] = Seen(s, i)
      /\ UNCHANGED clock
    BY DEF Commit
<1>2. /\ DOMAIN txn' = Sessions /\ DOMAIN txn'[s] = {}
      /\ \A t \in Sessions \ {s} : txn'[t] = txn[t]
    BY EmptyDomain DEF Commit, Release, StoreInv, WritesTypeOK
<1>3. ASSUME NEW i \in DOMAIN records'
      PROVE  /\ IsRow(records'[i])
             /\ records'[i].deleted_at \in Nat
             /\ records'[i].parent \in {records[i].parent, NoParent}
             /\ i \notin DOMAIN txn[s] => records'[i] = records[i]
    BY <1>1 DEF Seen, IsRemoved, StoreInv, RowsTypeOK, WritesTypeOK
<1>4. RowsTypeOK'
    BY <1>1, <1>3 DEF StoreInv, RowsTypeOK
<1>5. Locked'
    BY <1>1, <1>2 DEF StoreInv, Locked
<1>6. \A t \in Sessions \ {s} : \A i \in DOMAIN txn[t] : records'[i] = records[i]
    BY <1>1, <1>3 DEF StoreInv, Locked
<1>7. WritesTypeOK'
    BY <1>1, <1>2, <1>6 DEF StoreInv, WritesTypeOK
<1>8. RemovedUnreferenced'
    BY <1>1, <1>2, <1>3 DEF StoreInv, RemovedUnreferenced, SoftDeleteAssumption
<1>9. ReferencesHold'
    <2> SUFFICES ASSUME NEW c \in Children \cap DOMAIN records', records'[c].parent # NoParent
                 PROVE  records'[c].parent \in DOMAIN records'
        BY DEF ReferencesHold
    <2> DEFINE p == records[c].parent
    <2>1. /\ records'[c].parent = p /\ p \in DOMAIN records
          /\ Seen(s, c).parent = p /\ p \in Parents
        BY <1>1, <1>3 DEF StoreInv, ReferencesHold, RowsTypeOK
    <2>2. p \notin gone
        BY <1>1, <2>1 DEF StoreInv, RemovedUnreferenced, Seen
    <2> QED
        BY <1>1, <2>1, <2>2
<1> QED
    BY <1>4, <1>5, <1>7, <1>8, <1>9 DEF StoreInv

\* A step that writes nothing and commits nothing.
LEMMA StoreUnchanged ==
    ASSUME StoreInv, UNCHANGED <<records, txn>>, clock' \in Nat \ {0}
    PROVE  StoreInv'
BY DEF StoreInv, RowsTypeOK, WritesTypeOK, Locked, RemovedUnreferenced,
       ReferencesHold

\* What the first step of a call does, whichever call it is.
Selects(s) ==
    \/ \E i \in RowIds : DeleteRecord(s, i) \/ ForceDelete(s, i) \/ Restore(s, i) \/ HardDelete(s, i)
    \/ \E ids \in (SUBSET Parents) \cup (SUBSET Children) : BulkSoftDelete(s, ids)
    \/ \E model \in {Parents, Children} : Purge(s, model)

LEMMA NextStore ==
    ASSUME SoftDeleteAssumption, StoreInv, [SoftNext]_softVars
    PROVE  StoreInv'
<1>1. ASSUME NEW s \in Sessions, Selects(s) \/ ListDeleted(s) \/ List(s, "none")
      PROVE  StoreInv'
    <2>1. UNCHANGED <<records, txn, clock>>
        BY <1>1 DEF Selects, DeleteRecord, ForceDelete, Restore, HardDelete,
                    BulkSoftDelete, Purge, ListDeleted, List, Start
    <2> QED
        BY <2>1, StoreUnchanged DEF StoreInv, WritesTypeOK
<1>2. ASSUME NEW s \in Sessions, RemoveFails(s) \/ Rollback(s)
      PROVE  StoreInv'
    BY <1>2, ReleaseStore DEF RemoveFails, Rollback
<1>3. CASE Tick
    BY <1>3, StoreUnchanged DEF Tick, StoreInv, WritesTypeOK
<1>4. CASE UNCHANGED softVars
    BY <1>4, StoreUnchanged DEF softVars, StoreInv, WritesTypeOK
<1> QED
    BY <1>1, <1>2, <1>3, <1>4, AssignStore, RemoveStore, CommitStore DEF SoftNext, Selects

LEMMA StoreInvariance ==
    ASSUME SoftDeleteAssumption
    PROVE  SoftSpec => []StoreInv
BY InitStore, NextStore, PTL DEF SoftSpec

(* Whatever sessions soft-delete, restore, purge and remove at once, a row *)
(* that is stored refers to a stored row or to none: a transaction that    *)
(* removes a parent has cleared or removed every child that refers to it,  *)
(* soft-deleted or not, and holds their locks until it commits.            *)
THEOREM ReferencesStay ==
    ASSUME SoftDeleteAssumption
    PROVE  SoftSpec => []ReferencesHold
<1>1. StoreInv => ReferencesHold
    BY DEF StoreInv
<1> QED
    BY <1>1, StoreInvariance, PTL

-----------------------------------------------------------------------------
(* The cascade *)

\* What CascadeReachesAll says, of what a session sees.
ViewOK(s) ==
    \A c \in (Children \cap DOMAIN records) \ onOwn : \A p \in DOMAIN records :
        Seen(s, c).parent = p /\ Seen(s, p).deleted_at # Unmarked
            => Seen(s, c).deleted_at # Unmarked

\* No transaction brings back a child that is soft-deleted, but for the calls
\* that restore it by itself.
NoneRevived(s) ==
    \A c \in (Children \cap DOMAIN txn[s]) \ onOwn :
        records[c].deleted_at # Unmarked => txn[s][c].deleted_at # Unmarked

CascadeInv ==
    /\ CascadeReachesAll
    /\ \A s \in Sessions : ViewOK(s) /\ NoneRevived(s)

\* What must hold of an assignment for the cascade to be complete: soft-deleting
\* a parent changes all of its active children, and restoring a parent brings
\* back those only that were active before the transaction, and the parent too.
ReachesAll(s) ==
    request[s].op = "soft_delete" =>
        \A p \in Changed(s) \cap Parents : \A c \in (Children \cap DOMAIN records) \ onOwn :
            Seen(s, c).parent = p /\ Seen(s, c).deleted_at = Unmarked => c \in Changed(s)

RestoresBoth(s) ==
    request[s].op = "restore" =>
        \A c \in (Children \cap Changed(s)) \ (onOwn \cup request[s].ids) :
            /\ records[c].deleted_at = Unmarked
            /\ \A p \in DOMAIN records \ Changed(s) :
                 Seen(s, c).parent = p => Seen(s, p).deleted_at = Unmarked

LEMMA InitCascade ==
    ASSUME SoftDeleteAssumption, SoftInit
    PROVE  CascadeInv
<1>1. \A i \in DOMAIN records : records[i].deleted_at = Unmarked
    <2> SUFFICES ASSUME NEW i \in DOMAIN records PROVE records[i].deleted_at = Unmarked
        OBVIOUS
    <2> DEFINE parent == IF i \in Children THEN ParentOf[i] ELSE NoParent
    <2>1. records[i] = [deleted_at |-> Unmarked, parent |-> parent]
        BY DEF SoftInit
    <2> HIDE DEF parent
    <2> QED
        BY <2>1
<1>2. \A s \in Sessions : DOMAIN txn[s] = {}
    BY EmptyDomain DEF SoftInit
<1> QED
    BY <1>1, <1>2 DEF CascadeInv, CascadeReachesAll, ViewOK, NoneRevived, Seen

\* What an assignment and its flush leave of the rows, as the session sees them.
LEMMA AssignSeen ==
    ASSUME StoreInv, NEW s \in Sessions, Assign(s)
    PROVE  /\ UNCHANGED <<records, clock>>
           /\ Changed(s) \subseteq DOMAIN records
           /\ DOMAIN txn' = Sessions
           /\ \A t \in Sessions \ {s} : txn'[t] = txn[t]
           /\ DOMAIN txn'[s] = Changed(s) \cup DOMAIN txn[s]
           /\ \A i \in DOMAIN txn[s] \ Changed(s) : txn'[s][i] = txn[s][i]
           /\ \A i \in Changed(s) : /\ txn'[s][i].deleted_at = Stamp(s)
                                    /\ Seen(s, i)' = txn'[s][i]
                                    /\ Seen(s, i)'.parent = Seen(s, i).parent
           /\ \A i \in DOMAIN records \ Changed(s) : Seen(s, i)' = Seen(s, i)
<1> DEFINE W == Writes(s)
<1>1. txn' = [txn EXCEPT ![s] = [i \in DOMAIN W \cup DOMAIN txn[s] |->
                                   IF i \in DOMAIN W THEN W[i] ELSE txn[s][i]]]
    BY AssignWrites DEF Flush
<1>2. /\ DOMAIN W = Changed(s)
      /\ \A i \in Changed(s) : /\ W[i].deleted_at = Stamp(s)
                               /\ W[i].parent = Seen(s, i).parent
      /\ Changed(s) \subseteq DOMAIN records
      /\ UNCHANGED <<records, clock>>
    BY AssignWrites DEF CanFlush
<1> HIDE DEF W
<1>3. /\ DOMAIN txn' = Sessions
      /\ \A t \in Sessions \ {s} : txn'[t] = txn[t]
      /\ DOMAIN txn'[s] = Changed(s) \cup DOMAIN txn[s]
      /\ \A i \in DOMAIN txn[s] \ Changed(s) : txn'[s][i] = txn[s][i]
      /\ \A i \in Changed(s) : txn'[s][i] = W[i]
    BY <1>1, <1>2 DEF StoreInv, WritesTypeOK
<1>4. /\ \A i \in Changed(s) : Seen(s, i)' = txn'[s][i]
      /\ \A i \in DOMAIN records \ Changed(s) : Seen(s, i)' = Seen(s, i)
    BY <1>2, <1>3 DEF Seen
<1> QED
    BY <1>2, <1>3, <1>4

LEMMA AssignCascade ==
    ASSUME SoftDeleteAssumption, StoreInv, CascadeInv,
           NEW s \in Sessions, Assign(s), ReachesAll(s), RestoresBoth(s)
    PROVE  CascadeInv'
<1>1. /\ UNCHANGED <<records, clock>>
      /\ Changed(s) \subseteq DOMAIN records
      /\ DOMAIN txn' = Sessions
      /\ \A t \in Sessions \ {s} : txn'[t] = txn[t]
      /\ DOMAIN txn'[s] = Changed(s) \cup DOMAIN txn[s]
      /\ \A i \in DOMAIN txn[s] \ Changed(s) : txn'[s][i] = txn[s][i]
      /\ \A i \in Changed(s) : /\ txn'[s][i].deleted_at = Stamp(s)
                               /\ txn'[s][i].parent = Seen(s, i).parent
    BY AssignSeen
<1>2. /\ request[s].op \in {"soft_delete", "restore"}
      /\ onOwn' = IF request[s].op = "restore" THEN onOwn \cup (request[s].ids \cap Children)
                  ELSE onOwn
    BY DEF Assign
<1>3. Stamp(s) = Unmarked <=> request[s].op = "restore"
    BY <1>2 DEF Stamp, Unmarked, StoreInv, WritesTypeOK
<1>4. CascadeReachesAll'
    BY <1>1, <1>2 DEF CascadeInv, CascadeReachesAll
<1>5. ASSUME NEW t \in Sessions \ {s} PROVE ViewOK(t)' /\ NoneRevived(t)'
    BY <1>1, <1>2 DEF CascadeInv, ViewOK, NoneRevived, Seen
<1>6. /\ \A i \in Changed(s) : /\ Seen(s, i)'.deleted_at = Stamp(s)
                               /\ Seen(s, i)'.parent = Seen(s, i).parent
      /\ \A i \in DOMAIN records \ Changed(s) : Seen(s, i)' = Seen(s, i)
    BY AssignSeen
<1>7. ViewOK(s)'
    <2> SUFFICES ASSUME NEW c \in (Children \cap DOMAIN records) \ onOwn',
                        NEW p \in DOMAIN records, Seen(s, c)'.parent = p,
                        Seen(s, p)'.deleted_at # Unmarked
                 PROVE  Seen(s, c)'.deleted_at # Unmarked
        BY <1>1 DEF ViewOK
    <2>1. Seen(s, c).parent = p
        BY <1>1, <1>6
    <2>2. c \notin onOwn
        BY <1>2
    <2>3. p \in Parents
        BY <2>1 DEF Seen, StoreInv, RowsTypeOK, WritesTypeOK, SoftDeleteAssumption, RowIds
    <2>4. CASE request[s].op = "soft_delete"
        BY <1>3, <1>6, <2>1, <2>2, <2>3, <2>4 DEF ReachesAll, CascadeInv, ViewOK
    <2>5. CASE request[s].op = "restore"
        BY <1>2, <1>3, <1>6, <2>1, <2>2, <2>5 DEF RestoresBoth, CascadeInv, ViewOK
    <2> QED
        BY <1>2, <2>4, <2>5
<1>8. NoneRevived(s)'
    BY <1>1, <1>2, <1>3 DEF CascadeInv, NoneRevived, RestoresBoth
<1> QED
    BY <1>4, <1>5, <1>7, <1>8 DEF CascadeInv

\* What a removal and its flush leave of the rows, as the session sees them.
Written(s) == (request[s].ids \cup Orphans(s, request[s].ids)) \cap DOMAIN records

LEMMA RemoveSeen ==
    ASSUME StoreInv, NEW s \in Sessions, Remove(s)
    PROVE  /\ UNCHANGED <<records, onOwn>>
           /\ DOMAIN txn' = Sessions
           /\ \A t \in Sessions \ {s} : txn'[t] = txn[t]
           /\ DOMAIN txn'[s] = Written(s) \cup DOMAIN txn[s]
           /\ \A i \in DOMAIN txn[s] \ Written(s) : txn'[s][i] = txn[s][i]
           /\ \A i \in Written(s) :
                /\ Seen(s, i)' = txn'[s][i]
                /\ txn'[s][i].parent = NoParent
                /\ txn'[s][i].deleted_at = IF i \in request[s].ids THEN -1
                                           ELSE Seen(s, i).deleted_at
           /\ \A i \in DOMAIN records \ Written(s) : Seen(s, i)' = Seen(s, i)
<1> DEFINE ids == request[s].ids
           op == request[s].op
           writes == [i \in Written(s) |-> IF i \in ids THEN Removed(op)
                                           ELSE [Seen(s, i) EXCEPT !.parent = NoParent]]
<1>1. /\ Flush(s, writes)
      /\ UNCHANGED <<records, onOwn>>
    BY DEF Remove, history, Written
<1>2. /\ DOMAIN txn' = Sessions
      /\ \A t \in Sessions \ {s} : txn'[t] = txn[t]
      /\ DOMAIN txn'[s] = Written(s) \cup DOMAIN txn[s]
      /\ \A i \in DOMAIN txn[s] \ Written(s) : txn'[s][i] = txn[s][i]
      /\ \A i \in Written(s) : txn'[s][i] = writes[i]
    BY <1>1 DEF Flush, StoreInv, WritesTypeOK
<1>3. ASSUME NEW i \in Written(s)
      PROVE  /\ txn'[s][i].parent = NoParent
             /\ txn'[s][i].deleted_at = IF i \in ids THEN -1 ELSE Seen(s, i).deleted_at
    <2>1. CASE i \in ids
        <3>1. txn'[s][i] = Removed(op)
            BY <1>2, <2>1
        <3> QED
            BY <2>1, <3>1 DEF Removed
    <2>2. CASE i \notin ids
        <3>1. IsRow(Seen(s, i))
            BY DEF Written, Seen, StoreInv, RowsTypeOK, WritesTypeOK
        <3>2. txn'[s][i] = [Seen(s, i) EXCEPT !.parent = NoParent]
            BY <1>2, <2>2
        <3> HIDE DEF writes
        <3> QED
            BY <2>2, <3>1, <3>2 DEF IsRow
    <2> QED
        BY <2>1, <2>2
<1> HIDE DEF writes
<1>4. /\ \A i \in Written(s) : Seen(s, i)' = txn'[s][i]
      /\ \A i \in DOMAIN records \ Written(s) : Seen(s, i)' = Seen(s, i)
    BY <1>1, <1>2 DEF Seen, Written
<1> QED
    BY <1>1, <1>2, <1>3, <1>4

\* Removing a parent leaves no child that refers to it, and other rows keep
\* what their deleted_at says.
LEMMA RemoveCascade ==
    ASSUME SoftDeleteAssumption, StoreInv, CascadeInv, NEW s \in Sessions, Remove(s)
    PROVE  CascadeInv'
<1> DEFINE ids == request[s].ids
           written == Written(s)
<1>1. StillRefer(s, ids) = {} /\ UNCHANGED <<records, onOwn>>
    BY RemoveSeen DEF Remove
<1>2. /\ DOMAIN txn' = Sessions
      /\ \A t \in Sessions \ {s} : txn'[t] = txn[t]
      /\ DOMAIN txn'[s] = written \cup DOMAIN txn[s]
      /\ \A i \in DOMAIN txn[s] \ written : txn'[s][i] = txn[s][i]
    BY RemoveSeen
<1>3. \A i \in written :
        /\ txn'[s][i].parent = NoParent
        /\ txn'[s][i].deleted_at # Unmarked \/ i \notin ids
        /\ i \notin ids => txn'[s][i].deleted_at = Seen(s, i).deleted_at
    BY RemoveSeen DEF Unmarked
<1>4. CascadeReachesAll'
    BY <1>1 DEF CascadeInv, CascadeReachesAll
<1>5. ASSUME NEW t \in Sessions \ {s} PROVE ViewOK(t)' /\ NoneRevived(t)'
    BY <1>1, <1>2 DEF CascadeInv, ViewOK, NoneRevived, Seen
<1>6. /\ \A i \in written : Seen(s, i)' = txn'[s][i]
      /\ \A i \in DOMAIN records \ written : Seen(s, i)' = Seen(s, i)
    BY RemoveSeen
<1>7. ViewOK(s)'
    <2> SUFFICES ASSUME NEW c \in (Children \cap DOMAIN records) \ onOwn,
                        NEW p \in DOMAIN records, Seen(s, c)'.parent = p,
                        Seen(s, p)'.deleted_at # Unmarked
                 PROVE  Seen(s, c)'.deleted_at # Unmarked
        BY <1>1 DEF ViewOK
    <2>1. NoParent \notin DOMAIN records
        BY DEF StoreInv, RowsTypeOK, SoftDeleteAssumption, RowIds
    <2>2. c \notin written /\ Seen(s, c).parent = p /\ Seen(s, c)' = Seen(s, c)
        BY <1>3, <1>6, <2>1
    <2>3. CASE p \in written /\ p \in ids
        <3>1. c \notin ids \cup Orphans(s, ids)
            BY <2>2 DEF Written
        <3>2. c \notin Stored(s)
            BY <1>1, <2>2, <2>3, <3>1 DEF StillRefer
        <3>3. c \in DOMAIN txn[s] /\ IsRemoved(txn[s][c])
            BY <3>2 DEF Stored
        <3> QED
            BY <2>2, <3>3 DEF Seen, IsRemoved, Unmarked
    <2>4. CASE ~(p \in written /\ p \in ids)
        <3>1. Seen(s, p)'.deleted_at = Seen(s, p).deleted_at
            BY <1>3, <1>6, <2>4
        <3> QED
            BY <2>2, <3>1 DEF CascadeInv, ViewOK
    <2> QED
        BY <2>3, <2>4
<1>8. NoneRevived(s)'
    <2> SUFFICES ASSUME NEW c \in (Children \cap DOMAIN txn'[s]) \ onOwn,
                        records[c].deleted_at # Unmarked
                 PROVE  txn'[s][c].deleted_at # Unmarked
        BY <1>1 DEF NoneRevived
    <2>1. Seen(s, c).deleted_at # Unmarked
        BY DEF CascadeInv, NoneRevived, Seen
    <2>2. c \notin written => c \in DOMAIN txn[s] /\ txn'[s][c] = txn[s][c]
        BY <1>2
    <2> QED
        BY <1>3, <2>1, <2>2 DEF CascadeInv, NoneRevived
<1> QED
    BY <1>4, <1>5, <1>7, <1>8 DEF CascadeInv

LEMMA ReleaseCascade ==
    ASSUME StoreInv, CascadeInv, NEW s \in Sessions, Release(s),
           UNCHANGED <<records, onOwn>>
    PROVE  CascadeInv'
<1>1. /\ DOMAIN txn' = Sessions /\ DOMAIN txn'[s] = {}
      /\ \A t \in Sessions \ {s} : txn'[t] = txn[t]
    BY EmptyDomain DEF Release, StoreInv, WritesTypeOK
<1>2. CascadeReachesAll'
    BY DEF CascadeInv, CascadeReachesAll
<1>3. ASSUME NEW t \in Sessions \ {s} PROVE ViewOK(t)' /\ NoneRevived(t)'
    BY <1>1 DEF CascadeInv, ViewOK, NoneRevived, Seen
<1>4. ViewOK(s)' /\ NoneRevived(s)'
    BY <1>1 DEF CascadeInv, CascadeReachesAll, ViewOK, NoneRevived, Seen
<1> QED
    BY <1>2, <1>3, <1>4 DEF CascadeInv

\* A commit changes what others see of the rows they have not written.
LEMMA CommitCascade ==
    ASSUME SoftDeleteAssumption, StoreInv, CascadeInv, NEW s \in Sessions, Commit(s)
    PROVE  CascadeInv'
<1> DEFINE gone == {j \in DOMAIN txn[s] : IsRemoved(txn[s][j])}
<1>1. /\ DOMAIN records' = DOMAIN records \ gone
      /\ \A i \in DOMAIN records' : records'[i] = Seen(s, i)
      /\ UNCHANGED onOwn
    BY DEF Commit, history
<1>2. /\ DOMAIN txn' = Sessions /\ DOMAIN txn'[s] = {}
      /\ \A t \in Sessions \ {s} : txn'[t] = txn[t]
    BY EmptyDomain DEF Commit, Release, StoreInv, WritesTypeOK
<1>3. ViewOK(s) /\ NoneRevived(s)
    BY DEF CascadeInv
<1>4. CascadeReachesAll'
    BY <1>1, <1>3 DEF CascadeReachesAll, ViewOK
<1>5. ViewOK(s)' /\ NoneRevived(s)'
    BY <1>2, <1>4 DEF CascadeReachesAll, ViewOK, NoneRevived, Seen
<1>6. ASSUME NEW t \in Sessions \ {s}
      PROVE  ViewOK(t)' /\ NoneRevived(t)'
    <2>1. /\ ViewOK(t) /\ NoneRevived(t)
          /\ DOMAIN txn[t] \cap DOMAIN txn[s] = {} /\ DOMAIN txn[t] \subseteq DOMAIN records
        BY DEF CascadeInv, StoreInv, Locked
    <2>2. /\ \A i \in DOMAIN records' : Seen(t, i)' = IF i \in DOMAIN txn[t] THEN txn[t][i]
                                                 ELSE Seen(s, i)
          /\ \A i \in DOMAIN records \ DOMAIN txn[t] : Seen(t, i) = records[i]
          /\ \A i \in DOMAIN records \ DOMAIN txn[s] : Seen(s, i) = records[i]
          /\ \A i \in DOMAIN txn[t] : Seen(t, i) = txn[t][i]
          /\ \A i \in DOMAIN txn[s] : Seen(s, i) = txn[s][i]
        BY <1>1, <1>2 DEF Seen
    <2>3. ViewOK(t)'
        <3> SUFFICES ASSUME NEW c \in (Children \cap DOMAIN records') \ onOwn,
                            NEW p \in DOMAIN records', Seen(t, c)'.parent = p,
                            Seen(t, p)'.deleted_at # Unmarked,
                            Seen(t, c)'.deleted_at = Unmarked
                     PROVE  FALSE
            BY <1>1 DEF ViewOK
        <3>1. NoParent \notin DOMAIN records /\ p \in DOMAIN records /\ c \in DOMAIN records
            BY <1>1 DEF StoreInv, RowsTypeOK, SoftDeleteAssumption, RowIds
        <3>2. CASE c \in DOMAIN txn[t] /\ p \in DOMAIN txn[t]
            BY <2>1, <2>2, <3>1, <3>2 DEF ViewOK
        <3>3. CASE c \notin DOMAIN txn[t] /\ p \notin DOMAIN txn[t]
            BY <1>3, <2>2, <3>1, <3>3 DEF ViewOK
        <3>4. CASE c \in DOMAIN txn[t] /\ p \notin DOMAIN txn[t]
            <4>1. records[c].parent = p /\ records[c].deleted_at = Unmarked
                BY <2>1, <2>2, <3>1, <3>4 DEF StoreInv, WritesTypeOK, NoneRevived
            <4>2. Seen(s, c) = records[c] /\ Seen(s, p).deleted_at # Unmarked
                BY <2>1, <2>2, <3>1, <3>4
            <4> QED
                BY <1>3, <3>1, <4>1, <4>2 DEF ViewOK
        <3>5. CASE c \notin DOMAIN txn[t] /\ p \in DOMAIN txn[t]
            <4>1. Seen(s, c).parent = p /\ Seen(s, c).deleted_at = Unmarked
                BY <2>2, <3>5
            <4>2. records[c].parent = p /\ records[c].deleted_at = Unmarked
                BY <1>3, <2>2, <3>1, <4>1 DEF StoreInv, WritesTypeOK, NoneRevived
            <4>3. Seen(t, c) = records[c] /\ Seen(t, p).deleted_at # Unmarked
                BY <2>2, <3>1, <3>5
            <4> QED
                BY <2>1, <3>1, <4>2, <4>3 DEF ViewOK
        <3> QED
            BY <3>2, <3>3, <3>4, <3>5
    <2>4. NoneRevived(t)'
        BY <1>1, <1>2, <2>1, <2>2 DEF NoneRevived
    <2> QED
        BY <2>3, <2>4
<1> QED
    BY <1>4, <1>5, <1>6 DEF CascadeInv

LEMMA NextCascade ==
    ASSUME SoftDeleteAssumption, StoreInv, CascadeInv, [SoftNext]_softVars,
           \A s \in Sessions : Assign(s) => ReachesAll(s) /\ RestoresBoth(s)
    PROVE  CascadeInv'
<1>1. ASSUME UNCHANGED <<records, txn, onOwn>> PROVE CascadeInv'
    BY <1>1 DEF CascadeInv, CascadeReachesAll, ViewOK, NoneRevived, Seen
<1>2. ASSUME NEW s \in Sessions, Selects(s) \/ ListDeleted(s) \/ List(s, "none")
      PROVE  CascadeInv'
    BY <1>1, <1>2 DEF Selects, DeleteRecord, ForceDelete, Restore, HardDelete,
                      BulkSoftDelete, Purge, ListDeleted, List, Start, history
<1>3. ASSUME NEW s \in Sessions, RemoveFails(s) \/ Rollback(s)
      PROVE  CascadeInv'
    BY <1>3, ReleaseCascade DEF RemoveFails, Rollback, history
<1>4. CASE Tick \/ UNCHANGED softVars
    BY <1>1, <1>4 DEF Tick, softVars, history
<1> QED
    BY <1>2, <1>3, <1>4, AssignCascade, RemoveCascade, CommitCascade DEF SoftNext, Selects

-----------------------------------------------------------------------------
(* Many sessions, one call in each transaction *)

SessionsOK ==
    /\ DOMAIN held = Sessions /\ DOMAIN loaded = Sessions
    /\ DOMAIN request = Sessions /\ DOMAIN calls = Sessions

\* Sets of rows of one of the models.
OneModel == (SUBSET Parents) \cup (SUBSET Children)

\* A session begins its call with nothing loaded, and until the flush it holds
\* what the SELECT returned and nothing else.
OneCallInv ==
    /\ SessionsOK
    /\ \A s \in Sessions :
         /\ calls[s] \in {0, 1}
         /\ calls[s] = 0 => request[s] = NoRequest /\ DOMAIN held[s] = {} /\ DOMAIN loaded[s] = {}
         /\ request[s] # NoRequest =>
              /\ DOMAIN loaded[s] = {}
              /\ DOMAIN held[s] = request[s].ids
              /\ request[s].ids \in OneModel

LEMMA InitSessions ==
    ASSUME SoftInit
    PROVE  /\ SessionsOK
           /\ \A s \in Sessions : /\ calls[s] = 0 /\ request[s] = NoRequest
                                  /\ DOMAIN held[s] = {} /\ DOMAIN loaded[s] = {}
BY EmptyDomain DEF SoftInit, SessionsOK

\* The rows that the SELECT of a call finds are rows of one model, as the
\* session sees them.
LEMMA SelectsStart ==
    ASSUME NEW s \in Sessions, Selects(s)
    PROVE  \E op, ids : /\ Start(s, op, ids)
                       /\ ids \in OneModel
                       /\ ids \subseteq Stored(s)
<1>1. \A option : Hook(s, option) \subseteq Stored(s)
    BY DEF Hook
<1>2. ASSUME NEW i \in RowIds,
             DeleteRecord(s, i) \/ ForceDelete(s, i) \/ Restore(s, i) \/ HardDelete(s, i)
      PROVE  \E op, ids : /\ Start(s, op, ids)
                         /\ ids \subseteq {i} /\ ids \subseteq Stored(s)
    BY <1>1, <1>2 DEF DeleteRecord, ForceDelete, Restore, HardDelete
<1>3. ASSUME NEW model \in (SUBSET Parents) \cup (SUBSET Children),
             BulkSoftDelete(s, model)
      PROVE  \E op, ids : /\ Start(s, op, ids)
                         /\ ids \subseteq model /\ ids \subseteq Stored(s)
    BY <1>1, <1>3 DEF BulkSoftDelete
<1>4. \A i \in RowIds : {i} \in OneModel
    BY DEF RowIds, OneModel
<1>5. ASSUME NEW model \in {Parents, Children}, Purge(s, model)
      PROVE  \E op, ids : /\ Start(s, op, ids)
                         /\ ids \subseteq model /\ ids \subseteq Stored(s)
    BY <1>1, <1>5 DEF Purge, Expired
<1>6. CASE \E i \in RowIds :
             DeleteRecord(s, i) \/ ForceDelete(s, i) \/ Restore(s, i) \/ HardDelete(s, i)
    <2>1. PICK i \in RowIds : \E op, ids : /\ Start(s, op, ids)
                                       /\ ids \subseteq {i} /\ ids \subseteq Stored(s)
        BY <1>2, <1>6
    <2> QED
        BY <1>4, <2>1 DEF OneModel
<1>7. CASE \E ids \in (SUBSET Parents) \cup (SUBSET Children) : BulkSoftDelete(s, ids)
    <2>1. PICK model \in (SUBSET Parents) \cup (SUBSET Children) :
            \E op, ids : /\ Start(s, op, ids)
                        /\ ids \subseteq model /\ ids \subseteq Stored(s)
        BY <1>3, <1>7
    <2>2. PICK op, ids : /\ Start(s, op, ids)
                         /\ ids \subseteq model /\ ids \subseteq Stored(s)
        BY <2>1
    <2>3. ids \in OneModel
        BY <2>2 DEF OneModel
    <2> QED
        BY <2>2, <2>3
<1>8. CASE \E model \in {Parents, Children} : Purge(s, model)
    <2>1. PICK model \in {Parents, Children} :
            \E op, ids : /\ Start(s, op, ids)
                        /\ ids \subseteq model /\ ids \subseteq Stored(s)
        BY <1>5, <1>8
    <2> QED
        BY <2>1 DEF OneModel
<1> QED
    BY <1>6, <1>7, <1>8 DEF Selects

\* The end of a transaction leaves its session as it began.
LEMMA Released ==
    ASSUME SessionsOK, NEW s \in Sessions, Release(s)
    PROVE  /\ SessionsOK'
           /\ calls'[s] = 0 /\ request'[s] = NoRequest
           /\ DOMAIN held'[s] = {} /\ DOMAIN loaded'[s] = {}
           /\ \A t \in Sessions \ {s} :
                /\ calls'[t] = calls[t] /\ request'[t] = request[t]
                /\ held'[t] = held[t] /\ loaded'[t] = loaded[t]
BY EmptyDomain DEF Release, SessionsOK

LEMMA NextOneCall ==
    ASSUME MaxCalls = 1, OneCallInv, [SoftNext]_softVars
    PROVE  OneCallInv'
<1>1. ASSUME NEW s \in Sessions, Selects(s) PROVE OneCallInv'
    <2>1. PICK op, ids : /\ Start(s, op, ids)
                         /\ ids \in OneModel
                         /\ ids \subseteq Stored(s)
        BY <1>1, SelectsStart, Zenon
    <2>2. calls[s] = 0 /\ DOMAIN held[s] = {} /\ DOMAIN loaded[s] = {}
        BY <2>1 DEF Start, OneCallInv
    <2>3. /\ request'[s] = [op |-> op, ids |-> ids]
          /\ calls'[s] = 1 /\ DOMAIN held'[s] = ids /\ loaded'[s] = loaded[s]
          /\ \A t \in Sessions \ {s} :
               /\ calls'[t] = calls[t] /\ request'[t] = request[t]
               /\ held'[t] = held[t] /\ loaded'[t] = loaded[t]
          /\ SessionsOK'
        BY <2>1, <2>2 DEF Start, Hold, OneCallInv, SessionsOK
    <2> QED
        BY <2>1, <2>2, <2>3 DEF OneCallInv
<1>2. ASSUME NEW s \in Sessions, ListDeleted(s) \/ List(s, "none")
      PROVE  OneCallInv'
    <2>1. /\ calls[s] = 0 /\ request[s] = NoRequest
          /\ calls' = [calls EXCEPT ![s] = @ + 1]
          /\ \E option : held' = [held EXCEPT ![s] = Hold(s, Hook(s, option))]
          /\ UNCHANGED <<request, loaded>>
        BY <1>2 DEF ListDeleted, List, OneCallInv
    <2> QED
        BY <2>1 DEF OneCallInv, SessionsOK
<1>3. ASSUME NEW s \in Sessions, Assign(s) \/ Remove(s) PROVE OneCallInv'
    <2>1. /\ request[s] # NoRequest
          /\ request' = [request EXCEPT ![s] = NoRequest]
          /\ UNCHANGED calls
          /\ \A t \in Sessions \ {s} : held'[t] = held[t] /\ loaded'[t] = loaded[t]
          /\ DOMAIN held' = Sessions /\ DOMAIN loaded' = Sessions
        BY <1>3 DEF Assign, Remove, NoRequest, OneCallInv, SessionsOK
    <2> QED
        BY <2>1 DEF OneCallInv, SessionsOK
<1>4. ASSUME NEW s \in Sessions, RemoveFails(s) \/ Commit(s) \/ Rollback(s)
      PROVE  OneCallInv'
    BY <1>4, Released DEF RemoveFails, Commit, Rollback, OneCallInv
<1>5. CASE Tick \/ UNCHANGED softVars
    BY <1>5 DEF Tick, softVars, OneCallInv, SessionsOK
<1> QED
    BY <1>1, <1>2, <1>3, <1>4, <1>5 DEF SoftNext, Selects

\* With nothing loaded, the cascade follows the active children as they are.
LEMMA OneCallCascade ==
    ASSUME SoftDeleteAssumption, StoreInv, OneCallInv, NEW s \in Sessions, Assign(s)
    PROVE  ReachesAll(s) /\ RestoresBoth(s)
<1> DEFINE ids == request[s].ids
<1>1. request[s].op \in {"soft_delete", "restore"} /\ request[s] # NoRequest
    BY DEF Assign, NoRequest
<1>2. /\ DOMAIN loaded[s] = {} /\ DOMAIN held[s] = ids
      /\ ids \subseteq Parents \/ ids \subseteq Children
    BY <1>1 DEF OneCallInv, OneModel
<1>3. \A p : Collection(s, p) =
                {c \in Hook(s, "none") : c \in Children /\ Seen(s, c).parent = p}
    BY <1>2 DEF Collection
<1>4. \A i \in Touched(s) \ ids : Hold(s, Touched(s))[i] = Seen(s, i).deleted_at
    BY <1>2 DEF Hold
<1>5. \A i \in Touched(s) \ ids : i \in Children /\ Seen(s, i).deleted_at = Unmarked
    BY <1>3 DEF Touched, Cascade, Hook
<1>6. ReachesAll(s)
    <2> SUFFICES ASSUME request[s].op = "soft_delete",
                        NEW p \in Changed(s) \cap Parents,
                        NEW c \in (Children \cap DOMAIN records) \ onOwn,
                        Seen(s, c).parent = p, Seen(s, c).deleted_at = Unmarked
                 PROVE  c \in Changed(s)
        BY DEF ReachesAll
    <2>1. p \in ids
        BY <1>5 DEF Changed, SoftDeleteAssumption
    <2>2. c \in Stored(s)
        BY DEF Stored, Seen, IsRemoved, Unmarked
    <2>3. c \in Collection(s, p)
        BY <1>3, <2>2 DEF Hook
    <2>4. c \in Touched(s) \ ids
        BY <1>2, <2>1, <2>3 DEF Touched, Cascade, SoftDeleteAssumption
    <2>5. Stamp(s) # Unmarked
        BY DEF Stamp, StoreInv, WritesTypeOK, Unmarked
    <2> QED
        BY <1>4, <2>4, <2>5 DEF Changed
<1>7. RestoresBoth(s)
    <2>1. ASSUME request[s].op = "restore" PROVE Changed(s) \subseteq ids
        BY <1>4, <1>5, <2>1 DEF Changed, Stamp
    <2> QED
        BY <2>1 DEF RestoresBoth
<1> QED
    BY <1>6, <1>7

(* In transactions of one call each, whatever other sessions soft-delete,  *)
(* restore, purge or remove between its SELECT and its flush, no child is  *)
(* left active under a soft-deleted parent, unless it was restored by      *)
(* itself.                                                                 *)
THEOREM CascadeOfOneCall ==
    ASSUME SoftDeleteAssumption, MaxCalls = 1
    PROVE  SoftSpec => []CascadeReachesAll
<1>1. SoftInit => CascadeInv /\ OneCallInv
    BY InitCascade, InitSessions DEF OneCallInv
<1>2. StoreInv /\ CascadeInv /\ OneCallInv /\ [SoftNext]_softVars => CascadeInv' /\ OneCallInv'
    BY NextCascade, NextOneCall, OneCallCascade
<1>3. CascadeInv => CascadeReachesAll
    BY DEF CascadeInv
<1> QED
    BY <1>1, <1>2, <1>3, StoreInvariance, PTL DEF SoftSpec

-----------------------------------------------------------------------------
(* One session, any number of calls in each transaction *)

OneSession == \A s, t \in Sessions : s = t

\* With nobody else at work, the identity map says what is stored, ...
HeldOK(s) ==
    /\ DOMAIN held[s] \subseteq Stored(s)
    /\ \A i \in DOMAIN held[s] : held[s][i] = Seen(s, i).deleted_at
    /\ request[s] # NoRequest => request[s].ids \subseteq DOMAIN held[s]

\* ... and a loaded collection has all the active children, and none that was
\* soft-deleted before the transaction, but for those restored by themselves.
LoadedOK(s) ==
    /\ DOMAIN loaded[s] \subseteq Parents
    /\ \A p \in DOMAIN loaded[s] :
         /\ loaded[s][p] \subseteq Children \cap DOMAIN held[s]
         /\ \A c \in loaded[s][p] : /\ Seen(s, c).parent \in {p, NoParent}
                                    /\ c \notin onOwn => records[c].deleted_at = Unmarked
         /\ \A c \in (Children \cap DOMAIN records) \ onOwn :
              Seen(s, c).parent = p /\ Seen(s, c).deleted_at = Unmarked
                  => c \in loaded[s][p]

OneSessionInv ==
    /\ SessionsOK
    /\ \A s \in Sessions : HeldOK(s) /\ LoadedOK(s)

\* The collection that a cascade follows, loaded before or now.
LEMMA CollectionOK ==
    ASSUME SoftDeleteAssumption, StoreInv, CascadeInv, NEW s \in Sessions,
           HeldOK(s), LoadedOK(s), NEW p
    PROVE  /\ Collection(s, p) \subseteq Children \cap Stored(s)
           /\ \A c \in Collection(s, p) :
                /\ Seen(s, c).parent \in {p, NoParent}
                /\ c \notin onOwn => records[c].deleted_at = Unmarked
                /\ p \notin DOMAIN loaded[s] => Seen(s, c).deleted_at = Unmarked
           /\ \A c \in (Children \cap DOMAIN records) \ onOwn :
                Seen(s, c).parent = p /\ Seen(s, c).deleted_at = Unmarked
                    => c \in Collection(s, p)
<1>1. CASE p \in DOMAIN loaded[s]
    BY <1>1 DEF Collection, HeldOK, LoadedOK
<1>2. CASE p \notin DOMAIN loaded[s]
    <2>1. Collection(s, p) =
            {c \in Hook(s, "none") : c \in Children /\ Seen(s, c).parent = p}
        BY <1>2 DEF Collection
    <2>2. \A c \in DOMAIN records : Seen(s, c).deleted_at = Unmarked => c \in Hook(s, "none")
        BY DEF Hook, Stored, Seen, IsRemoved, Unmarked
    <2>3. ASSUME NEW c \in Children \cap DOMAIN records, c \notin onOwn,
                 Seen(s, c).deleted_at = Unmarked
          PROVE  records[c].deleted_at = Unmarked
        BY <2>3 DEF Seen, CascadeInv, NoneRevived
    <2>4. Stored(s) \subseteq DOMAIN records
        BY DEF Stored
    <2>5. \A c \in Hook(s, "none") : c \in Stored(s) /\ Seen(s, c).deleted_at = Unmarked
        BY DEF Hook
    <2> QED
        BY <1>2, <2>1, <2>2, <2>3, <2>4, <2>5
<1> QED
    BY <1>1, <1>2

LEMMA OneSessionCascade ==
    ASSUME SoftDeleteAssumption, StoreInv, CascadeInv, OneSessionInv,
           NEW s \in Sessions, Assign(s)
    PROVE  ReachesAll(s) /\ RestoresBoth(s)
<1> DEFINE ids == request[s].ids
           holds == Hold(s, Touched(s))
<1>1. request[s].op \in {"soft_delete", "restore"} /\ request[s] # NoRequest
    BY DEF Assign, NoRequest
<1>2. HeldOK(s) /\ LoadedOK(s)
    BY DEF OneSessionInv
<1>3. /\ \A i \in Touched(s) : holds[i] = Seen(s, i).deleted_at
      /\ Touched(s) = ids \cup UNION {Collection(s, p) : p \in ids \cap Parents}
    BY <1>2 DEF Hold, HeldOK, Touched, Cascade
<1>4. Stamp(s) = Unmarked <=> request[s].op = "restore"
    BY <1>1 DEF Stamp, StoreInv, WritesTypeOK, Unmarked
<1> HIDE DEF holds
<1>5. \A i : i \in Changed(s) <=> i \in Touched(s) /\ Seen(s, i).deleted_at # Stamp(s)
    BY <1>3 DEF Changed, holds
<1>6. ReachesAll(s)
    <2> SUFFICES ASSUME request[s].op = "soft_delete",
                        NEW p \in Changed(s) \cap Parents,
                        NEW c \in (Children \cap DOMAIN records) \ onOwn,
                        Seen(s, c).parent = p, Seen(s, c).deleted_at = Unmarked
                 PROVE  c \in Changed(s)
        BY DEF ReachesAll
    <2>1. p \in ids
        BY <1>2, <1>3, <1>5, CollectionOK DEF SoftDeleteAssumption
    <2>2. c \in Collection(s, p)
        BY <1>2, CollectionOK
    <2> QED
        BY <1>3, <1>4, <1>5, <2>1, <2>2
<1>7. RestoresBoth(s)
    <2> SUFFICES ASSUME request[s].op = "restore",
                        NEW c \in (Children \cap Changed(s)) \ (onOwn \cup ids)
                 PROVE  /\ records[c].deleted_at = Unmarked
                        /\ \A p \in DOMAIN records \ Changed(s) :
                             Seen(s, c).parent = p => Seen(s, p).deleted_at = Unmarked
        BY DEF RestoresBoth
    <2>1. PICK q \in ids \cap Parents : c \in Collection(s, q)
        BY <1>3, <1>5
    <2>2. /\ records[c].deleted_at = Unmarked
          /\ Seen(s, c).parent \in {q, NoParent}
        BY <1>2, <2>1, CollectionOK
    <2>3. q \in Changed(s) \/ Seen(s, q).deleted_at = Unmarked
        BY <1>3, <1>4, <1>5, <2>1
    <2>4. NoParent \notin DOMAIN records
        BY DEF StoreInv, RowsTypeOK, SoftDeleteAssumption, RowIds
    <2> QED
        BY <2>2, <2>3, <2>4
<1> QED
    BY <1>6, <1>7

LEMMA AssignOneSession ==
    ASSUME SoftDeleteAssumption, StoreInv, CascadeInv, OneSessionInv,
           NEW s \in Sessions, Assign(s)
    PROVE  SessionsOK' /\ HeldOK(s)' /\ LoadedOK(s)'
<1> DEFINE ids == request[s].ids
           holds == Hold(s, Touched(s))
<1>1. request[s].op \in {"soft_delete", "restore"} /\ request[s] # NoRequest
    BY DEF Assign, NoRequest
<1>2. HeldOK(s) /\ LoadedOK(s)
    BY DEF OneSessionInv
<1>3. /\ DOMAIN holds = DOMAIN held[s] \cup Touched(s)
      /\ \A i \in DOMAIN holds : holds[i] = Seen(s, i).deleted_at
      /\ Touched(s) = ids \cup UNION {Collection(s, p) : p \in ids \cap Parents}
    BY <1>2 DEF Hold, HeldOK, Touched, Cascade
<1>4. Touched(s) \subseteq Stored(s) /\ Stored(s) \subseteq DOMAIN records
    BY <1>1, <1>2, <1>3, CollectionOK DEF HeldOK, Stored
<1>5. /\ UNCHANGED records
      /\ request' = [request EXCEPT ![s] = NoRequest] /\ UNCHANGED calls
      /\ held' = [held EXCEPT ![s] = [i \in DOMAIN holds |->
                                        IF i \in Touched(s) THEN Stamp(s) ELSE holds[i]]]
      /\ loaded' = [loaded EXCEPT ![s] = LoadCollections(s, ids)]
      /\ onOwn' = IF request[s].op = "restore" THEN onOwn \cup (ids \cap Children) ELSE onOwn
    BY DEF Assign, Touched, Stamp
<1>6. SessionsOK'
    BY <1>5 DEF SessionsOK, OneSessionInv
<1> HIDE DEF holds
<1>7. /\ request'[s] = NoRequest
      /\ DOMAIN held'[s] = DOMAIN held[s] \cup Touched(s)
      /\ \A i \in DOMAIN held'[s] :
           held'[s][i] = IF i \in Touched(s) THEN Stamp(s) ELSE Seen(s, i).deleted_at
      /\ DOMAIN loaded'[s] = DOMAIN loaded[s] \cup (ids \cap Parents)
      /\ \A p \in DOMAIN loaded'[s] : loaded'[s][p] = Collection(s, p)
    BY <1>3, <1>5 DEF SessionsOK, OneSessionInv, LoadCollections
<1>8. /\ \A i \in DOMAIN records :
           Seen(s, i)'.deleted_at = IF i \in Touched(s) THEN Stamp(s)
                                    ELSE Seen(s, i).deleted_at
      /\ \A i \in DOMAIN records : Seen(s, i)'.parent = Seen(s, i).parent
      /\ Stored(s)' = Stored(s)
    <2>1. \A i \in Touched(s) : i \in Changed(s) \/ Seen(s, i).deleted_at = Stamp(s)
        BY <1>3 DEF Changed, holds
    <2>2. Changed(s) \subseteq Touched(s)
        BY DEF Changed
    <2>3. Stamp(s) # -1
        BY AssignWrites
    <2>4. \A i \in DOMAIN txn'[s] :
            IsRemoved(txn'[s][i]) <=> i \in DOMAIN txn[s] /\ IsRemoved(txn[s][i])
        BY <1>4, <2>2, <2>3, AssignSeen DEF IsRemoved, Stored
    <2>5. Stored(s)' = Stored(s)
        BY <1>5, <2>4, AssignSeen DEF Stored
    <2> QED
        BY <1>4, <2>1, <2>2, <2>5, AssignSeen
<1>9. HeldOK(s)'
    BY <1>2, <1>4, <1>7, <1>8 DEF HeldOK
<1>10. LoadedOK(s)'
    <2>1. DOMAIN loaded'[s] \subseteq Parents
        BY <1>2, <1>7 DEF LoadedOK
    <2>2. ASSUME NEW p \in DOMAIN loaded'[s]
          PROVE  Collection(s, p) \subseteq Children \cap DOMAIN held'[s]
        <3>1. CASE p \in DOMAIN loaded[s]
            BY <1>2, <1>7, <3>1 DEF LoadedOK, Collection
        <3>2. CASE p \in ids \cap Parents
            BY <1>2, <1>3, <1>7, <3>2, CollectionOK
        <3> QED
            BY <1>7, <3>1, <3>2
    <2>3. ASSUME NEW p \in DOMAIN loaded'[s], NEW c \in Collection(s, p)
          PROVE  /\ Seen(s, c)'.parent \in {p, NoParent}
                 /\ c \notin onOwn' => records'[c].deleted_at = Unmarked
        <3>1. /\ Seen(s, c).parent \in {p, NoParent}
              /\ c \notin onOwn => records[c].deleted_at = Unmarked
              /\ c \in DOMAIN records
            BY <1>2, <1>4, CollectionOK
        <3> QED
            BY <1>5, <1>8, <3>1
    <2>4. ASSUME NEW p \in DOMAIN loaded'[s],
                 NEW c \in (Children \cap DOMAIN records) \ onOwn',
                 Seen(s, c)'.parent = p, Seen(s, c)'.deleted_at = Unmarked
          PROVE  c \in Collection(s, p)
        <3>1. Seen(s, c).parent = p /\ c \notin onOwn
            BY <1>5, <1>8, <2>4
        <3>2. CASE c \notin Touched(s)
            BY <1>2, <1>8, <2>4, <3>1, <3>2, CollectionOK
        <3>3. CASE c \in Touched(s)
            <4>1. Stamp(s) = Unmarked
                BY <1>8, <2>4, <3>3
            <4>2. request[s].op = "restore"
                BY <1>1, <4>1 DEF Stamp, StoreInv, WritesTypeOK, Unmarked
            <4>3. c \notin ids
                BY <1>5, <2>4, <4>2
            <4>4. PICK q \in ids \cap Parents : c \in Collection(s, q)
                BY <1>3, <3>3, <4>3
            <4>5. p \in {q, NoParent} /\ p # NoParent
                BY <1>2, <2>1, <3>1, <4>4, CollectionOK DEF SoftDeleteAssumption
            <4> QED
                BY <4>4, <4>5
        <3> QED
            BY <3>2, <3>3
    <2> QED
        BY <1>5, <1>7, <2>1, <2>2, <2>3, <2>4 DEF LoadedOK
<1> QED
    BY <1>6, <1>9, <1>10

LEMMA RemoveOneSession ==
    ASSUME SoftDeleteAssumption, StoreInv, OneSessionInv, NEW s \in Sessions, Remove(s)
    PROVE  SessionsOK' /\ HeldOK(s)' /\ LoadedOK(s)'
<1> DEFINE ids == request[s].ids
<1>1. HeldOK(s) /\ LoadedOK(s) /\ SessionsOK
    BY DEF OneSessionInv
<1>2. /\ request[s] # NoRequest
      /\ held' = [held EXCEPT ![s] = Restrict(held[s], DOMAIN held[s] \ ids)]
      /\ loaded' = [loaded EXCEPT ![s] = [p \in DOMAIN loaded[s] \ ids |->
                                            loaded[s][p] \ ids]]
      /\ request' = [request EXCEPT ![s] = NoRequest]
      /\ UNCHANGED calls
    BY DEF Remove, NoRequest
<1>3. /\ SessionsOK'
      /\ request'[s] = NoRequest
      /\ DOMAIN held'[s] = DOMAIN held[s] \ ids
      /\ \A i \in DOMAIN held'[s] : held'[s][i] = held[s][i]
      /\ DOMAIN loaded'[s] = DOMAIN loaded[s] \ ids
      /\ \A p \in DOMAIN loaded'[s] : loaded'[s][p] = loaded[s][p] \ ids
    BY <1>1, <1>2 DEF SessionsOK, Restrict
<1>4. Stored(s) \subseteq DOMAIN records /\ ids \subseteq Written(s)
    BY <1>1, <1>2 DEF HeldOK, Stored, Written
<1>5. \A i \in DOMAIN records \ ids : Seen(s, i)'.deleted_at = Seen(s, i).deleted_at
    BY <1>4, RemoveSeen
<1>6. Stored(s) \ ids \subseteq Stored(s)'
    <2> SUFFICES ASSUME NEW i \in Stored(s) \ ids,
                        i \in DOMAIN txn'[s], IsRemoved(txn'[s][i])
                 PROVE  FALSE
        BY RemoveSeen DEF Stored
    <2>1. Seen(s, i)' = txn'[s][i] /\ i \in DOMAIN records \ ids
        BY <1>4 DEF Seen
    <2>2. Seen(s, i).deleted_at = -1
        BY <1>5, <2>1 DEF IsRemoved
    <2>3. CASE i \in DOMAIN txn[s]
        BY <2>2, <2>3 DEF Stored, IsRemoved, Seen
    <2>4. CASE i \notin DOMAIN txn[s]
        BY <2>1, <2>2, <2>4 DEF Seen, StoreInv, RowsTypeOK
    <2> QED
        BY <2>3, <2>4
<1>7. HeldOK(s)'
    BY <1>1, <1>3, <1>4, <1>5, <1>6 DEF HeldOK
<1>8. LoadedOK(s)'
    <2>1. DOMAIN loaded'[s] \subseteq Parents
        BY <1>1, <1>3 DEF LoadedOK
    <2>2. ASSUME NEW p \in DOMAIN loaded'[s], NEW c \in loaded'[s][p]
          PROVE  /\ c \in Children \cap DOMAIN held'[s]
                 /\ Seen(s, c)'.parent \in {p, NoParent}
                 /\ c \notin onOwn' => records'[c].deleted_at = Unmarked
        <3>1. c \in loaded[s][p] /\ c \notin ids /\ p \in DOMAIN loaded[s]
            BY <1>3
        <3>2. c \in DOMAIN records
            BY <1>1, <1>4, <3>1 DEF LoadedOK, HeldOK
        <3> QED
            BY <1>1, <1>3, <3>1, <3>2, RemoveSeen DEF LoadedOK
    <2>3. ASSUME NEW p \in DOMAIN loaded'[s],
                 NEW c \in (Children \cap DOMAIN records) \ onOwn,
                 Seen(s, c)'.parent = p, Seen(s, c)'.deleted_at = Unmarked
          PROVE  c \in loaded'[s][p]
        <3>1. c \notin Written(s)
            BY <2>1, <2>3, RemoveSeen DEF SoftDeleteAssumption
        <3> QED
            BY <1>1, <1>3, <1>4, <2>3, <3>1, RemoveSeen DEF LoadedOK
    <2> QED
        BY <2>1, <2>2, <2>3, RemoveSeen DEF LoadedOK
<1> QED
    BY <1>3, <1>7, <1>8

\* A SELECT adds to the identity map what it finds.
LEMMA HoldsMore ==
    ASSUME OneSessionInv, NEW s \in Sessions, NEW ids \in SUBSET Stored(s),
           held' = [held EXCEPT ![s] = Hold(s, ids)],
           UNCHANGED <<records, txn, loaded, onOwn>>,
           DOMAIN request' = Sessions, DOMAIN calls' = Sessions,
           request'[s] # NoRequest => request'[s].ids = ids
    PROVE  SessionsOK' /\ HeldOK(s)' /\ LoadedOK(s)'
<1>1. HeldOK(s) /\ LoadedOK(s) /\ SessionsOK
    BY DEF OneSessionInv
<1>2. /\ DOMAIN held'[s] = DOMAIN held[s] \cup ids
      /\ \A i \in DOMAIN held'[s] :
           held'[s][i] = IF i \in DOMAIN held[s] THEN held[s][i] ELSE Seen(s, i).deleted_at
      /\ SessionsOK'
    BY <1>1 DEF SessionsOK, Hold
<1>3. Stored(s)' = Stored(s) /\ \A i : Seen(s, i)' = Seen(s, i)
    BY DEF Stored, Seen
<1>4. HeldOK(s)'
    BY <1>1, <1>2, <1>3 DEF HeldOK
<1>5. LoadedOK(s)'
    BY <1>1, <1>2, <1>3 DEF LoadedOK
<1> QED
    BY <1>2, <1>4, <1>5

LEMMA NextOneSession ==
    ASSUME SoftDeleteAssumption, OneSession, StoreInv, CascadeInv, OneSessionInv,
           [SoftNext]_softVars
    PROVE  OneSessionInv'
<1>1. ASSUME NEW s \in Sessions, SessionsOK' /\ HeldOK(s)' /\ LoadedOK(s)'
      PROVE  OneSessionInv'
    BY <1>1 DEF OneSession, OneSessionInv
<1>2. ASSUME NEW s \in Sessions, Selects(s) PROVE OneSessionInv'
    <2>1. PICK op, ids : /\ Start(s, op, ids)
                         /\ ids \in OneModel
                         /\ ids \subseteq Stored(s)
        BY <1>2, SelectsStart, Zenon
    <2>2. /\ request'[s] = [op |-> op, ids |-> ids]
          /\ DOMAIN request' = Sessions /\ DOMAIN calls' = Sessions
          /\ held' = [held EXCEPT ![s] = Hold(s, ids)]
          /\ UNCHANGED <<records, txn, loaded, onOwn>>
        BY <2>1 DEF Start, history, OneSessionInv, SessionsOK
    <2>3. SessionsOK' /\ HeldOK(s)' /\ LoadedOK(s)'
        <3>1. ids \in SUBSET Stored(s) /\ request'[s].ids = ids
            BY <2>1, <2>2
        <3> HIDE <2>1
        <3> QED
            BY <2>2, <3>1, HoldsMore
    <2> QED
        BY <1>1, <1>2, <2>3
<1>3. ASSUME NEW s \in Sessions, ListDeleted(s) \/ List(s, "none")
      PROVE  OneSessionInv'
    <2>1. PICK option \in {"only_deleted", "none"} : List(s, option)
        BY <1>3 DEF ListDeleted
    <2>2. /\ request'[s] = NoRequest
          /\ DOMAIN request' = Sessions /\ DOMAIN calls' = Sessions
          /\ held' = [held EXCEPT ![s] = Hold(s, Hook(s, option))]
          /\ UNCHANGED <<records, txn, loaded, onOwn>>
        BY <2>1 DEF List, history, OneSessionInv, SessionsOK
    <2>3. Hook(s, option) \subseteq Stored(s)
        BY DEF Hook
    <2>4. SessionsOK' /\ HeldOK(s)' /\ LoadedOK(s)'
        BY <2>2, <2>3, HoldsMore
    <2> QED
        BY <1>1, <1>3, <2>4
<1>4. ASSUME NEW s \in Sessions, Assign(s) PROVE OneSessionInv'
    BY <1>1, <1>4, AssignOneSession
<1>5. ASSUME NEW s \in Sessions, Remove(s) PROVE OneSessionInv'
    BY <1>1, <1>5, RemoveOneSession
<1>6. ASSUME NEW s \in Sessions, RemoveFails(s) \/ Commit(s) \/ Rollback(s)
      PROVE  OneSessionInv'
    <2>1. /\ SessionsOK' /\ request'[s] = NoRequest
          /\ DOMAIN held'[s] = {} /\ DOMAIN loaded'[s] = {}
        BY <1>6, Released DEF RemoveFails, Commit, Rollback, OneSessionInv
    <2>2. HeldOK(s)' /\ LoadedOK(s)'
        BY <2>1 DEF HeldOK, LoadedOK
    <2> QED
        BY <1>1, <2>1, <2>2
<1>7. CASE Tick \/ UNCHANGED softVars
    BY <1>7 DEF Tick, softVars, history, OneSessionInv, SessionsOK, HeldOK, LoadedOK,
                Stored, Seen
<1> QED
    BY <1>2, <1>3, <1>4, <1>5, <1>6, <1>7 DEF SoftNext, Selects

(* A session that has the rows to itself may list, soft-delete, restore    *)
(* and remove parents and children in one transaction as often and in any  *)
(* order it likes, whatever collections it has loaded by then: no child is *)
(* left active under a soft-deleted parent, unless it was restored by      *)
(* itself.                                                                 *)
THEOREM CascadeOfOneSession ==
    ASSUME SoftDeleteAssumption, OneSession
    PROVE  SoftSpec => []CascadeReachesAll
<1>1. SoftInit => CascadeInv /\ OneSessionInv
    <2> SUFFICES ASSUME SoftInit PROVE CascadeInv /\ OneSessionInv
        OBVIOUS
    <2>1. /\ SessionsOK
          /\ \A s \in Sessions : /\ request[s] = NoRequest
                                 /\ DOMAIN held[s] = {} /\ DOMAIN loaded[s] = {}
        BY InitSessions
    <2> QED
        BY <2>1, InitCascade DEF OneSessionInv, HeldOK, LoadedOK
<1>2. StoreInv /\ CascadeInv /\ OneSessionInv /\ [SoftNext]_softVars
        => CascadeInv' /\ OneSessionInv'
    BY NextCascade, NextOneSession, OneSessionCascade
<1>3. CascadeInv => CascadeReachesAll
    BY DEF CascadeInv
<1> QED
    BY <1>1, <1>2, <1>3, StoreInvariance, PTL DEF SoftSpec
=============================================================================
