---------------------------- MODULE RoutingSession ----------------------------
(***************************************************************************)
(* The read/write splitting session of fastx_database/read_replicas.py:    *)
(* RoutingSession.get_bind sends a SELECT to a replica unless the session  *)
(* flag _force_primary or the thread-local flag force_primary pins it to   *)
(* the primary; flush() sets the session flag, commit(), rollback() and    *)
(* close() reset it, and the context managers use_primary(),               *)
(* read_from_replica() and read_from_primary() save the flag they find,    *)
(* change it, and restore the saved value when their block ends.           *)
(*                                                                         *)
(* Data are abstracted to the version of one row: the primary's, the one   *)
(* each replica has applied, and the one a session holds in its identity   *)
(* map.  A session is used by one task; several tasks may share a thread   *)
(* (coroutines of one event loop), whence ThreadOf.                        *)
(***************************************************************************)
EXTENDS Integers, Sequences, FiniteSets

CONSTANTS
  Sessions,       \* the RoutingSession instances
  Threads,        \* the threads, each with its own threading.local()
  ThreadOf,       \* the thread each session's task runs on
  Replicas,       \* the replica engines; may be empty
  Primary,        \* the primary engine
  Autoflush,      \* the autoflush argument of Session (SQLAlchemy: True)
  ReadStyles,     \* how callers read: "orm" entities or "core" rows
  WriteStyles,    \* how they write: "unit_of_work" or "core" statements
  BlockKinds,     \* the blocks they use: "primary", "replica", "thread"
  WriteInBlocks,  \* whether they also write inside a session-level block
  EndInBlocks,    \* whether they also end a transaction inside one
  MaxBlocks,      \* bound: nesting depth of the blocks of a session
  MaxVersion      \* bound: number of committed writes

AllBlockKinds == {"primary", "replica", "thread"}

ASSUME RoutingAssumption ==
  /\ ThreadOf \in [Sessions -> Threads]
  /\ Primary \notin Replicas
  /\ {Autoflush, WriteInBlocks, EndInBlocks} \subseteq BOOLEAN
  /\ ReadStyles \subseteq {"orm", "core"}
  /\ WriteStyles \subseteq {"unit_of_work", "core"}
  /\ BlockKinds \subseteq AllBlockKinds
  /\ MaxBlocks \in Nat /\ MaxVersion \in Nat

VARIABLES
  forcePrimary,  \* session -> _force_primary
  localForce,    \* thread -> _local.force_primary
  blocks,        \* session -> the open blocks, each with the flag it saved
  txn,           \* session -> what its transaction has done so far
  pending,       \* session -> whether it holds unflushed changes
  primary,       \* the row's version on the primary
  applied,       \* replica -> the version replication has brought it to
  committed,     \* session -> the last version it committed
  loaded,        \* session -> the version in its identity map, or NoVersion
  result         \* session -> what its last SELECT in this block returned

flags == <<forcePrimary, localForce, blocks>>
database == <<primary, applied>>
vars == <<forcePrimary, localForce, blocks, txn, pending, primary, applied,
          committed, loaded, result>>

NoVersion == -1

\* "flushed": flush() ran and emitted nothing; "written": SQL that writes was
\* emitted; "failed": a flush or commit raised and the session awaits rollback().
TxnStates == {"clean", "flushed", "written", "failed"}
Frames == [kind : AllBlockKinds, previous : BOOLEAN]

TypeOK ==
  /\ forcePrimary \in [Sessions -> BOOLEAN]
  /\ localForce \in [Threads -> BOOLEAN]
  /\ blocks \in [Sessions -> Seq(Frames)]
  /\ txn \in [Sessions -> TxnStates]
  /\ pending \in [Sessions -> BOOLEAN]
  /\ primary \in Nat
  /\ applied \in [Replicas -> 0 .. primary]
  /\ committed \in [Sessions -> 0 .. primary]
  /\ loaded \in [Sessions -> Nat \union {NoVersion}]
  /\ result \in [Sessions -> Nat \union {NoVersion}]

Init ==
  /\ forcePrimary = [s \in Sessions |-> FALSE]
  /\ localForce = [t \in Threads |-> FALSE]
  /\ blocks = [s \in Sessions |-> <<>>]
  /\ txn = [s \in Sessions |-> "clean"]
  /\ pending = [s \in Sessions |-> FALSE]
  /\ primary = 0
  /\ applied = [r \in Replicas |-> 0]
  /\ committed = [s \in Sessions |-> 0]
  /\ loaded = [s \in Sessions |-> NoVersion]
  /\ result = [s \in Sessions |-> NoVersion]

-----------------------------------------------------------------------------
(* Routing *)

Forced(s) == forcePrimary[s] \/ localForce[ThreadOf[s]]

\* _is_read_statement: a SELECT, or any statement whose text begins with WITH,
\* which a data-modifying "WITH ... INSERT" does too.
ReadStatements == {"select", "with"}

\* Mutant: get_bind forgets the thread-local flag.
RouteBySessionOnly(s, statement) ==
  IF forcePrimary[s] \/ Replicas = {} \/ statement \notin ReadStatements
  THEN {Primary} ELSE Replicas

\* get_bind: the engines a statement may be sent to.  The selector's choice
\* among the replicas is ReplicaSelector's subject; here it may be any.
Route(s, statement) ==
  IF Forced(s) \/ Replicas = {} \/ statement \notin ReadStatements
  THEN {Primary} ELSE Replicas

\* An ORM SELECT autoflushes, through the overriding flush(), before get_bind
\* is asked for an engine: it finds the flag that its own flush has set.
Autoflushes(style) == style = "orm" /\ Autoflush
ReadRoute(s, style) ==
  IF Autoflushes(style) THEN {Primary} ELSE Route(s, "select")

VersionAt(engine) == IF engine = Primary THEN primary ELSE applied[engine]

InSessionBlock(s) == \E i \in DOMAIN blocks[s] : blocks[s][i].kind # "thread"
Writes(s) == pending[s] \/ txn[s] = "written"
MayWrite(s) == WriteInBlocks \/ ~InSessionBlock(s)
MayEnd(s) == EndInBlocks \/ ~InSessionBlock(s)

-----------------------------------------------------------------------------
(* Writes *)

\* session.add() or an attribute set: a change waits for the next flush.
Add(s) ==
  /\ "unit_of_work" \in WriteStyles
  /\ txn[s] # "failed" /\ ~pending[s] /\ MayWrite(s)
  /\ pending' = [pending EXCEPT ![s] = TRUE]
  /\ UNCHANGED <<flags, txn, database, committed, loaded, result>>

\* Mutant: flush() is not overridden.
FlushedUnpinned(s) ==
  /\ txn' = [txn EXCEPT ![s] = IF pending[s] \/ @ = "written"
                               THEN "written" ELSE "flushed"]
  /\ pending' = [pending EXCEPT ![s] = FALSE]
  /\ UNCHANGED forcePrimary

\* What a flush leaves behind; Session.flush() is a no-op on a clean session,
\* the override sets the flag after it in either case.
Flushed(s) ==
  /\ forcePrimary' = [forcePrimary EXCEPT ![s] = TRUE]
  /\ txn' = [txn EXCEPT ![s] = IF pending[s] \/ @ = "written"
                               THEN "written" ELSE "flushed"]
  /\ pending' = [pending EXCEPT ![s] = FALSE]

Flush(s) ==
  /\ txn[s] # "failed" /\ MayWrite(s)
  /\ Flushed(s)
  /\ UNCHANGED <<localForce, blocks, database, committed, loaded, result>>

\* session.execute() of an INSERT, UPDATE or DELETE on a table: no flush.
ExecuteWrite(s) ==
  /\ "core" \in WriteStyles
  /\ txn[s] # "failed" /\ MayWrite(s)
  /\ txn' = [txn EXCEPT ![s] = "written"]
  /\ UNCHANGED <<flags, pending, database, committed, loaded, result>>

\* The database refuses what a flush or a commit sends: the exception leaves
\* before the override assigns the flag, and the session awaits rollback().
WriteFails(s) ==
  /\ Writes(s) /\ MayWrite(s)
  /\ txn' = [txn EXCEPT ![s] = "failed"]
  /\ pending' = [pending EXCEPT ![s] = FALSE]
  /\ loaded' = [loaded EXCEPT ![s] = NoVersion]
  /\ result' = [result EXCEPT ![s] = NoVersion]
  /\ UNCHANGED <<flags, database, committed>>

-----------------------------------------------------------------------------
(* Reads *)

\* An ORM SELECT gives back the instance the identity map holds, without
\* refreshing it from the row it fetched.
Select(s, style) ==
  LET cached == style = "orm" /\ loaded[s] # NoVersion
  IN /\ txn[s] # "failed"
     /\ Autoflushes(style) /\ pending[s] => MayWrite(s)
     /\ IF Autoflushes(style) THEN Flushed(s)
                              ELSE UNCHANGED <<forcePrimary, txn, pending>>
     /\ \E e \in ReadRoute(s, style) :
          result' = [result EXCEPT ![s] = IF cached THEN loaded[s]
                                          ELSE VersionAt(e)]
     /\ loaded' = IF style = "orm" THEN [loaded EXCEPT ![s] = result'[s]]
                                   ELSE loaded
     /\ UNCHANGED <<localForce, blocks, database, committed>>

-----------------------------------------------------------------------------
(* The end of a transaction *)

\* Mutant: the flag survives the transaction.
EndsStillPinned(s) ==
  /\ txn' = [txn EXCEPT ![s] = "clean"]
  /\ pending' = [pending EXCEPT ![s] = FALSE]
  /\ loaded' = [loaded EXCEPT ![s] = NoVersion]
  /\ result' = [result EXCEPT ![s] = NoVersion]
  /\ UNCHANGED forcePrimary

\* Mutant: the instances in the identity map survive it (expire_on_commit off).
EndsUnexpired(s) ==
  /\ forcePrimary' = [forcePrimary EXCEPT ![s] = FALSE]
  /\ txn' = [txn EXCEPT ![s] = "clean"]
  /\ pending' = [pending EXCEPT ![s] = FALSE]
  /\ result' = [result EXCEPT ![s] = NoVersion]
  /\ UNCHANGED loaded

\* What commit(), rollback() and close() all leave behind.
Ends(s) ==
  /\ forcePrimary' = [forcePrimary EXCEPT ![s] = FALSE]
  /\ txn' = [txn EXCEPT ![s] = "clean"]
  /\ pending' = [pending EXCEPT ![s] = FALSE]
  /\ loaded' = [loaded EXCEPT ![s] = NoVersion]
  /\ result' = [result EXCEPT ![s] = NoVersion]

\* Mutant: a commit is acknowledged before the primary has it.
CommitEarly(s) ==
  /\ txn[s] # "failed" /\ MayEnd(s)
  /\ Writes(s) => MayWrite(s) /\ primary < MaxVersion
  /\ committed' = IF Writes(s) THEN [committed EXCEPT ![s] = primary + 1]
                                ELSE committed
  /\ Ends(s)
  /\ UNCHANGED <<localForce, blocks, database>>

\* commit() flushes what is pending, commits, and expires every instance.
Commit(s) ==
  /\ txn[s] # "failed" /\ MayEnd(s)
  /\ Writes(s) => MayWrite(s) /\ primary < MaxVersion
  /\ primary' = IF Writes(s) THEN primary + 1 ELSE primary
  /\ committed' = IF Writes(s) THEN [committed EXCEPT ![s] = primary']
                                ELSE committed
  /\ Ends(s)
  /\ UNCHANGED <<localForce, blocks, applied>>

\* rollback() and close(): what was pending or written is given up.
RollbackOrClose(s) ==
  /\ MayEnd(s)
  /\ Ends(s)
  /\ UNCHANGED <<localForce, blocks, database, committed>>

-----------------------------------------------------------------------------
(* The context managers *)

Open(s, kind, saved) ==
  blocks' = [blocks EXCEPT ![s] = Append(@, [kind |-> kind, previous |-> saved])]

\* The flag a session-level block sets.
Pins(kind) == kind = "primary"

\* The flag the finally clause of a block assigns: what it saved on entry.
Restored(frame) == frame.previous

\* use_primary(session) and read_from_primary(), or read_from_replica().
EnterSessionBlock(s, kind) ==
  /\ kind \in BlockKinds \ {"thread"}
  /\ Len(blocks[s]) < MaxBlocks
  /\ WriteInBlocks \/ ~pending[s]
  /\ Open(s, kind, forcePrimary[s])
  /\ forcePrimary' = [forcePrimary EXCEPT ![s] = Pins(kind)]
  /\ result' = [result EXCEPT ![s] = NoVersion]
  /\ UNCHANGED <<localForce, txn, pending, database, committed, loaded>>

\* use_primary() without a session.
EnterThreadBlock(s) ==
  /\ "thread" \in BlockKinds
  /\ Len(blocks[s]) < MaxBlocks
  /\ Open(s, "thread", localForce[ThreadOf[s]])
  /\ localForce' = [localForce EXCEPT ![ThreadOf[s]] = TRUE]
  /\ result' = [result EXCEPT ![s] = NoVersion]
  /\ UNCHANGED <<forcePrimary, txn, pending, database, committed, loaded>>

\* The finally clause of the innermost block restores the value it saved.
ExitBlock(s) ==
  /\ blocks[s] # <<>>
  /\ LET n == Len(blocks[s])
         frame == blocks[s][n]
     IN /\ blocks' = [blocks EXCEPT ![s] = SubSeq(@, 1, n - 1)]
        /\ IF frame.kind = "thread"
           THEN /\ localForce' = [localForce EXCEPT
                                    ![ThreadOf[s]] = Restored(frame)]
                /\ UNCHANGED forcePrimary
           ELSE /\ forcePrimary' = [forcePrimary EXCEPT ![s] = Restored(frame)]
                /\ UNCHANGED localForce
  /\ result' = [result EXCEPT ![s] = NoVersion]
  /\ UNCHANGED <<txn, pending, database, committed, loaded>>

\* Streaming replication brings a replica one committed write further.
Replicate(r) ==
  /\ applied[r] < primary
  /\ applied' = [applied EXCEPT ![r] = @ + 1]
  /\ UNCHANGED <<flags, txn, pending, primary, committed, loaded, result>>

-----------------------------------------------------------------------------
Next ==
  \/ \E s \in Sessions :
       \/ Add(s) \/ Flush(s) \/ ExecuteWrite(s) \/ WriteFails(s)
       \/ \E style \in ReadStyles : Select(s, style)
       \/ Commit(s) \/ RollbackOrClose(s)
       \/ \E kind \in BlockKinds : EnterSessionBlock(s, kind)
       \/ EnterThreadBlock(s) \/ ExitBlock(s)
  \/ \E r \in Replicas : Replicate(r)

Spec == Init /\ [][Next]_vars

-----------------------------------------------------------------------------
(* Properties *)

Innermost(s, kinds) ==
  blocks[s] # <<>> /\ blocks[s][Len(blocks[s])].kind \in kinds

ReplicaBlockOpen(s) ==
  \E i \in DOMAIN blocks[s] : blocks[s][i].kind = "replica"

\* Once a transaction has written, its reads go to the primary until it ends,
\* unless the caller is inside read_from_replica(): a read must not miss the
\* uncommitted rows, which no replica can have (RoutingSession docstring).
PinnedAfterWrite ==
  \A s \in Sessions :
    txn[s] = "written" /\ ~ReplicaBlockOpen(s) => Route(s, "select") = {Primary}

\* Why PinnedAfterWrite survives the context managers when nothing is written
\* inside them: every flag that a block will restore, down to the innermost
\* read_from_replica(), is set as well.
PinnedIn(s) ==
  txn[s] = "written" =>
    /\ ~ReplicaBlockOpen(s) => forcePrimary[s]
    /\ \A i \in DOMAIN blocks[s] :
         /\ blocks[s][i].kind # "thread"
         /\ \A j \in 1 .. i - 1 : blocks[s][j].kind # "replica"
         => blocks[s][i].previous

SavedFlagsPinned == \A s \in Sessions : PinnedIn(s)

\* Inside use_primary() or read_from_primary() every statement of the session
\* goes to the primary, whatever the session does in the block.
PrimaryBlockHolds ==
  \A s \in Sessions :
    Innermost(s, {"primary", "thread"}) => Route(s, "select") = {Primary}

\* A pin does not outlive the transaction it was made for: with no block open,
\* a pinned session has flushed since its last commit or rollback.
PinEndsWithTransaction ==
  \A s \in Sessions :
    blocks[s] = <<>> /\ forcePrimary[s] => txn[s] # "clean"

\* A row read inside use_primary() is at least as new as the session's own
\* last commit: the read-after-write guarantee use_primary() exists for.
FreshInPrimaryBlock ==
  \A s \in Sessions :
    Innermost(s, {"primary", "thread"}) /\ result[s] # NoVersion
      => result[s] >= committed[s]

\* A transaction that has not flushed, with no use_primary() open, has its
\* SELECTs sent to the replicas: the load they are there to take.
UnpinnedReadsUseReplicas ==
  \A s \in Sessions, style \in ReadStyles :
    txn[s] = "clean" /\ blocks[s] = <<>> /\ ~localForce[ThreadOf[s]]
      => ReadRoute(s, style) = Replicas
==============================================================================
