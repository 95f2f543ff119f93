------------------------ MODULE RoutingSession_proofs ------------------------
(***************************************************************************)
(* Proofs about RoutingSession, for any number of sessions, threads,       *)
(* replicas, nested blocks and committed writes: the type invariant,       *)
(* that a transaction that has written reads from the primary, that        *)
(* use_primary() and read_from_primary() hold until they are left and show *)
(* what the session has committed, and that a pin ends with its            *)
(* transaction.                                                            *)
(***************************************************************************)
EXTENDS RoutingSession, TLAPS

\* Pushing a frame on the blocks of a session, and popping the last one.
LEMMA PushFrame ==
  ASSUME NEW q \in Seq(Frames), NEW f \in Frames
  PROVE  /\ Append(q, f) \in Seq(Frames)
         /\ Len(Append(q, f)) = Len(q) + 1
         /\ DOMAIN Append(q, f) = 1 .. Len(q) + 1
         /\ \A i \in 1 .. Len(q) : Append(q, f)[i] = q[i]
         /\ Append(q, f)[Len(q) + 1] = f
OBVIOUS

LEMMA PopFrame ==
  ASSUME NEW q \in Seq(Frames), q # <<>>
  PROVE  /\ Len(q) \in Nat \ {0}
         /\ q[Len(q)] \in Frames
         /\ SubSeq(q, 1, Len(q) - 1) \in Seq(Frames)
         /\ Len(SubSeq(q, 1, Len(q) - 1)) = Len(q) - 1
         /\ DOMAIN SubSeq(q, 1, Len(q) - 1) = 1 .. Len(q) - 1
         /\ \A i \in 1 .. Len(q) - 1 : SubSeq(q, 1, Len(q) - 1)[i] = q[i]
OBVIOUS

-----------------------------------------------------------------------------
(* Type correctness *)

LEMMA InitTypeOK == Init => TypeOK
BY RoutingAssumption DEF Init, TypeOK, Frames, TxnStates

LEMMA NextTypeOK == TypeOK /\ [Next]_vars => TypeOK'
<1> SUFFICES ASSUME TypeOK, [Next]_vars PROVE TypeOK'
  OBVIOUS
<1> USE RoutingAssumption DEF TypeOK, flags, database, TxnStates
<1>1. ASSUME NEW s \in Sessions, Add(s) PROVE TypeOK'
  BY <1>1 DEF Add
<1>2. ASSUME NEW s \in Sessions, Flush(s) PROVE TypeOK'
  BY <1>2 DEF Flush, Flushed
<1>3. ASSUME NEW s \in Sessions, ExecuteWrite(s) PROVE TypeOK'
  BY <1>3 DEF ExecuteWrite
<1>4. ASSUME NEW s \in Sessions, WriteFails(s) PROVE TypeOK'
  BY <1>4 DEF WriteFails
<1>5. ASSUME NEW s \in Sessions, NEW style \in ReadStyles, Select(s, style)
      PROVE  TypeOK'
  <2>1. PICK e \in ReadRoute(s, style) :
          result' = [result EXCEPT ![s] =
                       IF style = "orm" /\ loaded[s] # NoVersion
                       THEN loaded[s] ELSE VersionAt(e)]
    BY <1>5 DEF Select
  <2>2. VersionAt(e) \in Nat
    BY <2>1 DEF ReadRoute, Route, VersionAt
  <2>3. result' \in [Sessions -> Nat \union {NoVersion}]
    BY <2>1, <2>2
  <2>4. loaded' \in [Sessions -> Nat \union {NoVersion}]
    BY <1>5, <2>3 DEF Select
  <2>5. /\ forcePrimary' \in [Sessions -> BOOLEAN]
        /\ txn' \in [Sessions -> TxnStates]
        /\ pending' \in [Sessions -> BOOLEAN]
    BY <1>5 DEF Select, Flushed
  <2> QED
    BY <1>5, <2>3, <2>4, <2>5 DEF Select
<1>6. ASSUME NEW s \in Sessions, Commit(s) PROVE TypeOK'
  <2>1. primary' \in Nat /\ primary <= primary'
    BY <1>6 DEF Commit
  <2>2. committed' \in [Sessions -> 0 .. primary']
    BY <1>6, <2>1 DEF Commit
  <2> QED
    BY <1>6, <2>1, <2>2 DEF Commit, Ends
<1>7. ASSUME NEW s \in Sessions, RollbackOrClose(s) PROVE TypeOK'
  BY <1>7 DEF RollbackOrClose, Ends
<1>8. ASSUME NEW s \in Sessions, NEW kind \in BlockKinds,
             EnterSessionBlock(s, kind)
      PROVE  TypeOK'
  <2>1. [kind |-> kind, previous |-> forcePrimary[s]] \in Frames
    BY <1>8 DEF Frames
  <2>2. blocks' \in [Sessions -> Seq(Frames)]
    BY <1>8, <2>1, PushFrame DEF EnterSessionBlock, Open
  <2> QED
    BY <1>8, <2>2 DEF EnterSessionBlock, Pins
<1>9. ASSUME NEW s \in Sessions, EnterThreadBlock(s) PROVE TypeOK'
  <2>1. [kind |-> "thread", previous |-> localForce[ThreadOf[s]]] \in Frames
    BY DEF Frames, AllBlockKinds
  <2>2. blocks' \in [Sessions -> Seq(Frames)]
    BY <1>9, <2>1, PushFrame DEF EnterThreadBlock, Open
  <2> QED
    BY <1>9, <2>2 DEF EnterThreadBlock
<1>10. ASSUME NEW s \in Sessions, ExitBlock(s) PROVE TypeOK'
  <2>1. blocks[s] \in Seq(Frames) /\ blocks[s] # <<>>
    BY <1>10 DEF ExitBlock
  <2>2. /\ blocks[s][Len(blocks[s])] \in Frames
        /\ SubSeq(blocks[s], 1, Len(blocks[s]) - 1) \in Seq(Frames)
    BY <2>1, PopFrame
  <2>3. blocks' \in [Sessions -> Seq(Frames)]
    BY <1>10, <2>2 DEF ExitBlock
  <2>4. Restored(blocks[s][Len(blocks[s])]) \in BOOLEAN
    BY <2>2 DEF Restored, Frames
  <2>5. /\ forcePrimary' \in [Sessions -> BOOLEAN]
        /\ localForce' \in [Threads -> BOOLEAN]
    BY <1>10, <2>4 DEF ExitBlock
  <2> QED
    BY <1>10, <2>3, <2>5 DEF ExitBlock
<1>11. ASSUME NEW r \in Replicas, Replicate(r) PROVE TypeOK'
  BY <1>11 DEF Replicate
<1>12. CASE UNCHANGED vars
  BY <1>12 DEF vars
<1> QED
  BY <1>1, <1>2, <1>3, <1>4, <1>5, <1>6, <1>7, <1>8, <1>9, <1>10, <1>11, <1>12
     DEF Next

\* Every variable keeps its type; no replica is ahead of the primary and no
\* session believes committed a version the primary has not reached.
THEOREM TypeCorrect == Spec => []TypeOK
BY InitTypeOK, NextTypeOK, PTL DEF Spec

-----------------------------------------------------------------------------
(* A transaction that has written reads from the primary *)

\* An action that leaves the flag and the blocks of a session as they are, and
\* does not make its transaction a written one, keeps its PinnedIn.
LEMMA FlagsUntouched ==
  ASSUME NEW s \in Sessions, PinnedIn(s),
         forcePrimary'[s] = forcePrimary[s], blocks'[s] = blocks[s],
         txn'[s] = "written" => txn[s] = "written"
  PROVE  PinnedIn(s)'
BY DEF PinnedIn, ReplicaBlockOpen

\* A flush may set the flag in a block, but emits a write only outside one.
LEMMA FlushPins ==
  ASSUME TypeOK, ~WriteInBlocks, NEW s \in Sessions, PinnedIn(s),
         Flushed(s), pending[s] => MayWrite(s), UNCHANGED blocks
  PROVE  PinnedIn(s)'
<1>1. forcePrimary'[s] = TRUE
  BY DEF Flushed, TypeOK
<1>2. CASE pending[s]
  <2>1. ~InSessionBlock(s)
    BY <1>2 DEF MayWrite
  <2> QED
    BY <1>1, <2>1 DEF PinnedIn, InSessionBlock, ReplicaBlockOpen
<1>3. CASE ~pending[s]
  <2>1. txn'[s] = "written" => txn[s] = "written"
    BY <1>3 DEF Flushed, TypeOK
  <2> QED
    BY <1>1, <2>1 DEF PinnedIn, ReplicaBlockOpen
<1> QED
  BY <1>2, <1>3

\* Entering a block saves the flag PinnedIn speaks of.
LEMMA PushPinned ==
  ASSUME TypeOK, NEW s \in Sessions, PinnedIn(s), UNCHANGED txn,
         NEW kind \in AllBlockKinds, NEW saved \in BOOLEAN,
         Open(s, kind, saved),
         kind # "thread" => saved = forcePrimary[s],
         kind = "thread" => forcePrimary'[s] = forcePrimary[s],
         kind = "primary" => forcePrimary'[s] = TRUE
  PROVE  PinnedIn(s)'
<1> DEFINE q == blocks[s]
           f == [kind |-> kind, previous |-> saved]
<1>1. q \in Seq(Frames) /\ f \in Frames
  BY DEF TypeOK, Frames
<1>2. blocks'[s] = Append(q, f)
  BY DEF Open, TypeOK
<1>3. /\ DOMAIN blocks'[s] = 1 .. Len(q) + 1
      /\ \A i \in 1 .. Len(q) : blocks'[s][i] = q[i]
      /\ blocks'[s][Len(q) + 1] = f
      /\ Len(q) \in Nat /\ DOMAIN q = 1 .. Len(q)
  BY <1>1, <1>2, PushFrame
<1> SUFFICES ASSUME txn[s] = "written"
             PROVE  /\ ~ReplicaBlockOpen(s)' => forcePrimary'[s]
                    /\ \A i \in DOMAIN blocks'[s] :
                         /\ blocks'[s][i].kind # "thread"
                         /\ \A j \in 1 .. i - 1 : blocks'[s][j].kind # "replica"
                         => blocks'[s][i].previous
  BY DEF PinnedIn
<1>4. ReplicaBlockOpen(s) => ReplicaBlockOpen(s)'
  BY <1>3 DEF ReplicaBlockOpen
<1>5. ~ReplicaBlockOpen(s)' => kind # "replica"
  BY <1>3 DEF ReplicaBlockOpen
<1>6. ~ReplicaBlockOpen(s)' => forcePrimary'[s]
  BY <1>4, <1>5 DEF PinnedIn, AllBlockKinds
<1>7. ASSUME NEW i \in 1 .. Len(q) + 1, blocks'[s][i].kind # "thread",
             \A j \in 1 .. i - 1 : blocks'[s][j].kind # "replica"
      PROVE  blocks'[s][i].previous
  <2>1. CASE i \in 1 .. Len(q)
    <3>1. 1 .. i - 1 \subseteq 1 .. Len(q)
      BY <1>3, <2>1
    <3>2. \A j \in 1 .. i - 1 : q[j].kind # "replica"
      BY <1>3, <1>7, <3>1
    <3>3. blocks'[s][i] = q[i] /\ i \in DOMAIN q
      BY <1>3, <2>1
    <3> QED
      BY <1>7, <3>2, <3>3 DEF PinnedIn
  <2>2. CASE i = Len(q) + 1
    <3>1. ~ReplicaBlockOpen(s)
      BY <1>3, <1>7, <2>2 DEF ReplicaBlockOpen
    <3> QED
      BY <1>3, <1>7, <2>2, <3>1 DEF PinnedIn
  <2> QED
    BY <1>3, <2>1, <2>2
<1> QED
  BY <1>3, <1>6, <1>7

\* Leaving a block restores a flag PinnedIn speaks of.
LEMMA PopPinned ==
  ASSUME TypeOK, NEW s \in Sessions, PinnedIn(s), ExitBlock(s)
  PROVE  PinnedIn(s)'
<1> DEFINE q == blocks[s]
           n == Len(blocks[s])
<1>1. q \in Seq(Frames) /\ q # <<>>
  BY DEF TypeOK, ExitBlock
<1>2. blocks'[s] = SubSeq(q, 1, n - 1) /\ UNCHANGED txn
  BY DEF ExitBlock, TypeOK
<1>3. /\ n \in Nat \ {0} /\ q[n] \in Frames /\ DOMAIN q = 1 .. n
      /\ DOMAIN blocks'[s] = 1 .. n - 1
      /\ \A i \in 1 .. n - 1 : blocks'[s][i] = q[i]
  BY <1>1, <1>2, PopFrame
<1>4. forcePrimary'[s] =
        IF q[n].kind = "thread" THEN forcePrimary[s] ELSE q[n].previous
  BY <1>3 DEF ExitBlock, Restored, TypeOK, Frames
<1>5. ASSUME txn[s] = "written", ~ReplicaBlockOpen(s)'
      PROVE  forcePrimary'[s]
  <2>1. \A j \in 1 .. n - 1 : q[j].kind # "replica"
    BY <1>3, <1>5 DEF ReplicaBlockOpen
  <2>2. CASE q[n].kind = "thread"
    <3>1. ~ReplicaBlockOpen(s)
      BY <1>3, <2>1, <2>2 DEF ReplicaBlockOpen
    <3> QED
      BY <1>4, <1>5, <2>2, <3>1 DEF PinnedIn
  <2>3. CASE q[n].kind # "thread"
    BY <1>3, <1>4, <1>5, <2>1, <2>3 DEF PinnedIn
  <2> QED
    BY <2>2, <2>3
<1>6. ASSUME txn[s] = "written", NEW i \in 1 .. n - 1,
             blocks'[s][i].kind # "thread",
             \A j \in 1 .. i - 1 : blocks'[s][j].kind # "replica"
      PROVE  blocks'[s][i].previous
  <2>1. 1 .. i - 1 \subseteq 1 .. n - 1 /\ i \in 1 .. n
    BY <1>3
  <2>2. \A j \in 1 .. i - 1 : q[j].kind # "replica"
    BY <1>3, <1>6, <2>1
  <2>3. blocks'[s][i] = q[i] /\ i \in DOMAIN q
    BY <1>3, <2>1
  <2> QED
    BY <1>6, <2>2, <2>3 DEF PinnedIn
<1> QED
  BY <1>2, <1>3, <1>5, <1>6 DEF PinnedIn

\* Each action touches the flag and the blocks of one session only.
LEMMA StepPinned ==
  ASSUME TypeOK, ~WriteInBlocks, "core" \notin WriteStyles, [Next]_vars,
         NEW s \in Sessions, PinnedIn(s)
  PROVE  PinnedIn(s)'
<1>1. ASSUME NEW t \in Sessions, Add(t) PROVE PinnedIn(s)'
  BY <1>1, FlagsUntouched DEF Add, flags
<1>2. ASSUME NEW t \in Sessions, Flush(t) PROVE PinnedIn(s)'
  <2>1. CASE t = s
    BY <1>2, <2>1, FlushPins DEF Flush
  <2>2. CASE t # s
    BY <1>2, <2>2, FlagsUntouched DEF Flush, Flushed, TypeOK
  <2> QED
    BY <2>1, <2>2
<1>3. ASSUME NEW t \in Sessions, ExecuteWrite(t) PROVE PinnedIn(s)'
  BY <1>3 DEF ExecuteWrite
<1>4. ASSUME NEW t \in Sessions, WriteFails(t) PROVE PinnedIn(s)'
  BY <1>4, FlagsUntouched DEF WriteFails, flags, TypeOK
<1>5. ASSUME NEW t \in Sessions, NEW style \in ReadStyles, Select(t, style)
      PROVE  PinnedIn(s)'
  <2>1. CASE Autoflushes(style) /\ t = s
    BY <1>5, <2>1, FlushPins DEF Select
  <2>2. CASE Autoflushes(style) /\ t # s
    BY <1>5, <2>2, FlagsUntouched DEF Select, Flushed, TypeOK
  <2>3. CASE ~Autoflushes(style)
    BY <1>5, <2>3, FlagsUntouched DEF Select
  <2> QED
    BY <2>1, <2>2, <2>3
<1>6. ASSUME NEW t \in Sessions, Commit(t) \/ RollbackOrClose(t)
      PROVE  PinnedIn(s)'
  <2>1. Ends(t) /\ UNCHANGED blocks
    BY <1>6 DEF Commit, RollbackOrClose
  <2>2. CASE t = s
    BY <2>1, <2>2 DEF Ends, PinnedIn, TypeOK
  <2>3. CASE t # s
    BY <2>1, <2>3, FlagsUntouched DEF Ends, TypeOK
  <2> QED
    BY <2>2, <2>3
<1>7. ASSUME NEW t \in Sessions, NEW kind \in BlockKinds,
             EnterSessionBlock(t, kind)
      PROVE  PinnedIn(s)'
  <2>1. CASE t = s
    <3>1. /\ kind \in AllBlockKinds /\ kind # "thread"
          /\ forcePrimary[s] \in BOOLEAN /\ UNCHANGED txn
          /\ Open(s, kind, forcePrimary[s])
      BY <1>7, <2>1, RoutingAssumption DEF EnterSessionBlock, TypeOK
    <3>2. kind = "primary" => forcePrimary'[s] = TRUE
      BY <1>7, <2>1 DEF EnterSessionBlock, Pins, TypeOK
    <3> QED
      BY <3>1, <3>2, PushPinned
  <2>2. CASE t # s
    BY <1>7, <2>2, FlagsUntouched DEF EnterSessionBlock, Open, TypeOK
  <2> QED
    BY <2>1, <2>2
<1>8. ASSUME NEW t \in Sessions, EnterThreadBlock(t) PROVE PinnedIn(s)'
  <2>1. CASE t = s
    <3>1. /\ "thread" \in AllBlockKinds /\ localForce[ThreadOf[s]] \in BOOLEAN
          /\ UNCHANGED <<txn, forcePrimary>>
          /\ Open(s, "thread", localForce[ThreadOf[s]])
      BY <1>8, <2>1, RoutingAssumption
         DEF EnterThreadBlock, TypeOK, AllBlockKinds
    <3> QED
      BY <3>1, PushPinned
  <2>2. CASE t # s
    BY <1>8, <2>2, FlagsUntouched DEF EnterThreadBlock, Open, TypeOK
  <2> QED
    BY <2>1, <2>2
<1>9. ASSUME NEW t \in Sessions, ExitBlock(t) PROVE PinnedIn(s)'
  <2>1. CASE t = s
    BY <1>9, <2>1, PopPinned
  <2>2. CASE t # s
    BY <1>9, <2>2, FlagsUntouched DEF ExitBlock, TypeOK
  <2> QED
    BY <2>1, <2>2
<1>10. ASSUME NEW r \in Replicas, Replicate(r) PROVE PinnedIn(s)'
  BY <1>10, FlagsUntouched DEF Replicate, flags
<1>11. CASE UNCHANGED vars
  BY <1>11, FlagsUntouched DEF vars
<1> QED
  BY <1>1, <1>2, <1>3, <1>4, <1>5, <1>6, <1>7, <1>8, <1>9, <1>10, <1>11
     DEF Next

\* A transaction that has written through the unit of work reads from the
\* primary until it ends, however the callers nest use_primary() and
\* read_from_primary(), as long as they write outside those blocks: the
\* read-after-write guarantee of the RoutingSession docstring.  Both premises
\* are needed: MCRouting_write_in_block.cfg shows it of the first, and a
\* Core statement that writes sets no flag (ExecuteWrite).
THEOREM WrittenIsPinned ==
  ASSUME ~WriteInBlocks, "core" \notin WriteStyles
  PROVE  Spec => []PinnedAfterWrite
<1>1. Init => SavedFlagsPinned
  BY DEF Init, SavedFlagsPinned, PinnedIn, ReplicaBlockOpen
<1>2. TypeOK /\ SavedFlagsPinned /\ [Next]_vars => SavedFlagsPinned'
  BY StepPinned DEF SavedFlagsPinned
<1>3. SavedFlagsPinned => PinnedAfterWrite
  BY DEF SavedFlagsPinned, PinnedIn, PinnedAfterWrite, Route, Forced
<1> QED
  BY <1>1, <1>2, <1>3, TypeCorrect, PTL DEF Spec

-----------------------------------------------------------------------------
(* use_primary() holds until it is left *)

\* A flag that frames of the kinds in group save, change and restore is set
\* for every frame of the kinds in want: it is set now if no frame of the group
\* lies above, and otherwise the next one above has saved it set.
Held(q, flag, want, group) ==
  \A i \in DOMAIN q : q[i].kind \in want =>
    /\ (\A j \in DOMAIN q : j > i => q[j].kind \notin group) => flag
    /\ \A k \in DOMAIN q :
         /\ k > i /\ q[k].kind \in group
         /\ \A j \in DOMAIN q : i < j /\ j < k => q[j].kind \notin group
         => q[k].previous

SessionKinds == {"primary", "replica"}

\* The strengthening of PrimaryBlockHolds: one flag per level of use_primary().
SessionFlagHeld(s) ==
  Held(blocks[s], forcePrimary[s], {"primary"}, SessionKinds)
ThreadFlagHeld(s) ==
  Held(blocks[s], localForce[ThreadOf[s]], {"thread"}, {"thread"})

HeldInv == \A s \in Sessions : SessionFlagHeld(s) /\ ThreadFlagHeld(s)

\* Setting a flag, or leaving it alone, keeps what is held.
LEMMA HeldRaised ==
  ASSUME NEW q, NEW flag \in BOOLEAN, NEW next \in BOOLEAN,
         NEW want, NEW group, Held(q, flag, want, group), flag => next
  PROVE  Held(q, next, want, group)
BY DEF Held

\* Entering a block: a frame of the group saves the flag, a wanted one sets it.
LEMMA HeldPush ==
  ASSUME NEW q \in Seq(Frames), NEW f \in Frames,
         NEW flag \in BOOLEAN, NEW next \in BOOLEAN,
         NEW want, NEW group, Held(q, flag, want, group),
         f.kind \in group => f.previous = flag,
         f.kind \notin group => next = flag,
         f.kind \in want => next
  PROVE  Held(Append(q, f), next, want, group)
<1> DEFINE r == Append(q, f)
           n == Len(q)
<1>1. /\ DOMAIN r = 1 .. n + 1 /\ DOMAIN q = 1 .. n /\ n \in Nat
      /\ \A i \in 1 .. n : r[i] = q[i]
      /\ r[n + 1] = f
  BY PushFrame
<1> HIDE DEF r, n
<1> SUFFICES ASSUME NEW i \in 1 .. n + 1, r[i].kind \in want
             PROVE  /\ (\A j \in 1 .. n + 1 : j > i => r[j].kind \notin group)
                         => next
                    /\ \A k \in 1 .. n + 1 :
                         /\ k > i /\ r[k].kind \in group
                         /\ \A j \in 1 .. n + 1 :
                              i < j /\ j < k => r[j].kind \notin group
                         => r[k].previous
  BY <1>1 DEF Held, r
<1>2. ASSUME \A j \in 1 .. n + 1 : j > i => r[j].kind \notin group
      PROVE  next
  <2>1. CASE i = n + 1
    BY <1>1, <2>1
  <2>2. CASE i \in 1 .. n
    <3>1. f.kind \notin group
      BY <1>1, <1>2, <2>2
    <3>2. \A j \in 1 .. n : j > i => q[j].kind \notin group
      BY <1>1, <1>2
    <3>3. flag
      BY <1>1, <2>2, <3>2 DEF Held
    <3> QED
      BY <3>1, <3>3
  <2> QED
    BY <1>1, <2>1, <2>2
<1>3. ASSUME NEW k \in 1 .. n + 1, k > i, r[k].kind \in group,
             \A j \in 1 .. n + 1 : i < j /\ j < k => r[j].kind \notin group
      PROVE  r[k].previous
  <2>1. i \in 1 .. n /\ q[i].kind \in want
    BY <1>1, <1>3
  <2>2. \A j \in 1 .. n : i < j /\ j < k => q[j].kind \notin group
    BY <1>1, <1>3
  <2>3. CASE k \in 1 .. n
    BY <1>1, <1>3, <2>1, <2>2, <2>3 DEF Held
  <2>4. CASE k = n + 1
    <3>1. \A j \in 1 .. n : j > i => q[j].kind \notin group
      BY <1>1, <2>2, <2>4
    <3>2. flag
      BY <1>1, <2>1, <3>1 DEF Held
    <3> QED
      BY <1>1, <1>3, <2>4, <3>2
  <2> QED
    BY <1>1, <2>3, <2>4
<1> QED
  BY <1>2, <1>3

\* Leaving a block: a frame of the group restores the flag it saved.
LEMMA HeldPop ==
  ASSUME NEW q \in Seq(Frames), q # <<>>,
         NEW flag \in BOOLEAN, NEW next \in BOOLEAN,
         NEW want, NEW group, Held(q, flag, want, group),
         next = IF q[Len(q)].kind \in group THEN q[Len(q)].previous ELSE flag
  PROVE  Held(SubSeq(q, 1, Len(q) - 1), next, want, group)
<1> DEFINE r == SubSeq(q, 1, Len(q) - 1)
           n == Len(q)
<1>1. /\ DOMAIN r = 1 .. n - 1 /\ DOMAIN q = 1 .. n /\ n \in Nat \ {0}
      /\ \A i \in 1 .. n - 1 : r[i] = q[i]
  BY PopFrame
<1>2. next = IF q[n].kind \in group THEN q[n].previous ELSE flag
  OBVIOUS
<1> HIDE DEF r, n
<1> SUFFICES ASSUME NEW i \in 1 .. n - 1, r[i].kind \in want
             PROVE  /\ (\A j \in 1 .. n - 1 : j > i => r[j].kind \notin group)
                         => next
                    /\ \A k \in 1 .. n - 1 :
                         /\ k > i /\ r[k].kind \in group
                         /\ \A j \in 1 .. n - 1 :
                              i < j /\ j < k => r[j].kind \notin group
                         => r[k].previous
  BY <1>1 DEF Held, r, n
<1>3. i \in 1 .. n /\ q[i].kind \in want
  BY <1>1
<1>4. ASSUME \A j \in 1 .. n - 1 : j > i => r[j].kind \notin group
      PROVE  next
  <2>1. \A j \in 1 .. n - 1 : j > i => q[j].kind \notin group
    BY <1>1, <1>4
  <2>2. CASE q[n].kind \in group
    <3>1. \A j \in 1 .. n : i < j /\ j < n => q[j].kind \notin group
      BY <1>1, <2>1
    <3>2. n \in 1 .. n /\ n > i
      BY <1>1
    <3>3. q[n].previous
      BY <1>1, <1>3, <2>2, <3>1, <3>2 DEF Held
    <3> QED
      BY <1>2, <2>2, <3>3
  <2>3. CASE q[n].kind \notin group
    <3>1. \A j \in 1 .. n : j > i => q[j].kind \notin group
      BY <1>1, <2>1, <2>3
    <3> QED
      BY <1>1, <1>2, <1>3, <2>3, <3>1 DEF Held
  <2> QED
    BY <2>2, <2>3
<1>5. ASSUME NEW k \in 1 .. n - 1, k > i, r[k].kind \in group,
             \A j \in 1 .. n - 1 : i < j /\ j < k => r[j].kind \notin group
      PROVE  r[k].previous
  <2>1. k \in 1 .. n /\ q[k] = r[k]
    BY <1>1
  <2>2. \A j \in 1 .. n : i < j /\ j < k => q[j].kind \notin group
    BY <1>1, <1>5
  <2> QED
    BY <1>1, <1>3, <1>5, <2>1, <2>2 DEF Held
<1> QED
  BY <1>4, <1>5

\* What a session and its thread have pinned, where no other session shares
\* the thread.
NoSharedThread ==
  \A s, t \in Sessions : ThreadOf[s] = ThreadOf[t] => s = t

\* A step that keeps the blocks of a session and clears neither of its flags.
LEMMA HeldUntouched ==
  ASSUME TypeOK, TypeOK', NEW s \in Sessions,
         SessionFlagHeld(s), ThreadFlagHeld(s),
         blocks'[s] = blocks[s], forcePrimary[s] => forcePrimary'[s],
         localForce'[ThreadOf[s]] = localForce[ThreadOf[s]]
  PROVE  SessionFlagHeld(s)' /\ ThreadFlagHeld(s)'
<1>1. /\ forcePrimary[s] \in BOOLEAN /\ forcePrimary'[s] \in BOOLEAN
      /\ ThreadOf' = ThreadOf
  BY DEF TypeOK
<1>2. SessionFlagHeld(s)'
  BY <1>1, HeldRaised DEF SessionFlagHeld
<1>3. ThreadFlagHeld(s)'
  BY <1>1 DEF ThreadFlagHeld
<1> QED
  BY <1>2, <1>3

\* The end of a transaction clears the flag, but not inside a primary block.
LEMMA HeldEnds ==
  ASSUME TypeOK, ~EndInBlocks, NEW s \in Sessions, ThreadFlagHeld(s),
         MayEnd(s), UNCHANGED <<blocks, localForce>>
  PROVE  SessionFlagHeld(s)' /\ ThreadFlagHeld(s)'
<1>1. \A i \in DOMAIN blocks[s] : blocks[s][i].kind = "thread"
  BY DEF MayEnd, InSessionBlock
<1>2. SessionFlagHeld(s)'
  BY <1>1 DEF SessionFlagHeld, Held
<1>3. ThreadFlagHeld(s)'
  BY DEF ThreadFlagHeld
<1> QED
  BY <1>2, <1>3

LEMMA HeldEnterSession ==
  ASSUME TypeOK, NEW s \in Sessions, SessionFlagHeld(s), ThreadFlagHeld(s),
         NEW kind \in BlockKinds, EnterSessionBlock(s, kind)
  PROVE  SessionFlagHeld(s)' /\ ThreadFlagHeld(s)'
<1> DEFINE f == [kind |-> kind, previous |-> forcePrimary[s]]
<1>1. /\ kind \in SessionKinds /\ f \in Frames
      /\ f.kind = kind /\ f.previous = forcePrimary[s]
  BY RoutingAssumption
     DEF EnterSessionBlock, AllBlockKinds, SessionKinds, Frames, TypeOK
<1>2. /\ blocks[s] \in Seq(Frames) /\ blocks'[s] = Append(blocks[s], f)
      /\ forcePrimary[s] \in BOOLEAN /\ localForce[ThreadOf[s]] \in BOOLEAN
      /\ forcePrimary'[s] = (kind = "primary")
      /\ localForce' = localForce
  BY RoutingAssumption DEF EnterSessionBlock, Open, Pins, TypeOK
<1> HIDE DEF f
<1>3. Held(blocks'[s], forcePrimary'[s], {"primary"}, SessionKinds)
  BY <1>1, <1>2, HeldPush DEF SessionFlagHeld
<1>4. Held(blocks'[s], localForce'[ThreadOf[s]], {"thread"}, {"thread"})
  <2>1. f.kind # "thread"
    BY <1>1 DEF SessionKinds
  <2> QED
    BY <1>1, <1>2, <2>1, HeldPush DEF ThreadFlagHeld
<1> QED
  BY <1>3, <1>4 DEF SessionFlagHeld, ThreadFlagHeld

LEMMA HeldEnterThread ==
  ASSUME TypeOK, NEW s \in Sessions, SessionFlagHeld(s), ThreadFlagHeld(s),
         EnterThreadBlock(s)
  PROVE  SessionFlagHeld(s)' /\ ThreadFlagHeld(s)'
<1> DEFINE f == [kind |-> "thread", previous |-> localForce[ThreadOf[s]]]
<1>1. /\ f \in Frames /\ f.kind = "thread"
      /\ f.previous = localForce[ThreadOf[s]]
  BY RoutingAssumption DEF AllBlockKinds, Frames, TypeOK
<1>2. /\ blocks[s] \in Seq(Frames) /\ blocks'[s] = Append(blocks[s], f)
      /\ forcePrimary[s] \in BOOLEAN /\ localForce[ThreadOf[s]] \in BOOLEAN
      /\ forcePrimary' = forcePrimary
      /\ localForce'[ThreadOf[s]] = TRUE
  BY RoutingAssumption DEF EnterThreadBlock, Open, TypeOK
<1> HIDE DEF f
<1>3. Held(blocks'[s], forcePrimary'[s], {"primary"}, SessionKinds)
  <2>1. f.kind \notin SessionKinds /\ f.kind \notin {"primary"}
    BY <1>1 DEF SessionKinds
  <2> QED
    BY <1>1, <1>2, <2>1, HeldPush DEF SessionFlagHeld
<1>4. Held(blocks'[s], localForce'[ThreadOf[s]], {"thread"}, {"thread"})
  BY <1>1, <1>2, HeldPush DEF ThreadFlagHeld
<1> QED
  BY <1>3, <1>4 DEF SessionFlagHeld, ThreadFlagHeld

LEMMA HeldExit ==
  ASSUME TypeOK, NEW s \in Sessions, SessionFlagHeld(s), ThreadFlagHeld(s),
         ExitBlock(s)
  PROVE  SessionFlagHeld(s)' /\ ThreadFlagHeld(s)'
<1> DEFINE q == blocks[s]
           n == Len(blocks[s])
<1>1. /\ q \in Seq(Frames) /\ q # <<>>
      /\ blocks'[s] = SubSeq(q, 1, n - 1)
  BY DEF ExitBlock, TypeOK
<1>2. q[n] \in Frames
  BY <1>1, PopFrame
<1>3. /\ q[n].kind \in AllBlockKinds /\ q[n].previous \in BOOLEAN
      /\ forcePrimary[s] \in BOOLEAN /\ localForce[ThreadOf[s]] \in BOOLEAN
  BY <1>2, RoutingAssumption DEF Frames, TypeOK
<1>4. forcePrimary'[s] =
        IF q[n].kind \in SessionKinds THEN q[n].previous ELSE forcePrimary[s]
  BY <1>3 DEF ExitBlock, Restored, TypeOK, AllBlockKinds, SessionKinds
<1>5. localForce'[ThreadOf[s]] =
        IF q[n].kind \in {"thread"} THEN q[n].previous
                                    ELSE localForce[ThreadOf[s]]
  BY <1>3, RoutingAssumption DEF ExitBlock, Restored, TypeOK
<1> HIDE DEF q, n
<1>6. Held(blocks'[s], forcePrimary'[s], {"primary"}, SessionKinds)
  BY <1>1, <1>3, <1>4, HeldPop DEF SessionFlagHeld, q, n
<1>7. Held(blocks'[s], localForce'[ThreadOf[s]], {"thread"}, {"thread"})
  BY <1>1, <1>3, <1>5, HeldPop DEF ThreadFlagHeld, q, n
<1> QED
  BY <1>6, <1>7 DEF SessionFlagHeld, ThreadFlagHeld

\* Sessions do not disturb each other's flags.
LEMMA StepHeld ==
  ASSUME TypeOK, TypeOK', ~EndInBlocks, NoSharedThread, [Next]_vars,
         NEW s \in Sessions, SessionFlagHeld(s), ThreadFlagHeld(s)
  PROVE  SessionFlagHeld(s)' /\ ThreadFlagHeld(s)'
<1>1. ASSUME NEW t \in Sessions,
             \/ Add(t) \/ Flush(t) \/ ExecuteWrite(t) \/ WriteFails(t)
             \/ \E style \in ReadStyles : Select(t, style)
      PROVE  SessionFlagHeld(s)' /\ ThreadFlagHeld(s)'
  <2>1. /\ UNCHANGED <<blocks, localForce>>
        /\ forcePrimary[s] => forcePrimary'[s]
    BY <1>1 DEF Add, Flush, Flushed, ExecuteWrite, WriteFails, Select, flags,
                TypeOK
  <2> QED
    BY <2>1, HeldUntouched
<1>2. ASSUME NEW t \in Sessions, Commit(t) \/ RollbackOrClose(t)
      PROVE  SessionFlagHeld(s)' /\ ThreadFlagHeld(s)'
  <2>1. Ends(t) /\ MayEnd(t) /\ UNCHANGED <<blocks, localForce>>
    BY <1>2 DEF Commit, RollbackOrClose
  <2>2. CASE t = s
    BY <2>1, <2>2, HeldEnds
  <2>3. CASE t # s
    BY <2>1, <2>3, HeldUntouched DEF Ends, TypeOK
  <2> QED
    BY <2>2, <2>3
<1>3. ASSUME NEW t \in Sessions,
             \/ \E kind \in BlockKinds : EnterSessionBlock(t, kind)
             \/ EnterThreadBlock(t) \/ ExitBlock(t)
      PROVE  SessionFlagHeld(s)' /\ ThreadFlagHeld(s)'
  <2>1. CASE t = s
    BY <1>3, <2>1, HeldEnterSession, HeldEnterThread, HeldExit
  <2>2. CASE t # s
    <3>1. ThreadOf[t] # ThreadOf[s]
      BY <2>2 DEF NoSharedThread
    <3> DEFINE FlagsKept ==
          /\ blocks'[s] = blocks[s] /\ forcePrimary'[s] = forcePrimary[s]
          /\ localForce'[ThreadOf[s]] = localForce[ThreadOf[s]]
    <3>2. FlagsKept
      <4>1. ASSUME NEW kind \in BlockKinds, EnterSessionBlock(t, kind)
            PROVE  FlagsKept
        BY <2>2, <4>1 DEF EnterSessionBlock, Open, TypeOK
      <4>2. CASE EnterThreadBlock(t)
        BY <2>2, <3>1, <4>2, RoutingAssumption
           DEF EnterThreadBlock, Open, TypeOK
      <4>3. CASE ExitBlock(t)
        <5>1. blocks'[s] = blocks[s] /\ forcePrimary'[s] = forcePrimary[s]
          BY <2>2, <4>3 DEF ExitBlock, TypeOK
        <5>2. ThreadOf[t] \in Threads /\ ThreadOf[s] \in Threads
          BY RoutingAssumption
        <5>3. localForce'[ThreadOf[s]] = localForce[ThreadOf[s]]
          BY <3>1, <4>3, <5>2 DEF ExitBlock, TypeOK
        <5> QED
          BY <5>1, <5>3
      <4> QED
        BY <1>3, <4>1, <4>2, <4>3
    <3> QED
      BY <3>2, HeldUntouched
  <2> QED
    BY <2>1, <2>2
<1>4. ASSUME NEW r \in Replicas, Replicate(r)
      PROVE  SessionFlagHeld(s)' /\ ThreadFlagHeld(s)'
  BY <1>4, HeldUntouched DEF Replicate, flags
<1>5. CASE UNCHANGED vars
  BY <1>5, HeldUntouched DEF vars
<1> QED
  BY <1>1, <1>2, <1>3, <1>4, <1>5 DEF Next

\* Inside use_primary() or read_from_primary() every SELECT goes to the
\* primary until the block is left, whatever the session reads, writes and
\* nests in it, however many sessions and threads there are: the promise of
\* use_primary()'s docstring.  Both premises are needed: without the first the
\* run routing_commit_in_block refutes it, without the second
\* MCRouting_coroutines.cfg does.
THEOREM PrimaryBlocksHold ==
  ASSUME ~EndInBlocks, NoSharedThread
  PROVE  Spec => []PrimaryBlockHolds
<1>1. Init => HeldInv
  BY DEF Init, HeldInv, SessionFlagHeld, ThreadFlagHeld, Held
<1>2. TypeOK /\ TypeOK' /\ HeldInv /\ [Next]_vars => HeldInv'
  BY StepHeld DEF HeldInv
<1>3. TypeOK /\ HeldInv => PrimaryBlockHolds
  <2> SUFFICES ASSUME TypeOK, HeldInv, NEW s \in Sessions,
                      Innermost(s, {"primary", "thread"})
               PROVE  Route(s, "select") = {Primary}
    BY DEF PrimaryBlockHolds
  <2>1. /\ Len(blocks[s]) \in DOMAIN blocks[s]
        /\ \A j \in DOMAIN blocks[s] : ~(j > Len(blocks[s]))
        /\ blocks[s][Len(blocks[s])].kind \in {"primary", "thread"}
    BY DEF Innermost, TypeOK
  <2>2. CASE blocks[s][Len(blocks[s])].kind = "primary"
    <3>1. SessionFlagHeld(s)
      BY DEF HeldInv
    <3>2. forcePrimary[s]
      BY <2>1, <2>2, <3>1 DEF SessionFlagHeld, Held
    <3> QED
      BY <3>2 DEF Route, Forced
  <2>3. CASE blocks[s][Len(blocks[s])].kind = "thread"
    <3>1. ThreadFlagHeld(s)
      BY DEF HeldInv
    <3>2. localForce[ThreadOf[s]]
      BY <2>1, <2>3, <3>1 DEF ThreadFlagHeld, Held
    <3> QED
      BY <3>2 DEF Route, Forced
  <2> QED
    BY <2>1, <2>2, <2>3
<1> QED
  BY <1>1, <1>2, <1>3, TypeCorrect, PTL DEF Spec

-----------------------------------------------------------------------------
(* A pin ends with its transaction *)

\* The strengthening of PinEndsWithTransaction: in a clean transaction the flag
\* that is set when the last session-level block has been left, which the
\* outermost of them has saved, is not set.
OutermostSessionFrame(s, i) ==
  /\ blocks[s][i].kind # "thread"
  /\ \A j \in 1 .. i - 1 : blocks[s][j].kind = "thread"

UnpinnedIn(s) ==
  txn[s] = "clean" =>
    /\ ~InSessionBlock(s) => ~forcePrimary[s]
    /\ \A i \in DOMAIN blocks[s] :
         OutermostSessionFrame(s, i) => ~blocks[s][i].previous

PinEndsInv == \A s \in Sessions : UnpinnedIn(s)

LEMMA UnpinnedUntouched ==
  ASSUME NEW s \in Sessions, UnpinnedIn(s),
         forcePrimary'[s] = forcePrimary[s], blocks'[s] = blocks[s],
         txn'[s] = "clean" => txn[s] = "clean"
  PROVE  UnpinnedIn(s)'
BY DEF UnpinnedIn, InSessionBlock, OutermostSessionFrame

\* Entering a block: the outermost one saves the flag UnpinnedIn speaks of.
LEMMA PushUnpinned ==
  ASSUME TypeOK, NEW s \in Sessions, UnpinnedIn(s), UNCHANGED txn,
         NEW kind \in AllBlockKinds, NEW saved \in BOOLEAN,
         Open(s, kind, saved),
         kind # "thread" => saved = forcePrimary[s],
         kind = "thread" => forcePrimary'[s] = forcePrimary[s]
  PROVE  UnpinnedIn(s)'
<1> DEFINE q == blocks[s]
           f == [kind |-> kind, previous |-> saved]
<1>1. q \in Seq(Frames) /\ f \in Frames
  BY DEF TypeOK, Frames
<1>2. blocks'[s] = Append(q, f)
  BY DEF Open, TypeOK
<1>3. /\ DOMAIN blocks'[s] = 1 .. Len(q) + 1
      /\ \A i \in 1 .. Len(q) : blocks'[s][i] = q[i]
      /\ blocks'[s][Len(q) + 1] = f
      /\ Len(q) \in Nat /\ DOMAIN q = 1 .. Len(q)
  BY <1>1, <1>2, PushFrame
<1> SUFFICES ASSUME txn[s] = "clean"
             PROVE  /\ ~InSessionBlock(s)' => ~forcePrimary'[s]
                    /\ \A i \in 1 .. Len(q) + 1 :
                         OutermostSessionFrame(s, i)' => ~blocks'[s][i].previous
  BY <1>3 DEF UnpinnedIn
<1>4. ASSUME ~InSessionBlock(s)' PROVE ~forcePrimary'[s]
  <2>1. ~InSessionBlock(s) /\ kind = "thread"
    BY <1>3, <1>4 DEF InSessionBlock
  <2> QED
    BY <2>1 DEF UnpinnedIn
<1>5. ASSUME NEW i \in 1 .. Len(q) + 1, OutermostSessionFrame(s, i)'
      PROVE  ~blocks'[s][i].previous
  <2>1. CASE i \in 1 .. Len(q)
    <3>1. 1 .. i - 1 \subseteq 1 .. Len(q)
      BY <1>3, <2>1
    <3>2. OutermostSessionFrame(s, i)
      BY <1>3, <1>5, <2>1, <3>1 DEF OutermostSessionFrame
    <3> QED
      BY <1>3, <2>1, <3>2 DEF UnpinnedIn
  <2>2. CASE i = Len(q) + 1
    <3>1. ~InSessionBlock(s)
      BY <1>3, <1>5, <2>2 DEF OutermostSessionFrame, InSessionBlock
    <3>2. f.kind # "thread"
      BY <1>3, <1>5, <2>2 DEF OutermostSessionFrame
    <3> QED
      BY <1>3, <2>2, <3>1, <3>2 DEF UnpinnedIn
  <2> QED
    BY <1>3, <2>1, <2>2
<1> QED
  BY <1>4, <1>5

\* Leaving a block: the outermost one restores the flag UnpinnedIn speaks of.
LEMMA PopUnpinned ==
  ASSUME TypeOK, NEW s \in Sessions, UnpinnedIn(s), ExitBlock(s)
  PROVE  UnpinnedIn(s)'
<1> DEFINE q == blocks[s]
           n == Len(blocks[s])
<1>1. q \in Seq(Frames) /\ q # <<>>
  BY DEF TypeOK, ExitBlock
<1>2. blocks'[s] = SubSeq(q, 1, n - 1) /\ UNCHANGED txn
  BY DEF ExitBlock, TypeOK
<1>3. /\ n \in Nat \ {0} /\ q[n] \in Frames /\ DOMAIN q = 1 .. n
      /\ DOMAIN blocks'[s] = 1 .. n - 1
      /\ \A i \in 1 .. n - 1 : blocks'[s][i] = q[i]
  BY <1>1, <1>2, PopFrame
<1>4. forcePrimary'[s] =
        IF q[n].kind = "thread" THEN forcePrimary[s] ELSE q[n].previous
  BY <1>3 DEF ExitBlock, Restored, TypeOK, Frames
<1> SUFFICES ASSUME txn[s] = "clean"
             PROVE  /\ ~InSessionBlock(s)' => ~forcePrimary'[s]
                    /\ \A i \in 1 .. n - 1 :
                         OutermostSessionFrame(s, i)' => ~blocks'[s][i].previous
  BY <1>2, <1>3 DEF UnpinnedIn
<1>5. ASSUME ~InSessionBlock(s)' PROVE ~forcePrimary'[s]
  <2>1. \A j \in 1 .. n - 1 : q[j].kind = "thread"
    BY <1>3, <1>5 DEF InSessionBlock
  <2>2. CASE q[n].kind = "thread"
    <3>1. ~InSessionBlock(s)
      BY <1>3, <2>1, <2>2 DEF InSessionBlock
    <3> QED
      BY <1>4, <2>2, <3>1 DEF UnpinnedIn
  <2>3. CASE q[n].kind # "thread"
    <3>1. OutermostSessionFrame(s, n) /\ n \in DOMAIN blocks[s]
      BY <1>3, <2>1, <2>3 DEF OutermostSessionFrame
    <3> QED
      BY <1>4, <2>3, <3>1 DEF UnpinnedIn
  <2> QED
    BY <2>2, <2>3
<1>6. ASSUME NEW i \in 1 .. n - 1, OutermostSessionFrame(s, i)'
      PROVE  ~blocks'[s][i].previous
  <2>1. 1 .. i - 1 \subseteq 1 .. n - 1 /\ i \in 1 .. n
    BY <1>3
  <2>2. OutermostSessionFrame(s, i) /\ i \in DOMAIN blocks[s]
    BY <1>3, <1>6, <2>1 DEF OutermostSessionFrame
  <2> QED
    BY <1>3, <2>2 DEF UnpinnedIn
<1> QED
  BY <1>5, <1>6

\* A flush takes the transaction out of the clean state it pins; the end of a
\* transaction unpins, and no session-level block is open.
LEMMA StepUnpinned ==
  ASSUME TypeOK, ~EndInBlocks, [Next]_vars, NEW s \in Sessions, UnpinnedIn(s)
  PROVE  UnpinnedIn(s)'
<1>1. ASSUME NEW t \in Sessions,
             Add(t) \/ ExecuteWrite(t) \/ WriteFails(t)
      PROVE  UnpinnedIn(s)'
  <2>1. /\ UNCHANGED <<forcePrimary, blocks>>
        /\ txn'[s] = "clean" => txn[s] = "clean"
    BY <1>1 DEF Add, ExecuteWrite, WriteFails, flags, TypeOK
  <2> QED
    BY <2>1, UnpinnedUntouched
<1>2. ASSUME NEW t \in Sessions, Flushed(t), UNCHANGED blocks
      PROVE  UnpinnedIn(s)'
  <2>1. CASE t = s
    BY <1>2, <2>1 DEF Flushed, UnpinnedIn, TypeOK
  <2>2. CASE t # s
    BY <1>2, <2>2, UnpinnedUntouched DEF Flushed, TypeOK
  <2> QED
    BY <2>1, <2>2
<1>3. ASSUME NEW t \in Sessions, Flush(t) PROVE UnpinnedIn(s)'
  BY <1>2, <1>3 DEF Flush
<1>4. ASSUME NEW t \in Sessions, NEW style \in ReadStyles, Select(t, style)
      PROVE  UnpinnedIn(s)'
  <2>1. CASE Autoflushes(style)
    BY <1>2, <1>4, <2>1 DEF Select
  <2>2. CASE ~Autoflushes(style)
    BY <1>4, <2>2, UnpinnedUntouched DEF Select
  <2> QED
    BY <2>1, <2>2
<1>5. ASSUME NEW t \in Sessions, Commit(t) \/ RollbackOrClose(t)
      PROVE  UnpinnedIn(s)'
  <2>1. Ends(t) /\ MayEnd(t) /\ UNCHANGED blocks
    BY <1>5 DEF Commit, RollbackOrClose
  <2>2. CASE t = s
    <3>1. forcePrimary'[s] = FALSE
      BY <2>1, <2>2 DEF Ends, TypeOK
    <3>2. \A i \in DOMAIN blocks[s] : blocks[s][i].kind = "thread"
      BY <2>1, <2>2 DEF MayEnd, InSessionBlock
    <3> QED
      BY <2>1, <3>1, <3>2 DEF UnpinnedIn, OutermostSessionFrame
  <2>3. CASE t # s
    BY <2>1, <2>3, UnpinnedUntouched DEF Ends, TypeOK
  <2> QED
    BY <2>2, <2>3
<1>6. ASSUME NEW t \in Sessions, NEW kind \in BlockKinds,
             EnterSessionBlock(t, kind)
      PROVE  UnpinnedIn(s)'
  <2>1. CASE t = s
    <3>1. /\ kind \in AllBlockKinds /\ kind # "thread"
          /\ forcePrimary[s] \in BOOLEAN /\ UNCHANGED txn
          /\ Open(s, kind, forcePrimary[s])
      BY <1>6, <2>1, RoutingAssumption DEF EnterSessionBlock, TypeOK
    <3> QED
      BY <3>1, PushUnpinned
  <2>2. CASE t # s
    BY <1>6, <2>2, UnpinnedUntouched DEF EnterSessionBlock, Open, TypeOK
  <2> QED
    BY <2>1, <2>2
<1>7. ASSUME NEW t \in Sessions, EnterThreadBlock(t) PROVE UnpinnedIn(s)'
  <2>1. CASE t = s
    <3>1. /\ "thread" \in AllBlockKinds /\ localForce[ThreadOf[s]] \in BOOLEAN
          /\ UNCHANGED <<txn, forcePrimary>>
          /\ Open(s, "thread", localForce[ThreadOf[s]])
      BY <1>7, <2>1, RoutingAssumption
         DEF EnterThreadBlock, TypeOK, AllBlockKinds
    <3> QED
      BY <3>1, PushUnpinned
  <2>2. CASE t # s
    BY <1>7, <2>2, UnpinnedUntouched DEF EnterThreadBlock, Open, TypeOK
  <2> QED
    BY <2>1, <2>2
<1>8. ASSUME NEW t \in Sessions, ExitBlock(t) PROVE UnpinnedIn(s)'
  <2>1. CASE t = s
    BY <1>8, <2>1, PopUnpinned
  <2>2. CASE t # s
    BY <1>8, <2>2, UnpinnedUntouched DEF ExitBlock, TypeOK
  <2> QED
    BY <2>1, <2>2
<1>9. ASSUME NEW r \in Replicas, Replicate(r) PROVE UnpinnedIn(s)'
  BY <1>9, UnpinnedUntouched DEF Replicate, flags
<1>10. CASE UNCHANGED vars
  BY <1>10, UnpinnedUntouched DEF vars
<1> QED
  BY <1>1, <1>3, <1>4, <1>5, <1>6, <1>7, <1>8, <1>9, <1>10 DEF Next

\* With no block open a pinned session has flushed since its last commit or
\* rollback: commit(), rollback() and close() reset _force_primary, and no
\* block that is left brings a pin of an earlier transaction back.  The premise
\* is needed: a transaction that ends in a block leaves the flag to the block,
\* which restores what it saved in that transaction.
THEOREM PinsEnd ==
  ASSUME ~EndInBlocks
  PROVE  Spec => []PinEndsWithTransaction
<1>1. Init => PinEndsInv
  BY DEF Init, PinEndsInv, UnpinnedIn, InSessionBlock
<1>2. TypeOK /\ PinEndsInv /\ [Next]_vars => PinEndsInv'
  BY StepUnpinned DEF PinEndsInv
<1>3. PinEndsInv => PinEndsWithTransaction
  BY DEF PinEndsInv, UnpinnedIn, InSessionBlock, PinEndsWithTransaction
<1> QED
  BY <1>1, <1>2, <1>3, TypeCorrect, PTL DEF Spec

-----------------------------------------------------------------------------
(* Reads in a primary block show what the session has committed *)

InPrimaryBlock(s) == Innermost(s, {"primary", "thread"})

\* The strengthening of FreshInPrimaryBlock: the identity map, which answers
\* reads in a block from what was loaded before it, is not older either.
FreshIn(s) ==
  /\ loaded[s] # NoVersion => loaded[s] >= committed[s]
  /\ InPrimaryBlock(s) /\ result[s] # NoVersion => result[s] >= committed[s]

FreshInv == \A s \in Sessions : FreshIn(s)

\* Every entity is read from the primary: its SELECT flushes first, and the
\* flush sets the flag.
EntitiesFromPrimary == "orm" \in ReadStyles => Autoflush

LEMMA FreshUntouched ==
  ASSUME NEW s \in Sessions, FreshIn(s), blocks'[s] = blocks[s],
         loaded'[s] = loaded[s], result'[s] = result[s],
         committed'[s] = committed[s]
  PROVE  FreshIn(s)'
BY DEF FreshIn, InPrimaryBlock, Innermost

\* After these nothing has been read in the block.
LEMMA FreshReset ==
  ASSUME NEW s \in Sessions, FreshIn(s), result'[s] = NoVersion,
         \/ loaded'[s] = NoVersion
         \/ loaded'[s] = loaded[s] /\ committed'[s] = committed[s]
  PROVE  FreshIn(s)'
BY DEF FreshIn

\* A SELECT answers from the identity map, from the primary, or outside of the
\* blocks.
LEMMA FreshSelect ==
  ASSUME TypeOK, PrimaryBlockHolds, EntitiesFromPrimary,
         NEW s \in Sessions, FreshIn(s),
         NEW style \in ReadStyles, Select(s, style)
  PROVE  FreshIn(s)'
<1>1. PICK e \in ReadRoute(s, style) :
        result' = [result EXCEPT ![s] =
                     IF style = "orm" /\ loaded[s] # NoVersion
                     THEN loaded[s] ELSE VersionAt(e)]
  BY DEF Select
<1>2. committed' = committed /\ blocks' = blocks
      /\ committed[s] \in 0 .. primary /\ primary \in Nat
  BY DEF Select, database, TypeOK
<1>3. style = "orm" => e = Primary
  BY <1>1 DEF ReadRoute, Autoflushes, EntitiesFromPrimary
<1>4. InPrimaryBlock(s) => e = Primary
  BY <1>1 DEF PrimaryBlockHolds, InPrimaryBlock, ReadRoute
<1>5. e = Primary => VersionAt(e) >= committed[s]
  BY <1>2 DEF VersionAt
<1>6. style = "orm" \/ InPrimaryBlock(s) => result'[s] >= committed[s]
  BY <1>1, <1>3, <1>4, <1>5 DEF FreshIn, TypeOK
<1>7. loaded'[s] = IF style = "orm" THEN result'[s] ELSE loaded[s]
  BY DEF Select, TypeOK
<1> QED
  BY <1>2, <1>6, <1>7 DEF FreshIn, InPrimaryBlock, Innermost

LEMMA StepFresh ==
  ASSUME TypeOK, PrimaryBlockHolds, EntitiesFromPrimary, [Next]_vars,
         NEW s \in Sessions, FreshIn(s)
  PROVE  FreshIn(s)'
<1>1. ASSUME NEW t \in Sessions, Add(t) \/ Flush(t) \/ ExecuteWrite(t)
      PROVE  FreshIn(s)'
  BY <1>1, FreshUntouched DEF Add, Flush, ExecuteWrite, flags
<1>2. ASSUME NEW t \in Sessions,
             WriteFails(t) \/ Commit(t) \/ RollbackOrClose(t)
      PROVE  FreshIn(s)'
  <2>1. CASE t = s
    BY <1>2, <2>1, FreshReset
       DEF WriteFails, Commit, RollbackOrClose, Ends, TypeOK
  <2>2. CASE t # s
    BY <1>2, <2>2, FreshUntouched
       DEF WriteFails, Commit, RollbackOrClose, Ends, flags, TypeOK
  <2> QED
    BY <2>1, <2>2
<1>3. ASSUME NEW t \in Sessions, NEW style \in ReadStyles, Select(t, style)
      PROVE  FreshIn(s)'
  <2>1. CASE t = s
    BY <1>3, <2>1, FreshSelect
  <2>2. CASE t # s
    BY <1>3, <2>2, FreshUntouched DEF Select, TypeOK
  <2> QED
    BY <2>1, <2>2
<1>4. ASSUME NEW t \in Sessions,
             \/ \E kind \in BlockKinds : EnterSessionBlock(t, kind)
             \/ EnterThreadBlock(t) \/ ExitBlock(t)
      PROVE  FreshIn(s)'
  <2>1. UNCHANGED <<loaded, committed>>
    BY <1>4 DEF EnterSessionBlock, EnterThreadBlock, ExitBlock
  <2>2. result' = [result EXCEPT ![t] = NoVersion]
    BY <1>4 DEF EnterSessionBlock, EnterThreadBlock, ExitBlock
  <2>3. CASE t = s
    BY <2>1, <2>2, <2>3, FreshReset DEF TypeOK
  <2>4. CASE t # s
    <3>1. blocks'[s] = blocks[s]
      BY <1>4, <2>4 DEF EnterSessionBlock, EnterThreadBlock, ExitBlock, Open,
                        TypeOK
    <3> QED
      BY <2>1, <2>2, <2>4, <3>1, FreshUntouched DEF TypeOK
  <2> QED
    BY <2>3, <2>4
<1>5. ASSUME NEW r \in Replicas, Replicate(r) PROVE FreshIn(s)'
  BY <1>5, FreshUntouched DEF Replicate, flags
<1>6. CASE UNCHANGED vars
  BY <1>6, FreshUntouched DEF vars
<1> QED
  BY <1>1, <1>2, <1>3, <1>4, <1>5, <1>6 DEF Next

\* What is read inside use_primary() is at least as new as the session's own
\* last commit, however far the replicas are behind: the read-after-write
\* guarantee of the docstring.  The last premise is needed: with autoflush off
\* an entity that was read from a replica before the block stays in the identity
\* map and answers the read inside it.
THEOREM PrimaryBlocksAreFresh ==
  ASSUME ~EndInBlocks, NoSharedThread, EntitiesFromPrimary
  PROVE  Spec => []FreshInPrimaryBlock
<1>1. Init => FreshInv
  BY DEF Init, FreshInv, FreshIn, InPrimaryBlock, Innermost
<1>2. TypeOK /\ PrimaryBlockHolds /\ FreshInv /\ [Next]_vars => FreshInv'
  BY StepFresh DEF FreshInv
<1>3. FreshInv => FreshInPrimaryBlock
  BY DEF FreshInv, FreshIn, InPrimaryBlock, FreshInPrimaryBlock
<1>4. Spec => []PrimaryBlockHolds
  BY PrimaryBlocksHold
<1> QED
  BY <1>1, <1>2, <1>3, <1>4, TypeCorrect, PTL DEF Spec
=============================================================================
