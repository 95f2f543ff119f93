------------------------ MODULE InMemoryEventStore_proofs ------------------------
(***************************************************************************)
(* Proofs about the in-memory event store and what is built on it.         *)
(*   - The store: _events and _all_events stay the same events in the same *)
(*     order, for every aggregate, however appends end and runs are cut.   *)
(*   - OrderAggregate: stored histories are legal and copies agree with    *)
(*     them, for any clients, orders and length of the histories.          *)
(*   - ProjectionRunner: the type invariant, that no event is lost behind  *)
(*     a position, that catch-up is complete, and that events arrive in    *)
(*     order, for any projections, handlers, events, restarts and          *)
(*     interrupted handlers, where the store holds one aggregate and       *)
(*     reset_all() waits until run() has returned (TLC refutes the first   *)
(*     without the former: ProjectionRunner_two_aggregates.cfg).           *)
(***************************************************************************)
EXTENDS OrderAggregate, ProjectionRunner, FiniteSetTheorems, TLAPS

OneAggregate == \A a, b \in Aggregates : a = b

-----------------------------------------------------------------------------
(* Minima *)

\* A set of numbers has a smallest element: the intervals 1 .. n below a given
\* one are well-founded under inclusion.
LEMMA SmallestOf ==
  ASSUME NEW S \in SUBSET Nat, NEW k \in S
  PROVE  \E m \in S : \A n \in S : m <= n
<1> DEFINE T == {1 .. n : n \in {n \in S : n <= k}}
<1>1. IsWellFoundedOn(StrictSubsetOrdering(1 .. k), FiniteSubsetsOf(1 .. k))
  BY FS_StrictSubsetOrderingWellFounded, FS_Interval
<1>2. T \subseteq FiniteSubsetsOf(1 .. k)
  <2> SUFFICES ASSUME NEW n \in S, n <= k
               PROVE  1 .. n \in SUBSET (1 .. k) /\ IsFiniteSet(1 .. n)
    BY DEF FiniteSubsetsOf
  <2> QED
    BY FS_Interval
<1>3. T # {}
  OBVIOUS
<1>4. PICK x \in T : \A y \in T : <<y, x>> \notin StrictSubsetOrdering(1 .. k)
  BY <1>1, <1>2, <1>3, WFMin
<1>5. PICK m \in S : m <= k /\ x = 1 .. m
  OBVIOUS
<1>6. ASSUME NEW n \in S, n < m PROVE FALSE
  <2>1. 1 .. n \in T /\ 1 .. n \subseteq 1 .. k /\ x \subseteq 1 .. k
    BY <1>5, <1>6
  <2>2. 1 .. n \subseteq x /\ m \in x /\ m \notin 1 .. n
    BY <1>5, <1>6
  <2> QED
    BY <1>4, <2>1, <2>2 DEF StrictSubsetOrdering
<1> QED
  BY <1>6

\* The position that run() starts to read behind is no projection's future.
LEMMA MinPosition ==
  ASSUME RunnerAssumption, RunnerTypeOK
  PROVE  /\ Min(Range(position)) \in 0 .. MaxAppended
         /\ \A p \in Projections : Min(Range(position)) <= position[p]
<1>1. Range(position) \in SUBSET (0 .. MaxAppended) /\ MaxAppended \in Nat
  BY DEF RunnerTypeOK, RunnerAssumption, Range
<1>2. position[1] \in Range(position)
  BY DEF RunnerTypeOK, RunnerAssumption, Range, Projections
<1>3. PICK m \in Range(position) : \A n \in Range(position) : m <= n
  BY <1>1, <1>2, SmallestOf
<1>4. /\ Min(Range(position)) \in Range(position)
      /\ \A n \in Range(position) : Min(Range(position)) <= n
  BY <1>3 DEF Min
<1> QED
  BY <1>1, <1>4 DEF RunnerTypeOK, Range

-----------------------------------------------------------------------------
(* The store *)

\* What append() does to the lists: it extends both with events numbered on
\* from the aggregate's last.
Extends(a, records) ==
  /\ records \in Seq(EventRecords)
  /\ events' = [events EXCEPT ![a] = @ \o records]
  /\ allEvents' = allEvents \o records
  /\ \A i \in DOMAIN records : /\ records[i].aggregate = a
                              /\ records[i].seq = Len(events[a]) + i

LEMMA StoreExtends ==
  ASSUME StoreTypeOK, NEW a \in Aggregates, NEW batch \in Seq(Events),
         Store(a, batch)
  PROVE  Extends(a, Records(a, batch)) /\ Len(Records(a, batch)) = Len(batch)
<1>1. Len(events[a]) \in Nat /\ DOMAIN batch = 1 .. Len(batch)
      /\ \A i \in 1 .. Len(batch) : batch[i] \in Events
  BY DEF StoreTypeOK
<1>2. \A i \in 1 .. Len(batch) : Records(a, batch)[i] \in EventRecords
  BY <1>1 DEF Records, Events, EventRecords, GetCurrentVersion
<1>3. DOMAIN Records(a, batch) = 1 .. Len(batch)
  BY <1>1 DEF Records
<1>4. Records(a, batch) \in Seq(EventRecords)
      /\ Len(Records(a, batch)) = Len(batch)
  <2>1. Records(a, batch) \in [1 .. Len(batch) -> EventRecords]
    BY <1>1, <1>2, <1>3 DEF Records
  <2> QED
    BY <2>1
<1>5. \A i \in 1 .. Len(batch) : /\ Records(a, batch)[i].aggregate = a
                                /\ Records(a, batch)[i].seq = Len(events[a]) + i
  BY <1>1 DEF Records, GetCurrentVersion
<1> QED
  BY <1>3, <1>4, <1>5 DEF Extends, Store

LEMMA AppendedExtends ==
  ASSUME RunnerAssumption, StoreTypeOK, NEW a \in Aggregates, NEW n \in {1, 2},
         NEW types \in [1 .. n -> EventTypes], Appended(a, types)
  PROVE  \E records \in Seq(EventRecords) :
           /\ Extends(a, records)
           /\ Len(allEvents) + Len(records) <= MaxAppended
<1> DEFINE batch == [i \in DOMAIN types |->
                       [type |-> types[i], version |-> GetCurrentVersion(a) + i]]
<1>1. batch \in [1 .. n -> Events]
  BY DEF Events, GetCurrentVersion, StoreTypeOK
<1>2. batch \in Seq(Events) /\ Len(batch) = n
  BY <1>1
<1>3. /\ Len(allEvents) + Len(batch) <= MaxAppended
      /\ Store(a, batch) \/ Store(a, SubSeq(batch, 1, Len(batch) - 1))
  BY DEF Appended, AppendEvents, AppendRaises
<1> HIDE DEF batch
<1>4. CASE Store(a, batch)
  BY <1>2, <1>3, <1>4, StoreExtends DEF Extends
<1>5. CASE Store(a, SubSeq(batch, 1, Len(batch) - 1))
  <2>1. /\ SubSeq(batch, 1, Len(batch) - 1) \in Seq(Events)
        /\ Len(SubSeq(batch, 1, Len(batch) - 1)) = n - 1
    BY <1>2
  <2>2. /\ Extends(a, Records(a, SubSeq(batch, 1, Len(batch) - 1)))
        /\ Len(Records(a, SubSeq(batch, 1, Len(batch) - 1))) = n - 1
    BY <1>5, <2>1, StoreExtends
  <2>3. Len(allEvents) + (n - 1) <= MaxAppended
    BY <1>2, <1>3 DEF StoreTypeOK, RunnerAssumption
  <2> QED
    BY <2>2, <2>3 DEF Extends
<1> QED
  BY <1>3, <1>4, <1>5

\* What is appended leaves what was stored before in its place.
LEMMA Extended ==
  ASSUME StoreTypeOK, NEW a \in Aggregates, NEW records \in Seq(EventRecords),
         Extends(a, records)
  PROVE  /\ StoreTypeOK'
         /\ Len(allEvents') = Len(allEvents) + Len(records)
         /\ Len(events'[a]) = Len(events[a]) + Len(records)
         /\ \A i \in DOMAIN allEvents : allEvents'[i] = allEvents[i]
         /\ \A i \in DOMAIN allEvents' \ DOMAIN allEvents :
              allEvents'[i].seq = Len(events[a]) + (i - Len(allEvents))
<1>1. allEvents \in Seq(EventRecords) /\ events[a] \in Seq(EventRecords)
  BY DEF StoreTypeOK
<1>2. /\ allEvents' = allEvents \o records
      /\ events'[a] = events[a] \o records
      /\ \A i \in DOMAIN records : records[i].seq = Len(events[a]) + i
  BY DEF Extends, StoreTypeOK
<1>3. StoreTypeOK'
  BY <1>1 DEF StoreTypeOK, Extends
<1>4. \A i \in DOMAIN allEvents' \ DOMAIN allEvents :
        /\ i - Len(allEvents) \in DOMAIN records
        /\ allEvents'[i] = records[i - Len(allEvents)]
  BY <1>1, <1>2
<1> QED
  BY <1>1, <1>2, <1>3, <1>4

-----------------------------------------------------------------------------
(* The two lists *)

\* The places of a's events among the first i of a list.
Own(list, a, i) == {j \in 1 .. i : list[j].aggregate = a}

LEMMA OwnIsFinite ==
  ASSUME NEW list, NEW a, NEW i \in Nat
  PROVE  /\ IsFiniteSet(Own(list, a, i))
         /\ Cardinality(Own(list, a, i)) \in Nat
<1>1. Own(list, a, i) \subseteq 1 .. i
  BY DEF Own
<1>2. IsFiniteSet(1 .. i)
  BY FS_Interval
<1>3. IsFiniteSet(Own(list, a, i))
  BY <1>1, <1>2, FS_Subset
<1> QED
  BY <1>3, FS_CardinalityType

LEMMA CountIsOwn ==
  ASSUME NEW a, NEW i
  PROVE  CountOf(a, i) = Cardinality(Own(allEvents, a, i))
BY DEF CountOf, Own

LEMMA DisjointUnion ==
  ASSUME NEW S, NEW T, IsFiniteSet(S), IsFiniteSet(T), S \cap T = {}
  PROVE  Cardinality(S \cup T) = Cardinality(S) + Cardinality(T)
<1>1. Cardinality(S \cup T) = Cardinality(S) + Cardinality(T) - Cardinality(S \cap T)
  BY FS_Union
<1>2. Cardinality(S \cap T) = 0
  BY FS_EmptySet
<1>3. Cardinality(S) \in Nat /\ Cardinality(T) \in Nat
  BY FS_CardinalityType
<1> QED
  BY <1>1, <1>2, <1>3

\* Events of a at the end of a list count on from those before.
LEMMA CountsOn ==
  ASSUME NEW list, NEW a, NEW n \in Nat, NEW k \in Nat,
         \A i \in 1 .. k : list[n + i].aggregate = a
  PROVE  Cardinality(Own(list, a, n + k)) = Cardinality(Own(list, a, n)) + k
<1>1. Own(list, a, n + k) = Own(list, a, n) \cup (n + 1 .. n + k)
  <2> SUFFICES ASSUME NEW j \in n + 1 .. n + k PROVE list[j].aggregate = a
    BY DEF Own
  <2>1. j - n \in 1 .. k /\ j = n + (j - n)
    OBVIOUS
  <2> QED
    BY <2>1
<1>2. Own(list, a, n) \cap (n + 1 .. n + k) = {}
  BY DEF Own
<1>3. IsFiniteSet(n + 1 .. n + k) /\ Cardinality(n + 1 .. n + k) = k
  BY FS_Interval
<1> QED
  BY <1>1, <1>2, <1>3, OwnIsFinite, DisjointUnion

LEMMA ExtendsLists ==
  ASSUME StoreTypeOK, ListsAgree, NEW a \in Aggregates,
         NEW records \in Seq(EventRecords), Extends(a, records)
  PROVE  ListsAgree'
<1> DEFINE n == Len(allEvents)
<1>1. /\ n \in Nat /\ Len(records) \in Nat /\ DOMAIN allEvents = 1 .. n
      /\ DOMAIN allEvents' = 1 .. n + Len(records)
      /\ \A i \in 1 .. n : allEvents'[i] = allEvents[i]
      /\ \A k \in 1 .. Len(records) : allEvents'[n + k] = records[k]
      /\ \A b \in Aggregates \ {a} : events'[b] = events[b]
      /\ Len(allEvents') = n + Len(records)
  BY DEF Extends, StoreTypeOK
<1>2. /\ Len(events[a]) \in Nat
      /\ Len(events'[a]) = Len(events[a]) + Len(records)
      /\ \A i \in 1 .. Len(events[a]) : events'[a][i] = events[a][i]
      /\ \A k \in 1 .. Len(records) : events'[a][Len(events[a]) + k] = records[k]
      /\ \A k \in 1 .. Len(records) : records[k].seq = Len(events[a]) + k
  BY DEF Extends, StoreTypeOK
<1>3. \A b \in Aggregates : \A i \in 0 .. n : Own(allEvents', b, i) = Own(allEvents, b, i)
  BY <1>1 DEF Own
<1>4. \A k \in 0 .. Len(records) :
        Cardinality(Own(allEvents', a, n + k)) = Len(events[a]) + k
  <2> SUFFICES ASSUME NEW k \in 0 .. Len(records)
               PROVE  Cardinality(Own(allEvents', a, n + k)) = Len(events[a]) + k
    OBVIOUS
  <2>1. \A i \in 1 .. k : allEvents'[n + i].aggregate = a
    BY <1>1 DEF Extends
  <2>2. Cardinality(Own(allEvents', a, n)) = Len(events[a])
    BY <1>1, <1>3 DEF ListsAgree, CountOf, Own
  <2>3. n \in Nat /\ k \in Nat
    BY <1>1
  <2> HIDE DEF n
  <2>4. Cardinality(Own(allEvents', a, n + k)) = Cardinality(Own(allEvents', a, n)) + k
    BY <2>1, <2>3, CountsOn
  <2> QED
    BY <2>2, <2>4
<1>5. ASSUME NEW b \in Aggregates
      PROVE  Cardinality(Own(allEvents', b, Len(allEvents'))) = Len(events'[b])
  <2>1. CASE b = a
    BY <1>1, <1>2, <1>4, <2>1
  <2>2. CASE b # a
    <3>1. \A k \in 1 .. Len(records) : allEvents'[n + k].aggregate # b
      BY <1>1, <2>2 DEF Extends
    <3>2. ASSUME NEW j \in 1 .. n + Len(records), allEvents'[j].aggregate = b
          PROVE  j \in 1 .. n
      <4>1. \/ j \in 1 .. n
            \/ j - n \in 1 .. Len(records) /\ j = n + (j - n)
        BY <1>1
      <4> QED
        BY <3>1, <3>2, <4>1
    <3>3. Own(allEvents', b, Len(allEvents')) = Own(allEvents, b, n)
      BY <1>1, <1>3, <3>2 DEF Own
    <3> QED
      BY <1>1, <2>2, <3>3 DEF ListsAgree, CountOf, Own
  <2> QED
    BY <2>1, <2>2
<1>6. ASSUME NEW b \in Aggregates, NEW i \in DOMAIN allEvents',
             allEvents'[i].aggregate = b
      PROVE  allEvents'[i] = events'[b][Cardinality(Own(allEvents', b, i))]
  <2>1. CASE i \in 1 .. n
    <3> DEFINE count == Cardinality(Own(allEvents, b, i))
    <3>1. allEvents[i] = events[b][count] /\ Own(allEvents', b, i) = Own(allEvents, b, i)
      <4>1. Own(allEvents', b, i) = Own(allEvents, b, i)
        BY <1>3, <2>1
      <4>2. /\ i \in DOMAIN allEvents /\ allEvents[i].aggregate = b
            /\ CountOf(b, i) = count
        BY <1>1, <1>6, <2>1, CountIsOwn
      <4> QED
        BY <4>1, <4>2 DEF ListsAgree
    <3>2. count \in 1 .. Len(events[b])
      <4>1. /\ i \in Own(allEvents, b, i)
            /\ Own(allEvents, b, i) \subseteq Own(allEvents, b, n)
        BY <1>1, <1>6, <2>1 DEF Own
      <4>2. Cardinality(Own(allEvents, b, n)) = Len(events[b])
        BY DEF ListsAgree, CountOf, Own
      <4>3. count \in Nat /\ IsFiniteSet(Own(allEvents, b, i))
        BY <1>1, <2>1, OwnIsFinite
      <4>4. count <= Len(events[b])
        BY <1>1, <4>1, <4>2, OwnIsFinite, FS_Subset
      <4>5. count # 0
        BY <4>1, <4>3, FS_EmptySet
      <4> QED
        BY <4>2, <4>3, <4>4, <4>5
    <3> HIDE DEF count
    <3>3. events'[b][count] = events[b][count]
      BY <1>1, <1>2, <3>2
    <3> QED
      BY <1>1, <2>1, <3>1, <3>3 DEF count
  <2>2. CASE i \notin 1 .. n
    <3>1. i - n \in 1 .. Len(records) /\ i = n + (i - n)
      BY <1>1, <2>2
    <3>2. allEvents'[i] = records[i - n] /\ b = a
      BY <1>1, <1>6, <3>1 DEF Extends
    <3>3. Cardinality(Own(allEvents', a, i)) = Len(events[a]) + (i - n)
      BY <1>1, <1>4, <3>1
    <3> QED
      BY <1>2, <3>1, <3>2, <3>3
  <2> QED
    BY <2>1, <2>2
<1>7. ASSUME NEW b \in Aggregates, NEW i \in DOMAIN events'[b]
      PROVE  events'[b][i].seq = i
  <2>1. CASE b = a
    <3>1. events'[a] \in Seq(EventRecords)
      BY Extended DEF StoreTypeOK
    <3>2. \/ i \in 1 .. Len(events[a])
          \/ /\ i - Len(events[a]) \in 1 .. Len(records)
             /\ i = Len(events[a]) + (i - Len(events[a]))
      BY <1>2, <2>1, <3>1
    <3>3. DOMAIN events[a] = 1 .. Len(events[a])
      BY DEF StoreTypeOK
    <3>4. CASE i \in 1 .. Len(events[a])
      <4>1. events'[a][i] = events[a][i] /\ events[a][i].seq = i
        BY <1>2, <3>3, <3>4 DEF ListsAgree
      <4> QED
        BY <2>1, <4>1
    <3>5. CASE i \notin 1 .. Len(events[a])
      <4> DEFINE k == i - Len(events[a])
      <4>1. k \in 1 .. Len(records) /\ i = Len(events[a]) + k
        BY <3>2, <3>5
      <4>2. events'[a][i] = records[k] /\ records[k].seq = i
        BY <1>2, <4>1
      <4> QED
        BY <2>1, <4>2
    <3> QED
      BY <3>4, <3>5
  <2>2. CASE b # a
    BY <1>1, <2>2 DEF ListsAgree
  <2> QED
    BY <2>1, <2>2
<1> QED
  BY <1>5, <1>6, <1>7 DEF ListsAgree, CountOf, Own

LEMMA StoreInitLists ==
  ASSUME StoreInit
  PROVE  StoreTypeOK /\ ListsAgree
<1>1. \A S : <<>> \in Seq(S)
  OBVIOUS
<1>2. StoreTypeOK
  BY <1>1 DEF StoreInit, StoreTypeOK
<1>3. \A a \in Aggregates : CountOf(a, 0) = 0
  <2>1. \A a \in Aggregates : {j \in 1 .. 0 : allEvents[j].aggregate = a} = {}
    OBVIOUS
  <2> QED
    BY <2>1, FS_EmptySet DEF CountOf
<1> QED
  BY <1>2, <1>3 DEF StoreInit, ListsAgree

-----------------------------------------------------------------------------
(* The inductive invariant *)

\* One aggregate's sequence numbers are the places in the list of all events.
NumberedByPlace ==
  /\ Len(allEvents) <= MaxAppended
  /\ \A a \in Aggregates : Len(events[a]) = Len(allEvents)
  /\ \A i \in DOMAIN allEvents : allEvents[i].seq = i

\* The event that run() has in hand is there, and the projection whose handler
\* has it wanted it.
InHand ==
  /\ stage \in {"offer", "handling"} => next <= Len(allEvents)
  /\ stage = "handling" => /\ target \in Projections
                        /\ Wanted(target) /\ Event.type \in Handles[target]

\* Catch-up has brought every position to the event in hand, and beyond it
\* where it has been offered; what get_all_events() passes over is behind the
\* position of every projection.
UpToDate ==
  /\ \A p \in Projections : position[p] <= Len(allEvents)
  /\ stage \in {"scan", "offer", "handling"} =>
       \A p \in Projections :
         /\ after <= position[p] /\ next - 1 <= position[p]
         /\ stage # "scan" /\ p < target => next <= position[p]

\* A read model is ahead of its position by one event at most, whose handler
\* was interrupted.
OneAhead ==
  \A p \in Projections : \A i \in DOMAIN delivered[p] :
    \/ delivered[p][i] <= position[p]
    \/ delivered[p][i] = position[p] + 1 /\ delivered[p][i] \in cutShort[p]

RunnerInv ==
  /\ RunnerTypeOK /\ NumberedByPlace /\ InHand /\ UpToDate
  /\ NothingLostBehindPosition /\ OneAhead /\ DeliveredInOrder

LEMMA InitInv == RunnerAssumption /\ RunnerInit => RunnerInv
<1> SUFFICES ASSUME RunnerAssumption, RunnerInit PROVE RunnerInv
  OBVIOUS
<1>1. RunnerTypeOK
  <2>1. \A S : <<>> \in Seq(S)
    OBVIOUS
  <2>2. StoreTypeOK /\ delivered \in [Projections -> Seq(1 .. MaxAppended)]
    BY <2>1 DEF RunnerInit, StoreInit, StoreTypeOK
  <2>3. next \in 1 .. MaxAppended + 1 /\ after \in 0 .. MaxAppended
    BY DEF RunnerAssumption, RunnerInit
  <2>4. /\ target \in 1 .. NumProjections + 1
        /\ position \in [Projections -> 0 .. MaxAppended]
    BY DEF RunnerAssumption, RunnerInit
  <2> QED
    BY <2>2, <2>3, <2>4 DEF RunnerInit, RunnerTypeOK
<1>2. NumberedByPlace /\ InHand /\ UpToDate
  BY <1>1 DEF RunnerAssumption, RunnerInit, StoreInit, NumberedByPlace, InHand,
              UpToDate
<1>3. NothingLostBehindPosition /\ OneAhead /\ DeliveredInOrder
  BY DEF RunnerInit, StoreInit, NothingLostBehindPosition, Relevant, OneAhead,
         DeliveredInOrder
<1> QED
  BY <1>1, <1>2, <1>3 DEF RunnerInv

\* The event in hand has the number of its place.
LEMMA EventInHand ==
  ASSUME RunnerAssumption, RunnerTypeOK, NumberedByPlace,
         next <= Len(allEvents)
  PROVE  /\ next \in DOMAIN allEvents /\ next \in 1 .. MaxAppended
         /\ Event.seq = next /\ Event.type \in EventTypes
<1>1. allEvents \in Seq(EventRecords) /\ next \in 1 .. MaxAppended + 1
  BY DEF RunnerTypeOK, StoreTypeOK
<1>2. next \in DOMAIN allEvents /\ next \in 1 .. MaxAppended
  BY <1>1 DEF NumberedByPlace, RunnerAssumption
<1>3. Event \in EventRecords
  BY <1>1, <1>2 DEF Event
<1> QED
  BY <1>2, <1>3 DEF NumberedByPlace, Event, EventRecords

\* A step that touches neither the store nor the read models.
LEMMA ReadModelsKept ==
  ASSUME NumberedByPlace, NothingLostBehindPosition, OneAhead,
         DeliveredInOrder, UNCHANGED <<storeVars, readVars>>
  PROVE  /\ NumberedByPlace' /\ NothingLostBehindPosition' /\ OneAhead'
         /\ DeliveredInOrder'
BY DEF NumberedByPlace, NothingLostBehindPosition, Relevant, OneAhead,
       DeliveredInOrder, storeVars, readVars

-----------------------------------------------------------------------------
(* The steps of run() *)

LEMMA StartInv ==
  ASSUME RunnerAssumption, RunnerInv, NEW catchUp \in BOOLEAN, Start(catchUp)
  PROVE  RunnerInv'
<1>1. RunnerTypeOK'
  BY MinPosition DEF RunnerInv, Start, RunnerTypeOK, StoreTypeOK, storeVars,
                     readVars, RunnerAssumption
<1>2. InHand'
  BY DEF Start, InHand
<1>3. UpToDate'
  BY MinPosition
     DEF RunnerInv, RunnerTypeOK, UpToDate, Start, storeVars, readVars
<1> QED
  BY <1>1, <1>2, <1>3, ReadModelsKept DEF RunnerInv, Start

\* An event that is passed over is behind every position already.
LEMMA SkipInv ==
  ASSUME RunnerAssumption, RunnerInv, Skip
  PROVE  RunnerInv'
<1>1. next \in 1 .. MaxAppended /\ Event.seq = next /\ next <= after
  BY EventInHand DEF RunnerInv, Skip, PassedOver
<1>2. RunnerTypeOK'
  BY <1>1 DEF RunnerInv, Skip, RunnerTypeOK, StoreTypeOK, storeVars, readVars,
              RunnerAssumption
<1>3. InHand'
  BY DEF Skip, InHand
<1>4. UpToDate'
  BY <1>1
     DEF RunnerInv, RunnerTypeOK, UpToDate, Skip, storeVars, readVars
<1> QED
  BY <1>2, <1>3, <1>4, ReadModelsKept DEF RunnerInv, Skip

LEMMA ControlInv ==
  ASSUME RunnerAssumption, RunnerInv,
         CreateTask \/ Yield \/ Exhausted \/ LiveEnds \/ Cancel \/ Stop
  PROVE  RunnerInv'
<1> USE DEF CreateTask, Yield, Exhausted, LiveEnds, Cancel, Stop
<1>1. UNCHANGED <<storeVars, readVars>>
  OBVIOUS
<1>2. RunnerTypeOK'
  <2>1. /\ running' \in BOOLEAN /\ stopped' \in BOOLEAN
        /\ next' = next /\ after' = after /\ target' \in {1, target}
        /\ stage' \in {"off", "created", "scan", "offer", "handling", "live"}
    BY DEF RunnerInv, RunnerTypeOK, runVars
  <2> QED
    BY <1>1, <2>1 DEF RunnerInv, RunnerTypeOK, StoreTypeOK, storeVars, readVars,
                      RunnerAssumption
<1>3. InHand'
  BY <1>1 DEF RunnerInv, InHand, Wanted, Event, storeVars, readVars, runVars
<1>4. UpToDate'
  BY <1>1 DEF RunnerInv, RunnerTypeOK, UpToDate, storeVars, readVars, runVars,
              Projections
<1> QED
  BY <1>1, <1>2, <1>3, <1>4, ReadModelsKept DEF RunnerInv

\* A projection that has no handler for the event moves its position past it.
LEMMA OfferInv ==
  ASSUME RunnerAssumption, RunnerInv, Offer
  PROVE  RunnerInv'
<1>1. /\ stage = "offer" /\ target \in Projections
      /\ UNCHANGED <<storeVars, running, next, after, delivered, cutShort,
                     stopped>>
  BY DEF Offer
<1>2. /\ next \in 1 .. MaxAppended /\ Event.seq = next
      /\ next \in DOMAIN allEvents
  BY <1>1, EventInHand DEF RunnerInv, InHand
<1>3. CASE Wanted(target) /\ Event.type \in Handles[target]
  <2>1. stage' = "handling" /\ UNCHANGED <<target, position>>
    BY <1>3 DEF Offer
  <2>2. UNCHANGED <<storeVars, readVars>>
    BY <1>1, <2>1 DEF readVars
  <2>3. RunnerTypeOK'
    BY <1>1, <2>1 DEF RunnerInv, RunnerTypeOK, StoreTypeOK, storeVars,
                      RunnerAssumption
  <2>4. InHand'
    BY <1>1, <1>3, <2>1 DEF RunnerInv, InHand, Wanted, Event, storeVars
  <2>5. UpToDate'
    BY <1>1, <2>1 DEF RunnerInv, RunnerTypeOK, UpToDate, storeVars
  <2> QED
    BY <2>2, <2>3, <2>4, <2>5, ReadModelsKept DEF RunnerInv
<1>4. CASE ~(Wanted(target) /\ Event.type \in Handles[target])
  <2>1. /\ target' = target + 1 /\ stage' = "offer"
        /\ position' = IF Wanted(target) THEN [position EXCEPT ![target] = next]
                       ELSE position
    BY <1>1, <1>2, <1>4 DEF Offer
  <2>2. position \in [Projections -> 0 .. MaxAppended] /\ target \in Nat
        /\ NumProjections \in Nat /\ MaxAppended \in Nat
    BY <1>1 DEF RunnerInv, RunnerTypeOK, RunnerAssumption, Projections
  <2>3. /\ position'[target] >= next
        /\ position'[target] \in {next, position[target]}
        /\ \A p \in Projections : position'[p] >= position[p]
        /\ \A p \in Projections \ {target} : position'[p] = position[p]
    BY <1>1, <1>2, <2>1, <2>2 DEF Wanted
  <2>4. position' \in [Projections -> 0 .. MaxAppended]
    BY <1>1, <1>2, <2>1, <2>2
  <2>5. RunnerTypeOK'
    BY <1>1, <2>1, <2>2, <2>4
       DEF RunnerInv, RunnerTypeOK, StoreTypeOK, storeVars, Projections
  <2>6. InHand'
    BY <1>1, <2>1 DEF RunnerInv, InHand, storeVars
  <2>7. UpToDate'
    <3>1. \A p \in Projections : position'[p] <= Len(allEvents)
      BY <1>1, <1>2, <2>1, <2>3 DEF RunnerInv, InHand, UpToDate
    <3>2. \A p \in Projections : after <= position'[p] /\ next - 1 <= position'[p]
      BY <1>1, <2>2, <2>3, <2>4
         DEF RunnerInv, RunnerTypeOK, UpToDate
    <3>3. \A p \in Projections : p < target + 1 => next <= position'[p]
      BY <1>1, <2>1, <2>2, <2>3 DEF RunnerInv, RunnerTypeOK, UpToDate, Projections
    <3> QED
      BY <1>1, <2>1, <3>1, <3>2, <3>3 DEF UpToDate, storeVars
  <2>8. NumberedByPlace'
    BY <1>1 DEF RunnerInv, NumberedByPlace, storeVars
  <2>9. NothingLostBehindPosition'
    <3> SUFFICES ASSUME NEW p \in Projections, NEW i \in Relevant(p),
                        allEvents[i].seq <= position'[p]
                 PROVE  i \in Range(delivered[p])
      BY <1>1 DEF NothingLostBehindPosition, Relevant, storeVars
    <3>1. i \in DOMAIN allEvents /\ allEvents[i].seq = i
      BY DEF RunnerInv, NumberedByPlace, Relevant
    <3>2. CASE i <= position[p]
      BY <3>1, <3>2 DEF RunnerInv, NothingLostBehindPosition
    <3>3. CASE ~(i <= position[p])
      <4>1. p = target /\ position'[p] = next /\ Wanted(target)
        BY <2>1, <2>2, <2>3, <3>1, <3>3
      <4>2. next - 1 <= position[p]
        BY <1>1 DEF RunnerInv, UpToDate
      <4>3. i = next
        BY <1>2, <2>2, <3>1, <3>3, <4>1, <4>2
           DEF RunnerInv, RunnerTypeOK, StoreTypeOK
      <4>4. Event.type \notin Handles[target]
        BY <1>4, <4>1
      <4> QED
        BY <4>1, <4>3, <4>4 DEF Relevant, Event
    <3> QED
      BY <3>2, <3>3
  <2>10. OneAhead'
    <3> SUFFICES ASSUME NEW p \in Projections, NEW i \in DOMAIN delivered[p]
                 PROVE  \/ delivered[p][i] <= position'[p]
                        \/ /\ delivered[p][i] = position'[p] + 1
                           /\ delivered[p][i] \in cutShort[p]
      BY <1>1 DEF OneAhead
    <3>1. \/ delivered[p][i] <= position[p]
          \/ /\ delivered[p][i] = position[p] + 1
             /\ delivered[p][i] \in cutShort[p]
      BY DEF RunnerInv, OneAhead
    <3>2. delivered[p][i] \in Nat
      <4>1. delivered[p] \in Seq(1 .. MaxAppended)
        BY DEF RunnerInv, RunnerTypeOK
      <4> QED
        BY <2>2, <4>1
    <3>3. position'[p] \in Nat /\ position[p] \in Nat
      BY <2>2, <2>4
    <3>4. position'[p] >= position[p] + 1 \/ position'[p] = position[p]
      BY <2>3, <3>3
    <3> QED
      BY <3>1, <3>2, <3>3, <3>4
  <2>11. DeliveredInOrder'
    BY <1>1 DEF RunnerInv, DeliveredInOrder
  <2> QED
    BY <2>5, <2>6, <2>7, <2>8, <2>9, <2>10, <2>11 DEF RunnerInv
<1> QED
  BY <1>3, <1>4

LEMMA OfferedToAllInv ==
  ASSUME RunnerAssumption, RunnerInv, OfferedToAll
  PROVE  RunnerInv'
<1>1. next \in 1 .. MaxAppended /\ stage = "offer" /\ next' = next + 1
      /\ UNCHANGED <<storeVars, readVars>>
  BY EventInHand DEF RunnerInv, InHand, OfferedToAll
<1>2. RunnerTypeOK'
  BY <1>1 DEF RunnerInv, OfferedToAll, RunnerTypeOK, StoreTypeOK, storeVars,
              readVars, RunnerAssumption
<1>3. InHand'
  BY DEF OfferedToAll, InHand
<1>4. \A p \in Projections : p < target
  BY DEF RunnerInv, RunnerTypeOK, OfferedToAll, Projections, RunnerAssumption
<1>5. UpToDate'
  BY <1>1, <1>4 DEF RunnerInv, RunnerTypeOK, UpToDate, OfferedToAll, storeVars,
                    readVars
<1> QED
  BY <1>1, <1>2, <1>3, <1>5, ReadModelsKept DEF RunnerInv

\* What appending the event in hand to a read model does: its projection's
\* position is one short of it, so everything delivered before is earlier or the
\* same event, interrupted.
LEMMA DeliverNext ==
  ASSUME RunnerAssumption, RunnerInv, stage = "handling", Deliver(target),
         \A p \in Projections : cutShort[p] \subseteq cutShort'[p]
  PROVE  /\ next \in 1 .. MaxAppended /\ Event.seq = next
         /\ target \in Projections /\ position[target] = next - 1
         /\ delivered' \in [Projections -> Seq(1 .. MaxAppended)]
         /\ \A p \in Projections \ {target} : delivered'[p] = delivered[p]
         /\ DOMAIN delivered'[target] = 1 .. Len(delivered[target]) + 1
         /\ \A i \in 1 .. Len(delivered[target]) :
              delivered'[target][i] = delivered[target][i]
         /\ delivered'[target][Len(delivered[target]) + 1] = next
         /\ \A p \in Projections : Range(delivered[p]) \subseteq Range(delivered'[p])
         /\ next \in Range(delivered'[target])
         /\ DeliveredInOrder'
<1>1. /\ next \in 1 .. MaxAppended /\ Event.seq = next
      /\ target \in Projections /\ Wanted(target)
  BY EventInHand DEF RunnerInv, InHand
<1>2. /\ position \in [Projections -> 0 .. MaxAppended] /\ MaxAppended \in Nat
      /\ delivered \in [Projections -> Seq(1 .. MaxAppended)]
  BY DEF RunnerInv, RunnerTypeOK, RunnerAssumption
<1>3. position[target] = next - 1
  BY <1>1, <1>2 DEF RunnerInv, UpToDate, Wanted
<1> DEFINE q == delivered[target]
<1>4. q \in Seq(1 .. MaxAppended) /\ Len(q) \in Nat /\ DOMAIN q = 1 .. Len(q)
  BY <1>1, <1>2
<1>5. delivered' = [delivered EXCEPT ![target] = Append(q, next)]
  BY DEF Deliver
<1>6. /\ delivered'[target] = Append(q, next)
      /\ Append(q, next) \in Seq(1 .. MaxAppended)
      /\ \A p \in Projections \ {target} : delivered'[p] = delivered[p]
      /\ delivered' \in [Projections -> Seq(1 .. MaxAppended)]
  BY <1>1, <1>2, <1>4, <1>5
<1>7. /\ DOMAIN delivered'[target] = 1 .. Len(q) + 1
      /\ \A i \in 1 .. Len(q) : delivered'[target][i] = q[i]
      /\ delivered'[target][Len(q) + 1] = next
  BY <1>4, <1>6
<1> HIDE DEF q
<1>8. \A p \in Projections : Range(delivered[p]) \subseteq Range(delivered'[p])
  <2>1. Range(q) \subseteq Range(delivered'[target])
    BY <1>4, <1>7 DEF Range
  <2> QED
    BY <1>6, <2>1 DEF q
<1>9. next \in Range(delivered'[target])
  BY <1>4, <1>7 DEF Range
<1>10. DeliveredInOrder'
  <2> SUFFICES ASSUME NEW p \in Projections, NEW i \in DOMAIN delivered'[p],
                      NEW j \in DOMAIN delivered'[p], i < j
               PROVE  \/ delivered'[p][i] < delivered'[p][j]
                      \/ /\ delivered'[p][i] = delivered'[p][j]
                         /\ delivered'[p][i] \in cutShort'[p]
    BY DEF DeliveredInOrder
  <2>1. CASE p # target
    <3>1. delivered'[p] = delivered[p]
      BY <1>6, <2>1
    <3>2. \/ delivered[p][i] < delivered[p][j]
          \/ delivered[p][i] = delivered[p][j] /\ delivered[p][i] \in cutShort[p]
      BY <3>1 DEF RunnerInv, DeliveredInOrder
    <3> QED
      BY <3>1, <3>2
  <2>2. CASE p = target /\ j \in 1 .. Len(q)
    <3>1. i \in DOMAIN q /\ j \in DOMAIN q
      BY <1>4, <1>7, <2>2
    <3>2. \/ q[i] < q[j]
          \/ q[i] = q[j] /\ q[i] \in cutShort[target]
      BY <1>1, <3>1 DEF RunnerInv, DeliveredInOrder, q
    <3> QED
      BY <1>1, <1>4, <1>7, <2>2, <3>1, <3>2
  <2>3. CASE p = target /\ j = Len(q) + 1
    <3>1. i \in DOMAIN q /\ delivered'[p][i] = q[i] /\ delivered'[p][j] = next
      BY <1>4, <1>7, <2>3
    <3>2. \/ q[i] <= position[target]
          \/ q[i] = position[target] + 1 /\ q[i] \in cutShort[target]
      BY <1>1, <3>1 DEF RunnerInv, OneAhead, q
    <3>3. q[i] \in 1 .. MaxAppended
      BY <1>2, <1>4, <3>1
    <3> QED
      BY <1>1, <1>2, <1>3, <2>3, <3>1, <3>2, <3>3
  <2> QED
    BY <1>4, <1>7, <2>1, <2>2, <2>3
<1> QED
  BY <1>1, <1>3, <1>6, <1>7, <1>8, <1>9, <1>10 DEF q

LEMMA HandledInv ==
  ASSUME RunnerAssumption, RunnerInv, Handled
  PROVE  RunnerInv'
<1>1. /\ stage = "handling" /\ Deliver(target)
      /\ position' = [position EXCEPT ![target] = Event.seq]
      /\ target' = target + 1 /\ stage' = "offer"
      /\ UNCHANGED <<storeVars, running, next, after, cutShort, stopped>>
  BY DEF Handled
<1>2. /\ next \in 1 .. MaxAppended /\ Event.seq = next
      /\ target \in Projections /\ position[target] = next - 1
      /\ delivered' \in [Projections -> Seq(1 .. MaxAppended)]
      /\ \A p \in Projections \ {target} : delivered'[p] = delivered[p]
      /\ DOMAIN delivered'[target] = 1 .. Len(delivered[target]) + 1
      /\ \A i \in 1 .. Len(delivered[target]) :
           delivered'[target][i] = delivered[target][i]
      /\ delivered'[target][Len(delivered[target]) + 1] = next
      /\ \A p \in Projections : Range(delivered[p]) \subseteq Range(delivered'[p])
      /\ next \in Range(delivered'[target])
      /\ DeliveredInOrder'
  BY <1>1, DeliverNext
<1>3. /\ position \in [Projections -> 0 .. MaxAppended]
      /\ target \in Nat /\ NumProjections \in Nat /\ MaxAppended \in Nat
  BY DEF RunnerInv, RunnerTypeOK, RunnerAssumption
<1>4. /\ position'[target] = next
      /\ \A p \in Projections \ {target} : position'[p] = position[p]
      /\ position' \in [Projections -> 0 .. MaxAppended]
  BY <1>1, <1>2, <1>3
<1>5. RunnerTypeOK'
  BY <1>1, <1>2, <1>3, <1>4
     DEF RunnerInv, RunnerTypeOK, StoreTypeOK, storeVars, Projections
<1>6. InHand'
  BY <1>1 DEF RunnerInv, InHand, storeVars
<1>7. UpToDate'
  <2>1. next <= Len(allEvents)
    BY <1>1 DEF RunnerInv, InHand
  <2>2. \A p \in Projections :
          /\ position'[p] <= Len(allEvents)
          /\ after <= position'[p] /\ next - 1 <= position'[p]
    BY <1>1, <1>2, <1>3, <1>4, <2>1 DEF RunnerInv, RunnerTypeOK, UpToDate
  <2>3. \A p \in Projections : p < target + 1 => next <= position'[p]
    BY <1>1, <1>2, <1>3, <1>4 DEF RunnerInv, RunnerTypeOK, UpToDate, Projections
  <2> QED
    BY <1>1, <2>2, <2>3 DEF UpToDate, storeVars
<1>8. NumberedByPlace'
  BY <1>1 DEF RunnerInv, NumberedByPlace, storeVars
<1>9. NothingLostBehindPosition'
  <2> SUFFICES ASSUME NEW p \in Projections, NEW i \in Relevant(p),
                      allEvents[i].seq <= position'[p]
               PROVE  i \in Range(delivered'[p])
    BY <1>1 DEF NothingLostBehindPosition, Relevant, storeVars
  <2>1. i \in DOMAIN allEvents /\ allEvents[i].seq = i /\ i \in Nat
    BY DEF RunnerInv, NumberedByPlace, Relevant, RunnerTypeOK, StoreTypeOK
  <2>2. CASE i <= position[p]
    BY <1>2, <2>1, <2>2 DEF RunnerInv, NothingLostBehindPosition
  <2>3. CASE ~(i <= position[p])
    BY <1>2, <1>3, <1>4, <2>1, <2>3
  <2> QED
    BY <2>2, <2>3
<1>10. OneAhead'
  <2> SUFFICES ASSUME NEW p \in Projections, NEW i \in DOMAIN delivered'[p]
               PROVE  \/ delivered'[p][i] <= position'[p]
                      \/ /\ delivered'[p][i] = position'[p] + 1
                         /\ delivered'[p][i] \in cutShort[p]
    BY <1>1 DEF OneAhead
  <2>1. CASE p # target
    BY <1>2, <1>4, <2>1 DEF RunnerInv, OneAhead
  <2>2. CASE p = target /\ i \in 1 .. Len(delivered[target])
    <3>1. delivered[p] \in Seq(1 .. MaxAppended)
      BY DEF RunnerInv, RunnerTypeOK
    <3>2. i \in DOMAIN delivered[p] /\ delivered[p][i] \in 1 .. MaxAppended
      BY <1>3, <2>2, <3>1
    <3>3. delivered[p][i] <= position[p] + 1
      BY <1>3, <3>2 DEF RunnerInv, OneAhead
    <3> QED
      BY <1>2, <1>3, <1>4, <2>2, <3>2, <3>3
  <2>3. CASE p = target /\ i = Len(delivered[target]) + 1
    BY <1>2, <1>4, <2>3
  <2>4. Len(delivered[target]) \in Nat
    BY <1>2 DEF RunnerInv, RunnerTypeOK
  <2> QED
    BY <1>2, <2>1, <2>2, <2>3, <2>4
<1> QED
  BY <1>2, <1>5, <1>6, <1>7, <1>8, <1>9, <1>10 DEF RunnerInv

\* An interrupted handler leaves the position, whether or not it had done its
\* work.
LEMMA InterruptedInv ==
  ASSUME RunnerAssumption, RunnerInv, NEW done \in BOOLEAN, Interrupted(done)
  PROVE  RunnerInv'
<1>1. /\ stage = "handling" /\ CutShort(target, done) /\ stage' = "off"
      /\ UNCHANGED <<storeVars, running, next, after, target, position, stopped>>
  BY DEF Interrupted
<1>2. target \in Projections /\ next \in 1 .. MaxAppended
  BY <1>1, EventInHand DEF RunnerInv, InHand
<1>3. /\ cutShort' \in [Projections -> SUBSET (1 .. MaxAppended)]
      /\ \A p \in Projections : cutShort[p] \subseteq cutShort'[p]
      /\ next \in cutShort'[target]
  BY <1>1, <1>2 DEF CutShort, RunnerInv, RunnerTypeOK
<1>4. InHand' /\ UpToDate' /\ NumberedByPlace'
  BY <1>1 DEF RunnerInv, InHand, UpToDate, NumberedByPlace, storeVars
<1>5. CASE UNCHANGED delivered
  <2>1. RunnerTypeOK'
    BY <1>1, <1>3, <1>5 DEF RunnerInv, RunnerTypeOK, StoreTypeOK, storeVars
  <2>2. NothingLostBehindPosition' /\ OneAhead' /\ DeliveredInOrder'
    BY <1>1, <1>3, <1>5
       DEF RunnerInv, NothingLostBehindPosition, Relevant, OneAhead,
           DeliveredInOrder, storeVars
  <2> QED
    BY <1>4, <2>1, <2>2 DEF RunnerInv
<1>6. CASE Deliver(target)
  <2>1. /\ position[target] = next - 1
        /\ delivered' \in [Projections -> Seq(1 .. MaxAppended)]
        /\ \A p \in Projections \ {target} : delivered'[p] = delivered[p]
        /\ DOMAIN delivered'[target] = 1 .. Len(delivered[target]) + 1
        /\ \A i \in 1 .. Len(delivered[target]) :
             delivered'[target][i] = delivered[target][i]
        /\ delivered'[target][Len(delivered[target]) + 1] = next
        /\ \A p \in Projections :
             Range(delivered[p]) \subseteq Range(delivered'[p])
        /\ DeliveredInOrder'
    BY <1>1, <1>3, <1>6, DeliverNext
  <2>2. RunnerTypeOK'
    BY <1>1, <1>3, <2>1 DEF RunnerInv, RunnerTypeOK, StoreTypeOK, storeVars
  <2>3. NothingLostBehindPosition'
    BY <1>1, <2>1 DEF RunnerInv, NothingLostBehindPosition, Relevant, storeVars
  <2>4. OneAhead'
    <3> SUFFICES ASSUME NEW p \in Projections, NEW i \in DOMAIN delivered'[p]
                 PROVE  \/ delivered'[p][i] <= position[p]
                        \/ /\ delivered'[p][i] = position[p] + 1
                           /\ delivered'[p][i] \in cutShort'[p]
      BY <1>1 DEF OneAhead
    <3>1. CASE i \in DOMAIN delivered[p] /\ delivered'[p][i] = delivered[p][i]
      BY <1>3, <3>1 DEF RunnerInv, OneAhead
    <3>2. CASE p = target /\ i = Len(delivered[target]) + 1
      BY <1>2, <1>3, <2>1, <3>2
    <3>3. delivered[target] \in Seq(1 .. MaxAppended)
      BY <1>2 DEF RunnerInv, RunnerTypeOK
    <3> QED
      BY <2>1, <3>1, <3>2, <3>3
  <2> QED
    BY <1>4, <2>1, <2>2, <2>3, <2>4 DEF RunnerInv
<1> QED
  BY <1>1, <1>5, <1>6 DEF CutShort

-----------------------------------------------------------------------------
(* The steps of the code around it *)

LEMMA ResetAllInv ==
  ASSUME RunnerAssumption, ~ResetsInRun, RunnerInv, ResetAll
  PROVE  RunnerInv'
<1>1. /\ stage = "off"
      /\ position' = [p \in Projections |-> 0]
      /\ delivered' = [p \in Projections |-> <<>>]
      /\ cutShort' = [p \in Projections |-> {}]
      /\ UNCHANGED <<storeVars, running, runVars, stopped>>
  BY DEF ResetAll
<1>2. RunnerTypeOK'
  <2>1. \A S : <<>> \in Seq(S)
    OBVIOUS
  <2>2. /\ delivered' \in [Projections -> Seq(1 .. MaxAppended)]
        /\ cutShort' \in [Projections -> SUBSET (1 .. MaxAppended)]
        /\ position' \in [Projections -> 0 .. MaxAppended]
    BY <1>1, <2>1 DEF RunnerAssumption
  <2> QED
    BY <1>1, <2>2 DEF RunnerInv, RunnerTypeOK, StoreTypeOK, storeVars, runVars
<1>3. NumberedByPlace' /\ InHand'
  BY <1>1 DEF RunnerInv, NumberedByPlace, InHand, storeVars, runVars
<1>4. UpToDate'
  BY <1>1 DEF RunnerInv, RunnerTypeOK, StoreTypeOK, UpToDate, storeVars, runVars
<1>5. NothingLostBehindPosition'
  <2>1. \A i \in DOMAIN allEvents : allEvents[i].seq >= 1
    BY DEF RunnerInv, NumberedByPlace, RunnerTypeOK, StoreTypeOK
  <2> QED
    BY <1>1, <2>1 DEF NothingLostBehindPosition, Relevant, storeVars, RunnerInv,
                      NumberedByPlace
<1>6. OneAhead' /\ DeliveredInOrder'
  BY <1>1 DEF OneAhead, DeliveredInOrder
<1> QED
  BY <1>2, <1>3, <1>4, <1>5, <1>6 DEF RunnerInv

\* New events are numbered by their places, ahead of every position.
LEMMA AppendedInv ==
  ASSUME RunnerAssumption, OneAggregate, RunnerInv, NEW a \in Aggregates,
         NEW n \in {1, 2}, NEW types \in [1 .. n -> EventTypes],
         Appended(a, types)
  PROVE  RunnerInv'
<1>1. UNCHANGED <<running, runVars, readVars, stopped>>
  BY DEF Appended
<1>2. PICK records \in Seq(EventRecords) :
        Extends(a, records) /\ Len(allEvents) + Len(records) <= MaxAppended
  BY AppendedExtends DEF RunnerInv, RunnerTypeOK
<1>3. /\ allEvents \in Seq(EventRecords) /\ allEvents' \in Seq(EventRecords)
      /\ events' \in [Aggregates -> Seq(EventRecords)]
      /\ StoreTypeOK'
      /\ Len(allEvents') = Len(allEvents) + Len(records)
      /\ Len(events'[a]) = Len(events[a]) + Len(records)
      /\ \A i \in DOMAIN allEvents : allEvents'[i] = allEvents[i]
      /\ \A i \in DOMAIN allEvents' \ DOMAIN allEvents :
           allEvents'[i].seq = Len(events[a]) + (i - Len(allEvents))
  BY <1>2, Extended DEF RunnerInv, RunnerTypeOK, StoreTypeOK
<1>4. Len(events[a]) = Len(allEvents)
  BY DEF RunnerInv, NumberedByPlace
<1>5. \A i \in DOMAIN allEvents' : allEvents'[i].seq = i
  <2>1. \A i \in DOMAIN allEvents : allEvents'[i].seq = i
    BY <1>3 DEF RunnerInv, NumberedByPlace
  <2>2. \A i \in DOMAIN allEvents' \ DOMAIN allEvents : allEvents'[i].seq = i
    BY <1>3, <1>4
  <2> QED
    BY <2>1, <2>2
<1>6. NumberedByPlace'
  <2>1. \A b \in Aggregates : Len(events'[b]) = Len(allEvents')
    BY <1>3, <1>4 DEF OneAggregate
  <2> QED
    BY <1>2, <1>3, <1>5, <2>1 DEF NumberedByPlace
<1>7. RunnerTypeOK'
  BY <1>1, <1>3 DEF RunnerInv, RunnerTypeOK, runVars, readVars
<1>8. Len(allEvents') >= Len(allEvents)
  BY <1>2, <1>3
<1>9. InHand'
  <2>1. next <= Len(allEvents) => Event' = Event
    BY <1>1, <1>3 DEF Event, runVars, RunnerInv, RunnerTypeOK
  <2>2. stage \in {"offer", "handling"} => next <= Len(allEvents')
    BY <1>3, <1>8 DEF RunnerInv, RunnerTypeOK, InHand
  <2> QED
    BY <1>1, <2>1, <2>2 DEF RunnerInv, InHand, Wanted, runVars, readVars
<1>10. UpToDate'
  <2>1. \A p \in Projections : position[p] <= Len(allEvents')
    BY <1>3, <1>8 DEF RunnerInv, RunnerTypeOK, UpToDate
  <2> QED
    BY <1>1, <2>1 DEF RunnerInv, UpToDate, runVars, readVars
<1>11. NothingLostBehindPosition'
  <2> SUFFICES ASSUME NEW p \in Projections, NEW i \in DOMAIN allEvents',
                      allEvents'[i].type \in Handles[p],
                      allEvents'[i].seq <= position[p]
               PROVE  i \in Range(delivered[p])
    BY <1>1 DEF NothingLostBehindPosition, Relevant, readVars
  <2>1. position[p] <= Len(allEvents) /\ position[p] \in Nat
    BY DEF RunnerInv, RunnerTypeOK, UpToDate
  <2>2. i <= Len(allEvents)
    BY <1>3, <1>5, <2>1
  <2>3. i \in DOMAIN allEvents /\ allEvents'[i] = allEvents[i]
    BY <1>3, <2>2
  <2> QED
    BY <2>3 DEF RunnerInv, NothingLostBehindPosition, Relevant
<1>12. OneAhead' /\ DeliveredInOrder'
  BY <1>1 DEF RunnerInv, OneAhead, DeliveredInOrder, readVars
<1> QED
  BY <1>6, <1>7, <1>9, <1>10, <1>11, <1>12 DEF RunnerInv

LEMMA StepInv ==
  ASSUME RunnerAssumption, OneAggregate, ~ResetsInRun, RunnerInv,
         [RunnerNext]_runnerVars
  PROVE  RunnerInv'
<1>1. CASE Run
  <2>1. ASSUME NEW catchUp \in BOOLEAN, Start(catchUp) PROVE RunnerInv'
    BY <2>1, StartInv
  <2> QED
    BY <1>1, <2>1, SkipInv, ControlInv, OfferInv, OfferedToAllInv, HandledInv
       DEF Run
<1>2. CASE CreateTask \/ Cancel \/ Stop
  BY <1>2, ControlInv
<1>3. CASE ResetAll
  BY <1>3, ResetAllInv
<1>4. ASSUME NEW done \in BOOLEAN, Interrupted(done) PROVE RunnerInv'
  BY <1>4, InterruptedInv
<1>5. ASSUME NEW a \in Aggregates, NEW n \in {1, 2},
             NEW types \in [1 .. n -> EventTypes], Appended(a, types)
      PROVE  RunnerInv'
  BY <1>5, AppendedInv
<1>6. CASE UNCHANGED runnerVars
  <2>1. RunnerTypeOK' /\ InHand' /\ UpToDate'
    BY <1>6 DEF RunnerInv, RunnerTypeOK, StoreTypeOK, InHand, UpToDate, Wanted,
                Event, runnerVars, storeVars, runVars, readVars
  <2> QED
    BY <1>6, <2>1, ReadModelsKept DEF RunnerInv, runnerVars
<1> QED
  BY <1>1, <1>2, <1>3, <1>4, <1>5, <1>6 DEF RunnerNext

LEMMA Invariance ==
  ASSUME RunnerAssumption, OneAggregate, ~ResetsInRun
  PROVE  RunnerSpec => []RunnerInv
<1>1. RunnerInit => RunnerInv
  BY InitInv
<1>2. RunnerInv /\ [RunnerNext]_runnerVars => RunnerInv'
  BY StepInv
<1> QED
  BY <1>1, <1>2, PTL DEF RunnerSpec

-----------------------------------------------------------------------------
(* The theorems *)

\* Every variable of the runner keeps its type; positions and places stay
\* within the store.
THEOREM TypeCorrect ==
  ASSUME RunnerAssumption, OneAggregate, ~ResetsInRun
  PROVE  RunnerSpec => []RunnerTypeOK
<1>1. RunnerInv => RunnerTypeOK
  BY DEF RunnerInv
<1> QED
  BY <1>1, Invariance, PTL

\* No event is lost behind a position: whenever a handler raises or is
\* cancelled and wherever run() is stopped and started again, an event that the
\* position of a projection has passed is in its read model.  Both premises on
\* the use of the runner are needed: positions are sequence numbers of single
\* aggregates (the run runner_two_aggregates), and a handler that reset_all()
\* overtakes moves its position past events that were taken back.
THEOREM NothingLost ==
  ASSUME RunnerAssumption, OneAggregate, ~ResetsInRun
  PROVE  RunnerSpec => []NothingLostBehindPosition
<1>1. RunnerInv => NothingLostBehindPosition
  BY DEF RunnerInv
<1> QED
  BY <1>1, Invariance, PTL

\* A projection receives the events in the order of the store, and a second
\* time only the one whose handler was interrupted, before any that follows.
THEOREM InOrder ==
  ASSUME RunnerAssumption, OneAggregate, ~ResetsInRun
  PROVE  RunnerSpec => []DeliveredInOrder
<1>1. RunnerInv => DeliveredInOrder
  BY DEF RunnerInv
<1> QED
  BY <1>1, Invariance, PTL

\* When run() turns from catching up to waiting, every event in the store that
\* a projection handles is in its read model, those appended meanwhile
\* included.
THEOREM CatchUpCompletes ==
  ASSUME RunnerAssumption, OneAggregate, ~ResetsInRun
  PROVE  RunnerSpec => CatchUpIsComplete
<1>1. ASSUME RunnerInv, RunnerNext, stage = "scan", stage' = "live"
      PROVE  \A p \in Projections : Relevant(p) \subseteq Range(delivered[p])
  <2>1. next > Len(allEvents)
    BY <1>1 DEF RunnerNext, CreateTask, Run, Start, Skip, Yield, Exhausted, Offer,
                OfferedToAll, Handled, LiveEnds, Cancel, Stop, ResetAll,
                Interrupted, Appended, Suspended, runVars
  <2> SUFFICES ASSUME NEW p \in Projections, NEW i \in Relevant(p)
               PROVE  i \in Range(delivered[p])
    OBVIOUS
  <2>2. i \in DOMAIN allEvents /\ allEvents[i].seq = i
    BY <1>1 DEF RunnerInv, NumberedByPlace, Relevant
  <2>3. /\ allEvents \in Seq(EventRecords) /\ next \in Nat
        /\ position[p] \in Nat
    BY <1>1 DEF RunnerInv, RunnerTypeOK, StoreTypeOK, RunnerAssumption
  <2>4. next - 1 <= position[p]
    BY <1>1 DEF RunnerInv, UpToDate
  <2>5. allEvents[i].seq <= position[p]
    BY <2>1, <2>2, <2>3, <2>4
  <2> QED
    BY <1>1, <2>5 DEF RunnerInv, NothingLostBehindPosition
<1>2. RunnerInv /\ [RunnerNext]_runnerVars =>
        [stage = "scan" /\ stage' = "live" =>
           \A p \in Projections :
             Relevant(p) \subseteq Range(delivered[p])]_runnerVars
  BY <1>1
<1> QED
  BY <1>2, Invariance, PTL DEF RunnerSpec, CatchUpIsComplete
-----------------------------------------------------------------------------
(* Replay *)

\* f holds the order after each of the events of a history.
Replays(f, order, history) ==
  /\ f[0] = order
  /\ \A n \in 1 .. Len(history) : f[n] = Apply(f[n - 1], history[n])

LEMMA ReplayIsDefined ==
  ASSUME NEW order, NEW history, Len(history) \in Nat
  PROVE  \E f : Replays(f, order, history) /\ Replay(order, history) = f[Len(history)]
<1> DEFINE Upto(f, m) == [n \in 0 .. m |-> IF n = 0 THEN order
                                            ELSE Apply(f[n - 1], history[n])]
           Undefined == {m \in Nat : ~ \E f : f = Upto(f, m)}
<1>1. Undefined = {}
  <2> SUFFICES ASSUME NEW k \in Undefined PROVE FALSE
    OBVIOUS
  <2>1. PICK m \in Undefined : \A n \in Undefined : m <= n
    BY SmallestOf
  <2>2. CASE m = 0
    <3>1. [n \in 0 .. 0 |-> order] = Upto([n \in 0 .. 0 |-> order], 0)
      OBVIOUS
    <3> QED
      BY <2>1, <2>2, <3>1
  <2>3. CASE m # 0
    <3>1. m \in Nat /\ m - 1 \in Nat /\ m - 1 \notin Undefined
      <4>1. m - 1 \in Nat /\ ~(m <= m - 1)
        BY <2>1, <2>3
      <4> HIDE DEF Undefined
      <4> QED
        BY <2>1, <4>1 DEF Undefined
    <3>2. PICK f : f = Upto(f, m - 1)
      BY <3>1
    <3> DEFINE g == [n \in 0 .. m |-> IF n = m THEN Apply(f[m - 1], history[m]) ELSE f[n]]
    <3>3. ASSUME NEW n \in 0 .. m
          PROVE  g[n] = IF n = 0 THEN order ELSE Apply(g[n - 1], history[n])
      <4>1. CASE n = m
        BY <2>3, <3>1, <4>1
      <4>2. CASE n # m
        <5>1. n \in 0 .. m - 1 /\ g[n] = f[n]
          BY <3>1, <4>2
        <5>2. f[n] = IF n = 0 THEN order ELSE Apply(f[n - 1], history[n])
          BY <3>2, <5>1
        <5>3. n # 0 => n - 1 \in 0 .. m /\ g[n - 1] = f[n - 1]
          BY <3>1, <4>2
        <5> QED
          BY <5>1, <5>2, <5>3
      <4> QED
        BY <4>1, <4>2
    <3>4. g = [n \in 0 .. m |-> g[n]]
      OBVIOUS
    <3> HIDE DEF g
    <3>5. g = Upto(g, m)
      BY <3>3, <3>4
    <3> QED
      BY <2>1, <3>5
  <2> QED
    BY <2>2, <2>3
<1>2. \E f : f = Upto(f, Len(history))
  BY <1>1
<1> DEFINE copy == CHOOSE f : f = Upto(f, Len(history))
<1>3. copy = Upto(copy, Len(history))
  BY <1>2
<1>4. Replay(order, history) = copy[Len(history)]
  BY DEF Replay
<1> HIDE DEF copy
<1>5. Replays(copy, order, history)
  BY <1>3 DEF Replays
<1> QED
  BY <1>4, <1>5

\* There is one way to replay a history.
LEMMA ReplayIs ==
  ASSUME NEW order, NEW history, Len(history) \in Nat,
         NEW f, Replays(f, order, history)
  PROVE  Replay(order, history) = f[Len(history)]
<1>1. PICK g : Replays(g, order, history) /\ Replay(order, history) = g[Len(history)]
  BY ReplayIsDefined
<1> DEFINE Differ == {n \in 0 .. Len(history) : f[n] # g[n]}
<1>2. ASSUME NEW k \in Differ PROVE FALSE
  <2>1. PICK m \in Differ : \A n \in Differ : m <= n
    <3>1. Differ \in SUBSET Nat /\ k \in Differ
      BY <1>2
    <3> QED
      BY <3>1, SmallestOf
  <2>2. m # 0
    BY <1>1, <2>1 DEF Replays
  <2>3. m - 1 \in 0 .. Len(history) /\ m - 1 \notin Differ
    BY <2>1, <2>2
  <2>4. f[m - 1] = g[m - 1] /\ m \in 1 .. Len(history)
    BY <2>1, <2>2, <2>3
  <2> QED
    BY <1>1, <2>1, <2>4 DEF Replays
<1> QED
  BY <1>1, <1>2

LEMMA ReplayNothing ==
  ASSUME NEW order, NEW history, Len(history) = 0
  PROVE  Replay(order, history) = order
BY ReplayIsDefined DEF Replays

\* A history that continues another, event by event of the same types.
LEMMA ReplayOn ==
  ASSUME NEW order, NEW first, NEW second, NEW whole,
         Len(first) \in Nat, Len(second) \in Nat,
         Len(whole) = Len(first) + Len(second),
         \A n \in 1 .. Len(first) : whole[n].type = first[n].type,
         \A n \in 1 .. Len(second) : whole[Len(first) + n].type = second[n].type
  PROVE  Replay(order, whole) = Replay(Replay(order, first), second)
<1> DEFINE k == Len(first)
<1>1. PICK f : Replays(f, order, first) /\ Replay(order, first) = f[k]
  BY ReplayIsDefined
<1>2. PICK g : /\ Replays(g, f[k], second)
               /\ Replay(f[k], second) = g[Len(second)]
  BY ReplayIsDefined
<1> DEFINE h == [n \in 0 .. Len(whole) |-> IF n <= k THEN f[n] ELSE g[n - k]]
<1>3. \A copy, e1, e2 : e1.type = e2.type => Apply(copy, e1) = Apply(copy, e2)
  BY DEF Apply
<1>4. ASSUME NEW n \in 1 .. Len(whole)
      PROVE  h[n] = Apply(h[n - 1], whole[n])
  <2>1. CASE n <= k
    <3>1. f[n] = Apply(f[n - 1], first[n]) /\ whole[n].type = first[n].type
      BY <1>1, <2>1 DEF Replays
    <3>2. h[n] = f[n] /\ h[n - 1] = f[n - 1]
      BY <2>1
    <3> HIDE DEF h
    <3> QED
      BY <1>3, <3>1, <3>2
  <2>2. CASE n > k
    <3> DEFINE j == n - k
    <3>1. j \in 1 .. Len(second) /\ n = k + j
      BY <2>2
    <3>2. g[j] = Apply(g[j - 1], second[j]) /\ whole[n].type = second[j].type
      BY <1>2, <3>1 DEF Replays
    <3>3. h[n] = g[j]
      BY <2>2
    <3>4. h[n - 1] = g[j - 1]
      <4>1. CASE n = k + 1
        BY <1>2, <4>1 DEF Replays
      <4>2. CASE n # k + 1
        BY <2>2, <4>2
      <4> QED
        BY <4>1, <4>2
    <3> HIDE DEF h, j
    <3> QED
      BY <1>3, <3>2, <3>3, <3>4
  <2> QED
    BY <2>1, <2>2
<1>5. h[0] = order
  BY <1>1 DEF Replays
<1>6. h[Len(whole)] = g[Len(second)]
  <2>1. CASE Len(second) = 0
    BY <1>2, <2>1 DEF Replays
  <2>2. CASE Len(second) # 0
    BY <2>2
  <2> QED
    BY <2>1, <2>2
<1> HIDE DEF h
<1>7. Replays(h, order, whole)
  BY <1>4, <1>5 DEF Replays
<1>8. Replay(order, whole) = h[Len(whole)]
  <2>1. Len(whole) \in Nat
    OBVIOUS
  <2> QED
    BY <1>7, <2>1, ReplayIs
<1> QED
  BY <1>1, <1>2, <1>6, <1>8

-----------------------------------------------------------------------------
(* Orders *)

Orders ==
  [id : Aggregates, status : Statuses, items : Nat, version : Nat,
   uncommitted : Seq(Events)]

\* An order but for its buffer.
Bare(order) == [order EXCEPT !.uncommitted = <<>>]

LEMMA SameOrder ==
  ASSUME NEW x \in Orders, NEW y \in Orders,
         x.id = y.id, x.status = y.status, x.items = y.items,
         x.version = y.version, x.uncommitted = y.uncommitted
  PROVE  x = y
BY DEF Orders

LEMMA BareKeeps ==
  ASSUME NEW order \in Orders
  PROVE  /\ Bare(order) \in Orders /\ Bare(order).uncommitted = <<>>
         /\ Bare(order).id = order.id /\ Bare(order).status = order.status
         /\ Bare(order).items = order.items /\ Bare(order).version = order.version
         /\ order.uncommitted = <<>> => Bare(order) = order
<1>1. <<>> \in Seq(Events)
  OBVIOUS
<1> QED
  BY <1>1 DEF Bare, Orders

LEMMA HandleKeeps ==
  ASSUME NEW order \in Orders, NEW type
  PROVE  /\ Handle(order, type) \in Orders
         /\ Handle(order, type).id = order.id
         /\ Handle(order, type).version = order.version
         /\ Handle(order, type).uncommitted = order.uncommitted
         /\ Handle(order, type).status = Handle(Bare(order), type).status
         /\ Handle(order, type).items = Handle(Bare(order), type).items
<1>1. CASE type = "item_added"
  BY <1>1, BareKeeps DEF Handle, Orders
<1>2. CASE type = "payment_submitted"
  BY <1>2, BareKeeps DEF Handle, Orders, Statuses
<1>3. CASE type = "payment_failed"
  BY <1>3, BareKeeps DEF Handle, Orders, Statuses
<1>4. CASE type = "order_shipped"
  BY <1>4, BareKeeps DEF Handle, Orders, Statuses
<1>5. CASE type \notin {"item_added", "payment_submitted", "payment_failed", "order_shipped"}
  BY <1>5, BareKeeps DEF Handle
<1> QED
  BY <1>1, <1>2, <1>3, <1>4, <1>5

LEMMA ApplyKeeps ==
  ASSUME NEW order \in Orders, NEW event
  PROVE  /\ Apply(order, event) \in Orders
         /\ Apply(order, event).id = order.id
         /\ Apply(order, event).version = order.version + 1
         /\ Apply(order, event).uncommitted = order.uncommitted
         /\ Bare(Apply(order, event)) = Apply(Bare(order), event)
<1> DEFINE handled(o) == Handle(o, event.type)
<1>1. \A o \in Orders : /\ Apply(o, event) \in Orders
                        /\ Apply(o, event).id = o.id
                        /\ Apply(o, event).version = o.version + 1
                        /\ Apply(o, event).uncommitted = o.uncommitted
                        /\ Apply(o, event).status = handled(o).status
                        /\ Apply(o, event).items = handled(o).items
  <2> SUFFICES ASSUME NEW o \in Orders
               PROVE  /\ Apply(o, event) \in Orders
                      /\ Apply(o, event).id = o.id
                      /\ Apply(o, event).version = o.version + 1
                      /\ Apply(o, event).uncommitted = o.uncommitted
                      /\ Apply(o, event).status = handled(o).status
                      /\ Apply(o, event).items = handled(o).items
    OBVIOUS
  <2>1. handled(o) \in Orders /\ handled(o).id = o.id /\ handled(o).version = o.version
        /\ handled(o).uncommitted = o.uncommitted
    BY HandleKeeps
  <2>2. Apply(o, event) = [handled(o) EXCEPT !.version = handled(o).version + 1]
    BY DEF Apply
  <2> HIDE DEF handled
  <2> QED
    BY <2>1, <2>2 DEF Orders
<1>2. Apply(order, event) \in Orders /\ Bare(order) \in Orders
  BY <1>1, BareKeeps
<1>3. Bare(Apply(order, event)) \in Orders /\ Apply(Bare(order), event) \in Orders
  BY <1>1, <1>2, BareKeeps
<1>4. /\ handled(order).status = handled(Bare(order)).status
      /\ handled(order).items = handled(Bare(order)).items
  BY HandleKeeps
<1> HIDE DEF handled
<1>5. Bare(Apply(order, event)) = Apply(Bare(order), event)
  BY <1>1, <1>2, <1>3, <1>4, BareKeeps, SameOrder
<1> QED
  BY <1>1, <1>5

\* Replay counts the events and leaves the buffer alone.
LEMMA ReplayKeeps ==
  ASSUME NEW order \in Orders, NEW history, Len(history) \in Nat
  PROVE  /\ Replay(order, history) \in Orders
         /\ Replay(order, history).id = order.id
         /\ Replay(order, history).version = order.version + Len(history)
         /\ Replay(order, history).uncommitted = order.uncommitted
<1>1. PICK f : Replays(f, order, history) /\ Replay(order, history) = f[Len(history)]
  BY ReplayIsDefined
<1> DEFINE Keeps(n) == /\ f[n] \in Orders /\ f[n].id = order.id
                       /\ f[n].version = order.version + n
                       /\ f[n].uncommitted = order.uncommitted
           Bad == {n \in 0 .. Len(history) : ~ Keeps(n)}
<1>2. ASSUME NEW k \in Bad PROVE FALSE
  <2>1. PICK m \in Bad : \A n \in Bad : m <= n
    <3>1. Bad \in SUBSET Nat /\ k \in Bad
      BY <1>2
    <3> QED
      BY <3>1, SmallestOf
  <2>2. m # 0
    <3>1. Keeps(0)
      BY <1>1 DEF Replays, Orders
    <3> QED
      BY <2>1, <3>1
  <2>3. m \in 1 .. Len(history) /\ m - 1 \in 0 .. Len(history) /\ ~(m <= m - 1)
    BY <2>1, <2>2
  <2>4. Keeps(m - 1)
    <3>1. m - 1 \notin Bad
      BY <2>1, <2>3
    <3> QED
      BY <2>3, <3>1
  <2>5. f[m] = Apply(f[m - 1], history[m])
    BY <1>1, <2>3 DEF Replays
  <2>6. Keeps(m)
    BY <2>3, <2>4, <2>5, ApplyKeeps DEF Orders
  <2> QED
    BY <2>1, <2>6
<1>3. Keeps(Len(history))
  BY <1>2
<1> QED
  BY <1>1, <1>3

LEMMA ReplayOne ==
  ASSUME NEW order, NEW history, NEW event, Len(history) \in Nat,
         history \in Seq(Events), event \in Events
  PROVE  Replay(order, Append(history, event)) = Apply(Replay(order, history), event)
<1> DEFINE before == Replay(order, history)
           f == [n \in 0 .. 1 |-> IF n = 0 THEN before ELSE Apply(before, event)]
<1>1. Len(<<event>>) = 1 /\ <<event>>[1] = event
  OBVIOUS
<1>2. Replays(f, before, <<event>>)
  BY <1>1 DEF Replays
<1>3. Replay(before, <<event>>) = f[1]
  BY <1>1, <1>2, ReplayIs
<1>4. /\ Len(Append(history, event)) = Len(history) + 1
      /\ \A n \in 1 .. Len(history) : Append(history, event)[n] = history[n]
      /\ Append(history, event)[Len(history) + 1] = event
  OBVIOUS
<1> DEFINE whole == Append(history, event)
           one == <<event>>
<1>5. Replay(order, whole) = Replay(before, one)
  <2>1. \A n \in 1 .. Len(one) : whole[Len(history) + n].type = one[n].type
    <3> SUFFICES whole[Len(history) + 1].type = one[1].type
      BY <1>1
    <3> QED
      BY <1>1, <1>4
  <2>2. /\ Len(whole) = Len(history) + Len(one) /\ Len(one) \in Nat
        /\ \A n \in 1 .. Len(history) : whole[n].type = history[n].type
    BY <1>1, <1>4
  <2> HIDE DEF whole, one
  <2> QED
    BY <2>1, <2>2, ReplayOn
<1> QED
  BY <1>3, <1>5

-----------------------------------------------------------------------------
(* Histories *)

\* What the property says of the n-th event of a history.
LegalAt(n, event, status) ==
  /\ event.type = "order_created" <=> n = 1
  /\ event.type \in {"payment_submitted", "order_shipped"} => Allowed(event.type, status)
  /\ event.version = n

\* The state of an order after n events of a history.
AfterOf(history, a, n) == Replay(NewOrder(a), SubSeq(history, 1, n))

LegalHistory(history, a) ==
  \A i \in DOMAIN history : LegalAt(i, history[i], AfterOf(history, a, i - 1).status)

\* A copy agrees with the history of its order, ...
Agrees(order, history) ==
  order.version > 0 =>
    /\ ExpectedVersion(order) \in 0 .. Len(history)
    /\ Bare(order) = Replay(AfterOf(history, order.id, ExpectedVersion(order)),
                            order.uncommitted)

\* ... and buffers what that history, as it was loaded, allows next: saved at the
\* version it was loaded at, the buffer is legal.
BufferIsLegal(order, history) ==
  /\ order.version = 0 => order.uncommitted = <<>>
  /\ \A j \in DOMAIN order.uncommitted :
       LegalAt(ExpectedVersion(order) + j, order.uncommitted[j],
               Replay(AfterOf(history, order.id, ExpectedVersion(order)),
                      SubSeq(order.uncommitted, 1, j - 1)).status)

OrderInv ==
  /\ OrderTypeOK /\ ListsAgree
  /\ \A a \in Aggregates : LegalHistory(events[a], a)
  /\ \A c \in Clients : /\ Agrees(orders[c], events[orders[c].id])
                        /\ BufferIsLegal(orders[c], events[orders[c].id])

LEMMA InvIsEnough ==
  ASSUME OrderInv
  PROVE  HistoryIsLegal /\ CopyAgreesWithHistory
<1>1. HistoryIsLegal
  BY DEF OrderInv, HistoryIsLegal, LegalHistory, LegalAt, AfterOf, After, LoadFromHistory
<1>2. CopyAgreesWithHistory
  BY DEF OrderInv, CopyAgreesWithHistory, Agrees, Bare, AfterOf, After, LoadFromHistory,
         GetCurrentVersion
<1> QED
  BY <1>1, <1>2

\* get_events() from 0 is the whole history.
LEMMA GetsAll ==
  ASSUME StoreTypeOK, ListsAgree, NEW a \in Aggregates
  PROVE  GetEvents(a, 0) = events[a]
<1> DEFINE n == Len(events[a])
           kept == {i \in DOMAIN events[a] : events[a][i].seq >= 0}
           place(k) == CHOOSE i \in kept : Cardinality({j \in kept : j <= i}) = k
<1>1. n \in Nat /\ DOMAIN events[a] = 1 .. n /\ events[a] \in Seq(EventRecords)
  BY DEF StoreTypeOK
<1>2. kept = 1 .. n
  BY <1>1 DEF ListsAgree
<1>3. Cardinality(kept) = n
  <2>1. Cardinality(1 .. n) = n
    BY <1>1, FS_Interval
  <2> QED
    BY <1>2, <2>1
<1>4. \A i \in kept : Cardinality({j \in kept : j <= i}) = i
  <2> SUFFICES ASSUME NEW i \in kept
               PROVE  Cardinality({j \in kept : j <= i}) = i
    OBVIOUS
  <2>1. {j \in kept : j <= i} = 1 .. i /\ i \in Nat
    BY <1>1, <1>2
  <2>2. Cardinality(1 .. i) = i
    BY <2>1, FS_Interval
  <2> QED
    BY <2>1, <2>2
<1>5. GetEvents(a, 0) = [k \in 1 .. Cardinality(kept) |-> events[a][place(k)]]
  BY DEF GetEvents
<1> HIDE DEF kept
<1>6. \A k \in 1 .. n : place(k) = k
  BY <1>2, <1>4
<1>7. GetEvents(a, 0) = [k \in 1 .. n |-> events[a][k]]
  BY <1>3, <1>5, <1>6
<1> QED
  BY <1>1, <1>7

LEMMA NewOrderIsOrder ==
  ASSUME NEW a \in Aggregates
  PROVE  /\ NewOrder(a) \in Orders /\ NewOrder(a).id = a
         /\ NewOrder(a).version = 0 /\ NewOrder(a).uncommitted = <<>>
         /\ Bare(NewOrder(a)) = NewOrder(a)
<1>1. <<>> \in Seq(Events)
  OBVIOUS
<1>2. /\ NewOrder(a) \in Orders /\ NewOrder(a).id = a
      /\ NewOrder(a).version = 0 /\ NewOrder(a).uncommitted = <<>>
  BY <1>1 DEF NewOrder, Orders, Statuses
<1> QED
  BY <1>2, BareKeeps

\* The state after the events of a history that has been extended.
LEMMA AfterExtended ==
  ASSUME NEW S, NEW history \in Seq(S), NEW records \in Seq(S), NEW a
  PROVE  /\ \A n \in 0 .. Len(history) :
              AfterOf(history \o records, a, n) = AfterOf(history, a, n)
         /\ \A j \in 0 .. Len(records) :
              AfterOf(history \o records, a, Len(history) + j) =
                Replay(AfterOf(history, a, Len(history)), SubSeq(records, 1, j))
<1> DEFINE whole == history \o records
<1>1. /\ whole \in Seq(S) /\ Len(whole) = Len(history) + Len(records)
      /\ \A n \in 1 .. Len(history) : whole[n] = history[n]
      /\ \A n \in 1 .. Len(records) : whole[Len(history) + n] = records[n]
      /\ Len(history) \in Nat /\ Len(records) \in Nat
  OBVIOUS
<1>2. \A n \in 0 .. Len(history) : SubSeq(whole, 1, n) = SubSeq(history, 1, n)
  BY <1>1
<1>3. ASSUME NEW j \in 0 .. Len(records)
      PROVE  Replay(NewOrder(a), SubSeq(whole, 1, Len(history) + j)) =
               Replay(AfterOf(history, a, Len(history)), SubSeq(records, 1, j))
  <2> DEFINE first == SubSeq(history, 1, Len(history))
             second == SubSeq(records, 1, j)
             both == SubSeq(whole, 1, Len(history) + j)
  <2>1. /\ Len(first) = Len(history) /\ Len(second) = j
        /\ Len(both) = Len(history) + j /\ j \in Nat
        /\ \A n \in 1 .. Len(history) : both[n].type = first[n].type
        /\ \A n \in 1 .. j : both[Len(history) + n].type = second[n].type
    BY <1>1
  <2> HIDE DEF first, second, both, whole
  <2>2. /\ Len(first) \in Nat /\ Len(second) \in Nat
        /\ Len(both) = Len(first) + Len(second)
        /\ \A n \in 1 .. Len(first) : both[n].type = first[n].type
        /\ \A n \in 1 .. Len(second) : both[Len(first) + n].type = second[n].type
    BY <1>1, <2>1
  <2>3. Replay(NewOrder(a), both) = Replay(Replay(NewOrder(a), first), second)
    BY <2>2, ReplayOn
  <2> QED
    BY <2>3 DEF AfterOf, first, second, both, whole
<1> HIDE DEF whole
<1> QED
  BY <1>2, <1>3 DEF AfterOf, whole

LEMMA AfterKeeps ==
  ASSUME NEW a \in Aggregates, NEW S, NEW history \in Seq(S), NEW n \in 0 .. Len(history)
  PROVE  /\ AfterOf(history, a, n) \in Orders /\ AfterOf(history, a, n).id = a
         /\ AfterOf(history, a, n).version = n
         /\ AfterOf(history, a, n).uncommitted = <<>>
<1> DEFINE first == SubSeq(history, 1, n)
<1>1. Len(first) = n /\ n \in Nat
  OBVIOUS
<1> HIDE DEF first
<1>2. NewOrder(a) \in Orders /\ NewOrder(a).id = a
      /\ NewOrder(a).version = 0 /\ NewOrder(a).uncommitted = <<>>
  BY NewOrderIsOrder
<1>3. AfterOf(history, a, n) = Replay(NewOrder(a), first)
  BY DEF AfterOf, first
<1> QED
  BY <1>1, <1>2, <1>3, ReplayKeeps

LEMMA InitOrders ==
  ASSUME OrderAssumption, OrderInit
  PROVE  OrderInv
<1>1. StoreTypeOK /\ ListsAgree
  BY StoreInitLists DEF OrderInit
<1>2. NoOrder \in Orders /\ NoOrder.version = 0 /\ NoOrder.uncommitted = <<>>
  <2>1. (CHOOSE a \in Aggregates : TRUE) \in Aggregates
    BY DEF OrderAssumption
  <2> QED
    BY <2>1, NewOrderIsOrder DEF NoOrder
<1>3. OrderTypeOK
  BY <1>1, <1>2 DEF OrderInit, OrderTypeOK, Orders
<1>4. \A a \in Aggregates : LegalHistory(events[a], a)
  BY DEF OrderInit, StoreInit, LegalHistory
<1>5. \A c \in Clients : /\ Agrees(orders[c], events[orders[c].id])
                         /\ BufferIsLegal(orders[c], events[orders[c].id])
  BY <1>2 DEF OrderInit, Agrees, BufferIsLegal
<1> QED
  BY <1>1, <1>3, <1>4, <1>5 DEF OrderInv

\* create_event() and apply_event() together.
LEMMA RaiseKeeps ==
  ASSUME OrderAssumption, NEW order \in Orders, NEW type \in OrderEvents
  PROVE  /\ CreateEvent(order, type) \in Events
         /\ Raise(order, type) \in Orders
         /\ Raise(order, type).id = order.id
         /\ Raise(order, type).version = order.version + 1
         /\ Raise(order, type).uncommitted =
              Append(order.uncommitted, CreateEvent(order, type))
         /\ Bare(Raise(order, type)) = Apply(Bare(order), CreateEvent(order, type))
<1> DEFINE event == CreateEvent(order, type)
           live == Apply(order, event)
<1>1. event \in Events
  BY DEF CreateEvent, Events, OrderAssumption, Orders
<1>2. /\ live \in Orders /\ live.id = order.id /\ live.version = order.version + 1
      /\ live.uncommitted = order.uncommitted /\ Bare(live) = Apply(Bare(order), event)
  BY ApplyKeeps
<1>3. Raise(order, type) = [live EXCEPT !.uncommitted = Append(live.uncommitted, event)]
  BY DEF Raise
<1> HIDE DEF event, live
<1>4. Append(live.uncommitted, event) \in Seq(Events)
  BY <1>1, <1>2 DEF Orders
<1>5. /\ Raise(order, type) \in Orders
      /\ Raise(order, type).id = live.id /\ Raise(order, type).version = live.version
      /\ Raise(order, type).status = live.status /\ Raise(order, type).items = live.items
      /\ Raise(order, type).uncommitted = Append(live.uncommitted, event)
  BY <1>2, <1>3, <1>4 DEF Orders
<1>6. Bare(Raise(order, type)) = Bare(live)
  BY <1>2, <1>5, BareKeeps, SameOrder
<1> QED
  BY <1>1, <1>2, <1>5, <1>6 DEF event

\* A command on a copy that agrees leaves one that agrees.
LEMMA RaiseAgrees ==
  ASSUME OrderAssumption, NEW order \in Orders, NEW type \in OrderEvents, NEW history,
         ExpectedVersion(order) \in 0 .. Len(history),
         Bare(order) = Replay(AfterOf(history, order.id, ExpectedVersion(order)),
                              order.uncommitted),
         BufferIsLegal(order, history),
         LegalAt(order.version + 1, CreateEvent(order, type), order.status)
  PROVE  /\ Agrees(Raise(order, type), history)
         /\ BufferIsLegal(Raise(order, type), history)
<1> DEFINE event == CreateEvent(order, type)
           new == Raise(order, type)
           loaded == AfterOf(history, order.id, ExpectedVersion(order))
           unc == order.uncommitted
           k == Len(unc)
<1>1. /\ new.id = order.id /\ new.version = order.version + 1
      /\ new.uncommitted = Append(unc, event) /\ Bare(new) = Apply(Bare(order), event)
      /\ event \in Events
  BY RaiseKeeps
<1>2. /\ unc \in Seq(Events) /\ k \in Nat /\ order.version \in Nat
      /\ Len(Append(unc, event)) = k + 1
      /\ Append(unc, event)[k + 1] = event
      /\ \A j \in 1 .. k : Append(unc, event)[j] = unc[j]
      /\ DOMAIN Append(unc, event) = 1 .. k + 1 /\ DOMAIN unc = 1 .. k
  BY <1>1 DEF Orders
<1>3. ExpectedVersion(new) = ExpectedVersion(order)
      /\ ExpectedVersion(order) + (k + 1) = order.version + 1
      /\ new.version # 0
  <2>1. Len(new.uncommitted) = k + 1
    BY <1>1, <1>2
  <2>2. ExpectedVersion(order) = order.version - k
    BY DEF ExpectedVersion
  <2>3. ExpectedVersion(new) = (order.version + 1) - (k + 1)
    BY <1>1, <2>1 DEF ExpectedVersion
  <2> HIDE DEF new, k
  <2> QED
    BY <1>1, <1>2, <2>2, <2>3
<1>4. Agrees(new, history)
  <2>1. Replay(loaded, Append(unc, event)) = Apply(Replay(loaded, unc), event)
    BY <1>1, <1>2, ReplayOne
  <2> QED
    BY <1>1, <1>3, <2>1 DEF Agrees
<1>5. BufferIsLegal(new, history)
  <2> SUFFICES ASSUME NEW j \in 1 .. k + 1
               PROVE  LegalAt(ExpectedVersion(order) + j, Append(unc, event)[j],
                              Replay(loaded, SubSeq(Append(unc, event), 1, j - 1)).status)
    BY <1>1, <1>2, <1>3 DEF BufferIsLegal
  <2>1. SubSeq(Append(unc, event), 1, j - 1) = SubSeq(unc, 1, j - 1)
    BY <1>1, <1>2
  <2>2. CASE j \in 1 .. k
    BY <1>2, <2>1, <2>2 DEF BufferIsLegal
  <2>3. CASE j = k + 1
    <3>1. SubSeq(unc, 1, j - 1) = unc
      BY <1>2, <2>3
    <3>2. Replay(loaded, unc).status = order.status
      BY BareKeeps
    <3> QED
      BY <1>2, <1>3, <2>1, <2>3, <3>1, <3>2
  <2> QED
    BY <1>2, <2>2, <2>3
<1> QED
  BY <1>4, <1>5

\* What a client does to its copy alone.
LEMMA CopyStep ==
  ASSUME OrderInv, NEW c \in Clients, NEW new \in Orders,
         orders' = [orders EXCEPT ![c] = new], UNCHANGED storeVars,
         Agrees(new, events[new.id]), BufferIsLegal(new, events[new.id])
  PROVE  OrderInv'
<1>1. events' = events /\ allEvents' = allEvents
  BY DEF storeVars
<1>2. /\ \A d \in Clients : orders'[d] = IF d = c THEN new ELSE orders[d]
      /\ OrderTypeOK'
  BY <1>1 DEF OrderInv, OrderTypeOK, StoreTypeOK, Orders
<1>3. ListsAgree'
  BY <1>1 DEF OrderInv, ListsAgree, CountOf
<1>4. \A a \in Aggregates : LegalHistory(events'[a], a)
  BY <1>1 DEF OrderInv
<1>5. \A d \in Clients : /\ Agrees(orders'[d], events'[orders'[d].id])
                         /\ BufferIsLegal(orders'[d], events'[orders'[d].id])
  BY <1>1, <1>2 DEF OrderInv
<1> QED
  BY <1>2, <1>3, <1>4, <1>5 DEF OrderInv

LEMMA CopyIsOrder ==
  ASSUME OrderInv, NEW c \in Clients
  PROVE  /\ orders[c] \in Orders /\ orders[c].id \in Aggregates
         /\ orders[c].uncommitted \in Seq(Events)
         /\ orders[c].version \in Nat
         /\ Agrees(orders[c], events[orders[c].id])
         /\ BufferIsLegal(orders[c], events[orders[c].id])
<1>1. orders[c] \in Orders
  BY DEF OrderInv, OrderTypeOK, Orders
<1> QED
  BY <1>1 DEF OrderInv, Orders

LEMMA CreateInv ==
  ASSUME OrderAssumption, OrderInv, NEW c \in Clients, NEW a \in Aggregates, Create(c, a)
  PROVE  OrderInv'
<1> DEFINE order == NewOrder(a)
           history == events[a]
<1>1. /\ order \in Orders /\ order.id = a /\ order.version = 0
      /\ order.uncommitted = <<>> /\ Bare(order) = order
  BY NewOrderIsOrder
<1>2. "order_created" \in OrderEvents
  BY DEF OrderEvents
<1>3. Len(history) \in Nat /\ history \in Seq(EventRecords)
  BY DEF OrderInv, OrderTypeOK, StoreTypeOK
<1>4. ExpectedVersion(order) = 0
  <2>1. Len(order.uncommitted) = 0
    BY <1>1
  <2>2. order.version = 0
    BY <1>1
  <2> HIDE DEF order
  <2> QED
    BY <2>1, <2>2 DEF ExpectedVersion
<1>5. Replay(AfterOf(history, a, 0), <<>>) = order
  <2>1. Len(SubSeq(history, 1, 0)) = 0 /\ Len(<<>>) = 0
    BY <1>3
  <2> QED
    BY <2>1, ReplayNothing DEF AfterOf
<1>6. BufferIsLegal(order, history)
  BY <1>1 DEF BufferIsLegal
<1>7. LegalAt(order.version + 1, CreateEvent(order, "order_created"), order.status)
  BY <1>1 DEF LegalAt, CreateEvent
<1>8. /\ orders' = [orders EXCEPT ![c] = Raise(order, "order_created")]
      /\ UNCHANGED storeVars
  BY DEF Create
<1> HIDE DEF order
<1>9. /\ Agrees(Raise(order, "order_created"), history)
      /\ BufferIsLegal(Raise(order, "order_created"), history)
  BY <1>1, <1>2, <1>3, <1>4, <1>5, <1>6, <1>7, RaiseAgrees
<1>10. Raise(order, "order_created") \in Orders /\ Raise(order, "order_created").id = a
  BY <1>1, <1>2, RaiseKeeps
<1> QED
  BY <1>8, <1>9, <1>10, CopyStep

LEMMA LoadInv ==
  ASSUME OrderAssumption, OrderInv, NEW c \in Clients, NEW a \in Aggregates, Load(c, a)
  PROVE  OrderInv'
<1> DEFINE history == events[a]
           new == LoadFromHistory(a, history)
<1>1. history \in Seq(EventRecords) /\ Len(history) \in Nat
  BY DEF OrderInv, OrderTypeOK, StoreTypeOK
<1>2. orders' = [orders EXCEPT ![c] = new] /\ UNCHANGED storeVars
  BY GetsAll DEF Load, OrderInv, OrderTypeOK
<1>3. new = AfterOf(history, a, Len(history))
  <2>1. SubSeq(history, 1, Len(history)) = history
    BY <1>1
  <2> QED
    BY <2>1 DEF AfterOf, LoadFromHistory
<1>4. /\ new \in Orders /\ new.id = a /\ new.version = Len(history)
      /\ new.uncommitted = <<>>
  <2>1. Len(history) \in 0 .. Len(history)
    BY <1>1
  <2> HIDE DEF new, history
  <2> QED
    BY <1>1, <1>3, <2>1, AfterKeeps
<1>5. Agrees(new, history)
  <2>1. ExpectedVersion(new) = Len(history)
    BY <1>1, <1>4 DEF ExpectedVersion
  <2>2. Bare(new) = new /\ Replay(new, <<>>) = new
    <3>1. Len(<<>>) = 0
      OBVIOUS
    <3> QED
      BY <1>4, <3>1, BareKeeps, ReplayNothing
  <2> QED
    BY <1>1, <1>3, <1>4, <2>1, <2>2 DEF Agrees
<1>6. BufferIsLegal(new, history)
  BY <1>4 DEF BufferIsLegal
<1> HIDE DEF new
<1> QED
  BY <1>2, <1>4, <1>5, <1>6, CopyStep

LEMMA CommandInv ==
  ASSUME OrderAssumption, OrderInv, NEW c \in Clients, NEW type \in OrderEvents,
         Command(c, type)
  PROVE  OrderInv'
<1> DEFINE order == orders[c]
           history == events[order.id]
<1>1. /\ order \in Orders /\ Agrees(order, history) /\ BufferIsLegal(order, history)
      /\ order.version \in Nat
  BY CopyIsOrder
<1>2. /\ order.version > 0 /\ Allowed(type, order.status)
      /\ orders' = [orders EXCEPT ![c] = Raise(order, type)]
      /\ UNCHANGED storeVars
  BY <1>1 DEF Command, OrderAssumption
<1>3. type # "order_created"
  BY <1>2 DEF Allowed
<1>4. LegalAt(order.version + 1, CreateEvent(order, type), order.status)
  BY <1>1, <1>2, <1>3 DEF LegalAt, CreateEvent
<1>5. /\ ExpectedVersion(order) \in 0 .. Len(history)
      /\ Bare(order) = Replay(AfterOf(history, order.id, ExpectedVersion(order)),
                              order.uncommitted)
  BY <1>1, <1>2 DEF Agrees
<1> HIDE DEF order
<1>6. Agrees(Raise(order, type), history) /\ BufferIsLegal(Raise(order, type), history)
  BY <1>1, <1>4, <1>5, RaiseAgrees
<1>7. Raise(order, type) \in Orders /\ Raise(order, type).id = order.id
  BY <1>1, RaiseKeeps
<1> QED
  BY <1>2, <1>6, <1>7, CopyStep

LEMMA DropInv ==
  ASSUME OrderAssumption, OrderInv, NEW c \in Clients, Drop(c)
  PROVE  OrderInv'
<1>1. NoOrder \in Orders /\ NoOrder.version = 0 /\ NoOrder.uncommitted = <<>>
  <2>1. (CHOOSE a \in Aggregates : TRUE) \in Aggregates
    BY DEF OrderAssumption
  <2> QED
    BY <2>1, NewOrderIsOrder DEF NoOrder
<1>2. /\ Agrees(NoOrder, events[NoOrder.id])
      /\ BufferIsLegal(NoOrder, events[NoOrder.id])
  BY <1>1 DEF Agrees, BufferIsLegal
<1> QED
  BY <1>1, <1>2, CopyStep DEF Drop

\* A batch that the history allows next keeps it legal, and the copies that
\* have been loaded from it agree with it as before.
LEMMA HistoryExtends ==
  ASSUME OrderInv, NEW a \in Aggregates, NEW batch \in Seq(Events), Store(a, batch),
         \A j \in DOMAIN batch :
           LegalAt(Len(events[a]) + j, batch[j],
                   Replay(AfterOf(events[a], a, Len(events[a])),
                          SubSeq(batch, 1, j - 1)).status)
  PROVE  /\ StoreTypeOK' /\ ListsAgree'
         /\ \A b \in Aggregates : LegalHistory(events'[b], b)
         /\ \A b \in Aggregates :
              /\ events'[b] \in Seq(EventRecords)
              /\ Len(events[b]) <= Len(events'[b])
              /\ \A n \in 0 .. Len(events[b]) :
                   AfterOf(events'[b], b, n) = AfterOf(events[b], b, n)
         /\ Len(events'[a]) = Len(events[a]) + Len(batch)
         /\ AfterOf(events'[a], a, Len(events[a]) + Len(batch)) =
              Replay(AfterOf(events[a], a, Len(events[a])), batch)
<1> DEFINE records == Records(a, batch)
           k == Len(events[a])
           latest == AfterOf(events[a], a, k)
<1>1. /\ StoreTypeOK /\ Extends(a, records) /\ Len(records) = Len(batch)
      /\ records \in Seq(EventRecords)
  <2>1. StoreTypeOK
    BY DEF OrderInv, OrderTypeOK
  <2> QED
    BY <2>1, StoreExtends DEF Extends
<1>2. /\ events[a] \in Seq(EventRecords) /\ k \in Nat /\ Len(batch) \in Nat
      /\ DOMAIN batch = 1 .. Len(batch)
      /\ events'[a] = events[a] \o records
      /\ \A b \in Aggregates \ {a} : events'[b] = events[b]
      /\ \A b \in Aggregates : events[b] \in Seq(EventRecords)
  BY <1>1 DEF StoreTypeOK, Extends
<1>3. \A j \in 1 .. Len(batch) : /\ records[j].type = batch[j].type
                                 /\ records[j].version = batch[j].version
  BY <1>2 DEF Records
<1>4. StoreTypeOK' /\ ListsAgree'
  BY <1>1, Extended, ExtendsLists DEF OrderInv
<1> HIDE DEF records
<1>5. /\ Len(events'[a]) = k + Len(batch) /\ events'[a] \in Seq(EventRecords)
      /\ \A i \in 1 .. k : events'[a][i] = events[a][i]
      /\ \A j \in 1 .. Len(batch) : events'[a][k + j] = records[j]
  <2> DEFINE past == events[a]
             whole == past \o records
  <2>1. past \in Seq(EventRecords) /\ records \in Seq(EventRecords)
    BY <1>1, <1>2
  <2>2. /\ whole \in Seq(EventRecords) /\ Len(whole) = Len(past) + Len(records)
        /\ \A i \in 1 .. Len(past) : whole[i] = past[i]
        /\ \A j \in 1 .. Len(records) : whole[Len(past) + j] = records[j]
    <3> HIDE DEF past
    <3> QED
      BY <2>1
  <2>3. events'[a] = whole /\ k = Len(past) /\ Len(records) = Len(batch)
    BY <1>1, <1>2
  <2> HIDE DEF whole, k
  <2> QED
    BY <2>2, <2>3
<1>6. /\ \A n \in 0 .. k : AfterOf(events'[a], a, n) = AfterOf(events[a], a, n)
      /\ \A j \in 0 .. Len(batch) :
           AfterOf(events'[a], a, k + j) = Replay(latest, SubSeq(records, 1, j))
  BY <1>1, <1>2, AfterExtended
<1>7. ASSUME NEW j \in 0 .. Len(batch)
      PROVE  Replay(latest, SubSeq(records, 1, j)) = Replay(latest, SubSeq(batch, 1, j))
  <2> DEFINE whole == SubSeq(records, 1, j)
             second == SubSeq(batch, 1, j)
             none == <<>>
  <2>1. /\ Len(whole) = j /\ Len(second) = j /\ j \in Nat /\ Len(none) = 0
        /\ \A n \in 1 .. j : whole[n].type = second[n].type
    BY <1>1, <1>2, <1>3
  <2> HIDE DEF whole, second, none, latest
  <2>2. Len(whole) = Len(none) + Len(second) /\ Len(none) \in Nat /\ Len(second) \in Nat
    BY <2>1
  <2>3. \A n \in 1 .. Len(none) : whole[n].type = none[n].type
    BY <2>1
  <2>4. \A n \in 1 .. Len(second) : whole[Len(none) + n].type = second[n].type
    BY <2>1
  <2>5. Replay(latest, whole) = Replay(Replay(latest, none), second)
    BY <2>2, <2>3, <2>4, ReplayOn
  <2> QED
    BY <2>1, <2>5, ReplayNothing DEF whole, second
<1>8. AfterOf(events'[a], a, k + Len(batch)) = Replay(latest, batch)
  <2>1. SubSeq(batch, 1, Len(batch)) = batch /\ Len(batch) \in 0 .. Len(batch)
    BY <1>2
  <2> QED
    BY <1>6, <1>7, <2>1
<1>9. LegalHistory(events'[a], a)
  <2> SUFFICES ASSUME NEW i \in 1 .. k + Len(batch)
               PROVE  LegalAt(i, events'[a][i], AfterOf(events'[a], a, i - 1).status)
    BY <1>5 DEF LegalHistory
  <2>1. CASE i \in 1 .. k
    <3>1. i \in DOMAIN events[a] /\ i - 1 \in 0 .. k
      BY <1>2, <2>1
    <3>2. LegalAt(i, events[a][i], AfterOf(events[a], a, i - 1).status)
      BY <3>1 DEF OrderInv, LegalHistory
    <3> QED
      BY <1>5, <1>6, <2>1, <3>1, <3>2
  <2>2. CASE i \notin 1 .. k
    <3> DEFINE j == i - k
    <3>1. j \in 1 .. Len(batch) /\ i = k + j /\ j - 1 \in 0 .. Len(batch)
          /\ i - 1 = k + (j - 1)
      BY <1>2, <2>2
    <3> HIDE DEF j, k, latest
    <3>2. AfterOf(events'[a], a, i - 1) = Replay(latest, SubSeq(batch, 1, j - 1))
      BY <1>6, <1>7, <3>1
    <3>3. LegalAt(k + j, batch[j], Replay(latest, SubSeq(batch, 1, j - 1)).status)
      BY <1>2, <3>1 DEF k, latest
    <3>4. events'[a][i] = records[j]
      BY <1>5, <3>1
    <3> QED
      BY <1>3, <3>1, <3>2, <3>3, <3>4 DEF LegalAt
  <2> QED
    BY <2>1, <2>2
<1>10. \A b \in Aggregates \ {a} : LegalHistory(events'[b], b)
  BY <1>2 DEF OrderInv
<1>11. ASSUME NEW b \in Aggregates
       PROVE  /\ events'[b] \in Seq(EventRecords) /\ Len(events[b]) <= Len(events'[b])
              /\ \A n \in 0 .. Len(events[b]) :
                   AfterOf(events'[b], b, n) = AfterOf(events[b], b, n)
  <2>1. CASE b = a
    <3>1. Len(events[b]) = k /\ events'[b] = events'[a] /\ events[b] = events[a]
      BY <2>1
    <3>2. Len(events[a]) <= Len(events'[a])
      BY <1>2, <1>5
    <3>3. /\ events'[a] \in Seq(EventRecords)
          /\ \A n \in 0 .. k : AfterOf(events'[a], a, n) = AfterOf(events[a], a, n)
      BY <1>5, <1>6
    <3> HIDE DEF k
    <3> QED
      BY <2>1, <3>1, <3>2, <3>3
  <2>2. CASE b # a
    BY <1>2, <2>2
  <2> QED
    BY <2>1, <2>2
<1> QED
  BY <1>4, <1>5, <1>8, <1>9, <1>10, <1>11

\* A copy does not notice that the history goes on.
LEMMA StillAgrees ==
  ASSUME NEW order \in Orders, NEW S, NEW history \in Seq(S), NEW longer \in Seq(S),
         Agrees(order, history), BufferIsLegal(order, history),
         Len(history) <= Len(longer),
         \A n \in 0 .. Len(history) :
           AfterOf(longer, order.id, n) = AfterOf(history, order.id, n)
  PROVE  Agrees(order, longer) /\ BufferIsLegal(order, longer)
<1>1. CASE order.version = 0
  BY <1>1 DEF Agrees, BufferIsLegal
<1>2. CASE order.version # 0
  <2> DEFINE base == ExpectedVersion(order)
  <2>1. order.version > 0
    BY <1>2 DEF Orders
  <2>2. base \in 0 .. Len(history)
    BY <2>1 DEF Agrees
  <2> HIDE DEF base
  <2>3. /\ AfterOf(longer, order.id, base) = AfterOf(history, order.id, base)
        /\ base \in 0 .. Len(longer)
    BY <2>2
  <2> QED
    BY <1>2, <2>1, <2>3 DEF Agrees, BufferIsLegal, base
<1> QED
  BY <1>1, <1>2

LEMMA SaveInv ==
  ASSUME OrderAssumption, OrderInv, NEW c \in Clients, Save(c)
  PROVE  OrderInv'
<1> DEFINE order == orders[c]
           a == order.id
           batch == order.uncommitted
           new == [order EXCEPT !.uncommitted = <<>>]
<1>1. /\ order \in Orders /\ a \in Aggregates /\ batch \in Seq(Events)
      /\ order.version \in Nat
      /\ Agrees(order, events[a]) /\ BufferIsLegal(order, events[a])
  BY CopyIsOrder
<1>2. /\ batch # <<>> /\ Store(a, batch)
      /\ ExpectedVersion(order) \in {AnyVersion, Len(events[a])}
      /\ orders' = [orders EXCEPT ![c] = new]
  BY DEF Save, AppendEvents, Conflicts, GetCurrentVersion
<1>3. order.version > 0
  BY <1>1, <1>2 DEF BufferIsLegal
<1>4. ExpectedVersion(order) = Len(events[a])
  BY <1>1, <1>2, <1>3 DEF Agrees, AnyVersion
<1>5. \A j \in DOMAIN batch :
        LegalAt(Len(events[a]) + j, batch[j],
                Replay(AfterOf(events[a], a, Len(events[a])),
                       SubSeq(batch, 1, j - 1)).status)
  BY <1>1, <1>4 DEF BufferIsLegal
<1> HIDE DEF a, batch
<1>6. /\ StoreTypeOK' /\ ListsAgree'
      /\ \A b \in Aggregates : LegalHistory(events'[b], b)
      /\ \A b \in Aggregates :
           /\ events'[b] \in Seq(EventRecords)
           /\ Len(events[b]) <= Len(events'[b])
           /\ \A n \in 0 .. Len(events[b]) :
                AfterOf(events'[b], b, n) = AfterOf(events[b], b, n)
      /\ Len(events'[a]) = Len(events[a]) + Len(batch)
      /\ AfterOf(events'[a], a, Len(events[a]) + Len(batch)) =
           Replay(AfterOf(events[a], a, Len(events[a])), batch)
  BY <1>1, <1>2, <1>5, HistoryExtends
<1>7. /\ new = Bare(order) /\ new \in Orders /\ new.id = a
      /\ new.version = order.version /\ new.uncommitted = <<>> /\ Bare(new) = new
  BY <1>1, BareKeeps DEF Bare, a
<1>8. /\ order.version = Len(events[a]) + Len(batch)
      /\ Len(events[a]) \in Nat /\ Len(batch) \in Nat
  <2>1. Len(events[a]) \in Nat /\ Len(batch) \in Nat
    BY <1>1 DEF OrderInv, OrderTypeOK, StoreTypeOK
  <2>2. order.version - Len(batch) = Len(events[a])
    BY <1>4 DEF ExpectedVersion, batch
  <2> QED
    BY <1>1, <2>1, <2>2
<1> HIDE DEF new
<1>9. Agrees(new, events'[a]) /\ BufferIsLegal(new, events'[a])
  <2>1. ExpectedVersion(new) = Len(events'[a])
    <3>1. Len(new.uncommitted) = 0
      BY <1>7
    <3>2. new.version = Len(events'[a]) /\ new.version \in Nat
      BY <1>6, <1>7, <1>8
    <3> QED
      BY <3>1, <3>2 DEF ExpectedVersion
  <2>2. AfterOf(events'[a], a, Len(events'[a])) = new
    <3>1. Bare(order) = Replay(AfterOf(events[a], a, Len(events[a])), batch)
      BY <1>1, <1>3, <1>4 DEF Agrees, a, batch
    <3> QED
      BY <1>6, <1>7, <3>1
  <2>3. Replay(new, <<>>) = new
    <3>1. Len(<<>>) = 0
      OBVIOUS
    <3> QED
      BY <3>1, ReplayNothing
  <2>4. Len(events'[a]) \in 0 .. Len(events'[a])
    BY <1>6, <1>8
  <2> QED
    BY <1>7, <2>1, <2>2, <2>3, <2>4 DEF Agrees, BufferIsLegal
<1>10. ASSUME NEW d \in Clients
       PROVE  /\ Agrees(orders'[d], events'[orders'[d].id])
              /\ BufferIsLegal(orders'[d], events'[orders'[d].id])
  <2>1. CASE d = c
    <3>1. orders'[d] = new
      BY <1>2, <2>1 DEF OrderInv, OrderTypeOK
    <3> QED
      BY <1>7, <1>9, <3>1
  <2>2. CASE d # c
    <3>1. orders'[d] = orders[d] /\ orders[d] \in Orders /\ orders[d].id \in Aggregates
      BY <1>2, <2>2, CopyIsOrder DEF OrderInv, OrderTypeOK
    <3>2. events[orders[d].id] \in Seq(EventRecords)
      BY <3>1 DEF OrderInv, OrderTypeOK, StoreTypeOK
    <3>3. /\ Agrees(orders[d], events[orders[d].id])
          /\ BufferIsLegal(orders[d], events[orders[d].id])
      BY CopyIsOrder
    <3> QED
      BY <1>6, <3>1, <3>2, <3>3, StillAgrees
  <2> QED
    BY <2>1, <2>2
<1>11. OrderTypeOK'
  BY <1>2, <1>6, <1>7 DEF OrderInv, OrderTypeOK, Orders
<1> QED
  BY <1>6, <1>10, <1>11 DEF OrderInv

LEMMA PaymentFailsInv ==
  ASSUME OrderAssumption, OrderInv, NEW a \in Aggregates, PaymentFails(a)
  PROVE  OrderInv'
<1> DEFINE k == Len(events[a])
           event == [type |-> "payment_failed", version |-> k + 1]
           batch == <<event>>
<1>1. k \in Nat /\ k # 0 /\ Store(a, batch) /\ UNCHANGED orders
  BY DEF PaymentFails, AppendEvents, GetCurrentVersion, OrderInv, OrderTypeOK, StoreTypeOK,
         OrderAssumption
<1>2. event \in Events /\ batch \in Seq(Events)
  BY <1>1 DEF Events, OrderAssumption, OrderEvents
<1>3. \A j \in DOMAIN batch :
        LegalAt(k + j, batch[j],
                Replay(AfterOf(events[a], a, k), SubSeq(batch, 1, j - 1)).status)
  <2>1. DOMAIN batch = {1} /\ batch[1] = event
    OBVIOUS
  <2>2. \A status : LegalAt(k + 1, event, status)
    BY <1>1 DEF LegalAt
  <2> HIDE DEF batch, event
  <2> QED
    BY <2>1, <2>2
<1> HIDE DEF batch
<1>4. /\ StoreTypeOK' /\ ListsAgree'
      /\ \A b \in Aggregates : LegalHistory(events'[b], b)
      /\ \A b \in Aggregates :
           /\ events'[b] \in Seq(EventRecords)
           /\ Len(events[b]) <= Len(events'[b])
           /\ \A n \in 0 .. Len(events[b]) :
                AfterOf(events'[b], b, n) = AfterOf(events[b], b, n)
  BY <1>1, <1>2, <1>3, HistoryExtends
<1>5. ASSUME NEW d \in Clients
      PROVE  /\ Agrees(orders'[d], events'[orders'[d].id])
             /\ BufferIsLegal(orders'[d], events'[orders'[d].id])
  <2>1. /\ orders'[d] = orders[d] /\ orders[d] \in Orders /\ orders[d].id \in Aggregates
        /\ Agrees(orders[d], events[orders[d].id])
        /\ BufferIsLegal(orders[d], events[orders[d].id])
    BY <1>1, CopyIsOrder
  <2>2. events[orders[d].id] \in Seq(EventRecords)
    BY <2>1 DEF OrderInv, OrderTypeOK, StoreTypeOK
  <2> QED
    BY <1>4, <2>1, <2>2, StillAgrees
<1>6. OrderTypeOK'
  BY <1>1, <1>4 DEF OrderInv, OrderTypeOK
<1> QED
  BY <1>4, <1>5, <1>6 DEF OrderInv

LEMMA NextOrders ==
  ASSUME OrderAssumption, OrderInv, [OrderNext]_orderVars
  PROVE  OrderInv'
<1>1. ASSUME NEW c \in Clients, NEW a \in Aggregates, Create(c, a) \/ Load(c, a)
      PROVE  OrderInv'
  BY <1>1, CreateInv, LoadInv
<1>2. ASSUME NEW c \in Clients, NEW type \in OrderEvents, Command(c, type)
      PROVE  OrderInv'
  BY <1>2, CommandInv
<1>3. ASSUME NEW c \in Clients, Save(c) \/ Drop(c)
      PROVE  OrderInv'
  BY <1>3, SaveInv, DropInv
<1>4. ASSUME NEW a \in Aggregates, PaymentFails(a)
      PROVE  OrderInv'
  BY <1>4, PaymentFailsInv
<1>5. CASE UNCHANGED orderVars
  <2>1. events' = events /\ allEvents' = allEvents /\ orders' = orders
    BY <1>5 DEF orderVars
  <2>2. OrderTypeOK'
    BY <2>1 DEF OrderInv, OrderTypeOK, StoreTypeOK
  <2>3. ListsAgree'
    <3>1. ListsAgree
      BY DEF OrderInv
    <3> QED
      BY <2>1, <3>1 DEF ListsAgree, CountOf
  <2> QED
    BY <2>1, <2>2, <2>3 DEF OrderInv
<1> QED
  BY <1>1, <1>2, <1>3, <1>4, <1>5 DEF OrderNext

LEMMA OrderInvariance ==
  ASSUME OrderAssumption
  PROVE  OrderSpec => []OrderInv
<1>1. OrderInit => OrderInv
  BY InitOrders
<1>2. OrderInv /\ [OrderNext]_orderVars => OrderInv'
  BY NextOrders
<1> QED
  BY <1>1, <1>2, PTL DEF OrderSpec

(* Any number of clients may load orders, decide on their copies while     *)
(* others save, and save what they have buffered with the version their    *)
(* copy was loaded at; a payment service may append meanwhile.  No stored  *)
(* history is one that the commands, run one after another, would refuse.  *)
THEOREM HistoriesAreLegal ==
  ASSUME OrderAssumption
  PROVE  OrderSpec => []HistoryIsLegal
<1>1. OrderInv => HistoryIsLegal
  BY InvIsEnough
<1> QED
  BY <1>1, OrderInvariance, PTL

(* Applying events as they are raised and replaying them from the store    *)
(* lead to the same order, for every copy a client holds, before and after *)
(* it is saved and however far the history has gone on.                    *)
THEOREM CopiesAgree ==
  ASSUME OrderAssumption
  PROVE  OrderSpec => []CopyAgreesWithHistory
<1>1. OrderInv => CopyAgreesWithHistory
  BY InvIsEnough
<1> QED
  BY <1>1, OrderInvariance, PTL

-----------------------------------------------------------------------------
(* The lists while a runner reads them *)

(* What projections read from _all_events is, aggregate by aggregate, what *)
(* get_events() returns: for any number of aggregates, and also after      *)
(* appends whose last event was malformed, between the steps of a run().   *)
THEOREM ListsStayEqual ==
  ASSUME RunnerAssumption
  PROVE  RunnerSpec => []ListsAgree
<1> DEFINE Inv == StoreTypeOK /\ ListsAgree
<1>1. RunnerInit => Inv
  BY StoreInitLists DEF RunnerInit
<1>2. Inv /\ [RunnerNext]_runnerVars => Inv'
  <2> SUFFICES ASSUME Inv, [RunnerNext]_runnerVars PROVE Inv'
    OBVIOUS
  <2>1. CASE UNCHANGED storeVars
    BY <2>1 DEF storeVars, StoreTypeOK, ListsAgree, CountOf
  <2>2. ASSUME NEW a \in Aggregates, NEW n \in {1, 2},
               NEW types \in [1 .. n -> EventTypes], Appended(a, types)
        PROVE  Inv'
    <3>1. PICK records \in Seq(EventRecords) : Extends(a, records)
      BY <2>2, AppendedExtends
    <3> QED
      BY <3>1, Extended, ExtendsLists
  <2>3. ASSUME Run \/ CreateTask \/ Cancel \/ Stop \/ ResetAll
                 \/ \E done \in BOOLEAN : Interrupted(done)
        PROVE  UNCHANGED storeVars
    BY <2>3 DEF Run, CreateTask, Cancel, Stop, ResetAll, Interrupted, Start, Skip, Yield,
                Exhausted, Offer, OfferedToAll, Handled, LiveEnds
  <2> QED
    BY <2>1, <2>2, <2>3 DEF RunnerNext, runnerVars
<1>3. Inv => ListsAgree
  OBVIOUS
<1> QED
  BY <1>1, <1>2, <1>3, PTL DEF RunnerSpec

=============================================================================
